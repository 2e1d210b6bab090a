---------------------------- MODULE BoundProofs ----------------------------
(***************************************************************************)
(* Three figures of the whole path.                                        *)
(*                                                                         *)
(* No packet exceeds the access point's link (FitsApLink), for any record  *)
(* and fragment sizes and under any faults: in reassemble mode because the *)
(* proxy cuts every flight to downstream.fragment_size and makes up the    *)
(* rest itself, in passthrough because the Framed-MTU of the access point  *)
(* goes through to the server that cuts them.                              *)
(*                                                                         *)
(* No more sessions are left in the table than faults have happened        *)
(* (LeaksBounded), however many authentications there were: one that a     *)
(* fault has not orphaned is referred to by what is still under way, and   *)
(* goes with its verdict.                                                  *)
(*                                                                         *)
(* And an authentication costs the upstream round trips that its flights   *)
(* and the fragment sizes say it does, and no others than the requests     *)
(* that timed out (RoundTripsExact): the session and the conversation it   *)
(* is in keep the same account, round by round.                            *)
(***************************************************************************)
EXTENDS TunnelProofs, FiniteSetTheorems, WellFoundedInduction

-----------------------------------------------------------------------------
(* The link to the access point.                                           *)

(* downstream.fragment_size is chosen for the access point.                *)
LinkSized == Reassembling => DownstreamFragmentSize <= ApMtu

ApAttrs == [a \in {"Framed-MTU"} |-> ApMtu]

Small(chunks) == \A i \in DOMAIN chunks : Len(chunks[i]) <= ApMtu

(* What session s has yet to send down fits the link, and it remembers the *)
(* link as the access point gave it.                                       *)
Slim(s) ==
  /\ Small(s.down_outbox)
  /\ \A v \in Verdict : s.pending[v] # Nil => s.pending[v].data = <<>>
  /\ DOMAIN s.ap_attrs # {} => s.ap_attrs = ApAttrs

TableSlim == \A k \in DOMAIN sessions : Slim(sessions[k])

(* Which handler blocks in which mode; and without reassembly the server   *)
(* is told of the link.                                                    *)
HandlerSlim ==
  handler # Nil =>
    /\ handler.pc \in {"forward", "drain"} => Reassembling
    /\ handler.pc = "passthrough" => ~Reassembling
    /\ handler.pc = "non_tls" => upstream.eap.kind # "tls"
    /\ ~Reassembling => upstream.attrs = ApAttrs

(* Every request names the link.                                           *)
RequestsNameLink ==
  /\ \A d \in InFlight : d.attrs = ApAttrs
  /\ \A st \in Stations : peer[st].status = "waiting" => peer[st].request.attrs = ApAttrs

ServerSlim == ~Reassembling => \A c \in DOMAIN server : Small(server[c].tx)

LinkInv == TableSlim /\ FitsApLink /\ HandlerSlim /\ RequestsNameLink /\ ServerSlim

-----------------------------------------------------------------------------
(* Chunks.                                                                 *)

LEMMA SmallHeadTail ==
  ASSUME NEW U, NEW chunks \in Seq(Seq(U)), chunks # <<>>, Small(chunks)
  PROVE  Len(Head(chunks)) <= ApMtu /\ Small(Tail(chunks))
<1>1. 1 \in DOMAIN chunks /\ Head(chunks) = chunks[1]
  OBVIOUS
<1>2. \A i \in DOMAIN Tail(chunks) : i + 1 \in DOMAIN chunks /\ Tail(chunks)[i] = chunks[i + 1]
  OBVIOUS
<1>3. QED
  BY <1>1, <1>2 DEF Small

(* fragment() cuts no chunk above its limit, the empty one of an empty     *)
(* record included.                                                        *)
LEMMA FragmentSmall ==
  ASSUME NEW U, NEW record \in Seq(U), NEW size \in Nat \ {0}, size <= ApMtu
  PROVE  Small(Fragment(record, size))
<1>0. ApMtu \in Nat
  BY TestbedAssumption
<1>1. CASE record = <<>>
  <2>1. Len(record) = 0
    BY <1>1
  <2>2. ChunkCount(0, size) = 1 /\ Smaller(1 * size, 0) = 0
    BY DEF ChunkCount, Smaller
  <2>3. DOMAIN Fragment(record, size) = 1 .. 1
    BY <2>1, <2>2 DEF Fragment
  <2>4. (1 - 1) * size + 1 = 1
    OBVIOUS
  <2>5. Fragment(record, size)[1] = SubSeq(record, 1, 0)
    BY <2>1, <2>2, <2>4 DEF Fragment
  <2>6. Len(SubSeq(record, 1, 0)) = 0
    BY <1>1
  <2>7. QED
    BY <1>0, <2>3, <2>5, <2>6 DEF Small
<1>2. CASE record # <<>>
  <2>1. \A i \in DOMAIN Fragment(record, size) : Len(Fragment(record, size)[i]) \in 1 .. size
    BY <1>2, FragmentChunks
  <2>2. QED
    BY <1>0, <2>1 DEF Small
<1>3. QED
  BY <1>1, <1>2

(* Only three fields matter.                                               *)
LEMMA SlimAlike ==
  ASSUME NEW s, NEW t, Slim(s), t.down_outbox = s.down_outbox, t.pending = s.pending,
         t.ap_attrs = s.ap_attrs
  PROVE  Slim(t)
BY DEF Slim

-----------------------------------------------------------------------------
(* The ways a step of the proxy ends (EapProxy).                           *)

Thin(eap) == eap # Nil => Len(eap.data) <= ApMtu

Raises == \E s \in SessionType : Slim(s) /\ Raise(s)

AsksFor(pc, eap) ==
  /\ pc \in {"forward", "drain"} => Reassembling
  /\ pc = "passthrough" => ~Reassembling
  /\ pc = "non_tls" => eap.kind # "tls"

AsksServer ==
  \E s \in SessionType : \E d, pc, eap, rest :
    /\ Slim(s) /\ (~Reassembling => s.ap_attrs = ApAttrs)
    /\ AsksFor(pc, eap) /\ Ask(d, s, pc, eap, rest)

RepliesThin ==
  \E s \in SessionType : \E d, code, eap : Slim(s) /\ Thin(eap) /\ Reply(d, s, code, eap)

LEMMA PutSlim ==
  ASSUME TableSlim, NEW s, Slim(s), sessions' = Put(sessions, s) PROVE TableSlim'
<1>1. \A k \in DOMAIN sessions' :
        sessions'[k] = s \/ (k \in DOMAIN sessions /\ sessions'[k] = sessions[k])
  BY DEF Put
<1>2. QED
  BY <1>1 DEF TableSlim

LEMMA AskSlim ==
  ASSUME TableSlim, FitsApLink, AsksServer
  PROVE  TableSlim' /\ FitsApLink' /\ HandlerSlim'
<1>1. PICK s \in SessionType : \E d, pc, eap, rest :
        /\ Slim(s) /\ (~Reassembling => s.ap_attrs = ApAttrs)
        /\ AsksFor(pc, eap) /\ Ask(d, s, pc, eap, rest)
  BY DEF AsksServer
<1>2. PICK d, pc, eap, rest :
        /\ Slim(s) /\ (~Reassembling => s.ap_attrs = ApAttrs)
        /\ AsksFor(pc, eap) /\ Ask(d, s, pc, eap, rest)
  BY <1>1
<1> DEFINE t == [s EXCEPT !.upstream_round_trips = @ + 1]
<1>3. Slim(t)
  <2>1. t.down_outbox = s.down_outbox /\ t.pending = s.pending /\ t.ap_attrs = s.ap_attrs
    BY DEF SessionType
  <2> HIDE DEF t
  <2>2. QED
    BY <1>2, <2>1, SlimAlike
<1>4. /\ sessions' = Put(sessions, t) /\ toAp' = toAp
      /\ handler'.pc = pc /\ upstream'.eap = eap /\ upstream'.attrs = UpstreamAttrs(s)
  BY <1>2 DEF Ask
<1>5. TableSlim'
  <2> HIDE DEF t
  <2>1. QED
    BY <1>3, <1>4, PutSlim
<1>6. FitsApLink'
  BY <1>4 DEF FitsApLink
<1>7. ~Reassembling => UpstreamAttrs(s) = s.ap_attrs
  <2>1. ASSUME ~Reassembling
        PROVE  UpstreamAttrs(s) = [a \in DOMAIN s.ap_attrs |-> s.ap_attrs[a]]
    BY <2>1 DEF UpstreamAttrs
  <2>2. s.ap_attrs = [a \in DOMAIN s.ap_attrs |-> s.ap_attrs[a]]
    BY DEF SessionType, Attributes
  <2>3. QED
    BY <2>1, <2>2
<1>8. HandlerSlim'
  BY <1>2, <1>4, <1>7 DEF HandlerSlim, AsksFor
<1>9. QED
  BY <1>5, <1>6, <1>8

LEMMA ReplySlim ==
  ASSUME TableSlim, FitsApLink, RepliesThin
  PROVE  TableSlim' /\ FitsApLink' /\ HandlerSlim'
<1>1. PICK s \in SessionType : \E d, code, eap :
        Slim(s) /\ Thin(eap) /\ Reply(d, s, code, eap)
  BY DEF RepliesThin
<1>2. PICK d, code, eap : Slim(s) /\ Thin(eap) /\ Reply(d, s, code, eap)
  BY <1>1
<1>3. PICK mints : mints = (code = "challenge" /\ s.downstream_state = Nil)
  OBVIOUS
<1>4. PICK t : t = IF mints
                     THEN [s EXCEPT !.downstream_state = minted, !.key = StateKey(minted)]
                     ELSE s
  OBVIOUS
<1>5. PICK kept : kept = Rekey(sessions, s.key, t)
  OBVIOUS
<1>6. PICK packet : packet = [to |-> d.authenticator,
                              code |-> code,
                              state |-> IF code = "challenge" THEN t.downstream_state ELSE Nil,
                              keys |-> IF code = "accept" THEN s.keys ELSE Nil,
                              eap |-> eap]
  OBVIOUS
<1>7. /\ handler' = Nil
      /\ sessions' \in {kept, Drop(kept, t.key)}
      /\ toAp' \in {toAp, toAp \cup {packet}}
  BY <1>2, <1>3, <1>4, <1>5, <1>6 DEF Reply, Report
<1>8. Slim(t)
  <2>1. t.down_outbox = s.down_outbox /\ t.pending = s.pending /\ t.ap_attrs = s.ap_attrs
    BY <1>4 DEF SessionType
  <2>2. QED
    BY <1>2, <2>1, SlimAlike
<1>9. \A k \in DOMAIN kept : kept[k] = t \/ (k \in DOMAIN sessions /\ kept[k] = sessions[k])
  BY <1>5 DEF Rekey, Put, Drop
<1>10. \A k \in DOMAIN sessions' : k \in DOMAIN kept /\ sessions'[k] = kept[k]
  BY <1>7 DEF Drop
<1>11. TableSlim'
  BY <1>8, <1>9, <1>10 DEF TableSlim
<1>12. packet.eap = eap
  BY <1>6
<1>13. FitsApLink'
  BY <1>2, <1>7, <1>12 DEF FitsApLink, Thin
<1>14. QED
  BY <1>7, <1>11, <1>13 DEF HandlerSlim

LEMMA EndSlim ==
  ASSUME TableSlim, FitsApLink, Raises \/ AsksServer \/ RepliesThin
  PROVE  TableSlim' /\ FitsApLink' /\ HandlerSlim'
<1>1. ASSUME Raises PROVE TableSlim' /\ FitsApLink' /\ HandlerSlim'
  BY <1>1, PutSlim DEF Raises, Raise, FitsApLink, HandlerSlim
<1>2. QED
  BY <1>1, AskSlim, ReplySlim
-----------------------------------------------------------------------------
(* The two replies made of chunks.                                         *)

LEMMA ReplyFragmentThin ==
  ASSUME NEW s \in SessionType, Slim(s), s.down_outbox # <<>>, NEW d, NEW length,
         ReplyFragment(d, s, length)
  PROVE  RepliesThin
<1>1. PICK chunks : chunks = s.down_outbox
  OBVIOUS
<1>2. chunks \in Seq(Seq(Unit)) /\ chunks # <<>> /\ Small(chunks)
  BY <1>1 DEF SessionType, Slim
<1>3. Len(Head(chunks)) <= ApMtu /\ Small(Tail(chunks)) /\ Tail(chunks) \in Seq(Seq(Unit))
  BY <1>2, SmallHeadTail
<1>4. PICK id : id = NextId(s.down_next_id)
  OBVIOUS
<1>5. id \in Identifier
  BY <1>4, NextIdType DEF SessionType
<1>6. PICK rest : rest = Tail(chunks)
  OBVIOUS
<1>7. PICK t : t = [s EXCEPT !.down_next_id = id, !.down_outbox = rest]
  OBVIOUS
<1>8. PICK eap : eap = Frame(id, length, Len(chunks) > 1, Head(chunks))
  OBVIOUS
<1>9. Reply(d, t, "challenge", eap)
  BY <1>1, <1>4, <1>6, <1>7, <1>8 DEF ReplyFragment
<1>10. rest \in Seq(Seq(Unit)) /\ Small(rest)
  BY <1>3, <1>6
<1>11. t \in SessionType
  BY <1>5, <1>7, <1>10 DEF SessionType
<1>12. t.down_outbox = rest /\ t.pending = s.pending /\ t.ap_attrs = s.ap_attrs
  BY <1>7 DEF SessionType
<1>13. Slim(t)
  BY <1>10, <1>12 DEF Slim
<1>14. Thin(eap)
  BY <1>3, <1>8 DEF Thin, Frame
<1>15. QED
  BY <1>9, <1>11, <1>13, <1>14 DEF RepliesThin

LEMMA ReplyRecordThin ==
  ASSUME LinkSized, Reassembling, NEW s \in SessionType, Slim(s),
         NEW record \in Seq(Unit), NEW d, ReplyRecord(d, s, record)
  PROVE  RepliesThin
<1>1. PICK chunks : chunks = Fragment(record, DownstreamFragmentSize)
  OBVIOUS
<1>2. DownstreamFragmentSize \in Nat \ {0} /\ DownstreamFragmentSize <= ApMtu
  BY FragmentSizeAssumption DEF LinkSized
<1>3. chunks \in Seq(Seq(Unit)) /\ chunks # <<>> /\ Small(chunks)
  BY <1>1, <1>2, FragmentType, FragmentSmall
<1>4. PICK t : t = [s EXCEPT !.down_outbox = chunks]
  OBVIOUS
<1>5. ReplyFragment(d, t, Len(record))
  BY <1>1, <1>4 DEF ReplyRecord
<1>6. t \in SessionType
  BY <1>3, <1>4 DEF SessionType
<1>7. t.down_outbox = chunks /\ t.pending = s.pending /\ t.ap_attrs = s.ap_attrs
  BY <1>4 DEF SessionType
<1>8. Slim(t)
  BY <1>3, <1>7 DEF Slim
<1>9. QED
  BY <1>3, <1>5, <1>6, <1>7, <1>8, ReplyFragmentThin

LEMMA ThinBare == ASSUME NEW eap, eap.data = <<>> PROVE Thin(eap)
<1>1. Len(<<>>) = 0 /\ ApMtu \in Nat
  BY TestbedAssumption
<1>2. QED
  BY <1>1 DEF Thin

LEMMA RestampBare ==
  ASSUME NEW s \in SessionType, NEW eap \in Packet(Unit), eap.data = <<>>
  PROVE  Thin(Restamp(s, eap))
<1>1. Restamp(s, eap).data = eap.data
  BY DEF Restamp, Packet
<1>2. QED
  BY <1>1, ThinBare

LEMMA EchoedSlim ==
  ASSUME NEW s \in SessionType, Slim(s)
  PROVE  Echoed(s) \in SessionType /\ Slim(Echoed(s)) /\ Echoed(s).ap_attrs = s.ap_attrs
<1>1. PICK id : id = NextId(s.up_next_id)
  OBVIOUS
<1>2. id \in Identifier
  BY <1>1, NextIdType DEF SessionType
<1>3. PICK t : t = [s EXCEPT !.up_next_id = id]
  OBVIOUS
<1>4. t \in SessionType /\ t.down_outbox = s.down_outbox /\ t.pending = s.pending
      /\ t.ap_attrs = s.ap_attrs
  BY <1>2, <1>3 DEF SessionType
<1>5. Slim(t)
  BY <1>4, SlimAlike
<1>6. Echoed(s) = s \/ Echoed(s) = t
  BY <1>1, <1>3 DEF Echoed
<1>7. QED
  BY <1>4, <1>5, <1>6

(* Asking with a chunk or an ACK is for reassemble mode.                   *)
LEMMA AskOn ==
  ASSUME Reassembling, NEW s \in SessionType, Slim(s), NEW d, NEW pc \in {"forward", "drain"},
         NEW eap, NEW rest, Ask(d, Echoed(s), pc, eap, rest)
  PROVE  AsksServer
<1>1. Echoed(s) \in SessionType /\ Slim(Echoed(s))
  BY EchoedSlim
<1>2. AsksFor(pc, eap)
  BY DEF AsksFor
<1>3. QED
  BY <1>1, <1>2 DEF AsksServer

-----------------------------------------------------------------------------
(* A datagram from the access point.                                       *)

(* Session s is ready to be asked with, or answered from.                  *)
Primed(s) == s \in SessionType /\ Slim(s) /\ s.ap_attrs = ApAttrs

LEMMA OpenedSlim ==
  ASSUME ProxyInv, TableSlim, NEW d \in Datagram, d.attrs = ApAttrs
  PROVE  Primed(Opened(d)) /\ Primed(Synced(d))
<1>1. Opened(d) \in SessionType /\ Synced(d) \in SessionType
  BY OpenedCurrent, SyncedCurrent, CurrentType
<1>2. PICK s : s = Get(sessions, KeyOf(d))
  OBVIOUS
<1>3. s \in SessionType /\ Slim(s)
  <2>1. CASE KeyOf(d) \in DOMAIN sessions
    BY <2>1, <1>2 DEF Get, TableSlim, ProxyInv, TypeOK
  <2>2. CASE KeyOf(d) \notin DOMAIN sessions
    <3>1. s = NewSession(KeyOf(d))
      BY <2>2, <1>2 DEF Get
    <3>2. s.down_outbox = <<>> /\ s.pending = [accept |-> Nil, reject |-> Nil]
          /\ s.ap_attrs = <<>>
      BY <3>1 DEF NewSession
    <3>3. DOMAIN s.ap_attrs = {} /\ DOMAIN s.down_outbox = {}
      BY <3>2
    <3>4. \A v \in Verdict : s.pending[v] = Nil
      BY <3>2 DEF Verdict
    <3>5. Slim(s)
      BY <3>3, <3>4 DEF Slim, Small
    <3>6. s \in SessionType
      BY <3>1, KeyOfType, NewSessionKept DEF Kept, KeptBelow
    <3>7. QED
      BY <3>5, <3>6
  <2>3. QED
    BY <2>1, <2>2
<1>4. PICK attrs : attrs = IF DOMAIN s.ap_attrs = {} THEN d.attrs ELSE s.ap_attrs
  OBVIOUS
<1>5. attrs = ApAttrs
  BY <1>3, <1>4 DEF Slim
<1>6. Opened(d) = [s EXCEPT !.last_ap_authenticator = d.authenticator, !.ap_attrs = attrs]
  BY <1>2, <1>3, <1>4 DEF Opened, SessionType
<1>7. /\ Opened(d).down_outbox = s.down_outbox /\ Opened(d).pending = s.pending
      /\ Opened(d).ap_attrs = ApAttrs
  BY <1>3, <1>5, <1>6 DEF SessionType
<1>8. Slim(Opened(d))
  BY <1>3, <1>7 DEF Slim
<1>9. PICK o : o = Opened(d)
  OBVIOUS
<1>10. PICK last : last = IF Reassembling THEN d.eap.id ELSE o.down_last_req_id
  OBVIOUS
<1>11. Synced(d) = [o EXCEPT !.down_next_id = d.eap.id, !.down_last_req_id = last]
  BY <1>1, <1>9, <1>10 DEF Synced, SessionType
<1>12. /\ Synced(d).down_outbox = o.down_outbox /\ Synced(d).pending = o.pending
       /\ Synced(d).ap_attrs = o.ap_attrs
  BY <1>1, <1>9, <1>11 DEF SessionType
<1>13. Slim(Synced(d)) /\ Synced(d).ap_attrs = ApAttrs
  BY <1>7, <1>8, <1>9, <1>12, SlimAlike
<1>14. QED
  BY <1>1, <1>7, <1>8, <1>13 DEF Primed

LEMMA ReceiveSlim ==
  ASSUME LinkSized, ProxyInv, TableSlim, NEW d \in Datagram, d.attrs = ApAttrs, Receive(d)
  PROVE  Raises \/ AsksServer \/ RepliesThin
<1>1. PICK o : o = Opened(d)
  OBVIOUS
<1>2. PICK s : s = Synced(d)
  OBVIOUS
<1>3. Primed(o) /\ Primed(s)
  BY <1>1, <1>2, OpenedSlim
<1>4. PICK in : in = Ingest(s.up_reasm, d.eap)
  OBVIOUS
<1>5. d.eap \in Packet(Unit)
  BY DEF Datagram
<1>6. in.reasm \in Reassembler(Unit)
  BY <1>3, <1>4, <1>5, IngestType DEF Primed, SessionType
<1>7. PICK reasm : reasm = in.reasm
  OBVIOUS
<1>8. PICK t : t = [s EXCEPT !.up_reasm = reasm]
  OBVIOUS
<1>9. Primed(t)
  <2>1. t \in SessionType /\ t.down_outbox = s.down_outbox /\ t.pending = s.pending
        /\ t.ap_attrs = s.ap_attrs
    BY <1>3, <1>6, <1>7, <1>8 DEF Primed, SessionType
  <2>2. QED
    BY <1>3, <2>1, SlimAlike DEF Primed
<1>10. ASSUME ForwardNonTls(d) PROVE AsksServer
  <2>1. d.eap.kind # "tls" /\ Ask(d, o, "non_tls", d.eap, <<>>)
    BY <1>1, <1>10 DEF ForwardNonTls
  <2>2. AsksFor("non_tls", d.eap)
    BY <2>1 DEF AsksFor
  <2>3. QED
    BY <1>3, <2>1, <2>2 DEF AsksServer, Primed
<1>11. ASSUME RefuseMalformed(d) PROVE Raises
  BY <1>1, <1>3, <1>11 DEF RefuseMalformed, Raises, Primed
<1>12. ASSUME ForwardVerbatim(d) PROVE AsksServer
  <2>1. ~Reassembling /\ Ask(d, s, "passthrough", d.eap, <<>>)
    BY <1>2, <1>12 DEF ForwardVerbatim
  <2>2. AsksFor("passthrough", d.eap)
    BY <2>1 DEF AsksFor
  <2>3. QED
    BY <1>3, <2>1, <2>2 DEF AsksServer, Primed
<1>13. ASSUME SendNextFragment(d) PROVE RepliesThin
  BY <1>2, <1>3, <1>13, ReplyFragmentThin DEF SendNextFragment, Primed
<1>14. ASSUME SendPendingVerdict(d) PROVE RepliesThin
  <2>1. PICK eap : eap = s.pending[s.result]
    OBVIOUS
  <2>2. s.result # Nil /\ Reply(d, s, s.result, Restamp(s, eap))
    BY <1>2, <1>14, <2>1 DEF SendPendingVerdict
  <2>3. s.result \in Verdict /\ eap \in Packet(Unit) \cup {Nil}
    BY <1>3, <2>1, <2>2 DEF Primed, SessionType
  <2>4. eap # Nil => eap.data = <<>>
    BY <1>3, <2>1, <2>3 DEF Primed, Slim
  <2>5. Thin(Restamp(s, eap))
    <3>1. CASE eap = Nil
      BY <3>1 DEF Restamp, Thin
    <3>2. CASE eap # Nil
      BY <3>2, <2>3, <2>4, <1>3, RestampBare DEF Primed
    <3>3. QED
      BY <3>1, <3>2
  <2>6. QED
    BY <1>3, <2>2, <2>5 DEF RepliesThin, Primed
<1>15. ASSUME PollUpstream(d) PROVE AsksServer
  <2>1. Reassembling /\ Ask(d, Echoed(s), "forward", AckPacket(EchoId(s)), <<>>)
    BY <1>2, <1>15 DEF PollUpstream, AskAck
  <2>2. QED
    BY <1>3, <2>1, AskOn DEF Primed
<1>16. ASSUME AckLocally(d) PROVE RepliesThin
  <2>1. PICK id : id = NextId(s.down_next_id)
    OBVIOUS
  <2>2. id \in Identifier
    BY <1>3, <2>1, NextIdType DEF Primed, SessionType
  <2>3. PICK u : u = [s EXCEPT !.up_reasm = reasm, !.down_next_id = id]
    OBVIOUS
  <2>4. Reply(d, u, "challenge", AckPacket(id))
    BY <1>2, <1>4, <1>7, <1>16, <2>1, <2>3 DEF AckLocally
  <2>5. u \in SessionType /\ u.down_outbox = s.down_outbox /\ u.pending = s.pending
        /\ u.ap_attrs = s.ap_attrs
    <3>1. s \in SessionType
      BY <1>3 DEF Primed
    <3>2. reasm \in Reassembler(Unit)
      BY <1>6, <1>7
    <3>3. u \in SessionType
      BY <2>2, <2>3, <3>1, <3>2 DEF SessionType
    <3>4. QED
      BY <2>3, <3>1, <3>3 DEF SessionType
  <2>6. Slim(u)
    BY <1>3, <2>5, SlimAlike DEF Primed
  <2>7. Thin(AckPacket(id))
    BY ThinBare DEF AckPacket, Frame
  <2>8. QED
    BY <2>4, <2>5, <2>6, <2>7 DEF RepliesThin
<1>17. ASSUME ForwardRecord(d) PROVE AsksServer
  <2>1. PICK chunks : chunks = Fragment(in.reasm.buffer, UpstreamFragmentSize)
    OBVIOUS
  <2>2. Reassembling /\ AskChunk(d, t, chunks, Len(in.reasm.buffer))
    BY <1>2, <1>4, <1>7, <1>8, <1>17, <2>1 DEF ForwardRecord
  <2>3. Ask(d, Echoed(t), "forward",
            Frame(EchoId(t), Len(in.reasm.buffer), Len(chunks) > 1, Head(chunks)), Tail(chunks))
    BY <2>2 DEF AskChunk
  <2>4. QED
    BY <1>9, <2>2, <2>3, AskOn DEF Primed
<1>18. ASSUME RefuseOversize(d) PROVE Raises
  BY <1>2, <1>4, <1>7, <1>8, <1>9, <1>18 DEF RefuseOversize, Raises, Primed
<1>19. QED
  BY <1>10, <1>11, <1>12, <1>13, <1>14, <1>15, <1>16, <1>17, <1>18 DEF Receive

-----------------------------------------------------------------------------
(* A reply from the server.                                                *)

(* A verdict and an answer outside TLS carry no data; without reassembly   *)
(* the server has cut what the rest carry.                                 *)
CutFor(r, reassembling, kind) ==
  r.eap # Nil =>
    /\ r.code \in Verdict => r.eap.data = <<>>
    /\ kind # "tls" => r.eap.data = <<>>
    /\ ~reassembling => Len(r.eap.data) <= ApMtu

LEMMA BlockedSlim ==
  ASSUME ProxyInv, TableSlim, handler # Nil, NEW r \in ServerReply,
         r.code = "accept" => r.keyed
  PROVE  Blocked(r) \in SessionType /\ Slim(Blocked(r))
<1>1. Blocked(r) \in SessionType
  BY BlockedCurrent, CurrentType
<1>2. PICK s : s = sessions[handler.key]
  OBVIOUS
<1>3. s \in SessionType /\ Slim(s)
  BY <1>2 DEF ProxyInv, HandlerCoherent, TypeOK, TableSlim
<1>4. PICK id : id = IF r.eap # Nil /\ r.eap.kind \notin {"success", "failure"}
                       THEN r.eap.id ELSE s.upstream_last_eap_req_id
  OBVIOUS
<1>5. PICK keys : keys = IF r.code = "accept" /\ r.keyed THEN upstream.authenticator ELSE s.keys
  OBVIOUS
<1>6. Blocked(r) = [s EXCEPT !.radius_state = r.state, !.upstream_last_eap_req_id = id,
                             !.keys = keys]
  BY <1>2, <1>3, <1>4, <1>5 DEF Blocked, Learned, SessionType
<1>7. /\ Blocked(r).down_outbox = s.down_outbox /\ Blocked(r).pending = s.pending
      /\ Blocked(r).ap_attrs = s.ap_attrs
  BY <1>3, <1>6 DEF SessionType
<1>8. QED
  BY <1>1, <1>3, <1>7, SlimAlike

LEMMA FinishedSlim ==
  ASSUME NEW s \in SessionType, Slim(s), NEW code \in Verdict, NEW eap \in Packet(Unit) \cup {Nil},
         eap # Nil => eap.data = <<>>
  PROVE  /\ Finished(s, code) \in SessionType /\ Slim(Finished(s, code))
         /\ Stashed(s, code, eap) \in SessionType /\ Slim(Stashed(s, code, eap))
<1>1. PICK f : f = [s EXCEPT !.result = code]
  OBVIOUS
<1>2. f = Finished(s, code)
  BY <1>1 DEF Finished
<1>3. f \in SessionType /\ f.down_outbox = s.down_outbox /\ f.pending = s.pending
      /\ f.ap_attrs = s.ap_attrs
  BY <1>1 DEF SessionType
<1>4. Slim(f)
  BY <1>3, SlimAlike
<1>5. PICK pending : pending = [f.pending EXCEPT ![code] = eap]
  OBVIOUS
<1>6. f.pending \in [Verdict -> Packet(Unit) \cup {Nil}]
  BY <1>3 DEF SessionType
<1>7. pending \in [Verdict -> Packet(Unit) \cup {Nil}]
      /\ \A v \in Verdict : pending[v] = IF v = code THEN eap ELSE f.pending[v]
  BY <1>5, <1>6
<1>8. PICK g : g = [f EXCEPT !.pending = pending]
  OBVIOUS
<1>9. g = Stashed(s, code, eap)
  BY <1>2, <1>3, <1>5, <1>8 DEF Stashed, SessionType
<1>10. g \in SessionType
  BY <1>3, <1>7, <1>8 DEF SessionType
<1>11. g.down_outbox = f.down_outbox /\ g.pending = pending /\ g.ap_attrs = f.ap_attrs
  BY <1>3, <1>8 DEF SessionType
<1>12. Slim(g)
  BY <1>4, <1>7, <1>11 DEF Slim
<1>13. QED
  BY <1>2, <1>3, <1>4, <1>9, <1>10, <1>12

LEMMA AnswerSlim ==
  ASSUME LinkSized, ProxyInv, TableSlim, HandlerSlim, NEW r \in ServerReply,
         r.code = "accept" => r.keyed, CutFor(r, Reassembling, upstream.eap.kind), Answer(r)
  PROVE  Raises \/ AsksServer \/ RepliesThin
<1>1. handler # Nil
  BY DEF Answer
<1>2. PICK d : d = handler.datagram
  OBVIOUS
<1>3. PICK s : s = Blocked(r)
  OBVIOUS
<1>4. s \in SessionType /\ Slim(s)
  BY <1>1, <1>3, BlockedSlim
<1>5. r.code \in {"challenge"} \cup Verdict /\ r.eap \in Packet(Unit) \cup {Nil}
  BY DEF ServerReply
<1>6. r.code \in Verdict => r.eap = Nil \/ r.eap.data = <<>>
  BY DEF CutFor
<1>7. PICK in : in = Ingest(s.down_reasm, r.eap)
  OBVIOUS
<1>8. PICK reasm : reasm = in.reasm
  OBVIOUS
<1>9. r.eap # Nil => reasm \in Reassembler(Unit) /\ reasm.buffer \in Seq(Unit)
  <2>1. s.down_reasm \in Reassembler(Unit)
    BY <1>4 DEF SessionType
  <2>2. r.eap # Nil => reasm \in Reassembler(Unit)
    BY <1>5, <1>7, <1>8, <2>1, IngestType
  <2>3. QED
    BY <2>2 DEF Reassembler
<1>10. PICK t : t = [s EXCEPT !.down_reasm = reasm]
  OBVIOUS
<1>11. r.eap # Nil => t \in SessionType /\ Slim(t)
  <2>1. ASSUME r.eap # Nil
        PROVE  t \in SessionType /\ t.down_outbox = s.down_outbox /\ t.pending = s.pending
               /\ t.ap_attrs = s.ap_attrs
    BY <1>4, <1>9, <1>10, <2>1 DEF SessionType
  <2>2. QED
    BY <1>4, <2>1, SlimAlike
<1>12. Settling => Reassembling
  BY <1>1 DEF Settling, HandlerSlim
<1>13. ASSUME ForwardNextChunk(r) PROVE AsksServer
  <2>1. Reassembling /\ AskChunk(d, s, handler.rest, Nil)
    BY <1>1, <1>2, <1>3, <1>13 DEF ForwardNextChunk, HandlerSlim
  <2>2. Ask(d, Echoed(s), "forward",
            Frame(EchoId(s), Nil, Len(handler.rest) > 1, Head(handler.rest)),
            Tail(handler.rest))
    BY <2>1 DEF AskChunk
  <2>3. QED
    BY <1>4, <2>1, <2>2, AskOn
<1>14. ASSUME Conclude(r) PROVE RepliesThin
  <2>1. PICK f : f = Stashed(s, r.code, r.eap)
    OBVIOUS
  <2>2. r.code \in Verdict /\ Reply(d, f, r.code, Restamp(f, r.eap))
    BY <1>2, <1>3, <1>14, <2>1 DEF Conclude
  <2>3. f \in SessionType /\ Slim(f)
    BY <1>4, <1>5, <1>6, <2>1, <2>2, FinishedSlim
  <2>4. Thin(Restamp(f, r.eap))
    <3>1. CASE r.eap = Nil
      BY <3>1 DEF Restamp, Thin
    <3>2. CASE r.eap # Nil
      BY <3>2, <1>5, <1>6, <2>2, <2>3, RestampBare
    <3>3. QED
      BY <3>1, <3>2
  <2>5. QED
    BY <2>2, <2>3, <2>4 DEF RepliesThin
<1>15. ASSUME RelayEmptyChallenge(r) PROVE RepliesThin
  BY <1>2, <1>3, <1>4, <1>15 DEF RelayEmptyChallenge, RepliesThin, Thin
<1>16. ASSUME BreakOffDrain(r) PROVE RepliesThin
  <2>1. Reassembling /\ ReplyRecord(d, s, s.down_reasm.buffer)
    BY <1>2, <1>3, <1>12, <1>16 DEF BreakOffDrain, Settling
  <2>2. s.down_reasm.buffer \in Seq(Unit)
    BY <1>4 DEF SessionType, Reassembler
  <2>3. QED
    BY <1>4, <2>1, <2>2, ReplyRecordThin
<1>17. ASSUME RefuseUnparsable(r) PROVE Raises
  BY <1>3, <1>4, <1>17 DEF RefuseUnparsable, Raises
<1>18. ASSUME PullNextFragment(r) PROVE AsksServer
  <2>1. r.eap # Nil /\ Reassembling /\ AskAck(d, t, "drain")
    BY <1>2, <1>3, <1>7, <1>8, <1>10, <1>12, <1>18 DEF PullNextFragment, IsFragment
  <2>2. Ask(d, Echoed(t), "drain", AckPacket(EchoId(t)), <<>>)
    BY <2>1 DEF AskAck
  <2>3. QED
    BY <1>11, <2>1, <2>2, AskOn
<1>19. ASSUME RelayRecord(r) PROVE RepliesThin
  <2>1. r.eap # Nil /\ Reassembling /\ ReplyRecord(d, t, reasm.buffer)
    BY <1>2, <1>3, <1>7, <1>8, <1>10, <1>12, <1>19 DEF RelayRecord, IsFragment
  <2>2. QED
    BY <1>9, <1>11, <2>1, ReplyRecordThin
<1>20. ASSUME RefuseOversizeUpstream(r) PROVE Raises
  BY <1>3, <1>7, <1>8, <1>10, <1>11, <1>20 DEF RefuseOversizeUpstream, IsFragment, Raises
<1>21. PICK f : f = IF r.code \in Verdict THEN Finished(s, r.code) ELSE s
  OBVIOUS
<1>22. f \in SessionType /\ Slim(f)
  BY <1>4, <1>21, FinishedSlim
<1>23. ASSUME RelayNonTls(r) PROVE RepliesThin
  <2>1. upstream.eap.kind # "tls" /\ Reply(d, f, r.code, r.eap)
    BY <1>1, <1>2, <1>3, <1>21, <1>23 DEF RelayNonTls, HandlerSlim
  <2>2. Thin(r.eap)
    BY <2>1, ThinBare DEF CutFor, Thin
  <2>3. QED
    BY <1>22, <2>1, <2>2 DEF RepliesThin
<1>24. ASSUME RelayVerbatim(r) PROVE RepliesThin
  <2>1. PICK eap : eap = IF r.code = "reject" THEN Nil ELSE r.eap
    OBVIOUS
  <2>2. ~Reassembling /\ Reply(d, f, r.code, eap)
    BY <1>1, <1>2, <1>3, <1>21, <1>24, <2>1 DEF RelayVerbatim, HandlerSlim
  <2>3. Thin(eap)
    BY <2>1, <2>2 DEF CutFor, Thin
  <2>4. QED
    BY <1>22, <2>2, <2>3 DEF RepliesThin
<1>25. QED
  BY <1>13, <1>14, <1>15, <1>16, <1>17, <1>18, <1>19, <1>20, <1>23, <1>24 DEF Answer

-----------------------------------------------------------------------------
(* The server.                                                             *)

ChunksSmall(conversations) ==
  \A c \in DOMAIN conversations : Small(conversations[c].tx)

(* A fragment of a server's flight, and what it leaves to be sent.         *)
LEMMA ChallengeCut ==
  ASSUME ServerTypeOK, NEW c \in Nat, NEW st, NEW v \in Conversation(st), NEW eap
  PROVE  /\ Challenge(c, v, eap).reply.eap = eap
         /\ Challenge(c, v, eap).reply.code = "challenge"
         /\ ChunksSmall(server) /\ Small(v.tx) => ChunksSmall(Challenge(c, v, eap).server)
<1>1. PICK n \in Nat : n = Len(server)
  BY DEF ServerTypeOK
<1>2. DOMAIN server = 1 .. n
  BY <1>1 DEF ServerTypeOK
<1>3. PICK w : w = [v EXCEPT !.id = eap.id, !.step = @ + 1]
  OBVIOUS
<1>4. w.tx = v.tx
  BY <1>3 DEF Conversation
<1>5. PICK after : after = [i \in 1 .. n \cup {c} |-> IF i = c THEN w ELSE server[i]]
  OBVIOUS
<1>6. Challenge(c, v, eap).server = after
  BY <1>1, <1>3, <1>5 DEF Challenge
<1>7. \A i \in DOMAIN after : after[i] = w \/ (i \in DOMAIN server /\ after[i] = server[i])
  BY <1>2, <1>5
<1>8. ChunksSmall(server) /\ Small(v.tx) => ChunksSmall(after)
  BY <1>4, <1>7 DEF ChunksSmall
<1>9. QED
  BY <1>6, <1>8 DEF Challenge

LEMMA VerdictCut ==
  ASSUME ServerTypeOK, NEW c \in DOMAIN server, NEW st, NEW v \in Conversation(st),
         v.tx = server[c].tx, NEW code, NEW id
  PROVE  /\ Verdicts(c, v, code, id).reply.eap.data = <<>>
         /\ ChunksSmall(server) => ChunksSmall(Verdicts(c, v, code, id).server)
<1>1. PICK w : w = [v EXCEPT !.verdict = code]
  OBVIOUS
<1>2. w.tx = server[c].tx
  BY <1>1 DEF Conversation
<1>3. PICK after : after = [server EXCEPT ![c] = w]
  OBVIOUS
<1>4. Verdicts(c, v, code, id).server = after
  BY <1>1, <1>3 DEF Verdicts
<1>5. DOMAIN after = DOMAIN server /\ \A i \in DOMAIN server : after[i].tx = server[i].tx
  BY <1>2, <1>3 DEF ServerTypeOK
<1>6. ChunksSmall(server) => ChunksSmall(after)
  BY <1>5 DEF ChunksSmall
<1>7. Verdicts(c, v, code, id).reply.eap.data = <<>>
  BY DEF Verdicts, Bare
<1>8. QED
  BY <1>4, <1>6, <1>7

(* Asked with the link's Framed-MTU, the server cuts its flights to it.    *)
LEMMA LimitOfLink ==
  ServerLimit(ApAttrs) \in Nat \ {0} /\ ServerLimit(ApAttrs) <= ApMtu
<1>1. {ServerFragmentSize, ApMtu} \subseteq Nat \ {0}
  BY TestbedAssumption
<1>2. ServerLimit(ApAttrs) = Smaller(ServerFragmentSize, ApMtu)
  BY DEF ServerLimit, ApAttrs
<1>3. QED
  BY <1>1, <1>2 DEF Smaller

(* What comes of request q, in every mode; and what, if it names the link. *)
Cuts(o, q) ==
  /\ o.reply.code \in Verdict => o.reply.eap.data = <<>>
  /\ q.eap.kind # "tls" => o.reply.eap.data = <<>>
  /\ q.attrs = ApAttrs /\ ChunksSmall(server) =>
       Len(o.reply.eap.data) <= ApMtu /\ ChunksSmall(o.server)

LEMMA BareCuts ==
  ASSUME NEW o, NEW q, o.reply.eap.data = <<>>, ChunksSmall(server) => ChunksSmall(o.server)
  PROVE  Cuts(o, q)
<1>1. Len(o.reply.eap.data) = 0 /\ ApMtu \in Nat
  BY TestbedAssumption
<1>2. QED
  BY <1>1 DEF Cuts

LEMMA ProceedCuts ==
  ASSUME Alphabet, script \in [Stations -> Scripts], ServerTypeOK,
         NEW st \in Stations, NEW q \in UpstreamType, q.eap.kind = "tls",
         NEW c \in DOMAIN server, server[c].st = st,
         q.eap \in Packet(Of(st))
  PROVE  Cuts(Proceed(c, q), q)
<1>1. PICK v : v = server[c]
  OBVIOUS
<1>2. v \in Conversation(st) /\ c \in Nat
  BY <1>1, ConversationType DEF ServerTypeOK
<1>3. PICK id : id = NextId(v.id)
  OBVIOUS
<1>4. PICK record : record = v.rx \o q.eap.data
  OBVIOUS
<1>5. record \in Seq(Of(st)) /\ v.got \in Seq(Seq(Of(st))) /\ v.tx \in Seq(Seq(Of(st)))
  BY <1>2, <1>4 DEF Conversation, Packet
<1>6. PICK got : got = Append(v.got, record)
  OBVIOUS
<1>7. got \in Seq(Seq(Of(st))) /\ Len(got) \in Nat \ {0}
  BY <1>5, <1>6
<1>8. PICK flight : flight = Flight(v.st, 2 * Len(got))
  OBVIOUS
<1>9. flight \in Seq(Of(st))
  <2>1. 2 * Len(got) \in Nat \ {0}
    BY <1>7
  <2>2. QED
    BY <1>1, <1>8, <2>1, FlightType
<1>10. PICK chunks : chunks = Fragment(flight, ServerLimit(q.attrs))
  OBVIOUS
<1>11. ServerLimit(q.attrs) \in Nat \ {0}
  BY ServerLimitType DEF UpstreamType
<1>12. chunks \in Seq(Seq(Of(st))) /\ chunks # <<>>
  BY <1>9, <1>10, <1>11, FragmentType
<1>13. q.attrs = ApAttrs => Small(chunks)
  BY <1>9, <1>10, LimitOfLink, FragmentSmall
<1>14. PICK o : o = Proceed(c, q)
  OBVIOUS
<1>15. ASSUME IsAck(q.eap), v.tx # <<>> PROVE Cuts(o, q)
  <2>1. PICK rest : rest = Tail(v.tx)
    OBVIOUS
  <2>2. PICK w : w = [v EXCEPT !.tx = rest]
    OBVIOUS
  <2>3. o = Challenge(c, w, NextFragment(id, v.tx))
    BY <1>1, <1>3, <1>14, <1>15, <2>1, <2>2, <1>2 DEF Proceed, Conversation
  <2>4. rest \in Seq(Seq(Of(st)))
    BY <1>5, <1>15, <2>1
  <2>5. w \in Conversation(st) /\ w.tx = rest
    BY <1>2, <2>2, <2>4 DEF Conversation
  <2>6. NextFragment(id, v.tx).data = Head(v.tx)
    BY DEF NextFragment, Frame
  <2>7. ChunksSmall(server) => Small(v.tx)
    BY <1>1 DEF ChunksSmall
  <2>8. ChunksSmall(server) => Len(Head(v.tx)) <= ApMtu /\ Small(rest)
    BY <1>5, <1>15, <2>1, <2>7, SmallHeadTail
  <2>9. /\ o.reply.eap = NextFragment(id, v.tx) /\ o.reply.code = "challenge"
        /\ ChunksSmall(server) /\ Small(w.tx) => ChunksSmall(o.server)
    BY <1>2, <2>3, <2>5, ChallengeCut
  <2>10. QED
    BY <2>5, <2>6, <2>8, <2>9 DEF Cuts, Verdict
<1>16. ASSUME NEW w \in Conversation(st), w.tx = v.tx, NEW code, NEW i, o = Verdicts(c, w, code, i)
       PROVE  Cuts(o, q)
  BY <1>1, <1>16, VerdictCut, BareCuts
<1>17. ASSUME IsAck(q.eap), ~(v.tx # <<>>) PROVE Cuts(o, q)
  <2>1. \E code, i : o = Verdicts(c, v, code, i)
    BY <1>1, <1>14, <1>17 DEF Proceed
  <2>2. QED
    BY <1>2, <1>16, <2>1
<1>18. ASSUME ~IsAck(q.eap), q.eap.more PROVE Cuts(o, q)
  <2>1. PICK w : w = [v EXCEPT !.rx = record]
    OBVIOUS
  <2>2. w \in Conversation(st) /\ w.tx = v.tx
    BY <1>2, <1>5, <2>1 DEF Conversation
  <2>3. o = Challenge(c, w, AckPacket(id))
    BY <1>1, <1>3, <1>4, <1>14, <1>18, <2>1 DEF Proceed
  <2>4. /\ o.reply.eap = AckPacket(id)
        /\ ChunksSmall(server) /\ Small(w.tx) => ChunksSmall(o.server)
    BY <1>2, <2>2, <2>3, ChallengeCut
  <2>5. o.reply.eap.data = <<>>
    BY <2>4 DEF AckPacket, Frame
  <2>6. ChunksSmall(server) => Small(w.tx)
    BY <1>1, <2>2 DEF ChunksSmall
  <2>7. QED
    BY <2>4, <2>5, <2>6, BareCuts
<1>19. ASSUME ~IsAck(q.eap), ~q.eap.more, record # Flight(v.st, 2 * Len(got) - 1)
       PROVE  Cuts(o, q)
  <2>1. PICK w : w = [v EXCEPT !.got = got]
    OBVIOUS
  <2>2. w \in Conversation(st) /\ w.tx = v.tx
    BY <1>2, <1>7, <2>1 DEF Conversation
  <2>3. o = Verdicts(c, w, "reject", v.id)
    <3>1. Proceed(c, q) = Verdicts(c, [v EXCEPT !.got = got], "reject", v.id)
      BY <1>1, <1>4, <1>6, <1>19, Zenon DEF Proceed
    <3>2. QED
      BY <3>1, <1>14, <2>1
  <2>4. QED
    BY <1>16, <2>2, <2>3
<1>20. ASSUME ~IsAck(q.eap), ~q.eap.more, ~(record # Flight(v.st, 2 * Len(got) - 1))
       PROVE  Cuts(o, q)
  <2>1. PICK rest : rest = Tail(chunks)
    OBVIOUS
  <2>2. rest \in Seq(Seq(Of(st)))
    BY <1>12, <2>1
  <2>3. <<>> \in Seq(Of(st))
    OBVIOUS
  <2>4. PICK w : w = [v EXCEPT !.got = got, !.rx = <<>>, !.tx = rest]
    OBVIOUS
  <2>5. w \in Conversation(st) /\ w.tx = rest
    BY <1>2, <1>7, <2>2, <2>3, <2>4 DEF Conversation
  <2>6. o = Challenge(c, w, FirstFragment(id, flight, chunks))
    BY <1>1, <1>3, <1>4, <1>6, <1>8, <1>10, <1>14, <1>20, <2>1, <2>4 DEF Proceed
  <2>7. FirstFragment(id, flight, chunks).data = Head(chunks)
    BY DEF FirstFragment, Frame
  <2>8. q.attrs = ApAttrs => Len(Head(chunks)) <= ApMtu /\ Small(rest)
    BY <1>12, <1>13, <2>1, SmallHeadTail
  <2>9. /\ o.reply.eap = FirstFragment(id, flight, chunks) /\ o.reply.code = "challenge"
        /\ ChunksSmall(server) /\ Small(w.tx) => ChunksSmall(o.server)
    BY <1>2, <2>5, <2>6, ChallengeCut
  <2>10. QED
    BY <2>5, <2>7, <2>8, <2>9 DEF Cuts, Verdict
<1>21. QED
  BY <1>14, <1>15, <1>17, <1>18, <1>19, <1>20

LEMMA OutcomeCuts ==
  ASSUME Alphabet, script \in [Stations -> Scripts], ServerTypeOK,
         NEW st \in Stations, NEW q \in UpstreamType, Conversing(server, q.state, st),
         q.eap \in Packet(Of(st)), IsIdentity(q.eap) => q.eap.data[1][1] = st,
         NEW o \in Outcomes(q)
  PROVE  Cuts(o, q)
<1>1. CASE o = Converse(q) /\ q.state = Nil /\ IsIdentity(q.eap)
  <2>1. PICK v : v = [st |-> st, id |-> Nil, step |-> 0, tx |-> <<>>, rx |-> <<>>,
                      got |-> <<>>, verdict |-> Nil]
    OBVIOUS
  <2>2. v \in Conversation(st) /\ v.tx = <<>>
    <3>1. <<>> \in Seq(Of(st)) /\ <<>> \in Seq(Seq(Of(st)))
      OBVIOUS
    <3>2. QED
      BY <2>1, <3>1 DEF Conversation
  <2>3. PICK b : b = Bare("tls", NextId(q.eap.id))
    OBVIOUS
  <2>4. PICK eap : eap = [b EXCEPT !.start = TRUE]
    OBVIOUS
  <2>5. b.data = <<>> /\ eap.data = b.data
    BY <2>3, <2>4 DEF Bare
  <2>6. o = Challenge(Len(server) + 1, v, eap)
    BY <1>1, <2>1, <2>3, <2>4 DEF Converse
  <2>7. Len(server) + 1 \in Nat
    BY DEF ServerTypeOK
  <2>8. o.reply.eap = eap /\ (ChunksSmall(server) /\ Small(v.tx) => ChunksSmall(o.server))
    BY <2>2, <2>6, <2>7, ChallengeCut
  <2>9. Small(v.tx)
    BY <2>2 DEF Small
  <2>10. QED
    BY <2>5, <2>8, <2>9, BareCuts
<1>2. CASE o = NoSuchConversation(q)
  <2>1. o.reply.eap.data = <<>> /\ o.server = server
    BY <1>2 DEF NoSuchConversation, Bare
  <2>2. QED
    BY <2>1, BareCuts
<1>3. ASSUME Continues(q), \/ o = Proceed(q.state[1], q)
                          \/ o = Verdicts(q.state[1], server[q.state[1]], "reject",
                                         server[q.state[1]].id)
      PROVE  Cuts(o, q)
  <2>1. PICK c : c = q.state[1]
    OBVIOUS
  <2>2. q.state # Nil /\ c \in DOMAIN server /\ q.eap.kind = "tls" /\ server[c].st = st
    BY <1>3, <2>1 DEF Continues, Conversing
  <2>3. server[c] \in Conversation(st)
    BY <2>2, ConversationType
  <2>4. CASE o = Proceed(c, q)
    BY <2>2, <2>4, ProceedCuts
  <2>5. CASE o = Verdicts(c, server[c], "reject", server[c].id)
    BY <2>2, <2>3, <2>5, VerdictCut, BareCuts
  <2>6. QED
    BY <1>3, <2>1, <2>4, <2>5
<1>4. QED
  BY <1>1, <1>2, <1>3 DEF Outcomes

(* What the server answers the blocked handler with.                       *)
LEMMA UpstreamCuts ==
  ASSUME Alphabet, TestbedInv, handler # Nil, NEW o \in Outcomes(upstream)
  PROVE  Cuts(o, upstream)
<1>1. PICK st : st = handler.datagram.authenticator[1]
  OBVIOUS
<1>2. handler.datagram \in Datagram /\ upstream \in UpstreamType
  BY DEF TestbedInv, ProxyInv, TypeOK, HandlerCoherent, HandlerType
<1>3. st \in Stations
  BY <1>1, <1>2 DEF Datagram, Alphabet
<1>4. PICK s : s = sessions[handler.key]
  OBVIOUS
<1>5. handler.key \in DOMAIN sessions
      /\ s.last_ap_authenticator = handler.datagram.authenticator
  BY <1>4 DEF TestbedInv, ProxyInv, HandlerCoherent
<1>6. Conversing(server, s.radius_state, st)
  BY <1>1, <1>4, <1>5 DEF TestbedInv, Owned, SessionsOwned, OwnedBy
<1>7. Conversing(server, upstream.state, st)
      /\ (IsIdentity(upstream.eap) => upstream.eap.data[1][1] = st)
      /\ upstream.eap \in Packet(Of(st))
  BY <1>1, <1>4, <1>6 DEF TestbedInv, Owned, HandlerOwned
<1>8. QED
  BY <1>2, <1>3, <1>7, OutcomeCuts DEF TestbedInv, PeerTypeOK

(* ... and what it keeps.                                                  *)
LEMMA ServerStaysSlim ==
  ASSUME Alphabet, TestbedInv, LinkInv, handler # Nil,
         NEW o \in Outcomes(upstream), server' = o.server
  PROVE  ServerSlim' /\ CutFor(o.reply, Reassembling, upstream.eap.kind)
<1>1. Cuts(o, upstream)
  BY UpstreamCuts
<1>2. ~Reassembling => upstream.attrs = ApAttrs /\ ChunksSmall(server)
  BY DEF LinkInv, HandlerSlim, ServerSlim, ChunksSmall
<1>3. ~Reassembling => ChunksSmall(o.server) /\ Len(o.reply.eap.data) <= ApMtu
  BY <1>1, <1>2 DEF Cuts
<1>4. ServerSlim'
  BY <1>3 DEF ServerSlim, ChunksSmall
<1>5. CutFor(o.reply, Reassembling, upstream.eap.kind)
  BY <1>1, <1>3 DEF Cuts, CutFor
<1>6. QED
  BY <1>4, <1>5

-----------------------------------------------------------------------------
(* The stations.                                                           *)

LEMMA AnswersNameLink ==
  ASSUME PeerTypeOK, RequestsNameLink, NEW st \in Stations, NEW state \in Nat \cup {Nil},
         Alphabet, Answers(st, state)
  PROVE  RequestsNameLink'
<1>1. PICK p \in Peer(st) : \E eap :
        Speaks(st, state, eap) /\ Transmit(st, Sending(st, p, state, eap))
  BY DEF Answers
<1>2. PICK eap : Speaks(st, state, eap) /\ Transmit(st, Sending(st, p, state, eap))
  BY <1>1
<1>3. PICK q : q = Sending(st, p, state, eap)
  OBVIOUS
<1>4. q \in Peer(st) /\ OfStation(q.request, st)
  BY <1>2, <1>3, SendingType
<1>5. q.request.attrs = ApAttrs
  <2>1. PICK r : r = [from |-> "ap", calling |-> IF CallingSent THEN st ELSE Nil,
                      state |-> state, authenticator |-> <<st, p.rounds + 1>>,
                      attrs |-> ApAttrs, eap |-> eap]
    OBVIOUS
  <2>2. q = [p EXCEPT !.status = "waiting", !.rounds = @ + 1, !.id = eap.id, !.request = r]
    BY <1>3, <2>1 DEF Sending, ApAttrs
  <2>3. q.request = r
    BY <2>2 DEF Peer
  <2>4. QED
    BY <2>1, <2>3
<1>6. peer' = [peer EXCEPT ![st] = q] /\ inbox' = Append(inbox, q.request)
  BY <1>2, <1>3 DEF Transmit
<1>7. InFlight' = InFlight \cup {q.request}
  BY <1>4, <1>6, InFlightAppend DEF PeerTypeOK, OfStation
<1>8. \A u \in Stations : peer'[u] = IF u = st THEN q ELSE peer[u]
  BY <1>6 DEF PeerTypeOK
<1>9. QED
  BY <1>5, <1>7, <1>8 DEF RequestsNameLink

LEMMA PeerNamesLink ==
  ASSUME Alphabet, TestbedInv, RequestsNameLink, NEW st \in Stations, PeerStep(st)
  PROVE  /\ RequestsNameLink'
         /\ toAp' \subseteq toAp /\ UNCHANGED <<sessions, handler, upstream, server>>
<1>1. CASE Start(st) \/ Retry(st)
  <2>1. Answers(st, Nil)
    BY <1>1, BeginAnswers DEF TestbedInv
  <2>2. RequestsNameLink'
    BY <2>1, AnswersNameLink DEF TestbedInv
  <2>3. QED
    BY <1>1, <2>2 DEF Start, Retry, proxyVars
<1>2. ASSUME NEW m \in toAp, TakeReply(st, m)
      PROVE  /\ RequestsNameLink'
             /\ toAp' \subseteq toAp /\ UNCHANGED <<sessions, handler, upstream, server>>
  <2>1. \/ m.state # Nil /\ Answers(st, m.state)
        \/ Settles(st)
        \/ UNCHANGED <<peer, inbox>>
    BY <1>2, TakeReplyShape DEF TestbedInv, Owned, ChallengesQuote, RepliesOwned, ProxyInv, TypeOK
  <2>2. ASSUME m.state # Nil /\ Answers(st, m.state) PROVE RequestsNameLink'
    <3>1. m.state \in Nat
      BY <2>2 DEF TestbedInv, ProxyInv, TypeOK, ApReplyType
    <3>2. QED
      BY <2>2, <3>1, AnswersNameLink DEF TestbedInv
  <2>3. ASSUME Settles(st) PROVE RequestsNameLink'
    <3>1. PICK p \in Peer(st) : /\ p.status \in {"success", "failure"}
                                /\ peer' = [peer EXCEPT ![st] = p]
                                /\ inbox' = inbox
      BY <2>3 DEF Settles
    <3>2. \A a \in Stations : peer'[a].status = "waiting" => peer'[a] = peer[a]
      BY <3>1 DEF TestbedInv, PeerTypeOK
    <3>3. InFlight' = InFlight
      BY <3>1 DEF InFlight
    <3>4. QED
      BY <3>2, <3>3 DEF RequestsNameLink
  <2>4. ASSUME UNCHANGED <<peer, inbox>> PROVE RequestsNameLink'
    BY <2>4 DEF RequestsNameLink, InFlight
  <2>5. QED
    BY <1>2, <2>1, <2>2, <2>3, <2>4 DEF TakeReply
<1>3. QED
  BY <1>1, <1>2 DEF PeerStep

-----------------------------------------------------------------------------
(* The invariant.                                                          *)

LEMMA LinkInit == ASSUME Init PROVE LinkInv
<1>1. /\ sessions = <<>> /\ handler = Nil /\ toAp = {} /\ inbox = <<>> /\ server = <<>>
      /\ peer = [st \in Stations |-> NewPeer]
  BY DEF Init, ProxyInit
<1>2. InFlight = {}
  BY <1>1 DEF InFlight
<1>3. \A st \in Stations : peer[st].status = "off"
  BY <1>1 DEF NewPeer
<1>4. TableSlim /\ FitsApLink /\ HandlerSlim /\ ServerSlim
  BY <1>1 DEF TableSlim, FitsApLink, HandlerSlim, ServerSlim
<1>5. RequestsNameLink
  BY <1>2, <1>3 DEF RequestsNameLink
<1>6. QED
  BY <1>4, <1>5 DEF LinkInv

(* Steps that leave the proxy's state alone but for the replies.           *)
LEMMA ElsewhereSlim ==
  ASSUME LinkInv, toAp' \subseteq toAp, UNCHANGED <<sessions, handler, upstream>>
  PROVE  TableSlim' /\ FitsApLink' /\ HandlerSlim'
BY DEF LinkInv, TableSlim, FitsApLink, HandlerSlim

LEMMA LinkSystem ==
  ASSUME Alphabet, LinkSized, TestbedInv, LinkInv, System PROVE LinkInv'
<1>1. CASE ProxyStep
  <2>1. PICK d : d = Head(inbox)
    OBVIOUS
  <2>2. /\ inbox # <<>> /\ Receive(d) /\ inbox' = Tail(inbox)
        /\ peer' = peer /\ server' = server
    BY <1>1, <2>1 DEF ProxyStep
  <2>3. InFlight' \subseteq InFlight /\ d \in InFlight
    BY <2>1, <2>2, InFlightTail DEF TestbedInv, PeerTypeOK
  <2>4. d \in Datagram /\ d.attrs = ApAttrs
    BY <2>3 DEF TestbedInv, PeerTypeOK, OfStation, LinkInv, RequestsNameLink
  <2>5. TableSlim' /\ FitsApLink' /\ HandlerSlim'
    BY <2>2, <2>4, ReceiveSlim, EndSlim DEF LinkInv, TestbedInv
  <2>6. RequestsNameLink'
    BY <2>2, <2>3 DEF LinkInv, RequestsNameLink
  <2>7. ServerSlim'
    BY <2>2 DEF LinkInv, ServerSlim
  <2>8. QED
    BY <2>5, <2>6, <2>7 DEF LinkInv
<1>2. CASE ServerStep
  <2>1. PICK o \in Outcomes(upstream) : server' = o.server /\ Answer(o.reply)
    BY <1>2 DEF ServerStep
  <2>2. PICK r : r = o.reply
    OBVIOUS
  <2>3. handler # Nil
    BY <2>1 DEF Answer
  <2>4. r \in ServerReply /\ (r.code = "accept" => r.keyed)
    BY <2>2, <2>3, UpstreamOwned DEF Fits
  <2>5. ServerSlim' /\ CutFor(r, Reassembling, upstream.eap.kind)
    BY <2>1, <2>2, <2>3, ServerStaysSlim
  <2>6. TableSlim' /\ FitsApLink' /\ HandlerSlim'
    BY <2>1, <2>2, <2>4, <2>5, AnswerSlim, EndSlim DEF LinkInv, TestbedInv
  <2>7. RequestsNameLink'
    BY <1>2 DEF ServerStep, LinkInv, RequestsNameLink, InFlight
  <2>8. QED
    BY <2>5, <2>6, <2>7 DEF LinkInv
<1>3. ASSUME NEW st \in Stations, PeerStep(st) PROVE LinkInv'
  <2>1. /\ RequestsNameLink'
        /\ toAp' \subseteq toAp /\ UNCHANGED <<sessions, handler, upstream, server>>
    BY <1>3, PeerNamesLink DEF LinkInv
  <2>2. ServerSlim'
    BY <2>1 DEF LinkInv, ServerSlim
  <2>3. TableSlim' /\ FitsApLink' /\ HandlerSlim'
    BY <2>1, ElsewhereSlim
  <2>4. QED
    BY <2>1, <2>2, <2>3 DEF LinkInv
<1>4. QED
  BY <1>1, <1>2, <1>3 DEF System

LEMMA LinkFault ==
  ASSUME Alphabet, TestbedInv, LinkInv, Fault PROVE LinkInv'
<1>1. CASE LoseDatagram
  <2>1. inbox # <<>> /\ inbox' = Tail(inbox) /\ peer' = peer /\ server' = server
        /\ UNCHANGED <<sessions, handler, upstream, toAp>>
    BY <1>1 DEF LoseDatagram, proxyVars
  <2>2. InFlight' \subseteq InFlight
    BY <2>1, InFlightTail DEF TestbedInv, PeerTypeOK
  <2>3. RequestsNameLink' /\ ServerSlim'
    BY <2>1, <2>2 DEF LinkInv, RequestsNameLink, ServerSlim
  <2>4. QED
    BY <2>1, <2>3, ElsewhereSlim DEF LinkInv
<1>2. CASE LoseReply
  <2>1. toAp' \subseteq toAp /\ inbox' = inbox /\ peer' = peer /\ server' = server
        /\ UNCHANGED <<sessions, handler, upstream>>
    BY <1>2 DEF LoseReply
  <2>2. RequestsNameLink' /\ ServerSlim'
    BY <2>1 DEF LinkInv, RequestsNameLink, InFlight, ServerSlim
  <2>3. QED
    BY <2>1, <2>2, ElsewhereSlim DEF LinkInv
<1>3. ASSUME NEW st \in Stations, Retransmit(st) PROVE LinkInv'
  <2>1. PICK d : d = peer[st].request
    OBVIOUS
  <2>2. /\ peer[st].status = "waiting" /\ inbox' = Append(inbox, d)
        /\ peer' = peer /\ server' = server
        /\ UNCHANGED <<sessions, handler, upstream, toAp>>
    BY <1>3, <2>1 DEF Retransmit, proxyVars
  <2>3. OfStation(d, st) /\ d.attrs = ApAttrs
    BY <2>1, <2>2 DEF TestbedInv, PeerTypeOK, LinkInv, RequestsNameLink
  <2>4. InFlight' = InFlight \cup {d}
    BY <2>2, <2>3, InFlightAppend DEF TestbedInv, PeerTypeOK, OfStation
  <2>5. RequestsNameLink' /\ ServerSlim'
    BY <2>2, <2>3, <2>4 DEF LinkInv, RequestsNameLink, ServerSlim
  <2>6. QED
    BY <2>2, <2>5, ElsewhereSlim DEF LinkInv
<1>4. CASE TimeOut
  <2>1. /\ handler # Nil /\ Raise(sessions[handler.key]) /\ peer' = peer /\ inbox' = inbox
        /\ server' = server \/ \E o \in Outcomes(upstream) : server' = o.server
    BY <1>4 DEF TimeOut, UpstreamTimeout
  <2>2. ServerSlim'
    BY <2>1, ServerStaysSlim DEF LinkInv, ServerSlim
  <2>3. sessions[handler.key] \in SessionType /\ Slim(sessions[handler.key])
    BY <2>1 DEF TestbedInv, ProxyInv, HandlerCoherent, TypeOK, LinkInv, TableSlim
  <2>4. TableSlim' /\ FitsApLink' /\ HandlerSlim'
    BY <2>1, <2>3, EndSlim DEF Raises, LinkInv
  <2>5. RequestsNameLink'
    BY <2>1 DEF LinkInv, RequestsNameLink, InFlight
  <2>6. QED
    BY <2>2, <2>4, <2>5 DEF LinkInv
<1>5. CASE RestartProxy
  <2>1. /\ sessions' = <<>> /\ handler' = Nil /\ toAp' = toAp
        /\ peer' = peer /\ inbox' = inbox /\ server' = server
    BY <1>5 DEF RestartProxy, Restart
  <2>2. TableSlim' /\ FitsApLink' /\ HandlerSlim'
    BY <2>1 DEF LinkInv, TableSlim, FitsApLink, HandlerSlim
  <2>3. RequestsNameLink' /\ ServerSlim'
    BY <2>1 DEF LinkInv, RequestsNameLink, InFlight, ServerSlim
  <2>4. QED
    BY <2>2, <2>3 DEF LinkInv
<1>6. QED
  BY <1>1, <1>2, <1>3, <1>4, <1>5 DEF Fault

LEMMA LinkNext ==
  ASSUME Alphabet, LinkSized, TestbedInv, LinkInv, [Next]_vars PROVE LinkInv'
<1>1. CASE UNCHANGED vars
  <2>1. UNCHANGED <<sessions, handler, upstream, toAp, peer, inbox, server>>
    BY <1>1 DEF vars
  <2>2. RequestsNameLink' /\ ServerSlim'
    BY <2>1 DEF LinkInv, RequestsNameLink, InFlight, ServerSlim
  <2>3. QED
    BY <2>1, <2>2, ElsewhereSlim DEF LinkInv
<1>2. QED
  BY <1>1, LinkSystem, LinkFault DEF Next, Stop

(* No packet handed to the access point holds more TLS data than its link  *)
(* takes, whatever the records, the stations' and the server's fragment    *)
(* sizes, and whatever is lost, repeated or times out: in reassemble mode  *)
(* if downstream.fragment_size is chosen for the link, and in passthrough  *)
(* without condition, since send_eap() leaves Framed-MTU alone there.      *)
THEOREM FitsTheApLink ==
  ASSUME Alphabet, LinkSized PROVE Spec => []FitsApLink
<1>1. Init => LinkInv
  BY LinkInit
<1>2. TestbedInv /\ LinkInv /\ [Next]_vars => LinkInv'
  BY LinkNext
<1>3. Spec => []TestbedInv
  BY TestbedInvariance
<1>4. LinkInv => FitsApLink
  BY DEF LinkInv
<1>5. QED
  BY <1>1, <1>2, <1>3, <1>4, PTL DEF Spec

-----------------------------------------------------------------------------
(* What is left in the table (LeaksBounded).  A session is somebody's as   *)
(* long as something refers to it: the blocked handler, a request that     *)
(* quotes its State, a challenge that carries it.                          *)
Claimed(k) ==
  \/ handler # Nil /\ k = handler.key
  \/ \E d \in InFlight : d.state # Nil /\ k = KeyOf(d)
  \/ \E m \in toAp : m.code = "challenge" /\ k = StateKey(m.state)

Orphans == {k \in DOMAIN sessions : ~Claimed(k)}

(* There are no more that nothing refers to than there have been faults.   *)
Accounted == IsFiniteSet(DOMAIN sessions) /\ Cardinality(Orphans) <= FaultsSeen

Budgeted ==
  budget \in [{"loss", "retransmission", "timeout", "restart", "attempt"} -> Int]

(* The reassembler holds at most a units, if any.                          *)
Roomy(reasm, a) == StartsRecord(reasm) \/ Len(reasm.buffer) <= a
Room(s, a) == Reassembling => Roomy(s.up_reasm, a)

(* What station p says in eap and what it is told, its session s being in  *)
(* a conversation or begun after a restart: nothing that the proxy has no  *)
(* room for, and nothing the station has no answer to.                     *)
Saying(f, p, s, eap) ==
  \/ IsAck(eap)
  \/ /\ UnderWay(p)
     /\ \E a, b \in Nat : /\ Piece(UpFlight(f, p), a, b, eap) /\ Room(s, a)
                          /\ p.tx = CutFrom(UpFlight(f, p), b, PeerFragmentSize)

Told(f, p, s, eap) ==
  \/ eap.start /\ p.got = <<>> /\ Room(s, 0)
  \/ /\ IsAck(eap) /\ UnderWay(p)
     /\ \E a \in Nat : /\ a < Len(UpFlight(f, p)) /\ Room(s, a)
                       /\ p.tx = CutFrom(UpFlight(f, p), a, PeerFragmentSize)
  \/ eap.data # <<>> /\ Room(s, 0)

(* No flight, and no length announced for one, is more than a reassembler  *)
(* takes (max_message_len).                                                *)
FlightsFit == \A s \in Scripts : \A i \in 1 .. FlightCount : s[i] <= MaxMessageLen
LengthFits(eap) == eap.length # Nil => eap.length <= MaxMessageLen

AllSaid ==
  \A st \in Stations : \A d \in RequestsOf(st) :
    /\ LengthFits(d.eap)
    /\ d.state # Nil => Saying(Flights(st), peer[st], Get(sessions, KeyOf(d)), d.eap)

AllTold ==
  \A st \in Stations : \A m \in RepliesOf(st) :
    m.code = "challenge" =>
      Told(Flights(st), peer[st], Get(sessions, StateKey(m.state)), m.eap)

LeakInv == Budgeted /\ Accounted /\ AllSaid /\ AllTold

-----------------------------------------------------------------------------
(* Room in a reassembler.                                                  *)

(* A flight fits.                                                          *)
LEMMA FlightFits ==
  ASSUME script \in [Stations -> Scripts], FlightsFit, NEW st \in Stations, NEW i \in Nat \ {0}
  PROVE  Len(Flight(st, i)) <= MaxMessageLen
<1>1. CASE i > FlightCount
  <2>1. Flight(st, i) = <<>>
    BY <1>1 DEF Flight
  <2>2. QED
    BY <2>1, MaxMessageLenAssumption
<1>2. CASE ~(i > FlightCount)
  <2>1. i \in 1 .. FlightCount
    BY <1>2, TestbedAssumption
  <2>2. script[st] \in Scripts
    OBVIOUS
  <2>3. script[st][i] <= MaxMessageLen
    BY <2>1, <2>2 DEF FlightsFit
  <2>4. script[st] \in Seq(Nat) /\ Len(script[st]) = FlightCount
    BY <2>2, TestbedAssumption
  <2>5. script[st][i] \in Nat
    BY <2>1, <2>4, ElementOfSeq
  <2>6. Flight(st, i) = [j \in 1 .. script[st][i] |-> <<st, i, j>>]
    BY <1>2 DEF Flight
  <2>7. QED
    BY <2>3, <2>5, <2>6
<1>3. QED
  BY <1>1, <1>2

(* What has been gathered of a record is no more than that.                *)
LEMMA GathersRoomy ==
  ASSUME NEW U, NEW record \in Seq(U), NEW a \in 0 .. Len(record), NEW reasm,
         Gathers(reasm, record, a)
  PROVE  Roomy(reasm, a)
<1>1. CASE a = 0
  BY <1>1 DEF Gathers, Roomy
<1>2. CASE a # 0
  <2>1. reasm.buffer = Upto(record, a)
    BY <1>2 DEF Gathers
  <2>2. a \in 0 .. a
    OBVIOUS
  <2>3. Len(Upto(record, a)) = a
    BY <2>2, UptoParts
  <2>4. QED
    BY <2>1, <2>3 DEF Roomy
<1>3. QED
  BY <1>1, <1>2

(* The next piece of a record that fits is taken in (ingest()).            *)
LEMMA PieceTaken ==
  ASSUME NEW U, NEW record \in Seq(U), Len(record) <= MaxMessageLen,
         NEW a, NEW b, NEW eap, Piece(record, a, b, eap),
         eap.length \in Nat \cup {Nil}, LengthFits(eap),
         NEW reasm \in Reassembler(Unit), Roomy(reasm, a), U \subseteq Unit
  PROVE  LET in == Ingest(reasm, eap) IN
         /\ in.verdict # "error"
         /\ in.verdict = "more" => b < Len(record) /\ Roomy(in.reasm, b)
<1>1. /\ a \in Nat /\ b \in Nat /\ a < b /\ b <= Len(record)
      /\ eap.data = SubSeq(record, a + 1, b) /\ eap.more = (b < Len(record))
  BY DEF Piece
<1>2. eap.data \in Seq(U) /\ Len(eap.data) = b - a
  <2>1. b \in 0 .. Len(record) /\ a \in 0 .. b
    BY <1>1
  <2>2. QED
    BY <2>1, <1>1, UptoParts
<1>3. eap.data \in Seq(Unit) /\ reasm.buffer \in Seq(Unit)
  <2>1. eap.data \in Seq(Unit)
    BY <1>2, Widens
  <2>2. QED
    BY <2>1 DEF Reassembler
<1>4. ~IsAck(eap)
  BY PieceData
<1>5. ~DeclaresTooMuch(reasm, eap)
  BY MaxMessageLenAssumption DEF DeclaresTooMuch, LengthFits
<1>6. PICK buffer : buffer = Appended(reasm, eap)
  OBVIOUS
<1>7. Len(buffer) <= b /\ Len(buffer) \in Nat
  <2>1. CASE StartsRecord(reasm)
    <3>1. buffer = <<>> \o eap.data
      BY <2>1, <1>6 DEF Appended
    <3>2. <<>> \in Seq(Unit) /\ Len(<<>>) = 0
      OBVIOUS
    <3>3. Len(buffer) = b - a
      BY <3>1, <3>2, <1>2, <1>3
    <3>4. QED
      BY <3>3, <1>1
  <2>2. CASE ~StartsRecord(reasm)
    <3>1. buffer = reasm.buffer \o eap.data
      BY <2>2, <1>6 DEF Appended
    <3>2. Len(buffer) = Len(reasm.buffer) + Len(eap.data) /\ Len(reasm.buffer) \in Nat
      BY <3>1, <1>3
    <3>3. Len(reasm.buffer) <= a
      BY <2>2 DEF Roomy
    <3>4. PICK n \in Nat : n = Len(reasm.buffer)
      BY <3>2
    <3>5. n <= a /\ Len(buffer) = n + (b - a)
      BY <3>2, <3>3, <3>4, <1>2
    <3>6. QED
      BY <3>5, <1>1
  <2>3. QED
    BY <2>1, <2>2
<1>8. ~(Len(buffer) > MaxMessageLen)
  BY <1>1, <1>7, MaxMessageLenAssumption
<1>9. Ingest(reasm, eap) = IF eap.more
        THEN [verdict |-> "more", reasm |-> [state |-> "in_progress", buffer |-> buffer]]
        ELSE [verdict |-> "done", reasm |-> [state |-> "complete", buffer |-> buffer]]
  BY <1>4, <1>5, <1>6, <1>8 DEF Ingest
<1>10. CASE eap.more
  <2>1. PICK in : in = Ingest(reasm, eap)
    OBVIOUS
  <2>2. in.verdict = "more" /\ in.reasm.buffer = buffer
    BY <2>1, <1>9, <1>10
  <2>3. b < Len(record) /\ Roomy(in.reasm, b)
    BY <2>2, <1>1, <1>7, <1>10 DEF Roomy
  <2>4. QED
    BY <2>1, <2>2, <2>3
<1>11. CASE ~eap.more
  BY <1>9, <1>11
<1>12. QED
  BY <1>10, <1>11

(* In a conversation a station says and is told nothing else.              *)
LEMMA SpeakingSays ==
  ASSUME NEW U, NEW f, NEW p, Whole(U, f, p), NEW s, NEW v, NEW eap,
         Speaking(f, p, s, v, eap)
  PROVE  Saying(f, p, s, eap)
<1>1. CASE IsAck(eap)
  BY <1>1 DEF Saying
<1>2. CASE ~IsAck(eap)
  <2>1. UnderWay(p)
    BY <1>2 DEF Speaking
  <2>2. PICK a, b \in Nat :
          /\ Piece(UpFlight(f, p), a, b, eap)
          /\ p.tx = CutFrom(UpFlight(f, p), b, PeerFragmentSize)
          /\ AwaitsUp(f, p, s, v, a)
    BY <1>2 DEF Speaking
  <2>3. UpFlight(f, p) \in Seq(U) /\ a \in 0 .. Len(UpFlight(f, p))
    BY <2>1, <2>2 DEF Whole, Piece
  <2>4. Room(s, a)
    BY <2>2, <2>3, GathersRoomy DEF AwaitsUp, Room
  <2>5. QED
    BY <2>1, <2>2, <2>4 DEF Saying
<1>3. QED
  BY <1>1, <1>2

LEMMA ChallengedTold ==
  ASSUME NEW U, NEW f, NEW p, Whole(U, f, p), NEW s, NEW talks, NEW eap,
         Challenged(f, p, s, talks, eap), ~Dead(s)
  PROVE  Told(f, p, s, eap)
<1>1. CASE eap.data = <<>>
  <2>1. \A a, b : ~Piece(DownFlight(f, p), a, b, eap) \/ ~UnderWay(p)
    BY <1>1, PieceData DEF Whole
  <2>2. PICK c \in DOMAIN talks, a \in Nat : Bids(f, p, eap, a) /\ AwaitsUp(f, p, s, talks[c], a)
    BY <2>1 DEF Challenged
  <2>3. CASE eap.start
    <3>1. a = 0 /\ p.got = <<>>
      BY <2>2, <2>3 DEF Bids, IsAck
    <3>2. Room(s, 0)
      BY <2>2, <3>1 DEF AwaitsUp, Gathers, Room, Roomy
    <3>3. QED
      BY <2>3, <3>1, <3>2 DEF Told
  <2>4. CASE ~eap.start
    <3>1. /\ IsAck(eap) /\ UnderWay(p) /\ a < Len(UpFlight(f, p))
          /\ p.tx = CutFrom(UpFlight(f, p), a, PeerFragmentSize)
      BY <2>2, <2>4 DEF Bids
    <3>2. UpFlight(f, p) \in Seq(U) /\ a \in 0 .. Len(UpFlight(f, p))
      BY <3>1 DEF Whole
    <3>3. Room(s, a)
      BY <2>2, <3>2, GathersRoomy DEF AwaitsUp, Room
    <3>4. QED
      BY <3>1, <3>3 DEF Told
  <2>5. QED
    BY <2>3, <2>4
<1>2. CASE eap.data # <<>>
  <2>1. PICK c, b : AwaitsDown(f, p, s, talks[c], b)
    BY <1>2 DEF Challenged
  <2>2. Room(s, 0)
    BY <2>1 DEF AwaitsDown, Room, Roomy
  <2>3. QED
    BY <1>2, <2>2 DEF Told
<1>3. QED
  BY <1>1, <1>2

(* Only the session's reassembler of flights up matters, and an empty one  *)
(* has room.                                                               *)
LEMMA RoomAlike ==
  ASSUME NEW s, NEW t, \A a : Room(s, a) => Room(t, a), NEW f, NEW p, NEW eap
  PROVE  /\ Saying(f, p, s, eap) => Saying(f, p, t, eap)
         /\ Told(f, p, s, eap) => Told(f, p, t, eap)
BY DEF Saying, Told

LEMMA RoomNew == ASSUME NEW k, NEW a PROVE Room(NewSession(k), a)
BY DEF NewSession, EmptyReassembler, Room, Roomy, StartsRecord

-----------------------------------------------------------------------------
(* What a station answers.                                                 *)

Says(st, f, s, m) ==
  \E q \in Peer(st), eap \in Packet(Of(st)) :
    /\ eap.kind = "tls" /\ LengthFits(eap) /\ Saying(f, q, s, eap)
    /\ Transmit(st, Sending(st, q, m.state, eap))

LEMMA AckSays ==
  ASSUME NEW st \in Stations, NEW f, NEW q \in Peer(st), NEW s, NEW m,
         m.eap.id \in Identifier, Transmit(st, Sending(st, q, m.state, AckPacket(m.eap.id)))
  PROVE  Says(st, f, s, m)
<1>1. PICK eap : eap = AckPacket(m.eap.id)
  OBVIOUS
<1>2. eap \in Packet(Of(st))
  BY <1>1, AckPacketType
<1>3. eap.kind = "tls" /\ IsAck(eap) /\ eap.length = Nil
  BY <1>1 DEF AckPacket, Frame, IsAck
<1>4. QED
  BY <1>1, <1>2, <1>3 DEF Says, Saying, LengthFits

(* A flight, or the last ACK.                                              *)
LEMMA FlightSays ==
  ASSUME Alphabet, script \in [Stations -> Scripts], FlightsCarryData, FlightsFit,
         NEW st \in Stations, NEW f, f = Flights(st), NEW p \in Peer(st), NEW s, NEW m,
         m.eap.id \in Identifier, NEW i, i = 2 * Len(p.got) + 1, SendFlight(st, p, m, i),
         UnderWay(p) \/ Through(p), Room(s, 0)
  PROVE  Says(st, f, s, m)
<1>1. PICK id : id = m.eap.id
  OBVIOUS
<1>2. PICK flight : flight = Flight(st, i)
  OBVIOUS
<1>3. p.got \in Seq(Seq(Of(st))) /\ Len(p.got) \in Nat
  BY DEF Peer
<1>4. i \in Nat \ {0} /\ FlightCount \in Nat /\ PeerFragmentSize \in Nat \ {0}
  BY <1>3, TestbedAssumption
<1>5. flight \in Seq(Of(st)) /\ Len(flight) <= MaxMessageLen
  BY <1>2, <1>4, FlightType, FlightFits
<1>6. CASE i > FlightCount
  BY <1>6, AckSays DEF SendFlight
<1>7. CASE ~(i > FlightCount)
  <2>1. PICK chunks : chunks = Fragment(flight, PeerFragmentSize)
    OBVIOUS
  <2>2. PICK eap : eap = FirstFragment(id, flight, chunks)
    OBVIOUS
  <2>3. PICK rest : rest = Tail(chunks)
    OBVIOUS
  <2>4. PICK q : q = [p EXCEPT !.tx = rest]
    OBVIOUS
  <2>5. Transmit(st, Sending(st, q, m.state, eap))
    BY <2>1, <2>2, <2>3, <2>4, <1>1, <1>2, <1>7 DEF SendFlight
  <2>6. rest \in Seq(Seq(Of(st))) /\ eap \in Packet(Of(st))
    BY <2>1, <2>2, <2>3, <1>1, <1>4, <1>5, ChunksType
  <2>7. eap.kind = "tls" /\ LengthFits(eap)
    BY <2>2, <1>5 DEF FirstFragment, Frame, LengthFits
  <2>8. q \in Peer(st) /\ q.tx = rest /\ q.got = p.got
    BY <2>4, <2>6 DEF Peer
  <2>9. UnderWay(p)
    <3>1. \A n \in Nat : ~(2 * n + 1 > FlightCount) => 2 * n # FlightCount
      BY <1>4
    <3>2. QED
      BY <1>3, <1>7, <3>1, Zenon DEF Through
  <2>10. UpFlight(f, p) = flight /\ Len(flight) > 0
    BY <2>9, <1>2, <1>3, FlightFacts
  <2>11. CutFrom(flight, 0, PeerFragmentSize) = chunks
    <3>1. SubSeq(flight, 0 + 1, Len(flight)) = flight
      BY <1>5, SubSeqFull
    <3>2. QED
      BY <2>10, <3>1, <2>1 DEF CutFrom
  <2>12. PICK b \in Nat :
           /\ rest = CutFrom(flight, b, PeerFragmentSize)
           /\ \A x, length : Piece(flight, 0, b, Frame(x, length, Len(chunks) > 1, Head(chunks)))
    <3>1. 0 \in Nat /\ 0 < Len(flight)
      BY <2>10
    <3>2. QED
      BY <3>1, <2>3, <2>11, <1>4, <1>5, NextPiece
  <2>13. Piece(flight, 0, b, eap)
    BY <2>2, <2>12 DEF FirstFragment
  <2>14. UnderWay(q) /\ UpFlight(f, q) = flight
    BY <2>8, <2>9, <2>10 DEF UnderWay, UpFlight
  <2>15. 0 \in Nat
    OBVIOUS
  <2>16. Saying(f, q, s, eap)
    BY <2>8, <2>12, <2>13, <2>14, <2>15 DEF Saying
  <2>17. QED
    BY <2>5, <2>6, <2>7, <2>8, <2>16 DEF Says
<1>8. QED
  BY <1>6, <1>7

(* The next fragment of one.                                               *)
LEMMA FragmentSays ==
  ASSUME NEW st \in Stations, NEW f, NEW p \in Peer(st), p = peer[st], NEW s, NEW m,
         m.eap.id \in Identifier, Whole(Of(st), f, p), AnswerAck(st, m), UnderWay(p),
         NEW a \in Nat, a < Len(UpFlight(f, p)), Room(s, a),
         p.tx = CutFrom(UpFlight(f, p), a, PeerFragmentSize)
  PROVE  Says(st, f, s, m)
<1>1. PICK eap : eap = NextFragment(m.eap.id, p.tx)
  OBVIOUS
<1>2. PICK rest : rest = Tail(p.tx)
  OBVIOUS
<1>3. PICK q : q = [p EXCEPT !.tx = rest]
  OBVIOUS
<1>4. p.tx # <<>> /\ Transmit(st, Sending(st, q, m.state, eap))
  BY <1>1, <1>2, <1>3 DEF AnswerAck
<1>5. p.tx \in Seq(Seq(Of(st)))
  BY DEF Peer
<1>6. rest \in Seq(Seq(Of(st))) /\ eap \in Packet(Of(st))
  BY <1>1, <1>2, <1>4, <1>5, NextFragmentType
<1>7. eap.kind = "tls" /\ LengthFits(eap)
  BY <1>1 DEF NextFragment, Frame, LengthFits
<1>8. q \in Peer(st) /\ q.tx = rest /\ q.got = p.got
  BY <1>3, <1>6 DEF Peer
<1>9. PICK up \in Seq(Of(st)) : up = UpFlight(f, p)
  BY DEF Whole
<1>10. PICK size \in Nat \ {0} : size = PeerFragmentSize
  BY TestbedAssumption
<1>11. PICK chunks : chunks = CutFrom(up, a, size)
  OBVIOUS
<1>12. a < Len(up) /\ p.tx = chunks
  BY <1>9, <1>10, <1>11
<1>13. PICK b \in Nat :
         /\ a < b /\ Tail(chunks) = CutFrom(up, b, size)
         /\ \A id, length : Piece(up, a, b, Frame(id, length, Len(chunks) > 1, Head(chunks)))
  <2>1. PICK U : U = Of(st)
    OBVIOUS
  <2>2. PICK record \in Seq(U) : record = up
    BY <2>1
  <2>3. a < Len(record) /\ chunks = CutFrom(record, a, size)
    BY <1>11, <1>12, <2>2
  <2>4. \E b \in Nat :
          /\ a < b /\ Tail(chunks) = CutFrom(record, b, size)
          /\ \A id, length :
               Piece(record, a, b, Frame(id, length, Len(chunks) > 1, Head(chunks)))
    BY <2>3, NextPiece
  <2>5. QED
    BY <2>2, <2>4
<1>14. Piece(up, a, b, eap)
  BY <1>1, <1>12, <1>13 DEF NextFragment
<1>15. UnderWay(q) /\ UpFlight(f, q) = up /\ q.tx = CutFrom(up, b, PeerFragmentSize)
  BY <1>2, <1>8, <1>9, <1>10, <1>12, <1>13 DEF UnderWay, UpFlight
<1>16. Saying(f, q, s, eap)
  BY <1>14, <1>15 DEF Saying
<1>17. QED
  BY <1>4, <1>6, <1>7, <1>8, <1>16 DEF Says

(* A part of the server's flight is ACKed; the whole of it is answered     *)
(* with the next.                                                          *)
LEMMA DataSays ==
  ASSUME Alphabet, script \in [Stations -> Scripts], FlightsCarryData, FlightsFit,
         NEW st \in Stations, NEW f, f = Flights(st), NEW p \in Peer(st), p = peer[st],
         NEW s, NEW m, m.eap.id \in Identifier, UnderWay(p),
         NEW a, NEW b, Piece(DownFlight(f, p), a, b, m.eap), p.rx = Upto(DownFlight(f, p), a),
         Room(s, 0), AnswerData(st, m)
  PROVE  Says(st, f, s, m)
<1>1. PICK down : down = DownFlight(f, p)
  OBVIOUS
<1>2. PICK record : record = p.rx \o m.eap.data
  OBVIOUS
<1>3. PICK got : got = Append(p.got, record)
  OBVIOUS
<1>4. p.got \in Seq(Seq(Of(st)))
  BY DEF Peer
<1>5. /\ down = Flight(st, 2 * Len(p.got) + 2) /\ down \in Seq(Of(st)) /\ Len(down) > 0
  BY <1>1, <1>4, FlightFacts
<1>6. a \in Nat /\ b \in Nat /\ a < b /\ b <= Len(down) /\ (m.eap.more <=> b < Len(down))
  BY <1>1 DEF Piece
<1>7. b \in 0 .. Len(down) /\ a \in 0 .. b /\ b \in 0 .. b
  BY <1>6
<1>8. record = Upto(down, b)
  <2>1. Joins(Upto(down, a), SubSeq(down, a + 1, b), Upto(down, b))
    BY <1>5, <1>7, UptoParts
  <2>2. m.eap.data = SubSeq(down, a + 1, b) /\ p.rx = Upto(down, a)
    BY <1>1 DEF Piece
  <2>3. QED
    BY <2>1, <2>2, <1>2 DEF Joins
<1>9. record \in Seq(Of(st))
  BY <1>5, <1>7, <1>8, UptoParts
<1>10. got \in Seq(Seq(Of(st))) /\ Len(got) = Len(p.got) + 1 /\ Len(p.got) \in Nat
  BY <1>3, <1>4, <1>9
<1>11. CASE m.eap.more
  <2>1. PICK q : q = [p EXCEPT !.rx = record]
    OBVIOUS
  <2>2. q \in Peer(st)
    BY <2>1, <1>9 DEF Peer
  <2>3. Transmit(st, Sending(st, q, m.state, AckPacket(m.eap.id)))
    BY <2>1, <1>2, <1>11 DEF AnswerData
  <2>4. QED
    BY <2>2, <2>3, AckSays
<1>12. CASE ~m.eap.more
  <2>1. b = Len(down)
    BY <1>5, <1>6, <1>12
  <2>2. record = down
    <3>1. 0 \in 0 .. Len(down) /\ 0 \in 0 .. 0
      BY <1>5
    <3>2. Upto(down, Len(down)) = down
      BY <3>1, <1>5, UptoParts
    <3>3. QED
      BY <3>2, <2>1, <1>8
  <2>3. record = Flight(st, 2 * Len(got))
    <3>1. 2 * Len(got) = 2 * Len(p.got) + 2
      BY <1>10
    <3>2. QED
      BY <3>1, <2>2, <1>5
  <2>4. PICK q : q = [p EXCEPT !.got = got, !.rx = <<>>]
    OBVIOUS
  <2>5. q \in Peer(st) /\ q.got = got
    <3>1. <<>> \in Seq(Of(st))
      OBVIOUS
    <3>2. QED
      BY <3>1, <2>4, <1>10 DEF Peer
  <2>6. SendFlight(st, q, m, 2 * Len(q.got) + 1)
    BY <2>3, <2>4, <2>5, <1>2, <1>3, <1>12 DEF AnswerData
  <2>7. UnderWay(q) \/ Through(q)
    <3>1. PICK h \in Nat : FlightCount = 2 * h
      <4>1. FlightCount \in Nat /\ FlightCount % 2 = 0
        BY TestbedAssumption
      <4>2. FlightCount = 2 * (FlightCount \div 2) /\ FlightCount \div 2 \in Nat
        BY <4>1
      <4>3. QED
        BY <4>2
    <3>2. PICK n \in Nat : n = Len(p.got)
      BY <1>10
    <3>3. 2 * n < FlightCount
      BY <3>2 DEF UnderWay
    <3>4. 2 * (n + 1) < FlightCount \/ 2 * (n + 1) = FlightCount
      BY <3>1, <3>3
    <3>5. Len(q.got) = n + 1
      BY <3>2, <2>5, <1>10
    <3>6. QED
      BY <3>4, <3>5 DEF UnderWay, Through
  <2>8. QED
    BY <2>5, <2>6, <2>7, FlightSays
<1>13. QED
  BY <1>11, <1>12

LEMMA ChallengeSays ==
  ASSUME Alphabet, script \in [Stations -> Scripts], FlightsCarryData, FlightsFit,
         NEW st \in Stations, NEW f, f = Flights(st), NEW p \in Peer(st), p = peer[st],
         NEW s, NEW talks, NEW m, m.eap \in Packet(Of(st)),
         Challenged(f, p, s, talks, m.eap), Told(f, p, s, m.eap),
         AnswerStart(st, m) \/ AnswerAck(st, m) \/ AnswerData(st, m)
  PROVE  Says(st, f, s, m)
<1>1. m.eap.id \in Identifier /\ p.got \in Seq(Seq(Of(st)))
  BY DEF Peer, Packet
<1>2. Whole(Of(st), f, p)
  BY <1>1, FlightFacts DEF Whole
<1>3. CASE m.eap.data # <<>>
  <2>1. PICK a \in Nat, b \in Nat :
          /\ UnderWay(p)
          /\ Piece(DownFlight(f, p), a, b, m.eap) /\ p.rx = Upto(DownFlight(f, p), a)
    BY <1>3 DEF Challenged
  <2>2. ~m.eap.start /\ ~IsAck(m.eap)
    BY <2>1, <1>3 DEF Piece, IsAck
  <2>3. AnswerData(st, m) /\ Room(s, 0)
    BY <2>2 DEF AnswerStart, AnswerAck, Told
  <2>4. QED
    BY <2>1, <2>3, <1>1, DataSays
<1>4. CASE m.eap.data = <<>>
  <2>1. ~AnswerData(st, m)
    BY <1>4 DEF AnswerData
  <2>2. CASE AnswerStart(st, m)
    <3>1. SendFlight(st, p, m, 1) /\ m.eap.start
      BY <2>2 DEF AnswerStart
    <3>2. p.got = <<>> /\ Room(s, 0)
      BY <3>1, <1>4 DEF Told, IsAck
    <3>3. 2 * Len(p.got) = 0 /\ 1 = 2 * Len(p.got) + 1
      BY <3>2
    <3>4. UnderWay(p) \/ Through(p)
      <4>1. 0 < FlightCount \/ 0 = FlightCount
        BY TestbedAssumption
      <4>2. QED
        BY <3>3, <4>1 DEF UnderWay, Through
    <3>5. QED
      BY <3>1, <3>2, <3>3, <3>4, <1>1, FlightSays
  <2>3. CASE AnswerAck(st, m)
    <3>1. IsAck(m.eap)
      BY <2>3 DEF AnswerAck
    <3>2. PICK a \in Nat :
            /\ UnderWay(p) /\ a < Len(UpFlight(f, p)) /\ Room(s, a)
            /\ p.tx = CutFrom(UpFlight(f, p), a, PeerFragmentSize)
      BY <3>1, <1>4 DEF Told, IsAck
    <3>3. QED
      BY <2>3, <3>2, <1>1, <1>2, FragmentSays
  <2>4. QED
    BY <2>1, <2>2, <2>3
<1>5. QED
  BY <1>3, <1>4

(* A challenge is always answered (the last case of Useless never comes    *)
(* up).                                                                    *)
LEMMA NeverUseless ==
  ASSUME NEW U, NEW st, NEW f, NEW p, p = peer[st], Whole(U, f, p), NEW s, NEW talks, NEW m,
         ReplyFine(f, p, s, talks, m), m.code = "challenge", Told(f, p, s, m.eap)
  PROVE  ~Useless(st, m) /\ ~AnswerAgain(st, m) /\ ~TakeVerdict(st, m)
<1>1. Awaited(st, m) /\ m.eap # Nil /\ m.eap.id # p.id
  BY DEF ReplyFine, Telling, Awaited
<1>2. IsAck(m.eap) => p.tx # <<>>
  <2>1. SUFFICES ASSUME IsAck(m.eap) PROVE p.tx # <<>>
    OBVIOUS
  <2>2. PICK a \in Nat :
          /\ UnderWay(p) /\ a < Len(UpFlight(f, p))
          /\ p.tx = CutFrom(UpFlight(f, p), a, PeerFragmentSize)
    BY <2>1 DEF Told, IsAck
  <2>3. UpFlight(f, p) \in Seq(U) /\ PeerFragmentSize \in Nat \ {0}
    BY <2>2, TestbedAssumption DEF Whole
  <2>4. QED
    BY <2>2, <2>3, NextPiece
<1>3. QED
  BY <1>1, <1>2 DEF Useless, AnswerAgain, TakeVerdict

-----------------------------------------------------------------------------
(* The ways a step of the handler of d ends that leave nothing behind: it  *)
(* blocks upstream, the session is dropped with its verdict, or a          *)
(* challenge carries its State, and asks what the station p can answer if  *)
(* the session is in no conversation.                                      *)
Blocks(d) ==
  /\ handler' # Nil /\ handler'.key = KeyOf(d) /\ toAp' = toAp
  /\ DOMAIN sessions' = DOMAIN sessions \cup {KeyOf(d)}
Drops(d) ==
  /\ handler' = Nil /\ DOMAIN sessions' = DOMAIN sessions \ {KeyOf(d)}
  /\ \E m : toAp' = toAp \cup {m} /\ m.code # "challenge"
Carry(f, p, d, m, s) ==
  /\ toAp' = toAp \cup {m} /\ m.code = "challenge"
  /\ DOMAIN sessions' = (DOMAIN sessions \ {KeyOf(d)}) \cup {StateKey(m.state)}
  /\ ~Dead(s) \/ Told(f, p, s, m.eap)
Ends(f, p, d) ==
  \/ Blocks(d)
  \/ Drops(d)
  \/ handler' = Nil /\ \E m : Carry(f, p, d, m, Get(sessions', StateKey(m.state)))

LEMMA AskEnds ==
  ASSUME NEW d \in Datagram, NEW s \in SessionType, s.key = KeyOf(d),
         NEW pc \in {"forward", "drain", "passthrough", "non_tls"}, NEW eap,
         NEW rest \in Seq(Seq(Unit)), Ask(d, s, pc, eap, rest)
  PROVE  Blocks(d)
<1>1. PICK t : t = [s EXCEPT !.upstream_round_trips = @ + 1]
  OBVIOUS
<1>2. PICK h : h = [pc |-> pc, key |-> s.key, datagram |-> d, rest |-> rest]
  OBVIOUS
<1>3. sessions' = Put(sessions, t) /\ handler' = h /\ toAp' = toAp
  BY <1>1, <1>2 DEF Ask
<1>4. t.key = s.key
  BY <1>1 DEF SessionType
<1>5. h \in HandlerType /\ h.key = s.key
  BY <1>2, KeyOfType DEF HandlerType
<1>6. h # Nil
  BY <1>5, NoneAssumption
<1>7. DOMAIN sessions' = DOMAIN sessions \cup {t.key}
  BY <1>3 DEF Put
<1>8. QED
  BY <1>3, <1>4, <1>5, <1>6, <1>7 DEF Blocks

LEMMA ReplyEnds ==
  ASSUME ~IoMayFail, NEW d, NEW s, Kept(s), s.key = KeyOf(d), NEW code, NEW eap,
         Reply(d, s, code, eap),
         \/ code \in Verdict /\ s.result = code
         \/ code = "challenge" /\ s.result = Nil
  PROVE  /\ handler' = Nil
         /\ code \in Verdict => Drops(d)
         /\ code = "challenge" =>
              \E m, t :
                /\ Similar(t, s) /\ Get(sessions', StateKey(m.state)) = t
                /\ toAp' = toAp \cup {m} /\ m.code = "challenge" /\ m.eap = eap
                /\ DOMAIN sessions' = (DOMAIN sessions \ {KeyOf(d)}) \cup {StateKey(m.state)}
<1> DEFINE mints == code = "challenge" /\ s.downstream_state = Nil
           t == IF mints
                  THEN [s EXCEPT !.downstream_state = minted, !.key = StateKey(minted)]
                  ELSE s
           kept == Rekey(sessions, s.key, t)
           m == [to |-> d.authenticator,
                 code |-> code,
                 state |-> IF code = "challenge" THEN t.downstream_state ELSE Nil,
                 keys |-> IF code = "accept" THEN s.keys ELSE Nil,
                 eap |-> eap]
<1>1. /\ handler' = Nil /\ toAp' = toAp \cup {m}
      /\ IF t.result \in Verdict THEN sessions' = Drop(kept, t.key) ELSE sessions' = kept
  BY DEF Reply, Report
<1>2. /\ Similar(t, s)
      /\ code = "challenge" => t.key = StateKey(t.downstream_state)
      /\ code # "challenge" => t = s
  BY DEF Kept, KeptBelow, SessionType, Similar
<1>3. /\ m.code = code /\ m.eap = eap
      /\ code = "challenge" => m.state = t.downstream_state
  OBVIOUS
<1> HIDE DEF t, m, mints
<1>4. /\ kept[t.key] = t /\ DOMAIN kept = (DOMAIN sessions \ {s.key}) \cup {t.key}
  BY DEF Rekey, Put, Drop
<1> HIDE DEF kept
<1>5. CASE code \in Verdict
  <2>1. t = s /\ t.result \in Verdict /\ code # "challenge"
    BY <1>2, <1>5 DEF Verdict
  <2>2. DOMAIN sessions' = DOMAIN kept \ {t.key}
    BY <1>1, <2>1 DEF Drop
  <2>3. DOMAIN sessions' = DOMAIN sessions \ {KeyOf(d)}
    BY <1>4, <2>1, <2>2
  <2>4. QED
    BY <1>1, <1>3, <2>1, <2>3 DEF Drops
<1>6. CASE code = "challenge"
  <2>1. s.result = Nil /\ code \notin Verdict
    BY <1>6 DEF Verdict
  <2>2. sessions' = kept
    BY <1>1, <1>2, <2>1, NoneAssumption DEF Similar
  <2>3. t.key = StateKey(m.state)
    BY <1>2, <1>3, <1>6
  <2>4. Get(sessions', StateKey(m.state)) = t
    BY <1>4, <2>2, <2>3 DEF Get
  <2>5. DOMAIN sessions' = (DOMAIN sessions \ {KeyOf(d)}) \cup {StateKey(m.state)}
    BY <1>4, <2>2, <2>3
  <2>6. QED
    BY <1>1, <1>2, <1>3, <1>6, <2>1, <2>4, <2>5
<1>7. QED
  BY <1>5, <1>6

LEMMA VerdictEnds ==
  ASSUME ~IoMayFail, NEW d, NEW s, Kept(s), s.key = KeyOf(d), NEW code \in Verdict,
         s.result = code, NEW eap, Reply(d, s, code, eap)
  PROVE  Drops(d)
BY ReplyEnds

(* A challenge of a session in a conversation, or that is what the station *)
(* can answer.                                                             *)
LEMMA ChallengeEnds ==
  ASSUME ~IoMayFail, NEW d, NEW s, Kept(s), s.key = KeyOf(d), s.result = Nil, NEW eap,
         Reply(d, s, "challenge", eap), NEW f, NEW p,
         s.radius_state # Nil \/ Told(f, p, s, eap)
  PROVE  Ends(f, p, d)
<1>1. handler' = Nil
  BY ReplyEnds
<1>2. PICK m, t : /\ Similar(t, s) /\ Get(sessions', StateKey(m.state)) = t
                  /\ toAp' = toAp \cup {m} /\ m.code = "challenge" /\ m.eap = eap
                  /\ DOMAIN sessions' = (DOMAIN sessions \ {KeyOf(d)}) \cup {StateKey(m.state)}
  BY ReplyEnds
<1>3. CASE s.radius_state # Nil
  <2>1. ~Dead(t)
    BY <1>2, <1>3 DEF Similar, Dead
  <2>2. QED
    BY <1>1, <1>2, <2>1 DEF Ends, Carry
<1>4. CASE Told(f, p, s, eap)
  <2>1. \A a : Room(s, a) => Room(t, a)
    BY <1>2 DEF Room, Similar
  <2>2. Told(f, p, t, eap)
    BY <1>4, <2>1, RoomAlike
  <2>3. QED
    BY <1>1, <1>2, <2>2 DEF Ends, Carry
<1>5. QED
  BY <1>3, <1>4

(* Another queue of fragments, or Identifier, leaves a session fit to keep. *)
Requeued(s, id, out) == [s EXCEPT !.down_next_id = id, !.down_outbox = out]

LEMMA RequeuedKept ==
  ASSUME NEW s \in SessionType, NEW out \in Seq(Seq(Unit)), NEW id \in Identifier
  PROVE  LET t == Requeued(s, id, out) IN
         /\ t \in SessionType
         /\ t.key = s.key /\ t.downstream_state = s.downstream_state
         /\ t.radius_state = s.radius_state /\ t.result = s.result
<1>1. PICK t : t = [s EXCEPT !.down_next_id = id, !.down_outbox = out]
  OBVIOUS
<1>2. t \in SessionType
  BY <1>1 DEF SessionType
<1>3. /\ t.key = s.key /\ t.downstream_state = s.downstream_state
      /\ t.radius_state = s.radius_state /\ t.result = s.result
  BY <1>1 DEF SessionType
<1>4. t = Requeued(s, id, out)
  BY <1>1 DEF Requeued
<1>5. QED
  BY <1>2, <1>3, <1>4

LEMMA OutboxKept ==
  ASSUME NEW s \in SessionType, NEW out \in Seq(Seq(Unit)),
         NEW t, t = [s EXCEPT !.down_outbox = out]
  PROVE  /\ t \in SessionType
         /\ t.key = s.key /\ t.downstream_state = s.downstream_state
         /\ t.radius_state = s.radius_state /\ t.result = s.result
         /\ t.down_outbox = out
<1>1. t \in SessionType
  BY DEF SessionType
<1>2. QED
  BY <1>1 DEF SessionType

(* The next fragment of the server's flight goes to the station.           *)
LEMMA FragmentEnds ==
  ASSUME ~IoMayFail, NEW d, NEW s, Kept(s), s.key = KeyOf(d), s.result = Nil,
         s.radius_state # Nil, s.down_outbox # <<>>, NEW length, ReplyFragment(d, s, length),
         NEW f, NEW p
  PROVE  Ends(f, p, d)
<1>1. PICK id : id = NextId(s.down_next_id)
  OBVIOUS
<1>2. PICK tail : tail = Tail(s.down_outbox)
  OBVIOUS
<1>3. PICK t : t = Requeued(s, id, tail)
  OBVIOUS
<1>4. PICK eap : Reply(d, t, "challenge", eap)
  BY <1>1, <1>2, <1>3 DEF ReplyFragment, Requeued
<1>5. s \in SessionType /\ s.down_next_id \in Identifier /\ s.down_outbox \in Seq(Seq(Unit))
  BY DEF Kept, KeptBelow, SessionType
<1>6. id \in Identifier /\ tail \in Seq(Seq(Unit))
  BY <1>1, <1>2, <1>5, NextIdType
<1>7. /\ t \in SessionType
      /\ t.key = s.key /\ t.downstream_state = s.downstream_state
      /\ t.radius_state = s.radius_state /\ t.result = s.result
  BY <1>3, <1>5, <1>6, RequeuedKept
<1>8. Kept(t)
  BY <1>7 DEF Kept, KeptBelow
<1>9. QED
  BY <1>4, <1>7, <1>8, ChallengeEnds

-----------------------------------------------------------------------------
(* A datagram from a station leaves nothing behind.                        *)

(* A session in a conversation carries the server's State.                 *)
LEMMA LinkedState ==
  ASSUME Alphabet, ServerTypeOK, NEW st, NEW c \in DOMAIN Talks(st), NEW s,
         Linked(s, c, Talks(st)[c])
  PROVE  s.radius_state # Nil /\ s.result = Nil /\ ~Dead(s)
<1>1. c \in DOMAIN server /\ Talks(st)[c] = server[c]
  BY TalksFacts
<1>2. c \in Nat /\ server[c].step \in Nat
  <2>1. server[c] \in Conversation(server[c].st)
    BY <1>1, ConversationType
  <2>2. QED
    BY <2>1, <1>1 DEF Conversation, ServerTypeOK
<1>3. s.radius_state = <<c, server[c].step>> /\ s.result = Nil
  BY <1>1 DEF Linked
<1>4. s.radius_state \in ServerState
  BY <1>2, <1>3 DEF Alphabet
<1>5. s.radius_state # Nil
  BY <1>4, NoneAssumption
<1>6. QED
  BY <1>3, <1>5 DEF Dead

(* What the reassembler makes of what the station says.                    *)
LEMMA SayingTaken ==
  ASSUME NEW U, U \subseteq Unit, NEW f, NEW p, Whole(U, f, p),
         UnderWay(p) => Len(UpFlight(f, p)) <= MaxMessageLen,
         Reassembling, NEW s \in SessionType, NEW eap \in Packet(Unit), ~IsAck(eap),
         LengthFits(eap), Saying(f, p, s, eap),
         NEW in, in = Ingest(s.up_reasm, eap), NEW t, t.up_reasm = in.reasm
  PROVE  /\ in.verdict # "error"
         /\ in.verdict = "more" =>
              \A id : Told(f, p, t, AckPacket(id))
<1>1. UnderWay(p)
  BY DEF Saying
<1>2. PICK a, b \in Nat : /\ Piece(UpFlight(f, p), a, b, eap) /\ Room(s, a)
                          /\ p.tx = CutFrom(UpFlight(f, p), b, PeerFragmentSize)
  BY DEF Saying
<1>3. PICK up \in Seq(U) : up = UpFlight(f, p)
  BY <1>1 DEF Whole
<1>4. s.up_reasm \in Reassembler(Unit) /\ Roomy(s.up_reasm, a)
  BY <1>2 DEF SessionType, Room
<1>5. eap.length \in Nat \cup {Nil}
  BY DEF Packet
<1>6. Len(up) <= MaxMessageLen /\ Piece(up, a, b, eap)
  BY <1>1, <1>2, <1>3
<1>7. /\ in.verdict # "error"
      /\ in.verdict = "more" => b < Len(up) /\ Roomy(in.reasm, b)
  BY <1>4, <1>5, <1>6, PieceTaken
<1>8. ASSUME in.verdict = "more", NEW id PROVE Told(f, p, t, AckPacket(id))
  <2>1. IsAck(AckPacket(id))
    BY DEF AckPacket, Frame, IsAck
  <2>2. b < Len(UpFlight(f, p)) /\ Room(t, b)
    BY <1>3, <1>7, <1>8 DEF Room
  <2>3. QED
    BY <2>1, <2>2, <1>1, <1>2 DEF Told
<1>9. QED
  BY <1>7, <1>8

LEMMA ReceiveEnds ==
  ASSUME Alphabet, TestbedInv, TunnelInv, FlightsCarryData, FlightsFit, AllSaid, ~IoMayFail,
         NEW st \in Stations, NEW d \in RequestsOf(st), Receive(d)
  PROVE  Ends(Flights(st), peer[st], d)
<1>1. PICK f : f = Flights(st)
  OBVIOUS
<1>2. PICK p : p = peer[st]
  OBVIOUS
<1>3. PICK talks : talks = Talks(st)
  OBVIOUS
<1>4. d \in Datagram /\ RequestFine(f, p, Get(sessions, KeyOf(d)), talks, d)
  BY <1>1, <1>2, <1>3 DEF RequestsOf, TestbedInv, PeerTypeOK, OfStation, TunnelInv, Course
<1>5. ProxyInv /\ ServerTypeOK
  BY DEF TestbedInv
<1>6. CASE Introduces(p, talks, d)
  <2>1. d.eap.kind = "other"
    BY <1>6 DEF Introduces, IsIdentity
  <2>2. ForwardNonTls(d)
    BY <2>1 DEF Receive, RefuseMalformed, ForwardVerbatim, SendNextFragment,
                SendPendingVerdict, PollUpstream, AckLocally, ForwardRecord,
                RefuseOversize, IsTls
  <2>3. PICK s : s = Opened(d)
    OBVIOUS
  <2>4. s \in SessionType /\ s.key = KeyOf(d) /\ Ask(d, s, "non_tls", d.eap, <<>>)
    BY <1>4, <1>5, <2>2, <2>3, SyncedSimilar DEF ForwardNonTls
  <2>5. <<>> \in Seq(Seq(Unit))
    OBVIOUS
  <2>6. Blocks(d)
    BY <1>4, <2>4, <2>5, AskEnds
  <2>7. QED
    BY <2>6 DEF Ends
<1>7. CASE ~Introduces(p, talks, d)
  <2>1. PICK s : s = Synced(d)
    OBVIOUS
  <2>2. IsTls(d) /\ d.state # Nil
    BY <1>4, <1>7 DEF RequestFine
  <2>3. Asked(f, p, s, talks, d, Of(st))
    BY <1>1, <1>2, <1>4, <2>1, <2>2, OpensAsked
  <2>4. /\ s \in SessionType /\ s.key = KeyOf(d) /\ Kept(s)
        /\ Of(st) \in SUBSET Unit /\ Whole(Of(st), f, p) /\ d.eap \in Packet(Of(st))
    BY <2>3 DEF Asked
  <2>5. s.result = Nil /\ (s.radius_state # Nil \/ Dead(s))
    BY <2>3, <1>3, <1>5, LinkedState DEF Asked, Standing, Dead
  <2>6. PICK in : in = Ingest(s.up_reasm, d.eap)
    OBVIOUS
  <2>7. PICK t : t = [s EXCEPT !.up_reasm = in.reasm]
    OBVIOUS
  <2>8. t \in SessionType /\ t.key = KeyOf(d) /\ in.reasm \in Reassembler(Unit)
    BY <2>3, <2>4, <2>6, <2>7, FedType
  <2>9. <<>> \in Seq(Seq(Unit))
    OBVIOUS
  <2>10. ASSUME Reassembling, ~IsAck(d.eap), NEW u, u.up_reasm = in.reasm
         PROVE  /\ in.verdict # "error"
                /\ in.verdict = "more" => \A id : Told(f, p, u, AckPacket(id))
    <3>1. LengthFits(d.eap) /\ Saying(f, p, Get(sessions, KeyOf(d)), d.eap)
      BY <1>1, <1>2, <2>2 DEF AllSaid
    <3>2. \A a : Room(Get(sessions, KeyOf(d)), a) => Room(s, a)
      BY <1>4, <1>5, <2>1, SyncedSimilar DEF Room, Similar
    <3>3. Saying(f, p, s, d.eap)
      BY <3>1, <3>2, RoomAlike
    <3>4. d.eap \in Packet(Unit)
      BY <1>4 DEF Datagram
    <3>5. UnderWay(p) => Len(UpFlight(f, p)) <= MaxMessageLen
      <4>1. p.got \in Seq(Seq(Of(st))) /\ script \in [Stations -> Scripts]
        BY <1>2 DEF TestbedInv, PeerTypeOK, Peer
      <4>2. 2 * Len(p.got) + 1 \in Nat \ {0}
        BY <4>1
      <4>3. UnderWay(p) => UpFlight(f, p) = Flight(st, 2 * Len(p.got) + 1)
        BY <1>1, <4>1, FlightFacts
      <4>4. QED
        BY <4>1, <4>2, <4>3, FlightFits
    <3>6. QED
      BY <2>4, <2>6, <2>10, <3>1, <3>3, <3>4, <3>5, SayingTaken
  <2>11. CASE ForwardVerbatim(d)
    <3>1. Ask(d, s, "passthrough", d.eap, <<>>)
      BY <2>1, <2>11 DEF ForwardVerbatim
    <3>2. QED
      BY <3>1, <1>4, <2>4, <2>9, AskEnds, <1>1, <1>2 DEF Ends
  <2>12. CASE SendNextFragment(d)
    <3>1. ReplyFragment(d, s, Nil) /\ s.down_outbox # <<>>
      BY <2>1, <2>12 DEF SendNextFragment
    <3>2. s.radius_state # Nil
      BY <2>5, <3>1 DEF Dead
    <3>3. QED
      BY <3>1, <3>2, <2>4, <2>5, <1>1, <1>2, FragmentEnds
  <2>13. CASE SendPendingVerdict(d)
    BY <2>1, <2>5, <2>13 DEF SendPendingVerdict
  <2>14. CASE PollUpstream(d)
    <3>1. Ask(d, Echoed(s), "forward", AckPacket(EchoId(s)), <<>>)
      BY <2>1, <2>14 DEF PollUpstream, AskAck
    <3>2. Echoed(s) \in SessionType /\ Echoed(s).key = KeyOf(d)
      BY <2>4, EchoedSimilar
    <3>3. QED
      BY <3>1, <3>2, <1>4, <2>9, AskEnds, <1>1, <1>2 DEF Ends
  <2>15. CASE AckLocally(d)
    <3>1. PICK id : id = NextId(s.down_next_id)
      OBVIOUS
    <3>2. PICK u : u = [s EXCEPT !.up_reasm = in.reasm, !.down_next_id = id]
      OBVIOUS
    <3>3. Reply(d, u, "challenge", AckPacket(id))
      BY <2>1, <2>6, <2>15, <3>1, <3>2 DEF AckLocally
    <3>4. Reassembling /\ ~IsAck(d.eap) /\ in.verdict = "more"
      BY <2>1, <2>6, <2>15 DEF AckLocally
    <3>5. u.key = KeyOf(d) /\ u.result = Nil /\ u.up_reasm = in.reasm
      BY <2>4, <2>5, <3>2 DEF SessionType
    <3>6. Kept(u)
      <4>1. id \in Identifier
        BY <2>4, <3>1, NextIdType DEF SessionType
      <4>2. QED
        BY <2>4, <2>8, <3>2, <4>1 DEF Kept, KeptBelow, SessionType
    <3>7. Told(f, p, u, AckPacket(id))
      BY <2>10, <3>4, <3>5
    <3>8. QED
      BY <3>3, <3>5, <3>6, <3>7, <1>1, <1>2, ChallengeEnds
  <2>16. CASE ForwardRecord(d)
    <3>1. PICK record : record = in.reasm.buffer
      OBVIOUS
    <3>2. PICK chunks : chunks = Fragment(record, UpstreamFragmentSize)
      OBVIOUS
    <3>3. AskChunk(d, t, chunks, Len(record))
      BY <2>1, <2>6, <2>7, <2>16, <3>1, <3>2 DEF ForwardRecord
    <3>4. PICK eap, rest :
            Ask(d, Echoed(t), "forward", eap, rest) /\ rest = Tail(chunks)
      BY <3>3 DEF AskChunk
    <3>5. Echoed(t) \in SessionType /\ Echoed(t).key = KeyOf(d)
      BY <2>8, EchoedSimilar
    <3>6. record \in Seq(Unit)
      BY <2>8, <3>1 DEF Reassembler
    <3>7. rest \in Seq(Seq(Unit))
      BY <3>2, <3>4, <3>6, FragmentType, FragmentSizeAssumption
    <3>8. QED
      BY <3>4, <3>5, <3>7, <1>4, AskEnds, <1>1, <1>2 DEF Ends
  <2>17. CASE RefuseOversize(d)
    <3>1. Reassembling /\ ~IsAck(d.eap) /\ in.verdict = "error"
      BY <2>1, <2>6, <2>17 DEF RefuseOversize
    <3>2. t.up_reasm = in.reasm
      BY <2>4, <2>7 DEF SessionType
    <3>3. QED
      BY <2>10, <3>1, <3>2
  <2>18. ~ForwardNonTls(d) /\ ~RefuseMalformed(d)
    BY <2>2 DEF IsTls, ForwardNonTls, RefuseMalformed
  <2>19. QED
    BY <2>11, <2>12, <2>13, <2>14, <2>15, <2>16, <2>17, <2>18 DEF Receive
<1>8. QED
  BY <1>6, <1>7

-----------------------------------------------------------------------------
(* Nor does an answer of the server.                                       *)

(* The session s the handler of d is blocked on, with what r tells it.     *)
Informed(s, d, r) ==
  /\ s = Blocked(r) /\ s \in SessionType /\ Kept(s) /\ Current(s, d)
  /\ s.key = KeyOf(d) /\ s.result = Nil
  /\ d = handler.datagram /\ d \in Datagram /\ handler.rest \in Seq(Seq(Unit))

LEMMA ForwardEnds ==
  ASSUME NEW s, NEW d, NEW r, Informed(s, d, r), ForwardNextChunk(r)
  PROVE  Blocks(d)
<1>1. handler.rest # <<>> /\ AskChunk(d, s, handler.rest, Nil)
  BY DEF Informed, ForwardNextChunk
<1>2. PICK rest, eap : rest = Tail(handler.rest) /\ Ask(d, Echoed(s), "forward", eap, rest)
  BY <1>1 DEF AskChunk
<1>3. rest \in Seq(Seq(Unit))
  BY <1>1, <1>2 DEF Informed
<1>4. Echoed(s) \in SessionType /\ Echoed(s).key = KeyOf(d)
  BY EchoedSimilar DEF Informed
<1>5. QED
  BY <1>2, <1>3, <1>4, AskEnds DEF Informed

(* A verdict ends the session, unless chunks of a record are still to be   *)
(* sent.                                                                   *)
LEMMA VerdictAnswerEnds ==
  ASSUME ~IoMayFail, NEW s, NEW d, NEW r, Informed(s, d, r), r.code \in Verdict,
         r.eap \in Packet(Unit), Answer(r)
  PROVE  Blocks(d) \/ Drops(d)
<1>1. r.code # "challenge"
  BY DEF Verdict
<1>2. CASE ForwardNextChunk(r)
  BY <1>2, ForwardEnds
<1>3. CASE Conclude(r)
  <2>1. PICK eap : Reply(d, Stashed(s, r.code, r.eap), r.code, eap)
    BY <1>3 DEF Conclude, Informed
  <2>2. /\ Kept(Stashed(s, r.code, r.eap)) /\ Stashed(s, r.code, r.eap).key = s.key
        /\ Stashed(s, r.code, r.eap).result = r.code
    BY FinishedKept DEF Informed, SamePlace
  <2>3. QED
    BY <2>1, <2>2, VerdictEnds DEF Informed
<1>4. CASE RelayNonTls(r) \/ RelayVerbatim(r)
  <2>1. PICK eap : Reply(d, Finished(s, r.code), r.code, eap)
    BY <1>4 DEF RelayNonTls, RelayVerbatim, Informed
  <2>2. /\ Kept(Finished(s, r.code)) /\ Finished(s, r.code).key = s.key
        /\ Finished(s, r.code).result = r.code
    BY FinishedKept DEF Informed, SamePlace
  <2>3. QED
    BY <2>1, <2>2, VerdictEnds DEF Informed
<1>5. QED
  BY <1>1, <1>2, <1>3, <1>4
     DEF Answer, RelayEmptyChallenge, BreakOffDrain, RefuseUnparsable, PullNextFragment,
         RelayRecord, RefuseOversizeUpstream, IsFragment

(* A challenge in a conversation, if the reassembler has room for it.      *)
LEMMA ChallengeAnswerEnds ==
  ASSUME ~IoMayFail, NEW s, NEW d, NEW r, Informed(s, d, r), r.code = "challenge",
         s.radius_state # Nil, r.eap \in Packet(Unit), r.eap # Nil,
         Settling => /\ r.eap.kind = "tls"
                     /\ Ingest(s.down_reasm, r.eap).verdict # "error",
         NEW f, NEW p, Answer(r)
  PROVE  Ends(f, p, d)
<1>1. r.code \notin Verdict
  BY DEF Verdict
<1>2. PICK in : in = Ingest(s.down_reasm, r.eap)
  OBVIOUS
<1>3. PICK t : t = [s EXCEPT !.down_reasm = in.reasm]
  OBVIOUS
<1>4. in.reasm \in Reassembler(Unit)
  BY <1>2, IngestType DEF Informed, SessionType
<1>5. /\ t \in SessionType /\ Kept(t) /\ t.key = KeyOf(d) /\ t.result = Nil
      /\ t.radius_state = s.radius_state
  <2>1. PICK reasm : reasm = in.reasm
    OBVIOUS
  <2>2. s \in SessionType /\ Kept(s) /\ s.key = KeyOf(d) /\ s.result = Nil
    BY DEF Informed
  <2>3. Fed(t, s, reasm)
    BY <1>2, <1>3, <2>1, <2>2, DownFed
  <2>4. QED
    BY <2>2, <2>3 DEF Fed
<1>6. CASE ForwardNextChunk(r)
  BY <1>6, ForwardEnds DEF Ends
<1>7. CASE PullNextFragment(r)
  <2>1. Ask(d, Echoed(t), "drain", AckPacket(EchoId(t)), <<>>)
    BY <1>2, <1>3, <1>7 DEF PullNextFragment, AskAck, Informed
  <2>2. Echoed(t) \in SessionType /\ Echoed(t).key = KeyOf(d)
    BY <1>5, EchoedSimilar
  <2>3. <<>> \in Seq(Seq(Unit)) /\ d \in Datagram
    BY DEF Informed
  <2>4. Blocks(d)
    BY <2>1, <2>2, <2>3, AskEnds
  <2>5. QED
    BY <2>4 DEF Ends
<1>8. CASE RelayRecord(r)
  <2>1. PICK record : record = in.reasm.buffer
    OBVIOUS
  <2>2. PICK chunks : chunks = Fragment(record, DownstreamFragmentSize)
    OBVIOUS
  <2>3. PICK w : w = [t EXCEPT !.down_outbox = chunks]
    OBVIOUS
  <2>4. ReplyFragment(d, w, Len(record))
    BY <1>2, <1>3, <1>8, <2>1, <2>2, <2>3 DEF RelayRecord, ReplyRecord, Informed
  <2>5. record \in Seq(Unit)
    BY <1>4, <2>1 DEF Reassembler
  <2>6. chunks \in Seq(Seq(Unit)) /\ chunks # <<>>
    BY <2>2, <2>5, FragmentType, FragmentSizeAssumption
  <2>7. w \in SessionType
    BY <1>5, <2>3, <2>6, OutboxKept
  <2>8. /\ w.key = t.key /\ w.result = t.result /\ w.radius_state = t.radius_state
        /\ w.downstream_state = t.downstream_state /\ w.down_outbox = chunks
    BY <1>5, <2>3, <2>6, OutboxKept
  <2>9. Kept(w)
    BY <1>5, <2>7, <2>8 DEF Kept, KeptBelow
  <2>10. QED
    BY <1>5, <2>4, <2>6, <2>8, <2>9, FragmentEnds
<1>9. CASE RelayNonTls(r) \/ RelayVerbatim(r)
  <2>1. PICK eap : Reply(d, s, "challenge", eap)
    BY <1>1, <1>9 DEF RelayNonTls, RelayVerbatim, Informed
  <2>2. QED
    BY <2>1, ChallengeEnds DEF Informed
<1>10. ~RefuseOversizeUpstream(r) /\ ~RefuseUnparsable(r)
  BY DEF RefuseOversizeUpstream, RefuseUnparsable, IsFragment, Informed
<1>11. ~Conclude(r) /\ ~RelayEmptyChallenge(r) /\ ~BreakOffDrain(r)
  BY <1>1 DEF Conclude, RelayEmptyChallenge, BreakOffDrain
<1>12. QED
  BY <1>6, <1>7, <1>8, <1>9, <1>10, <1>11 DEF Answer

(* What the server says next in a conversation announces no more than a    *)
(* flight of its, and carries a State.                                     *)
LEMMA ProceedReply ==
  ASSUME Alphabet, script \in [Stations -> Scripts], FlightsFit,
         NEW st \in Stations, NEW c, server[c] \in Conversation(st),
         NEW q, q.eap \in Packet(Of(st))
  PROVE  /\ LengthFits(Proceed(c, q).reply.eap)
         /\ Proceed(c, q).reply.code = "challenge" =>
              Proceed(c, q).reply.state = <<c, server[c].step + 1>>
<1> DEFINE v == server[c]
           id == NextId(v.id)
           record == v.rx \o q.eap.data
           got == Append(v.got, record)
           flight == Flight(v.st, 2 * Len(got))
           chunks == Fragment(flight, ServerLimit(q.attrs))
           o == Proceed(c, q)
           gathered == [v EXCEPT !.rx = record]
           sent == [v EXCEPT !.tx = Tail(@)]
           heard == [v EXCEPT !.got = got]
           begun == [v EXCEPT !.got = got, !.rx = <<>>, !.tx = Tail(chunks)]
<1>1. Len(flight) <= MaxMessageLen
  <2>1. v.st = st /\ v.rx \in Seq(Of(st)) /\ v.got \in Seq(Seq(Of(st)))
    BY DEF Conversation
  <2>2. q.eap.data \in Seq(Of(st))
    BY DEF Packet
  <2>3. record \in Seq(Of(st))
    BY <2>1, <2>2
  <2>4. Len(got) = Len(v.got) + 1 /\ Len(v.got) \in Nat
    BY <2>1, <2>3
  <2>5. 2 * Len(got) \in Nat \ {0}
    BY <2>4
  <2>6. QED
    BY <2>1, <2>5, FlightFits
<1>2. /\ sent.step = v.step /\ gathered.step = v.step /\ begun.step = v.step
  BY DEF Conversation
<1>3. \/ o = Challenge(c, sent, NextFragment(id, v.tx))
      \/ o = Verdicts(c, v, "accept", v.id) \/ o = Verdicts(c, v, "reject", v.id)
      \/ o = Challenge(c, gathered, AckPacket(id))
      \/ o = Verdicts(c, heard, "reject", v.id)
      \/ o = Challenge(c, begun, FirstFragment(id, flight, chunks))
  <2>1. CASE IsAck(q.eap) /\ v.tx # <<>>
    BY <2>1 DEF Proceed
  <2>2. CASE IsAck(q.eap) /\ v.tx = <<>>
    BY <2>2 DEF Proceed
  <2>3. CASE ~IsAck(q.eap) /\ q.eap.more
    BY <2>3 DEF Proceed
  <2>4. CASE ~IsAck(q.eap) /\ ~q.eap.more /\ record # Flight(v.st, 2 * Len(got) - 1)
    BY <2>4 DEF Proceed
  <2>5. CASE ~IsAck(q.eap) /\ ~q.eap.more /\ record = Flight(v.st, 2 * Len(got) - 1)
    <3>1. o = Challenge(c, begun, FirstFragment(id, flight, chunks))
      BY <2>5 DEF Proceed
    <3>2. QED
      BY <3>1
  <2>6. QED
    BY <2>1, <2>2, <2>3, <2>4, <2>5
<1> HIDE DEF v, id, flight, chunks, o, gathered, sent, heard, begun
<1>4. ASSUME NEW w, NEW code \in {"accept", "reject"}, o = Verdicts(c, w, code, v.id)
      PROVE  o.reply.eap.length = Nil /\ o.reply.code # "challenge"
  <2>1. \A kind : Bare(kind, v.id).length = Nil
    BY DEF Bare
  <2>2. \E kind : o.reply.eap = Bare(kind, v.id)
    BY <1>4 DEF Verdicts
  <2>3. o.reply.code = code
    BY <1>4 DEF Verdicts
  <2>4. QED
    BY <2>1, <2>2, <2>3
<1>5. ASSUME NEW w, w.step = v.step, NEW eap, o = Challenge(c, w, eap),
             eap.length = Nil \/ eap = FirstFragment(id, flight, chunks)
      PROVE  LengthFits(o.reply.eap) /\ o.reply.state = <<c, v.step + 1>>
  <2>1. o.reply.eap = eap /\ o.reply.state = <<c, w.step + 1>>
    BY <1>5 DEF Challenge
  <2>2. LengthFits(FirstFragment(id, flight, chunks))
    BY <1>1 DEF FirstFragment, Frame, LengthFits
  <2>3. QED
    BY <1>5, <2>1, <2>2 DEF LengthFits
<1>6. NextFragment(id, v.tx).length = Nil /\ AckPacket(id).length = Nil
  BY DEF NextFragment, AckPacket, Frame
<1>7. LengthFits(o.reply.eap) /\ (o.reply.code = "challenge" => o.reply.state = <<c, v.step + 1>>)
  BY <1>2, <1>3, <1>4, <1>5, <1>6 DEF LengthFits
<1>8. QED
  BY <1>7 DEF o, v

(* A piece of the server's flight goes on with what has been gathered.     *)
LEMMA DownTaken ==
  ASSUME NEW U, U \subseteq Unit, NEW down \in Seq(U), Len(down) <= MaxMessageLen,
         NEW reasm \in Reassembler(Unit), NEW a \in Nat, Gathers(reasm, down, a),
         NEW b, NEW eap \in Packet(Unit), Piece(down, a, b, eap), LengthFits(eap)
  PROVE  eap.kind = "tls" /\ Ingest(reasm, eap).verdict # "error"
<1>1. a \in 0 .. Len(down) /\ eap.kind = "tls"
  BY DEF Piece
<1>2. Roomy(reasm, a)
  BY <1>1, GathersRoomy
<1>3. eap.length \in Nat \cup {Nil}
  BY DEF Packet
<1>4. QED
  BY <1>1, <1>2, <1>3, PieceTaken

(* A challenge that the proxy, having sent the whole of a record, settles  *)
(* with brings a piece of the server's next flight.                        *)
LEMMA SettlingTaken ==
  ASSUME Alphabet, TestbedInv, FlightsCarryData, FlightsFit, NEW st \in Stations,
         NEW f, NEW p, NEW c, NEW v, NEW q, Talking(st, f, p, c, v, q),
         q.eap \in Packet(Of(st)), NEW s \in SessionType,
         Minds(f, p, s, v, handler, q.eap), handler.rest \in Seq(Seq(Unit)),
         NEW r, server' = Proceed(c, q).server, r = Proceed(c, q).reply,
         r.eap \in Packet(Unit), r.code = "challenge", Settling
  PROVE  r.eap.kind = "tls" /\ Ingest(s.down_reasm, r.eap).verdict # "error"
<1>1. PICK U : U = Of(st)
  OBVIOUS
<1>2. U \subseteq Unit
  BY <1>1, OfUnits
<1>3. PICK x : x = server'[c]
  OBVIOUS
<1>4. PICK up : up = UpFlight(f, p)
  OBVIOUS
<1>5. PICK down : down = DownFlight(f, p)
  OBVIOUS
<1>6. PICK reasm : reasm = s.down_reasm
  OBVIOUS
<1>7. reasm \in Reassembler(Unit)
  BY <1>6 DEF SessionType
<1>8. v \in Conversation(st) /\ v = server[c]
  BY ConversationType DEF TestbedInv, Talking
<1>9. script \in [Stations -> Scripts]
  BY DEF TestbedInv, PeerTypeOK
<1>10. LengthFits(r.eap)
  BY <1>8, <1>9, ProceedReply
<1>11. UnderWay(p) => up \in Seq(U) /\ down \in Seq(U) /\ Len(down) <= MaxMessageLen
  <2>1. p.got \in Seq(Seq(Of(st)))
    BY DEF TestbedInv, PeerTypeOK, Peer, Talking
  <2>2. 2 * Len(p.got) + 2 \in Nat \ {0}
    BY <2>1
  <2>3. Len(Flight(st, 2 * Len(p.got) + 2)) <= MaxMessageLen
    BY <1>9, <2>2, FlightFits
  <2>4. QED
    BY <2>3, <1>1, <1>4, <1>5, TalkingFlights
<1>12. CASE handler.pc = "forward" /\ Forwarding(f, p, s, v, q.eap, handler.rest)
  <2>1. handler.rest = <<>>
    BY <1>12 DEF Settling
  <2>2. /\ Len(v.got) = Len(p.got) /\ v.tx = <<>> /\ StartsRecord(reasm)
    BY <1>6, <1>12 DEF Forwarding
  <2>3. CASE Through(p) /\ IsAck(q.eap)
    <3>1. r = Verdicts(c, v, "accept", v.id).reply
      BY <1>8, <2>2, <2>3, LastAckVerdict
    <3>2. QED
      BY <3>1 DEF Verdicts
  <2>4. ASSUME UnderWay(p), NEW a \in Nat, NEW b \in Nat, Piece(UpFlight(f, p), a, b, q.eap),
               v.rx = Upto(UpFlight(f, p), a),
               handler.rest = CutFrom(UpFlight(f, p), b, UpstreamFragmentSize)
        PROVE  r.eap.kind = "tls" /\ Ingest(reasm, r.eap).verdict # "error"
    <3>1. /\ MovesUp(v, x, r, up, b) \/ MovesRound(v, x, r, up, down, b)
      BY <1>3, <1>4, <1>5, <2>2, <2>4, PieceMoves
    <3>2. ~(b < Len(up))
      <4>1. CutFrom(up, b, UpstreamFragmentSize) = <<>> /\ up \in Seq(U)
        BY <1>4, <1>11, <2>1, <2>4
      <4>2. QED
        BY <4>1, <2>4, NextPiece, FragmentSizeAssumption
    <3>3. \E e : Piece(down, 0, e, r.eap)
      BY <3>1, <3>2 DEF MovesUp, MovesRound
    <3>4. Gathers(reasm, down, 0) /\ 0 \in Nat
      BY <2>2 DEF Gathers
    <3>5. QED
      BY <3>3, <3>4, <1>2, <1>7, <1>10, <1>11, <2>4, DownTaken
  <2>5. QED
    BY <1>6, <1>12, <2>3, <2>4 DEF Forwarding
<1>13. CASE handler.pc = "drain" /\ Draining(f, p, s, v, q.eap)
  <2>1. UnderWay(p) /\ IsAck(q.eap)
    BY <1>13 DEF Draining
  <2>2. PICK a \in Nat \ {0}, k \in Nat \ {0} :
          /\ a < Len(down) /\ Gathers(reasm, down, a) /\ v.tx = CutFrom(down, a, k)
    BY <1>5, <1>6, <1>13 DEF Draining
  <2>3. MovesDown(v, x, r, down, a, k)
    BY <1>3, <1>5, <2>1, <2>2, AckMoves
  <2>4. PICK b : Piece(down, a, b, r.eap)
    BY <2>3 DEF MovesDown
  <2>5. QED
    BY <2>1, <2>2, <2>4, <1>2, <1>6, <1>7, <1>10, <1>11, DownTaken
<1>14. handler.pc \in {"forward", "drain"}
  BY DEF Settling
<1>15. QED
  BY <1>12, <1>13, <1>14 DEF Minds

(* Whatever the server answers, the step leaves nothing behind.            *)
LEMMA AnswerEnds ==
  ASSUME Alphabet, TestbedInv, TunnelInv, FlightsCarryData, FlightsFit, ~IoMayFail,
         handler # Nil, NEW st \in Stations, st = handler.datagram.authenticator[1],
         HandlerFine(Flights(st), peer[st], sessions[handler.key], Talks(st), handler,
                     upstream.eap),
         NEW o \in Outcomes(upstream), server' = o.server, Answer(o.reply)
  PROVE  Ends(Flights(st), peer[st], handler.datagram)
<1>1. PICK f : f = Flights(st)
  OBVIOUS
<1>2. PICK p : p = peer[st]
  OBVIOUS
<1>3. PICK known : known = Talks(st)
  OBVIOUS
<1>4. PICK s : s = sessions[handler.key]
  OBVIOUS
<1>5. PICK d : d = handler.datagram
  OBVIOUS
<1>6. PICK q : q = upstream
  OBVIOUS
<1>7. PICK r : r = o.reply
  OBVIOUS
<1>8. PICK t : t = Blocked(r)
  OBVIOUS
<1>9. /\ r \in ServerReply /\ (r.code = "accept" => r.keyed) /\ r.eap \in Packet(Unit)
  <2>1. Fits(o, upstream, st)
    BY UpstreamOwned
  <2>2. Of(st) \in SUBSET Unit /\ {} \in SUBSET Unit
    BY OfUnits
  <2>3. r.eap \in Packet({}) \/ r.eap \in Packet(Of(st))
    BY <2>1, <1>7 DEF Fits
  <2>4. r.eap \in Packet(Unit)
    BY <2>2, <2>3, Widens
  <2>5. QED
    BY <2>1, <2>4, <1>7 DEF Fits
<1>10. /\ handler \in HandlerType /\ s.key = handler.key /\ s \in SessionType
       /\ q \in UpstreamType /\ q.eap \in Packet(Of(st))
  BY <1>4, <1>6 DEF TestbedInv, ProxyInv, TypeOK, HandlerCoherent, TableCoherent, Owned, HandlerOwned
<1>11. handler.rest \in Seq(Seq(Unit)) /\ d \in Datagram /\ q.attrs \in Attributes
  BY <1>5, <1>10 DEF HandlerType, UpstreamType
<1>12. HandlerFine(f, p, s, known, handler, q.eap)
  BY <1>1, <1>2, <1>3, <1>4, <1>6
<1>13. ServerTypeOK
  BY DEF TestbedInv
<1>14. Learnt(t, s, r) /\ Current(t, d)
  BY <1>4, <1>5, <1>8, <1>9, BlockedFields DEF TestbedInv
<1>15. s.key = KeyOf(d)
  BY <1>5, <1>10, <1>12 DEF HandlerFine
<1>16. s.result = Nil
  <2>1. CASE handler.pc = "non_tls"
    <3>1. KeyOf(d)[1] = "new"
      BY <1>5, <1>12, <2>1 DEF HandlerFine, Introduces, KeyOf
    <3>2. s.key \in DOMAIN sessions
      BY <1>10 DEF TestbedInv, ProxyInv, HandlerCoherent
    <3>3. QED
      BY <3>1, <3>2, <1>4, <1>10, <1>15 DEF TunnelInv, Blank
  <2>2. CASE handler.pc # "non_tls"
    BY <1>12, <2>2 DEF HandlerFine, Dead, Linked
  <2>3. QED
    BY <2>1, <2>2
<1>17. Informed(t, d, r)
  BY <1>5, <1>8, <1>11, <1>14, <1>15, <1>16 DEF Informed, Learnt, Current
<1>18. ASSUME r.code \in Verdict PROVE Ends(f, p, d)
  BY <1>7, <1>9, <1>17, <1>18, VerdictAnswerEnds DEF Ends
<1>19. "accept" \in Verdict /\ "reject" \in Verdict
  BY DEF Verdict
<1>20. CASE /\ handler.pc = "non_tls" /\ Introduces(p, known, d)
            /\ q.eap = d.eap /\ o = Converse(q)
  <2>1. r.code = "challenge" /\ r.state = <<Len(server) + 1, 1>> /\ r.eap.kind = "tls"
    BY <1>7, <1>20 DEF Converse, Challenge, Bare
  <2>2. t.radius_state # Nil
    <3>1. Len(server) + 1 \in Nat /\ 1 \in Nat
      BY <1>13 DEF ServerTypeOK
    <3>2. <<Len(server) + 1, 1>> \in ServerState
      BY <3>1 DEF Alphabet
    <3>3. QED
      BY <3>2, <2>1, <1>14, NoneAssumption DEF Learnt
  <2>3. ~Settling
    BY <1>20 DEF Settling
  <2>4. r.eap # Nil
    BY <1>9, PacketNotNil
  <2>5. QED
    BY <1>1, <1>2, <1>5, <1>7, <1>9, <1>17, <2>1, <2>2, <2>3, <2>4, ChallengeAnswerEnds
<1>21. CASE o = NoSuchConversation(q)
  <2>1. r.code = "reject"
    BY <1>7, <1>21 DEF NoSuchConversation
  <2>2. QED
    BY <2>1, <1>1, <1>2, <1>5, <1>18, <1>19
<1>22. ASSUME handler.pc # "non_tls", NEW c \in DOMAIN known, Linked(s, c, known[c]),
              q.eap.id = known[c].id, Minds(f, p, s, known[c], handler, q.eap),
              \/ o = Proceed(c, q) \/ o = Verdicts(c, known[c], "reject", known[c].id)
       PROVE  Ends(f, p, d)
  <2>1. PICK v : v = known[c]
    OBVIOUS
  <2>2. c \in DOMAIN server /\ server[c].st = st /\ v = server[c]
    BY <1>3, <1>22, <2>1, TalksFacts
  <2>3. Talking(st, f, p, c, v, q)
    BY <1>1, <1>2, <1>11, <1>22, <2>1, <2>2 DEF Talking, Linked
  <2>4. CASE o = Verdicts(c, known[c], "reject", known[c].id)
    <3>1. r.code = "reject"
      BY <1>7, <2>4 DEF Verdicts
    <3>2. QED
      BY <3>1, <1>18, <1>19
  <2>5. CASE o = Proceed(c, q)
    <3>1. server' = Proceed(c, q).server /\ r = Proceed(c, q).reply
      BY <1>7, <2>5
    <3>2. CASE r.code # "challenge"
      BY <1>9, <1>18, <3>2 DEF ServerReply, Verdict
    <3>3. CASE r.code = "challenge"
      <4>1. Settling =>
              r.eap.kind = "tls" /\ Ingest(s.down_reasm, r.eap).verdict # "error"
        BY <1>9, <1>10, <1>11, <1>22, <2>1, <2>3, <3>1, <3>3, SettlingTaken
      <4>2. t.radius_state # Nil
        <5>1. v \in Conversation(st) /\ v.step + 1 \in Nat /\ c \in Nat
          BY <1>13, <2>2, ConversationType DEF Conversation, ServerTypeOK
        <5>2. r.state = <<c, v.step + 1>>
          BY <1>10, <2>2, <3>1, <3>3, <5>1, ProceedReply DEF TestbedInv, PeerTypeOK
        <5>3. <<c, v.step + 1>> \in ServerState
          BY <5>1 DEF Alphabet
        <5>4. QED
          BY <5>2, <5>3, <1>14, NoneAssumption DEF Learnt
      <4>3. r.eap # Nil
        BY <1>9, PacketNotNil
      <4>4. QED
        BY <1>7, <1>9, <1>14, <1>17, <3>3, <4>1, <4>2, <4>3, ChallengeAnswerEnds DEF Learnt
    <3>4. QED
      BY <3>2, <3>3
  <2>6. QED
    BY <1>22, <2>4, <2>5
<1>23. QED
  BY <1>1, <1>2, <1>3, <1>4, <1>5, <1>6, <1>12, <1>20, <1>21, <1>22, HandlersOutcome

-----------------------------------------------------------------------------
(* The account of the sessions nothing refers to.                          *)

LEMMA OrphansFinite ==
  ASSUME Accounted
  PROVE  IsFiniteSet(Orphans) /\ Cardinality(Orphans) \in Nat /\ Orphans \subseteq DOMAIN sessions
<1>1. Orphans \subseteq DOMAIN sessions /\ IsFiniteSet(DOMAIN sessions)
  BY DEF Orphans, Accounted
<1>2. IsFiniteSet(Orphans)
  BY <1>1, FS_Subset
<1>3. QED
  BY <1>1, <1>2, FS_CardinalityType

(* A step that leaves nothing behind, and a fault that leaves one session. *)
LEMMA AccountKept ==
  ASSUME Accounted, Budgeted, NEW k, DOMAIN sessions' \subseteq DOMAIN sessions \cup {k},
         Orphans' \subseteq Orphans, FaultsSeen' = FaultsSeen
  PROVE  Accounted'
<1>1. IsFiniteSet(DOMAIN sessions')
  <2>1. IsFiniteSet(DOMAIN sessions \cup {k})
    BY FS_AddElement DEF Accounted
  <2>2. QED
    BY <2>1, FS_Subset
<1>2. IsFiniteSet(Orphans) /\ Cardinality(Orphans) \in Nat
  BY OrphansFinite
<1>3. Cardinality(Orphans') <= Cardinality(Orphans) /\ Cardinality(Orphans') \in Nat
  BY <1>2, FS_Subset, FS_CardinalityType
<1>4. Cardinality(Orphans) <= FaultsSeen
  BY DEF Accounted
<1>5. FaultsSeen \in Int
  BY BudgetAssumption DEF Budgeted, FaultsSeen
<1>6. QED
  BY <1>1, <1>3, <1>4, <1>5, <1>2 DEF Accounted

LEMMA AccountCharged ==
  ASSUME Accounted, FaultsSeen \in Int, FaultsSeen' = FaultsSeen + 1,
         DOMAIN sessions' \subseteq DOMAIN sessions, NEW k, Orphans' \subseteq Orphans \cup {k}
  PROVE  Accounted'
<1>1. IsFiniteSet(DOMAIN sessions')
  BY FS_Subset DEF Accounted
<1>2. IsFiniteSet(Orphans) /\ Cardinality(Orphans) \in Nat
  BY OrphansFinite
<1>3. /\ IsFiniteSet(Orphans \cup {k})
      /\ Cardinality(Orphans \cup {k}) \in Nat
      /\ Cardinality(Orphans \cup {k}) <= Cardinality(Orphans) + 1
  BY <1>2, FS_AddElement, FS_CardinalityType
<1>4. Cardinality(Orphans') <= Cardinality(Orphans \cup {k}) /\ Cardinality(Orphans') \in Nat
  BY <1>3, FS_Subset, FS_CardinalityType
<1>5. Cardinality(Orphans') <= FaultsSeen'
  BY <1>2, <1>3, <1>4 DEF Accounted
<1>6. QED
  BY <1>1, <1>5 DEF Accounted

LEMMA BudgetKept ==
  ASSUME Budgeted, budget' = budget
  PROVE  Budgeted' /\ FaultsSeen' = FaultsSeen /\ FaultsSeen \in Int
BY BudgetAssumption DEF Budgeted, FaultsSeen

LEMMA BudgetSpent ==
  ASSUME Budgeted, NEW fault \in {"loss", "timeout", "restart"}, Spend(fault)
  PROVE  Budgeted' /\ FaultsSeen' = FaultsSeen + 1 /\ FaultsSeen \in Int
<1>1. \A e \in DOMAIN budget : budget[e] \in Int
  BY DEF Budgeted
<1>2. /\ DOMAIN budget = {"loss", "retransmission", "timeout", "restart", "attempt"}
      /\ budget' = [budget EXCEPT ![fault] = @ - 1]
  BY DEF Budgeted, Spend
<1>3. /\ DOMAIN budget' = DOMAIN budget /\ budget'[fault] = budget[fault] - 1
      /\ \A e \in DOMAIN budget : e # fault => budget'[e] = budget[e]
  BY <1>2
<1>4. \A e \in DOMAIN budget' : budget'[e] \in Int
  BY <1>1, <1>2, <1>3
<1>5. Budgeted'
  BY <1>2, <1>3, <1>4 DEF Budgeted, Spend
<1>6. QED
  BY <1>1, <1>2, <1>3, <1>5, BudgetAssumption DEF FaultsSeen

(* A step that takes no request or reply from a station it does not look   *)
(* at leaves what that says and is told.                                   *)
LEMMA LeavesOthers ==
  ASSUME NEW b \in Stations, script' = script, peer'[b] = peer[b],
         RequestsOf(b)' \subseteq RequestsOf(b), RepliesOf(b)' \subseteq RepliesOf(b),
         \A d \in RequestsOf(b)' : d.state # Nil =>
           \A a : Room(Get(sessions, KeyOf(d)), a) => Room(Get(sessions', KeyOf(d)), a),
         \A m \in RepliesOf(b)' : m.code = "challenge" =>
           \A a : Room(Get(sessions, StateKey(m.state)), a)
                    => Room(Get(sessions', StateKey(m.state)), a),
         AllSaid, AllTold
  PROVE  /\ \A d \in RequestsOf(b)' :
              /\ LengthFits(d.eap)
              /\ d.state # Nil => Saying(Flights(b)', peer'[b], Get(sessions', KeyOf(d)), d.eap)
         /\ \A m \in RepliesOf(b)' :
              m.code = "challenge" =>
                Told(Flights(b)', peer'[b], Get(sessions', StateKey(m.state)), m.eap)
<1>1. Flights(b)' = Flights(b)
  BY FlightsKept
<1>2. ASSUME NEW d \in RequestsOf(b)'
      PROVE  /\ LengthFits(d.eap)
             /\ d.state # Nil => Saying(Flights(b)', peer'[b], Get(sessions', KeyOf(d)), d.eap)
  <2>1. /\ LengthFits(d.eap)
        /\ d.state # Nil => Saying(Flights(b), peer[b], Get(sessions, KeyOf(d)), d.eap)
    BY <1>2 DEF AllSaid
  <2>2. QED
    BY <1>1, <2>1, RoomAlike
<1>3. ASSUME NEW m \in RepliesOf(b)', m.code = "challenge"
      PROVE  Told(Flights(b)', peer'[b], Get(sessions', StateKey(m.state)), m.eap)
  <2>1. Told(Flights(b), peer[b], Get(sessions, StateKey(m.state)), m.eap)
    BY <1>3 DEF AllTold
  <2>2. QED
    BY <1>1, <1>3, <2>1, RoomAlike
<1>4. QED
  BY <1>2, <1>3

(* A step of the handler of d leaves nothing behind.                       *)
LEMMA EndsAccounted ==
  ASSUME Accounted, Budgeted, budget' = budget, NEW d, NEW f, NEW p, Ends(f, p, d),
         handler # Nil => handler.key = KeyOf(d), \A e \in InFlight : e = d \/ e \in InFlight'
  PROVE  Accounted'
<1>1. PICK k : \/ DOMAIN sessions' = DOMAIN sessions \cup {KeyOf(d)} /\ Blocks(d) /\ k = KeyOf(d)
               \/ DOMAIN sessions' = DOMAIN sessions \ {KeyOf(d)} /\ Drops(d)
               \/ /\ DOMAIN sessions' = (DOMAIN sessions \ {KeyOf(d)}) \cup {k}
                  /\ \E m : /\ k = StateKey(m.state) /\ m \in toAp' /\ m.code = "challenge"
                            /\ toAp \subseteq toAp'
  BY DEF Ends, Blocks, Drops, Carry
<1>2. DOMAIN sessions' \subseteq DOMAIN sessions \cup {k}
  BY <1>1
<1>3. ASSUME NEW j \in DOMAIN sessions', ~Claimed(j)' PROVE j \in DOMAIN sessions /\ ~Claimed(j)
  <2>1. j # KeyOf(d) /\ j \in DOMAIN sessions
    <3>1. Claimed(k)' \/ (DOMAIN sessions' = DOMAIN sessions \ {KeyOf(d)} /\ Drops(d))
      BY <1>1 DEF Claimed, Blocks
    <3>2. QED
      BY <3>1, <1>1, <1>3
  <2>2. toAp \subseteq toAp'
    BY <1>1 DEF Blocks, Drops
  <2>3. ~(handler # Nil /\ j = handler.key)
    BY <2>1
  <2>4. ~ \E m \in toAp : m.code = "challenge" /\ j = StateKey(m.state)
    BY <1>3, <2>2 DEF Claimed
  <2>5. ~ \E e \in InFlight : e.state # Nil /\ j = KeyOf(e)
    BY <1>3, <2>1 DEF Claimed
  <2>6. QED
    BY <2>1, <2>3, <2>4, <2>5 DEF Claimed
<1>4. Orphans' \subseteq Orphans
  BY <1>3 DEF Orphans
<1>5. QED
  BY <1>2, <1>4, AccountKept, BudgetKept

LEMMA TurnLeaks ==
  ASSUME Alphabet, TestbedInv, TunnelInv, FlightsCarryData, LeakInv, TunnelInv',
         NEW st \in Stations, NEW d \in Datagram,
         d.authenticator[1] = st, d.state # Nil => Quoting(d.state, st),
         RepliesOf(st) = {}, handler # Nil => handler.key = KeyOf(d),
         \A e \in InFlight : e = d \/ e \in InFlight',
         script' = script, peer' = peer, budget' = budget, RequestsOf(st)' = {},
         \A b \in Stations : RequestsOf(b)' \subseteq RequestsOf(b),
         Turn(Flights(st), peer[st], Talks(st)', d), Ends(Flights(st), peer[st], d)
  PROVE  LeakInv'
<1>1. Accounted' /\ Budgeted'
  BY EndsAccounted, BudgetKept DEF LeakInv
<1>2. \A b : b # st => RepliesOf(b)' = RepliesOf(b)
  BY DEF Turn, RepliesOf
<1>3. ASSUME NEW b \in Stations, b # st
      PROVE  /\ \A q \in RequestsOf(b)' :
                  /\ LengthFits(q.eap)
                  /\ q.state # Nil =>
                       Saying(Flights(b)', peer'[b], Get(sessions', KeyOf(q)), q.eap)
             /\ \A m \in RepliesOf(b)' :
                  m.code = "challenge" =>
                    Told(Flights(b)', peer'[b], Get(sessions', StateKey(m.state)), m.eap)
  <2>1. ASSUME NEW n \in Nat, Quoting(n, b)
        PROVE  Get(sessions', StateKey(n)) = Get(sessions, StateKey(n))
    <3>1. d.state # Nil => d.state \in Nat
      BY DEF Datagram
    <3>2. StateKey(n) \notin {KeyOf(d), StateKey(minted)}
      BY <1>3, <2>1, <3>1, Elsewhere
    <3>3. QED
      BY <3>2 DEF Turn, OnlyAt, Get
  <2>2. ASSUME NEW q \in RequestsOf(b)', q.state # Nil
        PROVE  Get(sessions', KeyOf(q)) = Get(sessions, KeyOf(q))
    <3>1. q \in RequestsOf(b) /\ q \in InFlight /\ q \in Datagram
      BY DEF RequestsOf, TestbedInv, PeerTypeOK, OfStation
    <3>2. q.state \in Nat /\ KeyOf(q) = StateKey(q.state)
      BY <2>2, <3>1 DEF Datagram, KeyOf
    <3>3. Quoting(q.state, b)
      BY <3>1 DEF Quoting, RequestsOf
    <3>4. QED
      BY <2>1, <3>2, <3>3
  <2>3. ASSUME NEW m \in RepliesOf(b)', m.code = "challenge"
        PROVE  Get(sessions', StateKey(m.state)) = Get(sessions, StateKey(m.state))
    <3>1. m \in toAp /\ m.to[1] = b
      BY <1>2, <1>3, <2>3 DEF RepliesOf
    <3>2. m.state \in Nat
      BY <2>3, <3>1 DEF TestbedInv, ProxyInv, TypeOK, ApReplyType, Owned, ChallengesQuote
    <3>3. Quoting(m.state, b)
      BY <3>1 DEF Quoting
    <3>4. QED
      BY <2>1, <3>2, <3>3
  <2>4. RepliesOf(b)' \subseteq RepliesOf(b) /\ RequestsOf(b)' \subseteq RequestsOf(b)
    BY <1>2, <1>3
  <2>5. AllSaid /\ AllTold
    BY DEF LeakInv
  <2>6. /\ \A q \in RequestsOf(b)' : q.state # Nil =>
             \A a : Room(Get(sessions, KeyOf(q)), a) => Room(Get(sessions', KeyOf(q)), a)
        /\ \A m \in RepliesOf(b)' : m.code = "challenge" =>
             \A a : Room(Get(sessions, StateKey(m.state)), a)
                      => Room(Get(sessions', StateKey(m.state)), a)
    BY <2>2, <2>3
  <2>7. QED
    BY <2>4, <2>5, <2>6, LeavesOthers
<1>4. ASSUME NEW m \in RepliesOf(st)', m.code = "challenge"
      PROVE  Told(Flights(st)', peer'[st], Get(sessions', StateKey(m.state)), m.eap)
  <2>1. PICK f : f = Flights(st)
    OBVIOUS
  <2>2. PICK p : p = peer[st]
    OBVIOUS
  <2>3. PICK s : s = Get(sessions', StateKey(m.state))
    OBVIOUS
  <2>4. m \in toAp' /\ m \notin toAp
    BY DEF RepliesOf
  <2>5. ~Dead(s) \/ Told(f, p, s, m.eap)
    <3>1. ~Blocks(d) /\ ~Drops(d)
      BY <1>4, <2>4 DEF Blocks, Drops
    <3>2. PICK n : Carry(f, p, d, n, Get(sessions', StateKey(n.state)))
      BY <2>1, <2>2, <3>1 DEF Ends
    <3>3. n = m
      BY <2>4, <3>2 DEF Carry
    <3>4. QED
      BY <2>3, <3>2, <3>3 DEF Carry
  <2>6. ASSUME ~Dead(s) PROVE Told(f, p, s, m.eap)
    <3>1. Flights(st)' = f /\ peer'[st] = p
      BY <2>1, <2>2, FlightsKept
    <3>2. Course(st)'
      BY DEF TunnelInv
    <3>3. PICK talks : ReplyFine(f, p, s, talks, m)
      BY <2>3, <3>1, <3>2 DEF Course
    <3>4. Challenged(f, p, s, talks, m.eap)
      BY <1>4, <3>3 DEF ReplyFine, Telling
    <3>5. Whole(Of(st), f, p)
      <4>1. p.got \in Seq(Seq(Of(st))) /\ script \in [Stations -> Scripts]
        BY <2>2 DEF TestbedInv, PeerTypeOK, Peer
      <4>2. QED
        BY <4>1, <2>1, FlightFacts DEF Whole
    <3>6. QED
      BY <2>6, <3>4, <3>5, ChallengedTold
  <2>7. Flights(st)' = f /\ peer'[st] = p
    BY <2>1, <2>2, FlightsKept
  <2>8. QED
    BY <2>3, <2>5, <2>6, <2>7
<1>5. AllSaid'
  BY <1>3 DEF AllSaid
<1>6. AllTold'
  BY <1>3, <1>4 DEF AllTold
<1>7. QED
  BY <1>1, <1>5, <1>6 DEF LeakInv

-----------------------------------------------------------------------------
(* Every step keeps the account.                                           *)

LEMMA InboxHead ==
  ASSUME inbox \in Seq(Datagram), inbox # <<>>, inbox' = Tail(inbox)
  PROVE  \A e \in InFlight : e = Head(inbox) \/ e \in InFlight'
<1>1. /\ inbox' \in Seq(Datagram) /\ Len(inbox') = Len(inbox) - 1 /\ Len(inbox) \in Nat \ {0}
  OBVIOUS
<1>2. /\ DOMAIN inbox' = 1 .. Len(inbox) - 1 /\ DOMAIN inbox = 1 .. Len(inbox)
      /\ Head(inbox) = inbox[1]
      /\ \A i \in DOMAIN inbox' : inbox'[i] = inbox[i + 1]
  BY <1>1
<1>3. ASSUME NEW i \in DOMAIN inbox, i # 1 PROVE \E j \in DOMAIN inbox' : inbox'[j] = inbox[i]
  <2>1. i - 1 \in DOMAIN inbox' /\ (i - 1) + 1 = i
    BY <1>1, <1>2, <1>3
  <2>2. QED
    BY <2>1, <1>2
<1>4. QED
  BY <1>2, <1>3 DEF InFlight

LEMMA ProxyStepLeaks ==
  ASSUME Alphabet, TestbedInv, TunnelInv, FlightsCarryData, FlightsFit, ~IoMayFail,
         LeakInv, TunnelInv', ProxyStep
  PROVE  LeakInv'
<1>1. PICK d : d = Head(inbox)
  OBVIOUS
<1>2. PICK st : st = d.authenticator[1]
  OBVIOUS
<1>3. /\ inbox # <<>> /\ Receive(d) /\ inbox' = Tail(inbox)
      /\ script' = script /\ peer' = peer /\ server' = server /\ budget' = budget
  BY <1>1 DEF ProxyStep
<1>4. /\ d \in InFlight
      /\ \A b : RequestsOf(b)' \subseteq RequestsOf(b)
      /\ RequestsOf(st)' = {}
  BY <1>1, <1>2, <1>3, InboxTail DEF TestbedInv, PeerTypeOK, TunnelInv
<1>5. \A e \in InFlight : e = d \/ e \in InFlight'
  BY <1>1, <1>3, InboxHead DEF TestbedInv, PeerTypeOK
<1>6. d \in Datagram /\ st \in Stations /\ d \in RequestsOf(st)
  <2>1. d \in Datagram
    BY <1>4 DEF TestbedInv, PeerTypeOK, OfStation
  <2>2. QED
    BY <2>1, <1>2, <1>4 DEF Datagram, Alphabet, RequestsOf
<1>7. RepliesOf(st) = {}
  BY <1>6 DEF TunnelInv, Course, OneAtATime
<1>8. handler = Nil
  BY <1>3 DEF Receive
<1>9. Turn(Flights(st), peer[st], Talks(st)', d)
  <2>1. Talks(st)' = Talks(st)
    BY <1>3 DEF Talks
  <2>2. QED
    BY <2>1, <1>3, <1>6, ReceiveTurn
<1>10. Ends(Flights(st), peer[st], d)
  BY <1>3, <1>6, ReceiveEnds DEF LeakInv
<1>11. d.state # Nil => Quoting(d.state, st)
  BY <1>2, <1>4 DEF Quoting
<1>12. QED
  BY <1>2, <1>3, <1>4, <1>5, <1>6, <1>7, <1>8, <1>9, <1>10, <1>11, TurnLeaks

LEMMA ServerStepLeaks ==
  ASSUME Alphabet, TestbedInv, TunnelInv, FlightsCarryData, FlightsFit, ~IoMayFail,
         LeakInv, TunnelInv', ServerStep
  PROVE  LeakInv'
<1>1. PICK st : st = handler.datagram.authenticator[1]
  OBVIOUS
<1>2. PICK d : d = handler.datagram
  OBVIOUS
<1>3. PICK o \in Outcomes(upstream) : server' = o.server /\ Answer(o.reply)
  BY DEF ServerStep
<1>4. handler # Nil
  BY <1>3 DEF Answer
<1>5. /\ script' = script /\ peer' = peer /\ inbox' = inbox /\ budget' = budget
  BY DEF ServerStep
<1>6. /\ st \in Stations /\ d \in Datagram /\ d.authenticator[1] = st
      /\ d.state # Nil => Quoting(d.state, st)
      /\ handler.key = KeyOf(d)
      /\ RepliesOf(st) = {} /\ RequestsOf(st) = {}
      /\ HandlerFine(Flights(st), peer[st], sessions[handler.key], Talks(st), handler,
                     upstream.eap)
  BY <1>1, <1>2, <1>4, Blocking
<1>7. Turn(Flights(st), peer[st], Talks(st)', d)
  BY <1>1, <1>2, <1>3, <1>4, <1>6, AnswerTurn
<1>8. Ends(Flights(st), peer[st], d)
  BY <1>1, <1>2, <1>3, <1>4, <1>6, AnswerEnds
<1>9. InFlight' = InFlight /\ \A b : RequestsOf(b)' = RequestsOf(b)
  BY <1>5 DEF RequestsOf, InFlight
<1>10. QED
  BY <1>5, <1>6, <1>7, <1>8, <1>9, TurnLeaks

(* A fault leaves one session behind, a restart none.                      *)
LEMMA FaultLeaks ==
  ASSUME LeakInv, NEW fault \in {"loss", "timeout", "restart"}, Spend(fault),
         script' = script, peer' = peer, toAp' \subseteq toAp,
         \A st \in Stations : RequestsOf(st)' \subseteq RequestsOf(st),
         DOMAIN sessions' \subseteq DOMAIN sessions, NEW k, Orphans' \subseteq Orphans \cup {k},
         \A j, a : Room(Get(sessions, j), a) => Room(Get(sessions', j), a)
  PROVE  LeakInv'
<1>1. Budgeted' /\ Accounted'
  BY BudgetSpent, AccountCharged DEF LeakInv
<1>2. \A st : RepliesOf(st)' \subseteq RepliesOf(st)
  BY DEF RepliesOf
<1>3. ASSUME NEW b \in Stations
      PROVE  /\ \A q \in RequestsOf(b)' :
                  /\ LengthFits(q.eap)
                  /\ q.state # Nil =>
                       Saying(Flights(b)', peer'[b], Get(sessions', KeyOf(q)), q.eap)
             /\ \A m \in RepliesOf(b)' :
                  m.code = "challenge" =>
                    Told(Flights(b)', peer'[b], Get(sessions', StateKey(m.state)), m.eap)
  BY <1>2, LeavesOthers DEF LeakInv
<1>4. AllSaid' /\ AllTold'
  BY <1>3 DEF AllSaid, AllTold
<1>5. QED
  BY <1>1, <1>4 DEF LeakInv

LEMMA LossesLeak ==
  ASSUME TestbedInv, TunnelInv, LeakInv, LoseDatagram \/ LoseReply \/ RestartProxy
  PROVE  LeakInv'
<1>1. CASE LoseDatagram
  <2>1. /\ inbox # <<>> /\ inbox' = Tail(inbox) /\ Spend("loss")
        /\ sessions' = sessions /\ handler' = handler /\ toAp' = toAp
        /\ script' = script /\ peer' = peer
    BY <1>1 DEF LoseDatagram, proxyVars
  <2>2. \A st : RequestsOf(st)' \subseteq RequestsOf(st)
    BY <2>1, InboxTail DEF TestbedInv, PeerTypeOK, TunnelInv
  <2>3. PICK d : d = Head(inbox)
    OBVIOUS
  <2>4. \A e \in InFlight : e = d \/ e \in InFlight'
    BY <2>1, <2>3, InboxHead DEF TestbedInv, PeerTypeOK
  <2>5. \A k : Claimed(k) => Claimed(k)' \/ k = KeyOf(d)
    BY <2>1, <2>4 DEF Claimed
  <2>6. Orphans' \subseteq Orphans \cup {KeyOf(d)}
    BY <2>1, <2>5 DEF Orphans
  <2>7. QED
    BY <2>1, <2>2, <2>6, FaultLeaks
<1>2. CASE LoseReply
  <2>1. PICK m \in toAp : toAp' = toAp \ {m}
    BY <1>2 DEF LoseReply
  <2>2. /\ Spend("loss") /\ sessions' = sessions /\ handler' = handler /\ inbox' = inbox
        /\ script' = script /\ peer' = peer
    BY <1>2 DEF LoseReply
  <2>3. InFlight' = InFlight /\ \A st : RequestsOf(st)' = RequestsOf(st)
    BY <2>2 DEF RequestsOf, InFlight
  <2>4. \A k : Claimed(k) => Claimed(k)' \/ k = StateKey(m.state)
    BY <2>1, <2>2, <2>3 DEF Claimed
  <2>5. Orphans' \subseteq Orphans \cup {StateKey(m.state)}
    BY <2>2, <2>4 DEF Orphans
  <2>6. toAp' \subseteq toAp
    BY <2>1
  <2>7. QED
    BY <2>2, <2>3, <2>5, <2>6, FaultLeaks
<1>3. CASE RestartProxy
  <2>1. /\ Spend("restart") /\ sessions' = <<>> /\ inbox' = inbox /\ toAp' \subseteq toAp
        /\ script' = script /\ peer' = peer
    BY <1>3 DEF RestartProxy, Restart
  <2>2. \A st : RequestsOf(st)' = RequestsOf(st)
    BY <2>1 DEF RequestsOf, InFlight
  <2>3. DOMAIN sessions' = {} /\ \A k : Get(sessions', k) = NewSession(k)
    BY <2>1 DEF Get
  <2>4. Orphans' = {}
    BY <2>3 DEF Orphans
  <2>5. \A k, a : Room(Get(sessions', k), a)
    BY <2>3, RoomNew
  <2>6. QED
    BY <2>1, <2>2, <2>3, <2>4, <2>5, FaultLeaks
<1>4. QED
  BY <1>1, <1>2, <1>3

LEMMA TimeOutLeaks ==
  ASSUME Alphabet, TestbedInv, TunnelInv, LeakInv, TimeOut PROVE LeakInv'
<1>1. PICK s : s = sessions[handler.key]
  OBVIOUS
<1>2. /\ handler # Nil /\ Raise(s) /\ Spend("timeout")
      /\ script' = script /\ peer' = peer /\ inbox' = inbox
  BY <1>1 DEF TimeOut, UpstreamTimeout
<1>3. handler.key \in DOMAIN sessions /\ s.key = handler.key
  BY <1>1, <1>2, Blocking
<1>4. sessions' = Put(sessions, s) /\ toAp' = toAp
  BY <1>2 DEF Raise
<1>5. DOMAIN sessions' = DOMAIN sessions
  BY <1>3, <1>4 DEF Put
<1>6. \A k \in DOMAIN sessions : sessions'[k] = sessions[k]
  BY <1>1, <1>3, <1>4 DEF Put
<1>7. \A k : Get(sessions', k) = Get(sessions, k)
  BY <1>5, <1>6 DEF Get
<1>8. InFlight' = InFlight /\ \A st : RequestsOf(st)' = RequestsOf(st)
  BY <1>2 DEF RequestsOf, InFlight
<1>9. \A k : Claimed(k) => Claimed(k)' \/ k = handler.key
  BY <1>4, <1>8 DEF Claimed
<1>10. Orphans' \subseteq Orphans \cup {handler.key}
  BY <1>5, <1>9 DEF Orphans
<1>11. QED
  BY <1>2, <1>4, <1>5, <1>7, <1>8, <1>10, FaultLeaks

(* A station sends a request, in which what referred to its session goes   *)
(* on.                                                                     *)
LEMMA SentLeaks ==
  ASSUME Alphabet, TestbedInv, TunnelInv, LeakInv, NEW st \in Stations, Apartly(st),
         budget' = budget,
         NEW q \in Peer(st), NEW state \in Nat \cup {Nil}, NEW eap, Speaks(st, state, eap),
         LengthFits(eap), Transmit(st, Sending(st, q, state, eap)),
         state # Nil => Saying(Flights(st), q, Get(sessions, StateKey(state)), eap),
         \A m \in toAp : m.code = "challenge" => m \in toAp' \/ (state # Nil /\ m.state = state)
  PROVE  LeakInv'
<1>1. PICK p : p = Sending(st, q, state, eap)
  OBVIOUS
<1>2. PICK d : d = p.request
  OBVIOUS
<1>3. p \in Peer(st) /\ OfStation(d, st) /\ d.state = state
  BY <1>1, <1>2, SendingType
<1>4. d.eap = eap /\ p.tx = q.tx /\ p.got = q.got
  BY <1>1, <1>2 DEF Sending, Peer
<1>5. DOMAIN peer = Stations /\ peer' = [peer EXCEPT ![st] = p] /\ inbox' = Append(inbox, d)
  BY <1>1, <1>2 DEF Transmit, TestbedInv, PeerTypeOK
<1>6. peer'[st] = p /\ \A b \in Stations : b # st => peer'[b] = peer[b]
  BY <1>5
<1>7. d \in Datagram /\ d.authenticator[1] = st /\ inbox \in Seq(Datagram)
  BY <1>3 DEF OfStation, TestbedInv, PeerTypeOK
<1>8. /\ RequestsOf(st)' = {d}
      /\ \A b : b # st => RequestsOf(b)' = RequestsOf(b)
  BY <1>5, <1>7, InboxAppend DEF Apartly, TunnelInv
<1>9. InFlight' = InFlight \cup {d}
  BY <1>5, <1>7, InFlightAppend
<1>10. /\ Flights(st)' = Flights(st) /\ RepliesOf(st)' = {}
       /\ sessions' = sessions /\ handler' = handler
       /\ \A b : RepliesOf(b)' \subseteq RepliesOf(b)
  BY FlightsKept DEF Apartly, RepliesOf
<1>11. state # Nil => KeyOf(d) = StateKey(state)
  BY <1>3 DEF KeyOf
<1>12. \A k : Claimed(k) => Claimed(k)'
  <2>1. \A k : (\E m \in toAp : m.code = "challenge" /\ k = StateKey(m.state)) => Claimed(k)'
    <3>1. state # Nil => Claimed(StateKey(state))'
      BY <1>3, <1>9, <1>11 DEF Claimed
    <3>2. \A m \in toAp' : m.code = "challenge" => Claimed(StateKey(m.state))'
      BY DEF Claimed
    <3>3. QED
      BY <3>1, <3>2
  <2>2. QED
    BY <2>1, <1>9, <1>10 DEF Claimed
<1>13. Orphans' \subseteq Orphans
  BY <1>10, <1>12 DEF Orphans
<1>14. Accounted' /\ Budgeted'
  <2>1. \A k : DOMAIN sessions' \subseteq DOMAIN sessions \cup {k}
    BY <1>10
  <2>2. QED
    BY <2>1, <1>13, AccountKept, BudgetKept DEF LeakInv
<1>15. ASSUME NEW b \in Stations, b # st
       PROVE  /\ \A e \in RequestsOf(b)' :
                   /\ LengthFits(e.eap)
                   /\ e.state # Nil =>
                        Saying(Flights(b)', peer'[b], Get(sessions', KeyOf(e)), e.eap)
              /\ \A m \in RepliesOf(b)' :
                   m.code = "challenge" =>
                     Told(Flights(b)', peer'[b], Get(sessions', StateKey(m.state)), m.eap)
  <2>1. /\ script' = script /\ peer'[b] = peer[b]
        /\ RequestsOf(b)' \subseteq RequestsOf(b) /\ RepliesOf(b)' \subseteq RepliesOf(b)
    BY <1>6, <1>8, <1>10, <1>15 DEF Apartly
  <2>2. QED
    BY <1>10, <2>1, LeavesOthers DEF LeakInv
<1>16. ASSUME state # Nil
       PROVE  Saying(Flights(st)', peer'[st], Get(sessions', KeyOf(d)), d.eap)
  <2>1. PICK f : f = Flights(st)
    OBVIOUS
  <2>2. PICK s : s = Get(sessions, StateKey(state))
    OBVIOUS
  <2>3. Saying(f, q, s, eap)
    BY <1>16, <2>1, <2>2
  <2>4. /\ UpFlight(f, p) = UpFlight(f, q)
        /\ UnderWay(p) <=> UnderWay(q)
    BY <1>4 DEF UpFlight, UnderWay
  <2>5. Saying(f, p, s, eap)
    BY <1>4, <2>3, <2>4 DEF Saying
  <2>6. QED
    BY <1>4, <1>6, <1>10, <1>11, <1>16, <2>1, <2>2, <2>5
<1>17. AllSaid'
  BY <1>3, <1>4, <1>8, <1>15, <1>16 DEF AllSaid
<1>18. AllTold'
  BY <1>10, <1>15 DEF AllTold
<1>19. QED
  BY <1>14, <1>17, <1>18 DEF LeakInv

(* Nothing is sent, and the verdict that referred to no session is gone.   *)
LEMMA TakenLeaks ==
  ASSUME LeakInv, NEW st \in Stations, Apartly(st), budget' = budget, inbox' = inbox,
         \A b \in Stations : b # st => peer'[b] = peer[b],
         \A m \in toAp : m.code = "challenge" => m \in toAp'
  PROVE  LeakInv'
<1>1. InFlight' = InFlight /\ \A b : RequestsOf(b)' = RequestsOf(b)
  BY DEF RequestsOf, InFlight
<1>2. /\ sessions' = sessions /\ handler' = handler
      /\ RequestsOf(st)' = {} /\ RepliesOf(st)' = {}
      /\ \A b : RepliesOf(b)' \subseteq RepliesOf(b)
  BY <1>1 DEF Apartly, RepliesOf
<1>3. \A k : Claimed(k) => Claimed(k)'
  BY <1>1, <1>2 DEF Claimed
<1>4. Orphans' \subseteq Orphans
  BY <1>2, <1>3 DEF Orphans
<1>5. Accounted' /\ Budgeted'
  <2>1. \A k : DOMAIN sessions' \subseteq DOMAIN sessions \cup {k}
    BY <1>2
  <2>2. QED
    BY <2>1, <1>4, AccountKept, BudgetKept DEF LeakInv
<1>6. ASSUME NEW b \in Stations, b # st
      PROVE  /\ \A e \in RequestsOf(b)' :
                  /\ LengthFits(e.eap)
                  /\ e.state # Nil =>
                       Saying(Flights(b)', peer'[b], Get(sessions', KeyOf(e)), e.eap)
             /\ \A m \in RepliesOf(b)' :
                  m.code = "challenge" =>
                    Told(Flights(b)', peer'[b], Get(sessions', StateKey(m.state)), m.eap)
  <2>1. /\ script' = script /\ peer'[b] = peer[b]
        /\ RequestsOf(b)' \subseteq RequestsOf(b) /\ RepliesOf(b)' \subseteq RepliesOf(b)
    BY <1>1, <1>2, <1>6 DEF Apartly
  <2>2. QED
    BY <1>2, <2>1, LeavesOthers DEF LeakInv
<1>7. AllSaid' /\ AllTold'
  BY <1>2, <1>6 DEF AllSaid, AllTold
<1>8. QED
  BY <1>5, <1>7 DEF LeakInv

LEMMA TakeReplyLeaks ==
  ASSUME Alphabet, TestbedInv, TunnelInv, FlightsCarryData, FlightsFit, LeakInv,
         NEW st \in Stations, NEW m \in toAp, TakeReply(st, m)
  PROVE  LeakInv'
<1>1. Apartly(st)
  BY ReplyApart
<1>2. PICK f : f = Flights(st)
  OBVIOUS
<1>3. PICK p : p = peer[st]
  OBVIOUS
<1>4. PICK talks : talks = Talks(st)
  OBVIOUS
<1>5. PICK s : s = Get(sessions, StateKey(m.state))
  OBVIOUS
<1>6. /\ m.to[1] = st /\ m \in RepliesOf(st) /\ toAp' = toAp \ {m} /\ budget' = budget
      /\ \/ Respond(st, m) \/ TakeVerdict(st, m)
         \/ Useless(st, m) /\ peer' = peer /\ inbox' = inbox
  BY DEF TakeReply, RepliesOf
<1>7. ReplyFine(f, p, s, talks, m)
  BY <1>2, <1>3, <1>4, <1>5, <1>6 DEF TunnelInv, Course
<1>8. DOMAIN peer = Stations /\ p \in Peer(st) /\ script \in [Stations -> Scripts]
  BY <1>3 DEF TestbedInv, PeerTypeOK
<1>9. CASE m.code = "challenge"
  <2>1. Told(f, p, s, m.eap)
    BY <1>2, <1>3, <1>5, <1>6, <1>9 DEF LeakInv, AllTold
  <2>2. Whole(Of(st), f, p)
    <3>1. p.got \in Seq(Seq(Of(st)))
      BY <1>8 DEF Peer
    <3>2. QED
      BY <3>1, <1>2, <1>8, FlightFacts DEF Whole
  <2>3. ~Useless(st, m) /\ ~AnswerAgain(st, m) /\ ~TakeVerdict(st, m)
    BY <1>3, <1>7, <1>9, <2>1, <2>2, NeverUseless
  <2>4. AnswerStart(st, m) \/ AnswerAck(st, m) \/ AnswerData(st, m)
    BY <1>6, <2>3 DEF Respond
  <2>5. Challenged(f, p, s, talks, m.eap) /\ m.eap # Nil
    BY <1>7, <1>9 DEF ReplyFine, Telling
  <2>6. m.eap \in Packet(Of(st))
    BY <1>6, <2>5 DEF TestbedInv, Owned, RepliesOwned
  <2>7. Says(st, f, s, m)
    BY <1>2, <1>3, <1>8, <2>1, <2>4, <2>5, <2>6, ChallengeSays
  <2>8. PICK q \in Peer(st), eap \in Packet(Of(st)) :
          /\ eap.kind = "tls" /\ LengthFits(eap) /\ Saying(f, q, s, eap)
          /\ Transmit(st, Sending(st, q, m.state, eap))
    BY <2>7 DEF Says
  <2>9. m.state \in Nat
    BY <1>9 DEF TestbedInv, ProxyInv, TypeOK, ApReplyType, Owned, ChallengesQuote
  <2>10. m.state # Nil /\ m.state \in Nat \cup {Nil}
    BY <2>9, NilAssumption
  <2>11. Speaks(st, m.state, eap)
    BY <2>8, <2>10 DEF Speaks
  <2>12. \A n \in toAp : n.code = "challenge" => n \in toAp' \/ (m.state # Nil /\ n.state = m.state)
    BY <1>6, <2>10
  <2>13. QED
    BY <1>1, <1>2, <1>5, <1>6, <2>8, <2>10, <2>11, <2>12, SentLeaks
<1>10. CASE m.code # "challenge"
  <2>1. inbox' = inbox /\ \A b \in Stations : b # st => peer'[b] = peer[b]
    BY <1>6, <1>8, <1>10 DEF Respond, TakeVerdict
  <2>2. \A n \in toAp : n.code = "challenge" => n \in toAp'
    BY <1>6, <1>10
  <2>3. QED
    BY <1>1, <1>6, <2>1, <2>2, TakenLeaks
<1>11. QED
  BY <1>9, <1>10

LEMMA StartLeaks ==
  ASSUME Alphabet, TestbedInv, TunnelInv, LeakInv, NEW st \in Stations, Start(st)
  PROVE  LeakInv'
<1>1. /\ peer[st].status = "off" /\ Begin(st, NewPeer)
      /\ sessions' = sessions /\ handler' = handler /\ upstream' = upstream /\ toAp' = toAp
      /\ script' = script /\ server' = server /\ budget' = budget
  BY DEF Start, proxyVars
<1>2. Course(st)
  BY DEF TunnelInv
<1>3. RequestsOf(st) = {} /\ RepliesOf(st) = {} /\ ~Handles(st)
  <2>1. ~ \E d \in RequestsOf(st) : TRUE
    BY <1>1, <1>2 DEF Course, RequestFine, Requesting
  <2>2. ~ \E m \in RepliesOf(st) : TRUE
    BY <1>1, <1>2 DEF Course, ReplyFine
  <2>3. ~Handles(st)
    BY <1>1, <1>2 DEF Course, HandlerFine, Requesting
  <2>4. QED
    BY <2>1, <2>2, <2>3
<1>4. NoRepeats' /\ RepliesOf(st)' = {}
  BY <1>1, <1>3 DEF TunnelInv, NoRepeats, RepliesOf
<1>5. Apartly(st)
  BY <1>1, <1>3, <1>4 DEF Apartly
<1>6. PICK b : \E id \in FirstIds : b = Bare("other", id)
                /\ Transmit(st, Sending(st, NewPeer, Nil, [b EXCEPT !.data = <<<<st, 0, 0>>>>]))
  BY <1>1 DEF Begin
<1>7. PICK data : data = <<<<st, 0, 0>>>>
  OBVIOUS
<1>8. PICK eap : eap = [b EXCEPT !.data = data]
  OBVIOUS
<1>9. data \in Seq(Of(st)) /\ data # <<>> /\ data[1][1] = st
  BY <1>7 DEF Of
<1>10. eap \in Packet(Of(st)) /\ eap.kind = "other" /\ eap.data = data /\ eap.length = Nil
  <2>1. PICK id \in FirstIds : b = Bare("other", id)
    BY <1>6
  <2>2. id \in Identifier
    BY TestbedAssumption
  <2>3. b \in Packet(Of(st)) /\ b.kind = "other" /\ b.length = Nil
    <3>1. <<>> \in Seq(Of(st))
      OBVIOUS
    <3>2. QED
      BY <2>1, <2>2, <3>1 DEF Bare, Packet, Kind
  <2>4. QED
    BY <1>8, <1>9, <2>3 DEF Packet
<1>11. Speaks(st, Nil, eap) /\ Transmit(st, Sending(st, NewPeer, Nil, eap))
  BY <1>6, <1>7, <1>8, <1>9, <1>10 DEF Speaks
<1>12. NewPeer \in Peer(st)
  <2>1. <<>> \in Seq(Seq(Of(st))) /\ <<>> \in Seq(Of(st))
    OBVIOUS
  <2>2. QED
    BY <2>1 DEF NewPeer, Peer
<1>13. Nil \in Nat \cup {Nil} /\ LengthFits(eap)
  BY <1>10 DEF LengthFits
<1>14. \A m \in toAp : m \in toAp'
  BY <1>1
<1>15. QED
  BY <1>1, <1>5, <1>11, <1>12, <1>13, <1>14, SentLeaks

LEMMA StutterLeaks == ASSUME TunnelInv, LeakInv, UNCHANGED vars PROVE LeakInv'
<1>1. /\ sessions' = sessions /\ handler' = handler /\ toAp' = toAp /\ inbox' = inbox
      /\ script' = script /\ peer' = peer /\ budget' = budget
  BY DEF vars
<1>2. InFlight' = InFlight /\ \A st : RequestsOf(st)' = RequestsOf(st)
  BY <1>1 DEF RequestsOf, InFlight
<1>3. \A st : RepliesOf(st)' = RepliesOf(st)
  BY <1>1 DEF RepliesOf
<1>4. Orphans' = Orphans
  BY <1>1, <1>2 DEF Orphans, Claimed
<1>5. Budgeted' /\ Accounted'
  <2>1. \A k : DOMAIN sessions' \subseteq DOMAIN sessions \cup {k}
    BY <1>1
  <2>2. QED
    BY <1>1, <1>4, <2>1, AccountKept, BudgetKept DEF LeakInv
<1>6. ASSUME NEW b \in Stations
      PROVE  /\ \A d \in RequestsOf(b)' :
                  /\ LengthFits(d.eap)
                  /\ d.state # Nil =>
                       Saying(Flights(b)', peer'[b], Get(sessions', KeyOf(d)), d.eap)
             /\ \A m \in RepliesOf(b)' :
                  m.code = "challenge" =>
                    Told(Flights(b)', peer'[b], Get(sessions', StateKey(m.state)), m.eap)
  BY <1>1, <1>2, <1>3, LeavesOthers DEF LeakInv
<1>7. AllSaid' /\ AllTold'
  BY <1>6 DEF AllSaid, AllTold
<1>8. QED
  BY <1>5, <1>7 DEF LeakInv

LEMMA LeakNext ==
  ASSUME Alphabet, FlightsCarryData, FlightsFit, ~IoMayFail, TestbedInv, TunnelInv, LeakInv,
         [Next]_vars
  PROVE  LeakInv'
<1>1. TunnelInv'
  BY TunnelNext
<1>2. \A st : ~Retry(st) /\ ~Retransmit(st)
  BY NothingRepeats DEF TunnelInv
<1>3. ASSUME NEW st \in Stations, PeerStep(st) PROVE LeakInv'
  BY <1>2, <1>3, StartLeaks, TakeReplyLeaks DEF PeerStep
<1>4. CASE Fault
  BY <1>2, <1>4, LossesLeak, TimeOutLeaks DEF Fault
<1>5. CASE UNCHANGED vars
  BY <1>5, StutterLeaks
<1>6. QED
  BY <1>1, <1>3, <1>4, <1>5, ProxyStepLeaks, ServerStepLeaks DEF Next, System, Stop

LEMMA LeakInit == ASSUME Init PROVE LeakInv
<1>1. sessions = <<>> /\ handler = Nil /\ toAp = {} /\ inbox = <<>>
  BY DEF Init, ProxyInit
<1>2. budget = [loss |-> MaxLosses, retransmission |-> MaxRetransmissions,
                timeout |-> MaxTimeouts, restart |-> MaxRestarts, attempt |-> MaxAttempts]
  BY DEF Init
<1>3. Budgeted /\ FaultsSeen = 0
  BY <1>2, BudgetAssumption DEF Budgeted, FaultsSeen
<1>4. DOMAIN sessions = {} /\ Orphans = {}
  BY <1>1 DEF Orphans
<1>5. Accounted
  BY <1>3, <1>4, FS_EmptySet DEF Accounted
<1>6. \A st : RequestsOf(st) = {} /\ RepliesOf(st) = {}
  BY <1>1 DEF RequestsOf, InFlight, RepliesOf
<1>7. AllSaid /\ AllTold
  BY <1>6 DEF AllSaid, AllTold
<1>8. QED
  BY <1>3, <1>5, <1>7 DEF LeakInv

(* When nothing is under way, the table holds no more sessions than there  *)
(* have been losses, timeouts and restarts, however many authentications   *)
(* there were: a session is dropped with its verdict or re-keyed with its  *)
(* next challenge, and no handler ends in a reply that leaves one behind   *)
(* (the drop at the end of _handle_datagram, rekey()).  For flights a      *)
(* reassembler has room for, an access point that repeats no request,      *)
(* stations that begin once and sockets that do not fail.                  *)
THEOREM LeaksAreBounded ==
  ASSUME Alphabet, FlightsCarryData, FlightsFit, NothingRepeated, ~IoMayFail
  PROVE  Spec => []LeaksBounded
<1>1. Init => TestbedInv /\ TunnelInv /\ LeakInv
  BY TestbedInitInv, TunnelInit, LeakInit
<1>2. TestbedInv /\ TunnelInv /\ LeakInv /\ [Next]_vars => (TestbedInv /\ TunnelInv /\ LeakInv)'
  <2>1. SUFFICES ASSUME TestbedInv, TunnelInv, LeakInv, [Next]_vars
                 PROVE  TestbedInv' /\ TunnelInv' /\ LeakInv'
    OBVIOUS
  <2>2. TestbedInv'
    BY <2>1, TestbedNextInv
  <2>3. TunnelInv'
    BY <2>1, TunnelNext
  <2>4. LeakInv'
    BY <2>1, LeakNext
  <2>5. QED
    BY <2>2, <2>3, <2>4
<1>3. LeakInv => LeaksBounded
  <2>1. SUFFICES ASSUME LeakInv, Quiet PROVE Cardinality(DOMAIN sessions) <= FaultsSeen
    BY DEF LeaksBounded
  <2>2. \A k : ~Claimed(k)
    BY <2>1 DEF Quiet, Claimed, InFlight
  <2>3. Orphans = DOMAIN sessions
    BY <2>2 DEF Orphans
  <2>4. QED
    BY <2>1, <2>3 DEF LeakInv, Accounted
<1>4. QED
  BY <1>1, <1>2, <1>3, PTL DEF Spec

-----------------------------------------------------------------------------
(* Natural numbers: a set of them that has 0 and with every number the     *)
(* next has all.                                                           *)
LEMMA AllNaturals ==
  ASSUME NEW S, 0 \in S, \A n \in Nat : n \in S => n + 1 \in S
  PROVE  Nat \subseteq S
<1>1. SUFFICES ASSUME Nat \ S # {} PROVE FALSE
  OBVIOUS
<1>2. PICK R : R = {ss \in Nat \X Nat : ss[1] < ss[2]}
  OBVIOUS
<1>3. IsWellFoundedOn(R, Nat)
  BY <1>2, NatLessThanWellFounded DEF OpToRel
<1>4. Nat \ S \subseteq Nat
  OBVIOUS
<1>5. PICK x \in Nat \ S : \A y \in Nat \ S : ~(<<y, x>> \in R)
  BY <1>1, <1>3, <1>4, WFMin
<1>6. x - 1 \in Nat /\ x - 1 < x
  BY <1>5
<1>7. <<x - 1, x>> \in R
  BY <1>2, <1>5, <1>6
<1>8. x - 1 \in S
  BY <1>5, <1>6, <1>7
<1>9. QED
  BY <1>5, <1>6, <1>8

(* There are the partial sums of a series of integers.                     *)
Sums(n, cost) ==
  {f \in [0 .. n -> Int] : f[0] = 1 /\ \A i \in 1 .. n : f[i] = f[i - 1] + cost[i]}

LEMMA SumsExist ==
  ASSUME NEW n \in Nat, NEW cost \in [1 .. n -> Int] PROVE Sums(n, cost) # {}
<1>1. PICK S : S = {i \in Nat : i <= n => Sums(i, cost) # {}}
  OBVIOUS
<1>2. 0 \in S
  <2>1. [j \in 0 .. 0 |-> 1] \in Sums(0, cost)
    BY DEF Sums
  <2>2. QED
    BY <1>1, <2>1
<1>3. ASSUME NEW i \in Nat, i \in S PROVE i + 1 \in S
  <2>1. SUFFICES ASSUME i + 1 <= n PROVE Sums(i + 1, cost) # {}
    BY <1>1
  <2>2. PICK f \in Sums(i, cost) : TRUE
    BY <1>1, <1>3, <2>1
  <2>3. /\ f \in [0 .. i -> Int] /\ f[0] = 1
        /\ \A j \in 1 .. i : f[j] = f[j - 1] + cost[j]
    BY <2>2 DEF Sums
  <2>4. PICK g : g = [j \in 0 .. i + 1 |-> IF j = i + 1 THEN f[i] + cost[j] ELSE f[j]]
    OBVIOUS
  <2>5. f[i] \in Int /\ cost[i + 1] \in Int
    BY <2>1, <2>3
  <2>6. g \in [0 .. i + 1 -> Int]
    BY <2>3, <2>4, <2>5
  <2>7. g[0] = 1 /\ g[i + 1] = g[i + 1 - 1] + cost[i + 1]
    BY <2>3, <2>4
  <2>8. ASSUME NEW j \in 1 .. i PROVE g[j] = g[j - 1] + cost[j]
    BY <2>3, <2>4
  <2>9. g \in Sums(i + 1, cost)
    <3>1. \A j \in 1 .. i + 1 : j = i + 1 \/ j \in 1 .. i
      OBVIOUS
    <3>2. \A j \in 1 .. i + 1 : g[j] = g[j - 1] + cost[j]
      BY <2>7, <2>8, <3>1
    <3>3. QED
      BY <2>6, <2>7, <3>2 DEF Sums
  <2>10. QED
    BY <2>9
<1>4. n \in S
  BY <1>2, <1>3, AllNaturals
<1>5. QED
  BY <1>1, <1>4

LEMMA TripsSum ==
  ASSUME NEW sizes, \A i \in 1 .. FlightCount : Cost(i, sizes[i]) \in Int
  PROVE  /\ TripsAfter(sizes) \in [0 .. FlightCount -> Int]
         /\ TripsAfter(sizes)[0] = 1
         /\ \A i \in 1 .. FlightCount :
              TripsAfter(sizes)[i] = TripsAfter(sizes)[i - 1] + Cost(i, sizes[i])
<1>1. PICK cost : cost = [i \in 1 .. FlightCount |-> Cost(i, sizes[i])]
  OBVIOUS
<1>2. FlightCount \in Nat /\ cost \in [1 .. FlightCount -> Int]
  BY <1>1, TestbedAssumption
<1>3. PICK f \in Sums(FlightCount, cost) : TRUE
  BY <1>2, SumsExist
<1> DEFINE Steps(g) == [i \in 0 .. FlightCount |->
                          IF i = 0 THEN 1 ELSE g[i - 1] + Cost(i, sizes[i])]
           trips == CHOOSE g : g = Steps(g)
<1>4. /\ f \in [0 .. FlightCount -> Int] /\ f[0] = 1
      /\ \A i \in 1 .. FlightCount : f[i] = f[i - 1] + Cost(i, sizes[i])
  BY <1>1, <1>3 DEF Sums
<1>5. f = Steps(f)
  BY <1>2, <1>4
<1>6. trips = Steps(trips)
  BY <1>5
<1>7. TripsAfter(sizes) = trips
  BY DEF TripsAfter
<1> HIDE DEF trips
<1>8. /\ trips[0] = 1
      /\ \A i \in 1 .. FlightCount : trips[i] = trips[i - 1] + Cost(i, sizes[i])
      /\ DOMAIN trips = 0 .. FlightCount
  BY <1>2, <1>6
<1>9. \A i \in 0 .. FlightCount : trips[i] \in Int
  <2>1. PICK S : S = {i \in Nat : i <= FlightCount => trips[i] \in Int}
    OBVIOUS
  <2>2. 0 \in S
    BY <1>8, <2>1
  <2>3. ASSUME NEW i \in Nat, i \in S PROVE i + 1 \in S
    <3>1. SUFFICES ASSUME i + 1 <= FlightCount PROVE trips[i + 1] \in Int
      BY <2>1
    <3>2. trips[i] \in Int /\ i + 1 \in 1 .. FlightCount /\ i + 1 - 1 = i
      BY <1>2, <2>1, <2>3, <3>1
    <3>3. trips[i + 1] = trips[i] + Cost(i + 1, sizes[i + 1])
      BY <1>8, <3>2
    <3>4. QED
      BY <3>2, <3>3
  <2>4. Nat \subseteq S
    BY <2>2, <2>3, AllNaturals
  <2>5. QED
    BY <1>2, <2>1, <2>4
<1>10. trips \in [0 .. FlightCount -> Int]
  <2>1. trips = [i \in 0 .. FlightCount |-> trips[i]]
    BY <1>6, <1>8
  <2>2. QED
    BY <1>9, <2>1
<1>11. QED
  BY <1>7, <1>8, <1>10

-----------------------------------------------------------------------------
(* How full the packets are.                                               *)

(* All fragments but the last are as big as the limit allows.              *)
Full(eap, size) == Len(eap.data) <= size /\ (eap.more => Len(eap.data) = size)
Even(chunks, size) ==
  \A i \in DOMAIN chunks : Len(chunks[i]) <= size /\ (i < Len(chunks) => Len(chunks[i]) = size)

LEMMA EvenHead ==
  ASSUME NEW U, NEW chunks \in Seq(Seq(U)), chunks # <<>>, NEW size \in Nat, Even(chunks, size)
  PROVE  /\ \A id, length : Full(Frame(id, length, Len(chunks) > 1, Head(chunks)), size)
         /\ Even(Tail(chunks), size)
<1>1. 1 \in DOMAIN chunks /\ Head(chunks) = chunks[1] /\ Len(chunks) \in Nat
  OBVIOUS
<1>2. \A id, length : Full(Frame(id, length, Len(chunks) > 1, Head(chunks)), size)
  BY <1>1 DEF Full, Frame, Even
<1>3. Len(Tail(chunks)) = Len(chunks) - 1
  OBVIOUS
<1>4. \A i \in DOMAIN Tail(chunks) :
        i + 1 \in DOMAIN chunks /\ Tail(chunks)[i] = chunks[i + 1] /\ i \in Nat
  OBVIOUS
<1>5. Even(Tail(chunks), size)
  <2>1. SUFFICES ASSUME NEW i \in DOMAIN Tail(chunks)
                 PROVE  /\ Len(Tail(chunks)[i]) <= size
                        /\ i < Len(Tail(chunks)) => Len(Tail(chunks)[i]) = size
    BY DEF Even
  <2>2. i + 1 \in DOMAIN chunks /\ Tail(chunks)[i] = chunks[i + 1] /\ i \in Nat
    BY <1>4
  <2>3. i < Len(Tail(chunks)) => i + 1 < Len(chunks)
    BY <1>1, <1>3, <2>2
  <2>4. Len(chunks[i + 1]) <= size /\ (i + 1 < Len(chunks) => Len(chunks[i + 1]) = size)
    BY <2>2 DEF Even
  <2>5. QED
    BY <2>2, <2>3, <2>4
<1>6. QED
  BY <1>2, <1>5

LEMMA CutEven ==
  ASSUME NEW U, NEW record \in Seq(U), record # <<>>, NEW size \in Nat \ {0}
  PROVE  Even(Fragment(record, size), size)
<1>1. PICK chunks : chunks = Fragment(record, size)
  OBVIOUS
<1>2. PICK len : len = Len(record)
  OBVIOUS
<1>3. len \in Nat \ {0}
  <2>1. len \in Nat /\ (len = 0 => record = <<>>)
    BY <1>2, EmptySeq
  <2>2. QED
    BY <2>1
<1>4. PICK n : n = ChunkCount(len, size)
  OBVIOUS
<1>5. n \in Nat \ {0}
  BY <1>3, <1>4, ChunkCountBounds
<1>6. /\ chunks \in Seq(Seq(U)) /\ Len(chunks) = n
      /\ \A i \in DOMAIN chunks : Len(chunks[i]) \in 1 .. size
  BY <1>1, <1>2, <1>4, FragmentChunks
<1>7. DOMAIN chunks = 1 .. n
  BY <1>6
<1>8. ASSUME NEW i \in 1 .. n, i < n PROVE Len(chunks[i]) = size
  <2>1. PICK from : from = (i - 1) * size
    OBVIOUS
  <2>2. i + 1 \in 1 .. n /\ i + 1 - 1 = i
    BY <1>5, <1>8
  <2>3. i * size < len
    BY <1>3, <1>4, <2>2, ChunkBounds
  <2>4. from \in Nat /\ from < len
    BY <1>3, <1>4, <1>8, <2>1, ChunkBounds
  <2>5. i * size = from + size
    BY <2>1
  <2>6. Smaller(i * size, len) = from + size
    BY <2>3, <2>5 DEF Smaller
  <2>7. chunks[i] = SubSeq(record, from + 1, from + size)
    BY <1>1, <1>2, <1>4, <1>8, <2>1, <2>6 DEF Fragment
  <2>8. from + size \in 0 .. Len(record) /\ from \in 0 .. from + size
    BY <1>2, <1>3, <2>3, <2>4, <2>5
  <2>9. PICK to : to = from + size
    OBVIOUS
  <2>10. to \in 0 .. Len(record) /\ from \in 0 .. to
    BY <2>8, <2>9
  <2>11. Len(SubSeq(record, from + 1, to)) = to - from
    BY <2>10, UptoParts
  <2>12. QED
    BY <2>4, <2>7, <2>9, <2>11
<1>9. QED
  BY <1>1, <1>6, <1>7, <1>8 DEF Even

LEMMA FragmentEven ==
  ASSUME NEW U, NEW record \in Seq(U), NEW size \in Nat \ {0}
  PROVE  Even(Fragment(record, size), size)
<1>1. CASE record = <<>>
  <2>1. Len(record) = 0 /\ 0 <= size
    BY <1>1
  <2>2. ChunkCount(0, size) = 1 /\ Smaller(1 * size, 0) = 0
    BY DEF ChunkCount, Smaller
  <2>3. DOMAIN Fragment(record, size) = 1 .. 1 /\ Len(Fragment(record, size)) = 1
    BY <2>1, <2>2 DEF Fragment
  <2>4. (1 - 1) * size + 1 = 1
    OBVIOUS
  <2>5. Fragment(record, size)[1] = SubSeq(record, 1, 0)
    BY <2>1, <2>2, <2>4 DEF Fragment
  <2>6. Len(SubSeq(record, 1, 0)) = 0
    BY <1>1
  <2>7. SUFFICES ASSUME NEW i \in DOMAIN Fragment(record, size)
                 PROVE  /\ Len(Fragment(record, size)[i]) <= size
                        /\ ~(i < Len(Fragment(record, size)))
    BY DEF Even
  <2>8. i = 1
    BY <2>3
  <2>9. QED
    BY <2>1, <2>3, <2>5, <2>6, <2>8
<1>2. CASE record # <<>>
  BY <1>2, CutEven
<1>3. QED
  BY <1>1, <1>2

LEMMA FullAck == ASSUME NEW id, NEW size \in Nat PROVE Full(AckPacket(id), size)
<1>1. Len(<<>>) = 0
  OBVIOUS
<1>2. QED
  BY <1>1 DEF Full, AckPacket, Frame

-----------------------------------------------------------------------------
(* What a conversation has cost.                                           *)

(* The round trips that n units of a station's flight still take, and      *)
(* those that conversation v has taken, in the middle of a flight.         *)
Left(n) == IF n <= 0 THEN 0 ELSE ChunkCount(n, ChunkSize(1))

Spent(v) ==
  LET flight == Flight(v.st, 2 * Len(v.got) + 1)
  IN  TripsAfter(script[v.st])[2 * Len(v.got)]
        + Left(Len(flight)) - Left(Len(flight) - Len(v.rx)) - Len(v.tx)

LEMMA ChunkSizes ==
  ASSUME Alphabet
  PROVE  /\ \A i \in Nat : ChunkSize(i) \in Nat \ {0}
         /\ \A i \in Nat : ChunkSize(2 * i + 1) = ChunkSize(1)
         /\ \A i \in Nat : ChunkSize(2 * i + 2) = ChunkSize(2)
<1>1. /\ {PeerFragmentSize, ServerFragmentSize, ApMtu} \subseteq Nat \ {0}
      /\ UpstreamFragmentSize \in Nat \ {0}
      /\ FramedMtuOverride \in (Nat \ {0}) \cup {Nil}
  BY TestbedAssumption, FragmentSizeAssumption, MtuAssumption DEF Alphabet
<1>2. \A a, b \in Nat \ {0} : Smaller(a, b) \in Nat \ {0}
  BY DEF Smaller
<1>3. \A i : ChunkSize(i) \in Nat \ {0}
  BY <1>1, <1>2 DEF ChunkSize
<1>4. \A i \in Nat : (2 * i + 1) % 2 = 1 /\ (2 * i + 2) % 2 = 0
  OBVIOUS
<1>5. 1 % 2 = 1 /\ 2 % 2 = 0
  OBVIOUS
<1>6. QED
  BY <1>3, <1>4, <1>5 DEF ChunkSize

(* The server is told to cut its flights as the count has it.              *)
LEMMA LimitOfAttrs ==
  ASSUME NEW s, s.ap_attrs = ApAttrs PROVE ServerLimit(UpstreamAttrs(s)) = ChunkSize(2)
<1>1. PICK attrs : attrs = UpstreamAttrs(s)
  OBVIOUS
<1>2. DOMAIN ApAttrs = {"Framed-MTU"} /\ ApAttrs["Framed-MTU"] = ApMtu
  BY DEF ApAttrs
<1>3. 2 % 2 = 0
  OBVIOUS
<1>4. CASE Reassembling /\ StripFramedMtu
  <2>1. "Framed-MTU" \notin DOMAIN attrs
    BY <1>1, <1>4 DEF UpstreamAttrs
  <2>2. QED
    BY <1>1, <1>3, <1>4, <2>1 DEF ServerLimit, ChunkSize
<1>5. CASE ~(Reassembling /\ StripFramedMtu)
  <2>1. /\ "Framed-MTU" \in DOMAIN attrs
        /\ attrs["Framed-MTU"] = IF FramedMtuOverride # Nil /\ Reassembling
                                   THEN FramedMtuOverride ELSE ApMtu
    BY <1>1, <1>2, <1>5 DEF UpstreamAttrs
  <2>2. QED
    BY <1>1, <1>3, <1>5, <2>1 DEF ServerLimit, ChunkSize
<1>6. QED
  BY <1>4, <1>5

LEMMA FlightLength ==
  ASSUME script \in [Stations -> Scripts], NEW st \in Stations, NEW i \in 1 .. FlightCount
  PROVE  Len(Flight(st, i)) = script[st][i] /\ script[st][i] \in Nat
<1>1. FlightCount \in Nat /\ script[st] \in Seq(Nat) /\ Len(script[st]) = FlightCount
  BY TestbedAssumption
<1>2. script[st][i] \in Nat
  BY <1>1, ElementOfSeq
<1>3. Flight(st, i) = [j \in 1 .. script[st][i] |-> <<st, i, j>>]
  BY <1>1 DEF Flight
<1>4. QED
  BY <1>2, <1>3

(* Each pair of flights costs its chunks, less one.                        *)
LEMMA PairCost ==
  ASSUME Alphabet, script \in [Stations -> Scripts], NEW st \in Stations
  PROVE  LET trips == TripsAfter(script[st]) IN
         /\ trips \in [0 .. FlightCount -> Int] /\ trips[0] = 1
         /\ \A n \in Nat : 2 * n < FlightCount =>
              /\ 2 * n + 2 \in 0 .. FlightCount
              /\ trips[2 * n + 2] =
                   trips[2 * n] + ChunkCount(Len(Flight(st, 2 * n + 1)), ChunkSize(1))
                     + ChunkCount(Len(Flight(st, 2 * n + 2)), ChunkSize(2)) - 1
<1>1. PICK trips : trips = TripsAfter(script[st])
  OBVIOUS
<1>2. ASSUME NEW len \in Nat, NEW size \in Nat \ {0} PROVE ChunkCount(len, size) \in Nat
  <2>1. CASE len = 0
    BY <2>1 DEF ChunkCount
  <2>2. CASE len # 0
    <3>1. len \in Nat \ {0}
      BY <2>2
    <3>2. QED
      BY <3>1, ChunkCountBounds
  <2>3. QED
    BY <2>1, <2>2
<1>3. ASSUME NEW i \in 1 .. FlightCount
      PROVE  /\ Cost(i, script[st][i]) \in Int
             /\ Cost(i, script[st][i]) = ChunkCount(Len(Flight(st, i)), ChunkSize(i))
                                           - (IF i % 2 = 0 THEN 1 ELSE 0)
  <2>1. i \in Nat /\ Len(Flight(st, i)) = script[st][i] /\ script[st][i] \in Nat
    BY FlightLength
  <2>2. ChunkSize(i) \in Nat \ {0}
    BY <2>1, ChunkSizes
  <2>3. PICK count : count = ChunkCount(script[st][i], ChunkSize(i))
    OBVIOUS
  <2>4. count \in Nat
    BY <1>2, <2>1, <2>2, <2>3
  <2>5. Cost(i, script[st][i]) = count - (IF i % 2 = 0 THEN 1 ELSE 0)
    BY <2>3 DEF Cost
  <2>6. QED
    BY <2>1, <2>3, <2>4, <2>5
<1>4. /\ trips \in [0 .. FlightCount -> Int] /\ trips[0] = 1
      /\ \A i \in 1 .. FlightCount : trips[i] = trips[i - 1] + Cost(i, script[st][i])
  BY <1>1, <1>3, TripsSum
<1>5. ASSUME NEW n \in Nat, 2 * n < FlightCount
      PROVE  /\ 2 * n + 2 \in 0 .. FlightCount
             /\ trips[2 * n + 2] =
                  trips[2 * n] + ChunkCount(Len(Flight(st, 2 * n + 1)), ChunkSize(1))
                    + ChunkCount(Len(Flight(st, 2 * n + 2)), ChunkSize(2)) - 1
  <2>1. PICK i : i = 2 * n + 1
    OBVIOUS
  <2>2. PICK j : j = 2 * n + 2
    OBVIOUS
  <2>3. i \in 1 .. FlightCount /\ j \in 1 .. FlightCount
    <3>1. FlightCount \in Nat /\ FlightCount % 2 = 0
      BY TestbedAssumption
    <3>2. PICK h \in Nat : FlightCount = 2 * h
      <4>1. FlightCount = 2 * (FlightCount \div 2) /\ FlightCount \div 2 \in Nat
        BY <3>1
      <4>2. QED
        BY <4>1
    <3>3. QED
      BY <1>5, <2>1, <2>2, <3>2
  <2>4. i % 2 = 1 /\ j % 2 = 0 /\ i - 1 = 2 * n /\ j - 1 = i
    BY <2>1, <2>2
  <2>5. ChunkSize(i) = ChunkSize(1) /\ ChunkSize(j) = ChunkSize(2)
    BY <2>1, <2>2, ChunkSizes
  <2>6. PICK odd : odd = ChunkCount(Len(Flight(st, i)), ChunkSize(1))
    OBVIOUS
  <2>7. PICK even : even = ChunkCount(Len(Flight(st, j)), ChunkSize(2))
    OBVIOUS
  <2>8. odd \in Nat /\ even \in Nat
    BY <1>2, <2>3, <2>6, <2>7, FlightLength, ChunkSizes
  <2>9. Cost(i, script[st][i]) = odd /\ Cost(j, script[st][j]) = even - 1
    BY <1>3, <2>3, <2>4, <2>5, <2>6, <2>7, <2>8
  <2>10. trips[i] = trips[2 * n] + odd /\ trips[j] = trips[i] + (even - 1)
    BY <1>4, <2>3, <2>4, <2>9
  <2>11. trips[2 * n] \in Int /\ 2 * n + 2 \in 0 .. FlightCount
    <3>1. FlightCount \in Nat
      BY TestbedAssumption
    <3>2. 2 * n \in 0 .. FlightCount
      BY <1>5, <3>1
    <3>3. QED
      BY <1>4, <2>2, <2>3, <3>1, <3>2
  <2>12. trips[j] = trips[2 * n] + odd + even - 1
    BY <2>8, <2>10, <2>11
  <2>13. QED
    BY <2>1, <2>2, <2>6, <2>7, <2>11, <2>12
<1>6. QED
  BY <1>1, <1>4, <1>5

(* A packet full to the limit, not the last, takes one of the chunks left, *)
(* and so does the last, whatever it holds.                                *)
LEMMA LeftLess ==
  ASSUME Alphabet, NEW n \in Nat \ {0}, NEW size, size = ChunkSize(1)
  PROVE  /\ Left(n) \in Nat /\ Left(0) = 0
         /\ size < n => Left(n - size) = Left(n) - 1
         /\ n <= size => Left(n) = 1
<1>1. size \in Nat \ {0}
  BY ChunkSizes
<1>2. Left(n) = ChunkCount(n, size) /\ Left(0) = 0
  BY DEF Left
<1>3. ChunkCount(n, size) \in Nat
  BY <1>1, ChunkCountBounds
<1>4. ASSUME size < n PROVE Left(n - size) = Left(n) - 1
  <2>1. n - size > 0
    BY <1>1, <1>4
  <2>2. Left(n - size) = ChunkCount(n - size, size)
    BY <2>1, <1>1 DEF Left
  <2>3. QED
    BY <1>1, <1>2, <1>4, <2>2, ChunkCountLess
<1>5. ASSUME n <= size PROVE Left(n) = 1
  BY <1>1, <1>2, <1>5, ChunkCountOne
<1>6. QED
  BY <1>2, <1>3, <1>4, <1>5

LEMMA LeftType == ASSUME Alphabet, NEW n \in Int PROVE Left(n) \in Nat
<1>1. CASE n <= 0
  BY <1>1 DEF Left
<1>2. CASE ~(n <= 0)
  <2>1. n \in Nat \ {0}
    BY <1>2
  <2>2. QED
    BY <2>1, LeftLess
<1>3. QED
  BY <1>1, <1>2

LEMMA SpentType ==
  ASSUME Alphabet, script \in [Stations -> Scripts], NEW st \in Stations,
         NEW v \in Conversation(st), 2 * Len(v.got) <= FlightCount
  PROVE  Spent(v) \in Int
<1>1. PICK n : n = Len(v.got)
  OBVIOUS
<1>2. PICK up : up = Flight(st, 2 * n + 1)
  OBVIOUS
<1>3. v.st = st /\ n \in Nat /\ Len(v.rx) \in Nat /\ Len(v.tx) \in Nat
  BY <1>1 DEF Conversation
<1>4. 2 * n + 1 \in Nat \ {0}
  BY <1>3
<1>5. up \in Seq(Of(st))
  BY <1>2, <1>4, FlightType
<1>6. Len(up) \in Nat /\ Len(up) - Len(v.rx) \in Int
  BY <1>3, <1>5
<1>7. Left(Len(up)) \in Nat /\ Left(Len(up) - Len(v.rx)) \in Nat
  <2>1. Len(up) \in Int
    BY <1>6
  <2>2. QED
    BY <1>6, <2>1, LeftType
<1>8. 2 * n \in 0 .. FlightCount
  BY <1>1, <1>3, TestbedAssumption
<1>9. TripsAfter(script[st])[2 * n] \in Int
  BY <1>8, PairCost
<1>10. Spent(v) = TripsAfter(script[st])[2 * n]
                    + Left(Len(up)) - Left(Len(up) - Len(v.rx)) - Len(v.tx)
  BY <1>1, <1>2, <1>3 DEF Spent
<1>11. \A t \in Int, a, b, x \in Nat : t + a - b - x \in Int
  OBVIOUS
<1>12. QED
  BY <1>3, <1>7, <1>9, <1>10, <1>11

-----------------------------------------------------------------------------
(* One more challenge of the server, one round trip more.                  *)

(* Conversation v becomes w with a fragment of the server's flight, with   *)
(* one of the station's, or with the last of it.                           *)
Passes(v, w, q) ==
  IsAck(q.eap) /\ v.tx # <<>> /\ w.got = v.got /\ w.rx = v.rx /\ w.tx = Tail(v.tx)
Takes(v, w, q) ==
  ~IsAck(q.eap) /\ q.eap.more /\ w.got = v.got /\ w.rx = v.rx \o q.eap.data /\ w.tx = v.tx
Turns(v, w, q) ==
  /\ ~IsAck(q.eap) /\ ~q.eap.more /\ w.got = Append(v.got, v.rx \o q.eap.data) /\ w.rx = <<>>
  /\ w.tx = Tail(Fragment(Flight(v.st, 2 * Len(v.got) + 2), ServerLimit(q.attrs)))

Onward(v, w, q) ==
  /\ w.step = v.step /\ w.verdict = v.verdict
  /\ Passes(v, w, q) \/ Takes(v, w, q) \/ Turns(v, w, q)

GoesOn(o, st, c, v, q) ==
  \E w \in Conversation(st) : \E eap : o = Challenge(c, w, eap) /\ Onward(v, w, q)
Stops(o, st, c, v) ==
  \E w \in Conversation(st), code \in Verdict : \E id :
    /\ o = Verdicts(c, w, code, id) /\ w.step = v.step
    /\ code = "accept" => v.tx = <<>> /\ 2 * Len(v.got) = FlightCount

LEMMA ProceedWays ==
  ASSUME Alphabet, script \in [Stations -> Scripts], NEW st \in Stations,
         NEW c, NEW v \in Conversation(st), v = server[c], NEW q \in UpstreamType,
         q.eap \in Packet(Of(st))
  PROVE  GoesOn(Proceed(c, q), st, c, v, q) \/ Stops(Proceed(c, q), st, c, v)
<1>1. PICK id : id = NextId(v.id)
  OBVIOUS
<1>2. PICK record : record = v.rx \o q.eap.data
  OBVIOUS
<1>3. record \in Seq(Of(st)) /\ v.got \in Seq(Seq(Of(st))) /\ v.tx \in Seq(Seq(Of(st)))
      /\ v.st = st
  BY <1>2 DEF Conversation, Packet
<1>4. PICK got : got = Append(v.got, record)
  OBVIOUS
<1>5. got \in Seq(Seq(Of(st))) /\ 2 * Len(got) = 2 * Len(v.got) + 2 /\ 2 * Len(got) \in Nat \ {0}
  BY <1>3, <1>4
<1>6. PICK flight : flight = Flight(v.st, 2 * Len(got))
  OBVIOUS
<1>7. flight \in Seq(Of(st))
  BY <1>3, <1>5, <1>6, FlightType
<1>8. PICK chunks : chunks = Fragment(flight, ServerLimit(q.attrs))
  OBVIOUS
<1>9. ServerLimit(q.attrs) \in Nat \ {0}
  BY ServerLimitType DEF UpstreamType
<1>10. chunks \in Seq(Seq(Of(st))) /\ chunks # <<>>
  BY <1>7, <1>8, <1>9, FragmentType
<1>11. PICK o : o = Proceed(c, q)
  OBVIOUS
<1>12. ASSUME IsAck(q.eap), v.tx # <<>> PROVE GoesOn(o, st, c, v, q)
  <2>1. PICK rest : rest = Tail(v.tx)
    OBVIOUS
  <2>2. PICK w : w = [v EXCEPT !.tx = rest]
    OBVIOUS
  <2>3. o = Challenge(c, w, NextFragment(id, v.tx))
    BY <1>1, <1>11, <1>12, <2>1, <2>2 DEF Proceed, Conversation
  <2>4. rest \in Seq(Seq(Of(st)))
    BY <1>3, <1>12, <2>1
  <2>5. /\ w \in Conversation(st) /\ w.tx = rest /\ w.got = v.got /\ w.rx = v.rx
        /\ w.step = v.step /\ w.verdict = v.verdict
    BY <2>2, <2>4 DEF Conversation
  <2>6. Onward(v, w, q)
    BY <1>12, <2>1, <2>5 DEF Onward, Passes
  <2>7. QED
    BY <2>3, <2>5, <2>6 DEF GoesOn
<1>13. ASSUME IsAck(q.eap), ~(v.tx # <<>>) PROVE Stops(o, st, c, v)
  <2>1. PICK code : code = IF 2 * Len(v.got) = FlightCount THEN "accept" ELSE "reject"
    OBVIOUS
  <2>2. code \in Verdict /\ (code = "accept" => 2 * Len(v.got) = FlightCount)
    BY <2>1 DEF Verdict
  <2>3. o = Verdicts(c, v, code, v.id)
    BY <1>11, <1>13, <2>1 DEF Proceed
  <2>4. QED
    BY <1>13, <2>2, <2>3 DEF Stops
<1>14. ASSUME ~IsAck(q.eap), q.eap.more PROVE GoesOn(o, st, c, v, q)
  <2>1. PICK w : w = [v EXCEPT !.rx = record]
    OBVIOUS
  <2>2. o = Challenge(c, w, AckPacket(id))
    BY <1>1, <1>2, <1>11, <1>14, <2>1 DEF Proceed
  <2>3. /\ w \in Conversation(st) /\ w.tx = v.tx /\ w.got = v.got /\ w.rx = record
        /\ w.step = v.step /\ w.verdict = v.verdict
    BY <1>3, <2>1 DEF Conversation
  <2>4. Onward(v, w, q)
    BY <1>2, <1>14, <2>3 DEF Onward, Takes
  <2>5. QED
    BY <2>2, <2>3, <2>4 DEF GoesOn
<1>15. ASSUME ~IsAck(q.eap), ~q.eap.more, record # Flight(v.st, 2 * Len(got) - 1)
       PROVE  Stops(o, st, c, v)
  <2>1. PICK w : w = [v EXCEPT !.got = got]
    OBVIOUS
  <2>2. w \in Conversation(st) /\ w.step = v.step
    BY <1>5, <2>1 DEF Conversation
  <2>3. o = Verdicts(c, w, "reject", v.id)
    <3>1. Proceed(c, q) = Verdicts(c, [v EXCEPT !.got = got], "reject", v.id)
      BY <1>2, <1>4, <1>15, Zenon DEF Proceed
    <3>2. QED
      BY <3>1, <1>11, <2>1
  <2>4. "reject" \in Verdict /\ "reject" # "accept"
    BY DEF Verdict
  <2>5. QED
    BY <2>2, <2>3, <2>4 DEF Stops
<1>16. ASSUME ~IsAck(q.eap), ~q.eap.more, ~(record # Flight(v.st, 2 * Len(got) - 1))
       PROVE  GoesOn(o, st, c, v, q)
  <2>1. PICK rest : rest = Tail(chunks)
    OBVIOUS
  <2>2. rest \in Seq(Seq(Of(st)))
    BY <1>10, <2>1
  <2>3. <<>> \in Seq(Of(st))
    OBVIOUS
  <2>4. PICK w : w = [v EXCEPT !.got = got, !.rx = <<>>, !.tx = rest]
    OBVIOUS
  <2>5. /\ w \in Conversation(st) /\ w.tx = rest /\ w.got = got /\ w.rx = <<>>
        /\ w.step = v.step /\ w.verdict = v.verdict
    BY <1>5, <2>2, <2>3, <2>4 DEF Conversation
  <2>6. o = Challenge(c, w, FirstFragment(id, flight, chunks))
    BY <1>1, <1>2, <1>4, <1>6, <1>8, <1>11, <1>16, <2>1, <2>4 DEF Proceed
  <2>7. rest = Tail(Fragment(Flight(v.st, 2 * Len(v.got) + 2), ServerLimit(q.attrs)))
    BY <1>5, <1>6, <1>8, <2>1
  <2>8. Onward(v, w, q)
    BY <1>2, <1>4, <1>16, <2>5, <2>7 DEF Onward, Turns
  <2>9. QED
    BY <2>5, <2>6, <2>8 DEF GoesOn
<1>17. QED
  BY <1>11, <1>12, <1>13, <1>14, <1>15, <1>16

(* eap is the next part of the station's flight, and the flight before it  *)
(* is all sent.                                                            *)
Heard(st, v, eap) ==
  /\ v.tx = <<>> /\ 2 * Len(v.got) < FlightCount
  /\ Len(Flight(st, 2 * Len(v.got) + 2)) > 0
  /\ \E a, b \in Nat : /\ Piece(Flight(st, 2 * Len(v.got) + 1), a, b, eap)
                       /\ v.rx = Upto(Flight(st, 2 * Len(v.got) + 1), a)

LEMMA OnwardSpends ==
  ASSUME Alphabet, script \in [Stations -> Scripts], NEW st \in Stations,
         NEW v \in Conversation(st), NEW w \in Conversation(st), NEW q, Onward(v, w, q),
         2 * Len(v.got) <= FlightCount, IsAck(q.eap) \/ Heard(st, v, q.eap),
         Full(q.eap, ChunkSize(1)), ServerLimit(q.attrs) = ChunkSize(2)
  PROVE  Spent(v) \in Int /\ Spent(w) = Spent(v) + 1
<1>1. PICK n : n = Len(v.got)
  OBVIOUS
<1>2. PICK up : up = Flight(st, 2 * n + 1)
  OBVIOUS
<1>3. PICK down : down = Flight(st, 2 * n + 2)
  OBVIOUS
<1>4. PICK trips : trips = TripsAfter(script[st])
  OBVIOUS
<1>5. PICK size : size = ChunkSize(1)
  OBVIOUS
<1>6. v.st = st /\ w.st = st /\ n \in Nat /\ v.tx \in Seq(Seq(Of(st))) /\ v.rx \in Seq(Of(st))
  BY <1>1 DEF Conversation
<1>7. Spent(v) \in Int
  BY SpentType
<1>8. Spent(v) = trips[2 * n] + Left(Len(up)) - Left(Len(up) - Len(v.rx)) - Len(v.tx)
  BY <1>1, <1>2, <1>4, <1>6 DEF Spent
<1>9. up \in Seq(Of(st)) /\ down \in Seq(Of(st))
  <2>1. 2 * n + 1 \in Nat \ {0} /\ 2 * n + 2 \in Nat \ {0}
    BY <1>6
  <2>2. QED
    BY <1>2, <1>3, <2>1, FlightType
<1>10. Len(up) \in Nat /\ Len(down) \in Nat /\ Len(v.rx) \in Nat /\ Len(v.tx) \in Nat
  BY <1>6, <1>9
<1>11. trips[2 * n] \in Int
  <2>1. 2 * n \in 0 .. FlightCount
    BY <1>1, <1>6, TestbedAssumption
  <2>2. QED
    BY <1>4, <2>1, PairCost
<1>12. size \in Nat \ {0} /\ ChunkSize(2) \in Nat \ {0}
  BY <1>5, ChunkSizes
<1>13. Left(Len(up)) \in Nat /\ Left(Len(up) - Len(v.rx)) \in Nat
  <2>1. Len(up) \in Int /\ Len(up) - Len(v.rx) \in Int
    BY <1>10
  <2>2. QED
    BY <2>1, LeftType
<1>14. CASE Passes(v, w, q)
  <2>1. w.got = v.got /\ w.rx = v.rx /\ v.tx # <<>> /\ w.tx = Tail(v.tx)
    BY <1>14 DEF Passes
  <2>2. Len(w.tx) = Len(v.tx) - 1
    BY <1>6, <2>1
  <2>3. Spent(w) = trips[2 * n] + Left(Len(up)) - Left(Len(up) - Len(v.rx)) - Len(w.tx)
    BY <1>1, <1>2, <1>4, <1>6, <2>1 DEF Spent
  <2>4. PICK t \in Int, a \in Nat, b \in Nat, x \in Nat :
          /\ t = trips[2 * n] /\ a = Left(Len(up)) /\ x = Len(v.tx)
          /\ b = Left(Len(up) - Len(v.rx))
    BY <1>10, <1>11, <1>13
  <2>5. Spent(v) = t + a - b - x /\ Spent(w) = t + a - b - (x - 1)
    BY <1>8, <2>2, <2>3, <2>4
  <2>6. QED
    BY <1>7, <2>5
<1>15. ASSUME ~IsAck(q.eap) PROVE Heard(st, v, q.eap)
  BY <1>15
<1>16. ASSUME ~IsAck(q.eap), NEW a \in Nat, NEW b \in Nat, Piece(up, a, b, q.eap),
              v.rx = Upto(up, a)
       PROVE  /\ b <= Len(up) /\ a < b /\ b - a <= size /\ Len(v.rx) = a
              /\ q.eap.data \in Seq(Of(st)) /\ Len(q.eap.data) = b - a
              /\ q.eap.more <=> b < Len(up)
              /\ q.eap.more => b - a = size
  <2>1. a < b /\ b <= Len(up) /\ q.eap.data = SubSeq(up, a + 1, b) /\ (q.eap.more <=> b < Len(up))
    BY <1>16 DEF Piece
  <2>2. b \in 0 .. Len(up) /\ a \in 0 .. b
    BY <1>10, <2>1
  <2>3. SubSeq(up, a + 1, b) \in Seq(Of(st)) /\ Len(SubSeq(up, a + 1, b)) = b - a
        /\ Len(Upto(up, a)) = a
    BY <1>9, <2>2, UptoParts
  <2>4. Len(q.eap.data) <= size /\ (q.eap.more => Len(q.eap.data) = size)
    BY <1>5 DEF Full
  <2>5. QED
    BY <1>16, <2>1, <2>3, <2>4
<1>17. CASE Takes(v, w, q)
  <2>1. w.got = v.got /\ w.tx = v.tx /\ w.rx = v.rx \o q.eap.data /\ ~IsAck(q.eap) /\ q.eap.more
    BY <1>17 DEF Takes
  <2>2. PICK a \in Nat, b \in Nat : Piece(up, a, b, q.eap) /\ v.rx = Upto(up, a)
    BY <1>1, <1>2, <1>15, <2>1 DEF Heard
  <2>3. /\ b < Len(up) /\ b - a = size /\ Len(v.rx) = a
        /\ q.eap.data \in Seq(Of(st)) /\ Len(q.eap.data) = b - a
    BY <1>16, <2>1, <2>2
  <2>4. Len(w.rx) = b
    <3>1. PICK data \in Seq(Of(st)) : data = q.eap.data
      BY <2>3
    <3>2. Len(v.rx \o data) = Len(v.rx) + Len(data)
      BY <1>6
    <3>3. QED
      BY <1>10, <2>1, <2>2, <2>3, <3>1, <3>2
  <2>5. PICK rest : rest = Len(up) - a
    OBVIOUS
  <2>6. rest \in Nat \ {0} /\ size < rest /\ Len(up) - b = rest - size
    <3>1. PICK len \in Nat : len = Len(up)
      BY <1>10
    <3>2. a \in Nat /\ b \in Nat /\ size \in Nat \ {0} /\ b < len /\ b - a = size
          /\ rest = len - a
      BY <1>12, <2>2, <2>3, <2>5, <3>1
    <3>3. rest \in Nat \ {0} /\ size < rest /\ len - b = rest - size
      BY <3>2
    <3>4. QED
      BY <3>1, <3>3
  <2>7. Left(rest - size) = Left(rest) - 1
    BY <1>5, <2>6, LeftLess
  <2>8. Left(Len(up) - Len(w.rx)) = Left(Len(up) - Len(v.rx)) - 1
    BY <2>3, <2>4, <2>5, <2>6, <2>7
  <2>9. Spent(w) = trips[2 * n] + Left(Len(up)) - Left(Len(up) - Len(w.rx)) - Len(v.tx)
    BY <1>1, <1>2, <1>4, <1>6, <2>1 DEF Spent
  <2>10. PICK t \in Int, i \in Nat, j \in Nat, x \in Nat :
           /\ t = trips[2 * n] /\ i = Left(Len(up)) /\ x = Len(v.tx)
           /\ j = Left(Len(up) - Len(v.rx))
    BY <1>10, <1>11, <1>13
  <2>11. Spent(v) = t + i - j - x /\ Spent(w) = t + i - (j - 1) - x
    BY <1>8, <2>8, <2>9, <2>10
  <2>12. QED
    BY <1>7, <2>11
<1>18. CASE Turns(v, w, q)
  <2>1. /\ ~IsAck(q.eap) /\ ~q.eap.more /\ w.got = Append(v.got, v.rx \o q.eap.data)
        /\ w.rx = <<>> /\ w.tx = Tail(Fragment(down, ChunkSize(2)))
    BY <1>1, <1>3, <1>6, <1>18 DEF Turns
  <2>2. v.tx = <<>> /\ 2 * n < FlightCount /\ Len(down) > 0
    BY <1>1, <1>3, <1>15, <2>1 DEF Heard
  <2>3. PICK a \in Nat, b \in Nat : Piece(up, a, b, q.eap) /\ v.rx = Upto(up, a)
    BY <1>1, <1>2, <1>15, <2>1 DEF Heard
  <2>4. b = Len(up) /\ b - a <= size /\ a < b /\ Len(v.rx) = a
    <3>1. b <= Len(up) /\ a < b /\ b - a <= size /\ Len(v.rx) = a /\ ~(b < Len(up))
      BY <1>16, <2>1, <2>3
    <3>2. QED
      BY <1>10, <3>1
  <2>5. PICK rest : rest = Len(up) - a
    OBVIOUS
  <2>6. rest \in Nat \ {0} /\ rest <= size /\ Len(up) \in Nat \ {0}
    BY <1>10, <2>4, <2>5
  <2>7. Left(rest) = 1
    BY <1>5, <2>6, LeftLess
  <2>8. Left(Len(up)) = ChunkCount(Len(up), size)
    BY <1>5, <2>6 DEF Left
  <2>9. PICK count : count = ChunkCount(Len(down), ChunkSize(2))
    OBVIOUS
  <2>10. Len(w.tx) = count - 1 /\ count \in Nat \ {0}
    <3>1. Len(down) \in Nat \ {0} /\ down # <<>>
      BY <1>10, <2>2
    <3>2. PICK chunks : chunks = Fragment(down, ChunkSize(2))
      OBVIOUS
    <3>3. chunks \in Seq(Seq(Of(st))) /\ Len(chunks) = count
      BY <1>9, <1>12, <2>9, <3>1, <3>2, FragmentChunks
    <3>4. count \in Nat \ {0}
      BY <1>12, <2>9, <3>1, ChunkCountBounds
    <3>5. chunks # <<>>
      BY <3>3, <3>4
    <3>6. Len(Tail(chunks)) = Len(chunks) - 1
      BY <3>3, <3>5
    <3>7. QED
      BY <2>1, <3>2, <3>3, <3>4, <3>6
  <2>11. trips[2 * n + 2] = trips[2 * n] + Left(Len(up)) + count - 1
    BY <1>2, <1>3, <1>4, <1>5, <1>6, <2>2, <2>8, <2>9, PairCost
  <2>12. Spent(v) = trips[2 * n] + Left(Len(up)) - 1
    <3>1. Left(Len(up) - Len(v.rx)) = 1 /\ Len(v.tx) = 0
      BY <2>2, <2>4, <2>5, <2>7
    <3>2. QED
      BY <1>8, <1>11, <1>13, <3>1
  <2>13. Len(w.got) = n + 1
    BY <1>1, <2>1 DEF Conversation
  <2>14. PICK next : next = Left(Len(Flight(st, 2 * Len(w.got) + 1)))
    OBVIOUS
  <2>15. next \in Nat /\ Left(Len(Flight(st, 2 * Len(w.got) + 1)) - Len(w.rx)) = next
    <3>1. 2 * Len(w.got) + 1 \in Nat \ {0}
      BY <1>6, <2>13
    <3>2. Flight(st, 2 * Len(w.got) + 1) \in Seq(Of(st))
      BY <3>1, FlightType
    <3>3. PICK len \in Int : len = Len(Flight(st, 2 * Len(w.got) + 1))
      BY <3>2
    <3>4. len - Len(w.rx) = len
      BY <2>1
    <3>5. QED
      BY <2>14, <3>3, <3>4, LeftType
  <2>16. Spent(w) = trips[2 * Len(w.got)] + next - next - Len(w.tx)
    BY <1>4, <1>6, <2>14, <2>15 DEF Spent
  <2>17. 2 * Len(w.got) = 2 * n + 2
    BY <1>6, <2>13
  <2>18. Spent(w) = trips[2 * n] + Left(Len(up)) + count - 1 + next - next - (count - 1)
    BY <2>10, <2>11, <2>16, <2>17
  <2>19. PICK t \in Int, i \in Nat, j \in Nat, x \in Nat :
           t = trips[2 * n] /\ i = Left(Len(up)) /\ j = count /\ x = next
    BY <1>11, <1>13, <2>10, <2>15
  <2>20. Spent(v) = t + i - 1 /\ Spent(w) = t + i + j - 1 + x - x - (j - 1)
    BY <2>12, <2>18, <2>19
  <2>21. QED
    BY <1>7, <2>20
<1>19. QED
  BY <1>7, <1>14, <1>17, <1>18 DEF Onward

(* What a request in a conversation holds, by TunnelInv.                   *)
LEMMA MindsHeard ==
  ASSUME Alphabet, script \in [Stations -> Scripts], FlightsCarryData, NEW st \in Stations,
         NEW p, p.got \in Seq(Seq(Of(st))), NEW s, NEW v \in Conversation(st), NEW h, NEW eap,
         h.pc = "passthrough" <=> ~Reassembling, Minds(Flights(st), p, s, v, h, eap)
  PROVE  2 * Len(v.got) <= FlightCount /\ (IsAck(eap) \/ Heard(st, v, eap))
<1>1. PICK f : f = Flights(st)
  OBVIOUS
<1>2. UnderWay(p) \/ Through(p) =>
        /\ UpFlight(f, p) = Flight(st, 2 * Len(p.got) + 1)
        /\ UnderWay(p) => Len(Flight(st, 2 * Len(p.got) + 2)) > 0
  BY <1>1, FlightFacts
<1>3. Len(p.got) \in Nat /\ Len(v.got) \in Nat
  BY DEF Conversation
<1>4. ASSUME UnderWay(p), Len(v.got) = Len(p.got), v.tx = <<>>, NEW a \in Nat, NEW b \in Nat,
             Piece(UpFlight(f, p), a, b, eap), v.rx = Upto(UpFlight(f, p), a)
      PROVE  2 * Len(v.got) <= FlightCount /\ Heard(st, v, eap)
  <2>1. 2 * Len(v.got) < FlightCount
    BY <1>4 DEF UnderWay
  <2>2. Piece(Flight(st, 2 * Len(v.got) + 1), a, b, eap)
        /\ v.rx = Upto(Flight(st, 2 * Len(v.got) + 1), a)
    BY <1>2, <1>4
  <2>3. Heard(st, v, eap)
    BY <1>2, <1>4, <2>1, <2>2 DEF Heard
  <2>4. QED
    BY <1>3, <2>1, <2>3, TestbedAssumption
<1>5. ASSUME UnderWay(p), Len(v.got) = Len(p.got) + 1 PROVE 2 * Len(v.got) <= FlightCount
  <2>1. PICK h2 \in Nat : FlightCount = 2 * h2
    <3>1. FlightCount \in Nat /\ FlightCount % 2 = 0
      BY TestbedAssumption
    <3>2. FlightCount = 2 * (FlightCount \div 2) /\ FlightCount \div 2 \in Nat
      BY <3>1
    <3>3. QED
      BY <3>2
  <2>2. PICK m \in Nat, g \in Nat : m = Len(p.got) /\ g = Len(v.got)
    BY <1>3
  <2>3. 2 * m < 2 * h2 /\ g = m + 1
    BY <1>5, <2>1, <2>2 DEF UnderWay
  <2>4. 2 * g <= 2 * h2
    BY <2>3
  <2>5. QED
    BY <2>1, <2>2, <2>4
<1>6. ASSUME Through(p), Len(v.got) = Len(p.got) PROVE 2 * Len(v.got) <= FlightCount
  BY <1>3, <1>6 DEF Through
<1>7. CASE ~Reassembling
  <2>1. Speaking(f, p, s, v, eap)
    BY <1>1, <1>7 DEF Minds
  <2>2. \A a : AwaitsUp(f, p, s, v, a) =>
          v.rx = Upto(UpFlight(f, p), a) /\ Len(v.got) = Len(p.got) /\ v.tx = <<>>
    BY <1>7 DEF AwaitsUp
  <2>3. \A a : AwaitsDown(f, p, s, v, a) => Len(v.got) = Len(p.got) + 1
    BY DEF AwaitsDown
  <2>4. CASE UnderWay(p) /\ \E a, b \in Nat : /\ Piece(UpFlight(f, p), a, b, eap)
                                             /\ AwaitsUp(f, p, s, v, a)
    BY <2>4, <2>2, <1>4
  <2>5. CASE UnderWay(p) /\ IsAck(eap) /\ \E a \in Nat \ {0} : AwaitsDown(f, p, s, v, a)
    BY <2>5, <2>3, <1>5
  <2>6. CASE Through(p) /\ IsAck(eap) /\ AwaitsUp(f, p, s, v, 0)
    BY <2>6, <2>2, <1>6
  <2>7. QED
    BY <2>1, <2>4, <2>5, <2>6 DEF Speaking
<1>8. CASE Reassembling
  <2>1. CASE Forwarding(f, p, s, v, eap, h.rest)
    BY <2>1, <1>4, <1>6 DEF Forwarding
  <2>2. CASE Draining(f, p, s, v, eap)
    BY <2>2, <1>5 DEF Draining
  <2>3. QED
    BY <1>1, <1>8, <2>1, <2>2 DEF Minds
<1>9. QED
  BY <1>7, <1>8

-----------------------------------------------------------------------------
(* What the server's answers are charged to.                               *)

(* No conversation is taken back: one that has moved is a step further, or *)
(* over.                                                                   *)
Follows(before, after) ==
  \A i \in DOMAIN before :
    /\ i \in DOMAIN after
    /\ \/ after[i] = before[i]
       \/ /\ before[i].verdict = Nil /\ before[i].step <= after[i].step
          /\ after[i].verdict # Nil \/ before[i].step < after[i].step

LEMMA ChallengeSteps ==
  ASSUME ServerTypeOK, NEW st, NEW c \in 1 .. Len(server) + 1, NEW w \in Conversation(st),
         c \in DOMAIN server => server[c].verdict = Nil /\ server[c].step = w.step,
         NEW eap, server' = Challenge(c, w, eap).server
  PROVE  /\ Follows(server, server')
         /\ c \in DOMAIN server' /\ server'[c].st = st
         /\ server'[c].step = w.step + 1 /\ server'[c].verdict = w.verdict
         /\ Spent(server'[c]) = Spent(w)
         /\ Challenge(c, w, eap).reply.code = "challenge"
         /\ Challenge(c, w, eap).reply.state = <<c, server'[c].step>>
<1>1. PICK x : x = [w EXCEPT !.id = eap.id, !.step = @ + 1]
  OBVIOUS
<1>2. /\ x.st = w.st /\ x.step = w.step + 1 /\ x.verdict = w.verdict
      /\ x.rx = w.rx /\ x.tx = w.tx /\ x.got = w.got
      /\ w.st = st /\ w.step \in Nat
  BY <1>1 DEF Conversation
<1>3. server' = [i \in 1 .. Len(server) \cup {c} |-> IF i = c THEN x ELSE server[i]]
  BY <1>1 DEF Challenge
<1>4. /\ DOMAIN server' = DOMAIN server \cup {c} /\ server'[c] = x
      /\ \A i \in DOMAIN server : i # c => server'[i] = server[i]
  BY <1>3 DEF ServerTypeOK
<1>5. w.step <= x.step /\ w.step < x.step
  BY <1>2
<1>6. Follows(server, server')
  BY <1>4, <1>5 DEF Follows
<1>7. Spent(x) = Spent(w)
  BY <1>2 DEF Spent
<1>8. /\ Challenge(c, w, eap).reply.code = "challenge"
      /\ Challenge(c, w, eap).reply.state = <<c, w.step + 1>>
  BY DEF Challenge
<1>9. QED
  BY <1>2, <1>4, <1>6, <1>7, <1>8

LEMMA VerdictSteps ==
  ASSUME ServerTypeOK, NEW st, NEW c \in DOMAIN server, NEW w \in Conversation(st),
         server[c].verdict = Nil, server[c].step = w.step,
         NEW code \in Verdict, NEW id, server' = Verdicts(c, w, code, id).server
  PROVE  /\ Follows(server, server')
         /\ c \in DOMAIN server' /\ server'[c].st = st /\ server'[c].verdict = code
         /\ Verdicts(c, w, code, id).reply.code = code
         /\ Verdicts(c, w, code, id).reply.state = Nil
<1>1. PICK x : x = [w EXCEPT !.verdict = code]
  OBVIOUS
<1>2. x.st = st /\ x.step = w.step /\ x.verdict = code /\ w.step \in Nat
  BY <1>1 DEF Conversation
<1>3. server' = [server EXCEPT ![c] = x]
  BY <1>1 DEF Verdicts
<1>4. /\ DOMAIN server' = DOMAIN server /\ server'[c] = x
      /\ \A i \in DOMAIN server : i # c => server'[i] = server[i]
  BY <1>3 DEF ServerTypeOK
<1>5. code # Nil /\ w.step <= x.step
  BY <1>2, NoneAssumption
<1>6. Follows(server, server')
  BY <1>2, <1>4, <1>5 DEF Follows
<1>7. /\ Verdicts(c, w, code, id).reply.code = code
      /\ Verdicts(c, w, code, id).reply.state = Nil
  BY DEF Verdicts
<1>8. QED
  BY <1>2, <1>4, <1>6, <1>7

(* The session s has n round trips behind it: none before its station is   *)
(* known to the server, what the conversation that it is in has taken      *)
(* then.  One that has fallen behind its conversation is in none.          *)
Owes(conversations, s, n) ==
  \/ s.radius_state = Nil /\ s.key[1] = "new" /\ n = 0
  \/ \E c \in DOMAIN conversations :
       /\ s.radius_state = <<c, conversations[c].step>>
       /\ conversations[c].verdict = Nil /\ n = Spent(conversations[c])

(* The server's answer r to a request made for s costs one more.           *)
Bills(s, r, conversations) ==
  \/ r.code = "reject" /\ r.state = Nil /\ s.key[1] # "new"
  \/ \E n \in Int :
       /\ Owes(server, s, n)
       /\ \/ /\ r.code = "challenge"
             /\ \E c \in DOMAIN conversations :
                  /\ r.state = <<c, conversations[c].step>>
                  /\ Spent(conversations[c]) = n + 1
          \/ /\ r.code = "accept" /\ r.state = Nil /\ s.key[1] # "new"
             /\ \E c \in DOMAIN conversations :
                  /\ conversations[c].verdict = "accept"
                  /\ ExpectedTrips(conversations[c].st) = n + 1

(* What the server has begun with, and what it has let in with.            *)
LEMMA FirstSpent ==
  ASSUME Alphabet, script \in [Stations -> Scripts], NEW st \in Stations,
         NEW v \in Conversation(st), v.got = <<>>, v.rx = <<>>, v.tx = <<>>
  PROVE  Spent(v) = 1
<1>1. PICK up : up = Flight(st, 2 * 0 + 1)
  OBVIOUS
<1>2. up \in Seq(Of(st))
  BY <1>1, FlightType
<1>3. PICK len \in Int : len = Len(up)
  BY <1>2
<1>4. PICK left \in Nat : left = Left(len)
  BY LeftType
<1>5. Len(v.got) = 0 /\ Len(v.rx) = 0 /\ Len(v.tx) = 0 /\ v.st = st
  BY DEF Conversation
<1>6. TripsAfter(script[st])[0] = 1
  BY PairCost
<1>7. 2 * 0 = 0 /\ len - 0 = len
  BY <1>3
<1>8. Spent(v) = 1 + left - left - 0
  BY <1>1, <1>3, <1>4, <1>5, <1>6, <1>7 DEF Spent
<1>9. QED
  BY <1>8

LEMMA LastSpent ==
  ASSUME Alphabet, script \in [Stations -> Scripts], NEW st \in Stations,
         NEW v \in Conversation(st), 2 * Len(v.got) = FlightCount, v.tx = <<>>
  PROVE  Spent(v) \in Int /\ ExpectedTrips(st) = Spent(v) + 1
<1>1. PICK n \in Nat : n = FlightCount
  BY TestbedAssumption
<1>2. Flight(st, n + 1) = <<>>
  BY <1>1 DEF Flight
<1>3. PICK len \in Nat : len = Len(v.rx)
  BY DEF Conversation
<1>4. Len(Flight(st, 2 * Len(v.got) + 1)) = 0 /\ Len(v.tx) = 0 /\ v.st = st
  BY <1>1, <1>2 DEF Conversation
<1>5. Left(0) = 0 /\ Left(0 - len) = 0
  BY <1>3 DEF Left
<1>6. n \in 0 .. FlightCount
  BY <1>1
<1>7. PICK t \in Int : t = TripsAfter(script[st])[n]
  BY <1>6, PairCost
<1>8. Spent(v) = t + 0 - 0 - 0
  BY <1>1, <1>3, <1>4, <1>5, <1>7 DEF Spent
<1>9. ExpectedTrips(st) = t + 1
  BY <1>1, <1>7 DEF ExpectedTrips
<1>10. QED
  BY <1>8, <1>9

(* What the proxy sends upstream is cut like this, whichever mode it is    *)
(* in, and the server is told as much of the link as ChunkSize() says.     *)
AskCut(pc, eap, rest) ==
  /\ pc \in {"forward", "drain"} => Reassembling
  /\ pc = "passthrough" => ~Reassembling
  /\ Even(rest, UpstreamFragmentSize)
  /\ pc # "non_tls" => Full(eap, ChunkSize(1))

HandlerCut ==
  handler # Nil =>
    /\ AskCut(handler.pc, upstream.eap, handler.rest)
    /\ sessions[handler.key].ap_attrs = ApAttrs
    /\ ServerLimit(upstream.attrs) = ChunkSize(2)

LEMMA IntroducedSpends ==
  ASSUME Alphabet, TestbedInv, TunnelInv, handler # Nil, NEW s, s = sessions[handler.key],
         NEW p, NEW talks, Introduces(p, talks, handler.datagram),
         upstream.eap = handler.datagram.eap, server' = Converse(upstream).server
  PROVE  Follows(server, server') /\ Bills(s, Converse(upstream).reply, server')
<1>1. PICK st \in Stations : st = handler.datagram.authenticator[1]
  BY Blocking
<1>2. PICK c : c = Len(server) + 1
  OBVIOUS
<1>3. PICK w : w = [st |-> st, id |-> Nil, step |-> 0, tx |-> <<>>, rx |-> <<>>,
                    got |-> <<>>, verdict |-> Nil]
  OBVIOUS
<1>4. PICK eap : eap = [Bare("tls", NextId(upstream.eap.id)) EXCEPT !.start = TRUE]
  OBVIOUS
<1>5. upstream.eap.data[1][1] = st
  BY <1>1 DEF Introduces, TestbedInv, Owned, HandlerOwned
<1>6. Converse(upstream) = Challenge(c, w, eap)
  BY <1>2, <1>3, <1>4, <1>5 DEF Converse
<1>7. w \in Conversation(st) /\ w.got = <<>> /\ w.rx = <<>> /\ w.tx = <<>> /\ w.step = 0
  <2>1. <<>> \in Seq(Of(st)) /\ <<>> \in Seq(Seq(Of(st)))
    OBVIOUS
  <2>2. QED
    BY <1>3, <2>1 DEF Conversation
<1>8. ServerTypeOK /\ script \in [Stations -> Scripts]
  BY DEF TestbedInv, PeerTypeOK
<1>9. c \in 1 .. Len(server) + 1 /\ c \notin DOMAIN server
  BY <1>2, <1>8 DEF ServerTypeOK
<1>10. server' = Challenge(c, w, eap).server
  BY <1>6
<1>11. /\ Follows(server, server') /\ c \in DOMAIN server'
       /\ Spent(server'[c]) = Spent(w)
       /\ Challenge(c, w, eap).reply.code = "challenge"
       /\ Challenge(c, w, eap).reply.state = <<c, server'[c].step>>
  BY <1>7, <1>8, <1>9, <1>10, ChallengeSteps
<1>12. Spent(w) = 0 + 1
  BY <1>7, <1>8, FirstSpent
<1>13. Owes(server, s, 0)
  <2>1. s.key[1] = "new"
    <3>1. KeyOf(handler.datagram)[1] = "new"
      BY DEF KeyOf, Introduces
    <3>2. QED
      BY <3>1, Blocking
  <2>2. s.radius_state = Nil
    <3>1. handler.key \in DOMAIN sessions
      BY Blocking
    <3>2. QED
      BY <2>1, <3>1 DEF TestbedInv, Owned, SessionsOwned, Unbegun
  <2>3. QED
    BY <2>1, <2>2 DEF Owes
<1>14. QED
  BY <1>6, <1>11, <1>12, <1>13 DEF Bills

(* What is known of the handler of a request in conversation c.            *)
Bound(s, st, c, v) ==
  /\ st \in Stations /\ c \in DOMAIN server /\ v = server[c] /\ v \in Conversation(st)
  /\ v.verdict = Nil /\ s.radius_state = <<c, v.step>> /\ s.key[1] # "new"

LEMMA BoundOwes ==
  ASSUME NEW s, NEW st, NEW c, NEW v, Bound(s, st, c, v) PROVE Owes(server, s, Spent(v))
BY DEF Bound, Owes

LEMMA ProceedSpends ==
  ASSUME Alphabet, script \in [Stations -> Scripts], FlightsCarryData, ServerTypeOK, HandlerCut,
         handler # Nil, upstream \in UpstreamType, NEW s, NEW st, NEW c, NEW v,
         Bound(s, st, c, v), upstream.eap \in Packet(Of(st)), NEW p, p.got \in Seq(Seq(Of(st))),
         handler.pc # "non_tls", handler.pc = "passthrough" <=> ~Reassembling,
         Minds(Flights(st), p, s, v, handler, upstream.eap),
         server' = Proceed(c, upstream).server
  PROVE  Follows(server, server') /\ Bills(s, Proceed(c, upstream).reply, server')
<1>1. /\ st \in Stations /\ c \in DOMAIN server /\ v = server[c] /\ v \in Conversation(st)
      /\ v.verdict = Nil /\ s.key[1] # "new"
  BY DEF Bound
<1>2. 2 * Len(v.got) <= FlightCount /\ (IsAck(upstream.eap) \/ Heard(st, v, upstream.eap))
  BY <1>1, MindsHeard
<1>3. Full(upstream.eap, ChunkSize(1)) /\ ServerLimit(upstream.attrs) = ChunkSize(2)
  BY DEF HandlerCut, AskCut
<1>4. Owes(server, s, Spent(v))
  BY BoundOwes
<1>5. GoesOn(Proceed(c, upstream), st, c, v, upstream) \/ Stops(Proceed(c, upstream), st, c, v)
  BY <1>1, ProceedWays
<1>6. ASSUME GoesOn(Proceed(c, upstream), st, c, v, upstream)
      PROVE  Follows(server, server') /\ Bills(s, Proceed(c, upstream).reply, server')
  <2>1. PICK w \in Conversation(st) : \E eap :
          Proceed(c, upstream) = Challenge(c, w, eap) /\ Onward(v, w, upstream)
    BY <1>6 DEF GoesOn
  <2>2. PICK eap : Proceed(c, upstream) = Challenge(c, w, eap) /\ Onward(v, w, upstream)
    BY <2>1
  <2>3. c \in 1 .. Len(server) + 1
    BY <1>1 DEF ServerTypeOK
  <2>4. w.step = v.step /\ server' = Challenge(c, w, eap).server
    BY <2>2 DEF Onward
  <2>5. /\ Follows(server, server') /\ c \in DOMAIN server'
        /\ Spent(server'[c]) = Spent(w)
        /\ Challenge(c, w, eap).reply.code = "challenge"
        /\ Challenge(c, w, eap).reply.state = <<c, server'[c].step>>
    BY <1>1, <2>3, <2>4, ChallengeSteps
  <2>6. Spent(v) \in Int /\ Spent(w) = Spent(v) + 1
    BY <1>1, <1>2, <1>3, <2>2, OnwardSpends
  <2>7. QED
    BY <1>4, <2>2, <2>5, <2>6 DEF Bills
<1>7. ASSUME Stops(Proceed(c, upstream), st, c, v)
      PROVE  Follows(server, server') /\ Bills(s, Proceed(c, upstream).reply, server')
  <2>1. PICK w \in Conversation(st), code \in Verdict : \E id :
          /\ Proceed(c, upstream) = Verdicts(c, w, code, id) /\ w.step = v.step
          /\ code = "accept" => v.tx = <<>> /\ 2 * Len(v.got) = FlightCount
    BY <1>7 DEF Stops
  <2>2. PICK id :
          /\ Proceed(c, upstream) = Verdicts(c, w, code, id) /\ w.step = v.step
          /\ code = "accept" => v.tx = <<>> /\ 2 * Len(v.got) = FlightCount
    BY <2>1
  <2>3. server' = Verdicts(c, w, code, id).server
    BY <2>2
  <2>4. /\ Follows(server, server')
        /\ c \in DOMAIN server' /\ server'[c].st = st /\ server'[c].verdict = code
        /\ Verdicts(c, w, code, id).reply.code = code
        /\ Verdicts(c, w, code, id).reply.state = Nil
    BY <1>1, <2>2, <2>3, VerdictSteps
  <2>5. CASE code = "reject"
    BY <1>1, <2>2, <2>4, <2>5 DEF Bills
  <2>6. CASE code = "accept"
    <3>1. Spent(v) \in Int /\ ExpectedTrips(st) = Spent(v) + 1
      BY <1>1, <2>2, <2>6, LastSpent
    <3>2. QED
      BY <1>1, <1>4, <2>2, <2>4, <2>6, <3>1 DEF Bills
  <2>7. QED
    BY <2>5, <2>6 DEF Verdict
<1>8. QED
  BY <1>5, <1>6, <1>7

(* Whatever comes of a request that the proxy makes is charged for.        *)
LEMMA OutcomeSpends ==
  ASSUME Alphabet, TestbedInv, TunnelInv, FlightsCarryData, HandlerCut, handler # Nil,
         NEW s, s = sessions[handler.key], NEW o \in Outcomes(upstream), server' = o.server
  PROVE  Follows(server, server') /\ Bills(s, o.reply, server')
<1>1. PICK st \in Stations : st = handler.datagram.authenticator[1]
  BY Blocking
<1>2. PICK f, p, talks : f = Flights(st) /\ p = peer[st] /\ talks = Talks(st)
  OBVIOUS
<1>3. HandlerFine(f, p, s, talks, handler, upstream.eap)
  BY <1>1, <1>2, Blocking
<1>4. ServerTypeOK /\ script \in [Stations -> Scripts] /\ p.got \in Seq(Seq(Of(st)))
  BY <1>2 DEF TestbedInv, PeerTypeOK, Peer
<1>5. upstream \in UpstreamType
  BY DEF TestbedInv, ProxyInv, TypeOK, HandlerCoherent
<1>6. handler.pc # "non_tls" => s.key[1] # "new"
  <2>1. s.key = handler.key
    BY Blocking
  <2>2. QED
    BY <2>1 DEF TestbedInv, Owned, HandlerOwned
<1>7. upstream.eap \in Packet(Of(st))
  BY <1>1 DEF TestbedInv, Owned, HandlerOwned
<1>8. handler.pc # "non_tls" => (handler.pc = "passthrough" <=> ~Reassembling)
  BY <1>3 DEF HandlerFine
<1>9. CASE /\ handler.pc = "non_tls" /\ Introduces(p, talks, handler.datagram)
           /\ upstream.eap = handler.datagram.eap /\ o = Converse(upstream)
  BY <1>9, IntroducedSpends
<1>10. CASE handler.pc # "non_tls" /\ Dead(s) /\ o = NoSuchConversation(upstream)
  <2>1. server' = server /\ o.reply.code = "reject" /\ o.reply.state = Nil
    BY <1>10 DEF NoSuchConversation
  <2>2. QED
    BY <1>6, <1>10, <2>1 DEF Bills, Follows
<1>11. ASSUME handler.pc # "non_tls", NEW c \in DOMAIN talks,
              Linked(s, c, talks[c]), Minds(f, p, s, talks[c], handler, upstream.eap),
              \/ o = Proceed(c, upstream)
              \/ o = Verdicts(c, talks[c], "reject", talks[c].id)
       PROVE  Follows(server, server') /\ Bills(s, o.reply, server')
  <2>1. PICK v : v = server[c]
    OBVIOUS
  <2>2. c \in DOMAIN server /\ talks[c] = v /\ v.st = st
    BY <1>2, <2>1, TalksFacts
  <2>3. v \in Conversation(st)
    BY <1>4, <2>1, <2>2, ConversationType
  <2>4. Bound(s, st, c, v)
    BY <1>6, <1>11, <2>1, <2>2, <2>3 DEF Bound, Linked
  <2>5. CASE o = Proceed(c, upstream)
    BY <1>2, <1>4, <1>5, <1>7, <1>8, <1>11, <2>2, <2>4, <2>5, ProceedSpends
  <2>6. CASE o = Verdicts(c, v, "reject", v.id)
    <3>1. "reject" \in Verdict /\ v.verdict = Nil /\ s.key[1] # "new"
      BY <2>4 DEF Verdict, Bound
    <3>2. server' = Verdicts(c, v, "reject", v.id).server
      BY <2>6
    <3>3. /\ Follows(server, server')
          /\ Verdicts(c, v, "reject", v.id).reply.code = "reject"
          /\ Verdicts(c, v, "reject", v.id).reply.state = Nil
      BY <1>4, <2>1, <2>2, <2>3, <3>1, <3>2, VerdictSteps
    <3>4. QED
      BY <2>6, <3>1, <3>3 DEF Bills
  <2>7. QED
    BY <1>11, <2>2, <2>5, <2>6
<1>12. QED
  BY <1>2, <1>3, <1>9, <1>10, <1>11, HandlersOutcome

-----------------------------------------------------------------------------
(* The ways the handler of d can leave off, for this purpose.              *)

(* Session t has paid, and is to pay, for the same as s.                   *)
Tally(t, s) ==
  /\ t \in SessionType /\ t.key = s.key /\ t.radius_state = s.radius_state
  /\ t.upstream_round_trips = s.upstream_round_trips /\ t.ap_attrs = s.ap_attrs

Outcome(code) == IF code = "challenge" THEN Nil ELSE code

Fail(s) == \E t : Tally(t, s) /\ Raise(t)
AskEven(d, s) ==
  \E t : \E pc, eap, rest :
    /\ Tally(t, s) /\ AskCut(pc, eap, rest) /\ Ask(d, t, pc, eap, rest)
    /\ pc \in {"forward", "drain", "passthrough", "non_tls"} /\ rest \in Seq(Seq(Unit))
Tell(d, s, code) ==
  \E t : \E eap : Tally(t, s) /\ t.result = Outcome(code) /\ Reply(d, t, code, eap)

LeavesOff(d, s, code) == Fail(s) \/ AskEven(d, s) \/ Tell(d, s, code)

LEMMA QueuedTally ==
  ASSUME NEW s0, NEW s \in SessionType, Tally(s, s0), NEW chunks \in Seq(Seq(Unit)),
         NEW t, t = [s EXCEPT !.down_outbox = chunks]
  PROVE  Tally(t, s0) /\ t.result = s.result /\ t.down_outbox = chunks
<1>1. t \in SessionType
  BY DEF SessionType
<1>2. /\ t.key = s.key /\ t.radius_state = s.radius_state /\ t.result = s.result
      /\ t.upstream_round_trips = s.upstream_round_trips /\ t.ap_attrs = s.ap_attrs
      /\ t.down_outbox = chunks
  BY DEF SessionType
<1>3. QED
  BY <1>1, <1>2 DEF Tally

LEMMA NumberedTally ==
  ASSUME NEW s0, NEW s \in SessionType, Tally(s, s0), NEW id \in Identifier,
         NEW t, t = [s EXCEPT !.down_next_id = id]
  PROVE  Tally(t, s0) /\ t.result = s.result /\ t.down_outbox = s.down_outbox
<1>1. t \in SessionType
  BY DEF SessionType
<1>2. /\ t.key = s.key /\ t.radius_state = s.radius_state /\ t.result = s.result
      /\ t.upstream_round_trips = s.upstream_round_trips /\ t.ap_attrs = s.ap_attrs
      /\ t.down_outbox = s.down_outbox
  BY DEF SessionType
<1>3. QED
  BY <1>1, <1>2 DEF Tally

LEMMA ReplyFragmentTells ==
  ASSUME NEW d, NEW s0, NEW s, Tally(s, s0), s.result = Nil, s.down_outbox # <<>>,
         NEW length, ReplyFragment(d, s, length)
  PROVE  Tell(d, s0, "challenge")
<1>1. PICK id : id = NextId(s.down_next_id)
  OBVIOUS
<1>2. PICK rest : rest = Tail(s.down_outbox)
  OBVIOUS
<1>3. s \in SessionType
  BY DEF Tally
<1>4. id \in Identifier
  BY <1>1, <1>3, NextIdType DEF SessionType
<1>5. rest \in Seq(Seq(Unit))
  <2>1. s.down_outbox \in Seq(Seq(Unit))
    BY <1>3 DEF SessionType
  <2>2. QED
    BY <1>2, <2>1
<1>6. PICK t : t = [s EXCEPT !.down_next_id = id, !.down_outbox = rest]
  OBVIOUS
<1>7. PICK u : u = [s EXCEPT !.down_next_id = id]
  OBVIOUS
<1>8. Tally(t, s0) /\ t.result = Nil
  <2>1. Tally(u, s0) /\ u.result = Nil
    BY <1>3, <1>4, <1>7, NumberedTally
  <2>2. u \in SessionType /\ t = [u EXCEPT !.down_outbox = rest]
    BY <1>6, <1>7, <2>1 DEF Tally
  <2>3. QED
    BY <1>5, <2>1, <2>2, QueuedTally
<1>9. PICK eap : Reply(d, t, "challenge", eap)
  BY <1>1, <1>2, <1>6 DEF ReplyFragment
<1>10. QED
  BY <1>8, <1>9 DEF Tell, Outcome

LEMMA ReplyRecordTells ==
  ASSUME NEW d, NEW s0, NEW s, Tally(s, s0), s.result = Nil, NEW record \in Seq(Unit),
         ReplyRecord(d, s, record)
  PROVE  Tell(d, s0, "challenge")
<1>1. PICK chunks : chunks = Fragment(record, DownstreamFragmentSize)
  OBVIOUS
<1>2. chunks \in Seq(Seq(Unit)) /\ chunks # <<>>
  BY <1>1, FragmentType, FragmentSizeAssumption
<1>3. PICK t : t = [s EXCEPT !.down_outbox = chunks]
  OBVIOUS
<1>4. s \in SessionType
  BY DEF Tally
<1>5. Tally(t, s0) /\ t.result = Nil /\ t.down_outbox = chunks
  BY <1>2, <1>3, <1>4, QueuedTally
<1>6. ReplyFragment(d, t, Len(record))
  BY <1>1, <1>3 DEF ReplyRecord
<1>7. QED
  BY <1>2, <1>5, <1>6, ReplyFragmentTells

LEMMA EchoedTally ==
  ASSUME NEW s0, NEW s, Tally(s, s0) PROVE Tally(Echoed(s), s0)
<1>1. s \in SessionType
  BY DEF Tally
<1>2. PICK id : id = NextId(s.up_next_id)
  OBVIOUS
<1>3. id \in Identifier
  BY <1>1, <1>2, NextIdType DEF SessionType
<1>4. PICK t : t = [s EXCEPT !.up_next_id = id]
  OBVIOUS
<1>5. t \in SessionType
  BY <1>1, <1>3, <1>4 DEF SessionType
<1>6. Tally(t, s0)
  BY <1>1, <1>4, <1>5 DEF Tally, SessionType
<1>7. Echoed(s) = s \/ Echoed(s) = t
  BY <1>2, <1>4 DEF Echoed
<1>8. QED
  BY <1>6, <1>7

LEMMA AskAckEven ==
  ASSUME Reassembling, NEW d, NEW s0, NEW s, Tally(s, s0), NEW pc \in {"forward", "drain"},
         AskAck(d, s, pc)
  PROVE  AskEven(d, s0)
<1>1. Full(AckPacket(EchoId(s)), ChunkSize(1))
  BY FullAck, FragmentSizeAssumption DEF ChunkSize
<1>2. AskCut(pc, AckPacket(EchoId(s)), <<>>)
  BY <1>1 DEF AskCut, Even
<1>3. Tally(Echoed(s), s0) /\ <<>> \in Seq(Seq(Unit))
  BY EchoedTally
<1>4. QED
  BY <1>2, <1>3 DEF AskAck, AskEven

LEMMA AskChunkEven ==
  ASSUME Reassembling, NEW d, NEW s0, NEW s, Tally(s, s0), NEW chunks \in Seq(Seq(Unit)),
         chunks # <<>>, Even(chunks, UpstreamFragmentSize), NEW length,
         AskChunk(d, s, chunks, length)
  PROVE  AskEven(d, s0)
<1>1. PICK eap : eap = Frame(EchoId(s), length, Len(chunks) > 1, Head(chunks))
  OBVIOUS
<1>2. UpstreamFragmentSize \in Nat /\ ChunkSize(1) = UpstreamFragmentSize
  BY FragmentSizeAssumption DEF ChunkSize
<1>3. Full(eap, ChunkSize(1)) /\ Even(Tail(chunks), UpstreamFragmentSize)
  BY <1>1, <1>2, EvenHead
<1>4. AskCut("forward", eap, Tail(chunks))
  BY <1>3 DEF AskCut
<1>5. Tally(Echoed(s), s0)
  BY EchoedTally
<1>6. Ask(d, Echoed(s), "forward", eap, Tail(chunks)) /\ Tail(chunks) \in Seq(Seq(Unit))
  BY <1>1 DEF AskChunk
<1>7. QED
  BY <1>4, <1>5, <1>6 DEF AskEven

(* The session that a datagram finds.                                      *)
LEMMA SyncedTally ==
  ASSUME ProxyInv, NEW d \in Datagram, NEW s, s = Get(sessions, KeyOf(d)), s.result = Nil
  PROVE  /\ Tally(Opened(d), Opened(d)) /\ Opened(d).result = Nil
         /\ Tally(Synced(d), Opened(d)) /\ Synced(d).result = Nil
<1>1. Opened(d) \in SessionType /\ Synced(d) \in SessionType
  BY OpenedCurrent, SyncedCurrent, CurrentType
<1>2. Similar(Opened(d), s)
  BY SyncedSimilar
<1>3. PICK o : o = Opened(d)
  OBVIOUS
<1>4. PICK last : last = IF Reassembling THEN d.eap.id ELSE o.down_last_req_id
  OBVIOUS
<1>5. Synced(d) = [o EXCEPT !.down_next_id = d.eap.id, !.down_last_req_id = last]
  BY <1>1, <1>3, <1>4 DEF Synced, SessionType
<1>6. PICK t : t = Synced(d)
  OBVIOUS
<1>7. /\ t.key = o.key /\ t.radius_state = o.radius_state /\ t.result = o.result
      /\ t.upstream_round_trips = o.upstream_round_trips /\ t.ap_attrs = o.ap_attrs
  BY <1>1, <1>3, <1>5, <1>6 DEF SessionType
<1>8. o.result = Nil
  BY <1>2, <1>3 DEF Similar
<1>9. QED
  BY <1>1, <1>3, <1>6, <1>7, <1>8 DEF Tally

LEMMA ReceiveLeavesOff ==
  ASSUME ProxyInv, NEW d \in Datagram, Get(sessions, KeyOf(d)).result = Nil,
         Full(d.eap, PeerFragmentSize), Receive(d)
  PROVE  LeavesOff(d, Opened(d), "challenge")
<1>1. PICK o : o = Opened(d)
  OBVIOUS
<1>2. PICK s : s = Synced(d)
  OBVIOUS
<1>3. Tally(o, o) /\ Tally(s, o) /\ o.result = Nil /\ s.result = Nil
  BY <1>1, <1>2, SyncedTally
<1>4. s \in SessionType
  BY <1>3 DEF Tally
<1>5. PICK in : in = Ingest(s.up_reasm, d.eap)
  OBVIOUS
<1>6. PICK reasm : reasm = in.reasm
  OBVIOUS
<1>7. reasm \in Reassembler(Unit)
  <2>1. s.up_reasm \in Reassembler(Unit) /\ d.eap \in Packet(Unit)
    BY <1>4 DEF SessionType, Datagram
  <2>2. QED
    BY <1>5, <1>6, <2>1, IngestType
<1>8. PICK t : t = [s EXCEPT !.up_reasm = reasm]
  OBVIOUS
<1>9. t \in SessionType
  BY <1>4, <1>7, <1>8 DEF SessionType
<1>10. Tally(t, o) /\ t.result = Nil
  <2>1. /\ t.key = s.key /\ t.radius_state = s.radius_state /\ t.result = s.result
        /\ t.upstream_round_trips = s.upstream_round_trips /\ t.ap_attrs = s.ap_attrs
    BY <1>4, <1>8 DEF SessionType
  <2>2. QED
    BY <1>3, <1>9, <2>1 DEF Tally
<1>11. ASSUME ForwardNonTls(d) PROVE AskEven(d, o)
  <2>1. AskCut("non_tls", d.eap, <<>>) /\ <<>> \in Seq(Seq(Unit))
    BY DEF AskCut, Even
  <2>2. QED
    BY <1>1, <1>3, <1>11, <2>1 DEF ForwardNonTls, AskEven
<1>12. ASSUME RefuseMalformed(d) PROVE Fail(o)
  BY <1>1, <1>3, <1>12 DEF RefuseMalformed, Fail
<1>13. ASSUME ForwardVerbatim(d) PROVE AskEven(d, o)
  <2>1. ~Reassembling
    BY <1>13 DEF ForwardVerbatim
  <2>2. ChunkSize(1) = PeerFragmentSize
    BY <2>1 DEF ChunkSize
  <2>3. AskCut("passthrough", d.eap, <<>>) /\ <<>> \in Seq(Seq(Unit))
    BY <2>1, <2>2 DEF AskCut, Even
  <2>4. QED
    BY <1>2, <1>3, <1>13, <2>3 DEF ForwardVerbatim, AskEven
<1>14. ASSUME SendNextFragment(d) PROVE Tell(d, o, "challenge")
  BY <1>2, <1>3, <1>14, ReplyFragmentTells DEF SendNextFragment
<1>15. ~SendPendingVerdict(d)
  BY <1>2, <1>3 DEF SendPendingVerdict
<1>16. ASSUME PollUpstream(d) PROVE AskEven(d, o)
  BY <1>2, <1>3, <1>16, AskAckEven DEF PollUpstream
<1>17. ASSUME AckLocally(d) PROVE Tell(d, o, "challenge")
  <2>1. PICK id : id = NextId(s.down_next_id)
    OBVIOUS
  <2>2. id \in Identifier
    BY <1>4, <2>1, NextIdType DEF SessionType
  <2>3. PICK u : u = [t EXCEPT !.down_next_id = id]
    OBVIOUS
  <2>4. Tally(u, o) /\ u.result = Nil
    BY <1>9, <1>10, <2>2, <2>3, NumberedTally
  <2>5. u = [s EXCEPT !.up_reasm = in.reasm, !.down_next_id = id]
    BY <1>6, <1>8, <2>3
  <2>6. Reply(d, u, "challenge", AckPacket(id))
    BY <1>2, <1>5, <1>17, <2>1, <2>5 DEF AckLocally
  <2>7. QED
    BY <2>4, <2>6 DEF Tell, Outcome
<1>18. ASSUME ForwardRecord(d) PROVE AskEven(d, o)
  <2>1. PICK chunks : chunks = Fragment(reasm.buffer, UpstreamFragmentSize)
    OBVIOUS
  <2>2. Reassembling /\ AskChunk(d, t, chunks, Len(reasm.buffer))
    BY <1>2, <1>5, <1>6, <1>8, <1>18, <2>1 DEF ForwardRecord
  <2>3. reasm.buffer \in Seq(Unit)
    BY <1>7 DEF Reassembler
  <2>4. chunks \in Seq(Seq(Unit)) /\ chunks # <<>> /\ Even(chunks, UpstreamFragmentSize)
    BY <2>1, <2>3, FragmentType, FragmentEven, FragmentSizeAssumption
  <2>5. QED
    BY <1>10, <2>2, <2>4, AskChunkEven
<1>19. ASSUME RefuseOversize(d) PROVE Fail(o)
  BY <1>2, <1>5, <1>6, <1>8, <1>10, <1>19 DEF RefuseOversize, Fail
<1>20. QED
  BY <1>1, <1>11, <1>12, <1>13, <1>14, <1>15, <1>16, <1>17, <1>18, <1>19 DEF Receive, LeavesOff

(* A session given its verdict.                                            *)
LEMMA FinishedTally ==
  ASSUME NEW s0, NEW s \in SessionType, Tally(s, s0), NEW code \in Verdict,
         NEW eap \in Packet(Unit) \cup {Nil}
  PROVE  /\ Tally(Finished(s, code), s0) /\ Finished(s, code).result = code
         /\ Tally(Stashed(s, code, eap), s0) /\ Stashed(s, code, eap).result = code
<1>1. PICK f : f = [s EXCEPT !.result = code]
  OBVIOUS
<1>2. f = Finished(s, code)
  BY <1>1 DEF Finished
<1>3. f \in SessionType
  BY <1>1 DEF SessionType
<1>4. /\ f.key = s.key /\ f.radius_state = s.radius_state /\ f.result = code
      /\ f.upstream_round_trips = s.upstream_round_trips /\ f.ap_attrs = s.ap_attrs
  BY <1>1 DEF SessionType
<1>5. PICK pending : pending = [f.pending EXCEPT ![code] = eap]
  OBVIOUS
<1>6. pending \in [Verdict -> Packet(Unit) \cup {Nil}]
  BY <1>3, <1>5 DEF SessionType
<1>7. PICK g : g = [f EXCEPT !.pending = pending]
  OBVIOUS
<1>8. g = Stashed(s, code, eap)
  BY <1>2, <1>3, <1>5, <1>7 DEF Stashed, SessionType
<1>9. g \in SessionType
  BY <1>3, <1>6, <1>7 DEF SessionType
<1>10. /\ g.key = f.key /\ g.radius_state = f.radius_state /\ g.result = f.result
       /\ g.upstream_round_trips = f.upstream_round_trips /\ g.ap_attrs = f.ap_attrs
  BY <1>3, <1>7 DEF SessionType
<1>11. Tally(f, s0)
  BY <1>3, <1>4 DEF Tally
<1>12. Tally(g, s0)
  BY <1>4, <1>9, <1>10 DEF Tally
<1>13. QED
  BY <1>2, <1>4, <1>8, <1>10, <1>11, <1>12

LEMMA AnswerLeavesOff ==
  ASSUME ProxyInv, HandlerCut, NEW r \in ServerReply, r.code = "accept" => r.keyed,
         sessions[handler.key].result = Nil, Answer(r)
  PROVE  LeavesOff(handler.datagram, Blocked(r), r.code)
<1>1. handler # Nil
  BY DEF Answer
<1>2. PICK d : d = handler.datagram
  OBVIOUS
<1>3. PICK s : s = Blocked(r)
  OBVIOUS
<1>4. s \in SessionType /\ s.result = Nil /\ Tally(s, s)
  <2>1. s \in SessionType
    BY <1>1, <1>3, BlockedCurrent, CurrentType
  <2>2. s.result = Nil
    BY <1>1, <1>3, BlockedFields DEF Learnt
  <2>3. QED
    BY <2>1, <2>2 DEF Tally
<1>5. r.code \in {"challenge"} \cup Verdict /\ r.eap \in Packet(Unit) \cup {Nil}
  BY DEF ServerReply
<1>6. PICK in : in = Ingest(s.down_reasm, r.eap)
  OBVIOUS
<1>7. PICK reasm : reasm = in.reasm
  OBVIOUS
<1>8. PICK t : t = [s EXCEPT !.down_reasm = reasm]
  OBVIOUS
<1>9. ASSUME r.eap # Nil
      PROVE  Tally(t, s) /\ t.result = Nil /\ reasm.buffer \in Seq(Unit)
  <2>1. s.down_reasm \in Reassembler(Unit) /\ r.eap \in Packet(Unit)
    BY <1>4, <1>5, <1>9 DEF SessionType
  <2>2. reasm \in Reassembler(Unit)
    BY <1>6, <1>7, <2>1, IngestType
  <2>3. t \in SessionType
    BY <1>4, <1>8, <2>2 DEF SessionType
  <2>4. /\ t.key = s.key /\ t.radius_state = s.radius_state /\ t.result = s.result
        /\ t.upstream_round_trips = s.upstream_round_trips /\ t.ap_attrs = s.ap_attrs
    BY <1>4, <1>8 DEF SessionType
  <2>5. QED
    BY <1>4, <2>2, <2>3, <2>4 DEF Tally, Reassembler
<1>10. Settling => Reassembling
  BY <1>1 DEF Settling, HandlerCut, AskCut
<1>11. ASSUME ForwardNextChunk(r) PROVE AskEven(d, s)
  <2>1. Reassembling /\ Even(handler.rest, UpstreamFragmentSize) /\ handler.rest # <<>>
    BY <1>1, <1>11 DEF ForwardNextChunk, HandlerCut, AskCut
  <2>2. handler.rest \in Seq(Seq(Unit))
    BY <1>1 DEF ProxyInv, TypeOK, HandlerType
  <2>3. AskChunk(d, s, handler.rest, Nil)
    BY <1>2, <1>3, <1>11 DEF ForwardNextChunk
  <2>4. QED
    BY <1>4, <2>1, <2>2, <2>3, AskChunkEven
<1>12. ASSUME Conclude(r) PROVE Tell(d, s, r.code)
  <2>1. PICK f : f = Stashed(s, r.code, r.eap)
    OBVIOUS
  <2>2. r.code \in Verdict /\ Reply(d, f, r.code, Restamp(f, r.eap))
    BY <1>2, <1>3, <1>12, <2>1 DEF Conclude
  <2>3. Tally(f, s) /\ f.result = r.code
    BY <1>4, <1>5, <2>1, <2>2, FinishedTally
  <2>4. Outcome(r.code) = r.code
    BY <2>2 DEF Outcome, Verdict
  <2>5. QED
    BY <2>2, <2>3, <2>4 DEF Tell
<1>13. ASSUME RelayEmptyChallenge(r) PROVE Tell(d, s, r.code)
  BY <1>2, <1>3, <1>4, <1>13 DEF RelayEmptyChallenge, Tell, Outcome
<1>14. ASSUME BreakOffDrain(r) PROVE Tell(d, s, r.code)
  <2>1. r.code = "challenge" /\ ReplyRecord(d, s, s.down_reasm.buffer)
    BY <1>2, <1>3, <1>14 DEF BreakOffDrain
  <2>2. s.down_reasm.buffer \in Seq(Unit)
    BY <1>4 DEF SessionType, Reassembler
  <2>3. QED
    BY <1>4, <2>1, <2>2, ReplyRecordTells
<1>15. ASSUME RefuseUnparsable(r) PROVE Fail(s)
  BY <1>3, <1>4, <1>15 DEF RefuseUnparsable, Fail
<1>16. ASSUME PullNextFragment(r) PROVE AskEven(d, s)
  <2>1. r.eap # Nil /\ Reassembling /\ AskAck(d, t, "drain")
    BY <1>2, <1>3, <1>6, <1>7, <1>8, <1>10, <1>16 DEF PullNextFragment, IsFragment
  <2>2. QED
    BY <1>9, <2>1, AskAckEven
<1>17. ASSUME RelayRecord(r) PROVE Tell(d, s, r.code)
  <2>1. r.eap # Nil /\ r.code = "challenge" /\ ReplyRecord(d, t, reasm.buffer)
    BY <1>2, <1>3, <1>6, <1>7, <1>8, <1>17 DEF RelayRecord, IsFragment
  <2>2. QED
    BY <1>9, <2>1, ReplyRecordTells
<1>18. ASSUME RefuseOversizeUpstream(r) PROVE Fail(s)
  BY <1>3, <1>6, <1>7, <1>8, <1>9, <1>18 DEF RefuseOversizeUpstream, IsFragment, Fail
<1>19. PICK f : f = IF r.code \in Verdict THEN Finished(s, r.code) ELSE s
  OBVIOUS
<1>20. Tally(f, s) /\ f.result = Outcome(r.code)
  <2>1. CASE r.code \in Verdict
    <3>1. Tally(f, s) /\ f.result = r.code
      BY <1>4, <1>5, <1>19, <2>1, FinishedTally
    <3>2. QED
      BY <2>1, <3>1 DEF Outcome, Verdict
  <2>2. CASE r.code \notin Verdict
    BY <1>4, <1>5, <1>19, <2>2 DEF Outcome
  <2>3. QED
    BY <2>1, <2>2
<1>21. ASSUME RelayNonTls(r) PROVE Tell(d, s, r.code)
  BY <1>2, <1>3, <1>19, <1>20, <1>21 DEF RelayNonTls, Tell
<1>22. ASSUME RelayVerbatim(r) PROVE Tell(d, s, r.code)
  BY <1>2, <1>3, <1>19, <1>20, <1>22 DEF RelayVerbatim, Tell
<1>23. QED
  BY <1>2, <1>3, <1>11, <1>12, <1>13, <1>14, <1>15, <1>16, <1>17, <1>18, <1>21, <1>22
     DEF Answer, LeavesOff

-----------------------------------------------------------------------------
(* The table and the reports when the handler of d has left off.           *)

(* Of the request on the upstream wire the session has paid already.       *)
Wire(k) == IF handler # Nil /\ handler.key = k THEN 1 ELSE 0

(* x is session s when w requests more are on the wire.                    *)
Tallied(x, s, w) ==
  /\ x.radius_state = s.radius_state /\ x.ap_attrs = s.ap_attrs
  /\ x.key[1] = "new" => s.key[1] = "new"
  /\ x.upstream_round_trips = s.upstream_round_trips + w

Untouched(k, s) ==
  k \in DOMAIN sessions /\ sessions'[k] = sessions[k] /\ k # s.key /\ Wire(k)' = 0

Reported(x, s, code) ==
  Outcome(code) \in Verdict /\ x.result = code
  /\ x.upstream_round_trips = s.upstream_round_trips

Settled(s, code) ==
  /\ \A k \in DOMAIN sessions' : Tallied(sessions'[k], s, Wire(k)') \/ Untouched(k, s)
  /\ HandlerCut'
  /\ \A x \in reports' : x \in reports \/ Reported(x, s, code)

LEMMA FailSettles ==
  ASSUME NEW s, NEW code, Fail(s) PROVE Settled(s, code)
<1>1. PICK t : Tally(t, s) /\ Raise(t)
  BY DEF Fail
<1>2. sessions' = Put(sessions, t) /\ handler' = Nil /\ reports' = reports
  BY <1>1 DEF Raise
<1>3. \A k : Wire(k)' = 0
  BY <1>2 DEF Wire
<1>4. Tallied(t, s, 0) /\ t.key = s.key
  BY <1>1 DEF Tally, Tallied, SessionType
<1>5. \A k \in DOMAIN sessions' :
        \/ sessions'[k] = t
        \/ k \in DOMAIN sessions /\ sessions'[k] = sessions[k] /\ k # s.key
  BY <1>2, <1>4 DEF Put
<1>6. HandlerCut'
  BY <1>2 DEF HandlerCut
<1>7. QED
  BY <1>2, <1>3, <1>4, <1>5, <1>6 DEF Settled, Untouched

LEMMA AskSettles ==
  ASSUME NEW d \in Datagram, NEW s, NEW code, s.ap_attrs = ApAttrs, AskEven(d, s)
  PROVE  Settled(s, code)
<1>1. PICK t : \E pc, eap, rest :
        /\ Tally(t, s) /\ AskCut(pc, eap, rest) /\ Ask(d, t, pc, eap, rest)
        /\ pc \in {"forward", "drain", "passthrough", "non_tls"} /\ rest \in Seq(Seq(Unit))
  BY DEF AskEven
<1>2. PICK pc, eap, rest :
        /\ Tally(t, s) /\ AskCut(pc, eap, rest) /\ Ask(d, t, pc, eap, rest)
        /\ pc \in {"forward", "drain", "passthrough", "non_tls"} /\ rest \in Seq(Seq(Unit))
  BY <1>1
<1>3. PICK x : x = [t EXCEPT !.upstream_round_trips = @ + 1]
  OBVIOUS
<1>4. t \in SessionType /\ t.ap_attrs = ApAttrs /\ t.key = s.key
  BY <1>2 DEF Tally
<1>5. /\ x.key = t.key /\ x.radius_state = t.radius_state /\ x.ap_attrs = t.ap_attrs
      /\ x.upstream_round_trips = t.upstream_round_trips + 1
  BY <1>3, <1>4 DEF SessionType
<1>6. /\ sessions' = Put(sessions, x) /\ reports' = reports
      /\ handler' = [pc |-> pc, key |-> t.key, datagram |-> d, rest |-> rest]
      /\ upstream'.eap = eap /\ upstream'.attrs = UpstreamAttrs(t)
  BY <1>2, <1>3 DEF Ask
<1>7. t.key \in Key
  BY <1>4 DEF SessionType
<1>8. handler' \in HandlerType
  BY <1>2, <1>6, <1>7 DEF HandlerType
<1>9. handler' # Nil /\ handler'.key = s.key /\ handler'.pc = pc /\ handler'.rest = rest
  BY <1>4, <1>6, <1>8, NoneAssumption
<1>10. \A k : Wire(k)' = IF k = s.key THEN 1 ELSE 0
  BY <1>9 DEF Wire
<1>11. Tallied(x, s, 1)
  BY <1>2, <1>4, <1>5 DEF Tally, Tallied
<1>12. \A k \in DOMAIN sessions' :
        \/ sessions'[k] = x /\ k = s.key
        \/ k \in DOMAIN sessions /\ sessions'[k] = sessions[k] /\ k # s.key
  BY <1>4, <1>5, <1>6 DEF Put
<1>13. sessions'[s.key].ap_attrs = ApAttrs
  BY <1>4, <1>5, <1>6 DEF Put
<1>14. ServerLimit(UpstreamAttrs(t)) = ChunkSize(2)
  BY <1>4, LimitOfAttrs
<1>15. HandlerCut'
  BY <1>2, <1>6, <1>9, <1>13, <1>14 DEF HandlerCut
<1>16. QED
  BY <1>6, <1>10, <1>11, <1>12, <1>15 DEF Settled, Untouched

LEMMA TellSettles ==
  ASSUME NEW d, NEW s, NEW code, Tell(d, s, code), Outcome(code) \in Verdict => Outcome(code) = code
  PROVE  Settled(s, code)
<1>1. PICK r : \E eap : Tally(r, s) /\ r.result = Outcome(code) /\ Reply(d, r, code, eap)
  BY DEF Tell
<1>2. PICK eap : Tally(r, s) /\ r.result = Outcome(code) /\ Reply(d, r, code, eap)
  BY <1>1
<1>3. PICK mints : mints = (code = "challenge" /\ r.downstream_state = Nil)
  OBVIOUS
<1>4. PICK t : t = IF mints
                     THEN [r EXCEPT !.downstream_state = minted, !.key = StateKey(minted)]
                     ELSE r
  OBVIOUS
<1>5. PICK kept : kept = Rekey(sessions, r.key, t)
  OBVIOUS
<1>6. /\ handler' = Nil
      /\ sessions' \in {kept, Drop(kept, t.key)}
      /\ reports' = reports \/ (t.result \in Verdict /\ reports' = reports \cup {Summary(t)})
  BY <1>2, <1>3, <1>4, <1>5 DEF Reply, Report
<1>7. /\ t.radius_state = r.radius_state /\ t.ap_attrs = r.ap_attrs /\ t.result = r.result
      /\ t.upstream_round_trips = r.upstream_round_trips
      /\ t.key = StateKey(minted) \/ t.key = r.key
      /\ r.upstream_round_trips \in Nat
  BY <1>2, <1>4 DEF Tally, SessionType
<1>8. StateKey(minted)[1] # "new"
  BY DEF StateKey
<1>9. Tallied(t, s, 0) /\ r.key = s.key
  BY <1>2, <1>7, <1>8 DEF Tally, Tallied
<1>10. \A k \in DOMAIN kept :
         kept[k] = t \/ (k \in DOMAIN sessions /\ kept[k] = sessions[k] /\ k # s.key)
  BY <1>5, <1>9 DEF Rekey, Put, Drop
<1>11. \A k \in DOMAIN sessions' : k \in DOMAIN kept /\ sessions'[k] = kept[k]
  BY <1>6 DEF Drop
<1>12. \A k : Wire(k)' = 0
  BY <1>6 DEF Wire
<1>13. HandlerCut'
  BY <1>6 DEF HandlerCut
<1>14. /\ Summary(t).result = Outcome(code)
       /\ Summary(t).upstream_round_trips = s.upstream_round_trips
  BY <1>2, <1>7 DEF Summary, Tally
<1>15. \A x \in reports' : x \in reports \/ Reported(x, s, code)
  BY <1>2, <1>6, <1>7, <1>14 DEF Reported
<1>16. \A k \in DOMAIN sessions' : Tallied(sessions'[k], s, Wire(k)') \/ Untouched(k, s)
  BY <1>9, <1>10, <1>11, <1>12 DEF Untouched
<1>17. QED
  BY <1>13, <1>15, <1>16 DEF Settled

LEMMA LeftOffSettles ==
  ASSUME NEW d \in Datagram, NEW s, NEW code \in {"challenge"} \cup Verdict,
         s.ap_attrs = ApAttrs, LeavesOff(d, s, code)
  PROVE  Settled(s, code)
<1>1. Outcome(code) \in Verdict => Outcome(code) = code
  BY NoneAssumption DEF Outcome, Verdict
<1>2. QED
  BY <1>1, FailSettles, AskSettles, TellSettles DEF LeavesOff

-----------------------------------------------------------------------------
(* What a session has paid.                                                *)

(* Session s, of whose requests w are on the wire, has paid for what it    *)
(* owes, and for no more than seen requests besides, and never has a State *)
(* from a round of its conversation that is still to come.                 *)
Charged(conversations, s, w, seen) ==
  /\ s.radius_state # Nil =>
       /\ s.radius_state[1] \in DOMAIN conversations
       /\ s.radius_state[2] <= conversations[s.radius_state[1]].step
  /\ \A n \in Int :
       Owes(conversations, s, n) => s.upstream_round_trips - w - n \in 0 .. seen

Stepped(conversations) ==
  \A c \in DOMAIN conversations : c \in Nat /\ conversations[c].step \in Nat

(* The conversations moving on, or a request timing out, leave it so.      *)
LEMMA ChargeKept ==
  ASSUME Alphabet, NEW before, NEW after, Stepped(before), Stepped(after),
         Follows(before, after),
         NEW s \in SessionType, NEW w \in Nat, NEW x \in 0 .. w, NEW seen \in Nat,
         NEW more \in Nat, seen + (w - x) <= more,
         Charged(before, s, w, seen)
  PROVE  Charged(after, s, x, more)
<1>1. PICK trips \in Nat : trips = s.upstream_round_trips
  BY DEF SessionType
<1>2. ASSUME s.radius_state # Nil
      PROVE  \E c, step \in Nat :
               /\ s.radius_state = <<c, step>> /\ c \in DOMAIN before /\ c \in DOMAIN after
               /\ step <= before[c].step /\ before[c].step \in Nat /\ after[c].step \in Nat
  <2>1. s.radius_state \in Nat \X Nat
    BY <1>2 DEF SessionType, Alphabet
  <2>2. PICK c, step \in Nat : s.radius_state = <<c, step>>
    BY <2>1
  <2>3. c \in DOMAIN before /\ step <= before[c].step
    BY <1>2, <2>2 DEF Charged
  <2>4. c \in DOMAIN after /\ before[c].step \in Nat /\ after[c].step \in Nat
    BY <2>3 DEF Follows, Stepped
  <2>5. QED
    BY <2>2, <2>3, <2>4
<1>3. ASSUME s.radius_state # Nil
      PROVE  /\ s.radius_state[1] \in DOMAIN after
             /\ s.radius_state[2] <= after[s.radius_state[1]].step
  <2>1. PICK c, step \in Nat :
          /\ s.radius_state = <<c, step>> /\ c \in DOMAIN before /\ c \in DOMAIN after
          /\ step <= before[c].step /\ before[c].step \in Nat /\ after[c].step \in Nat
    BY <1>2, <1>3
  <2>2. PICK i \in Nat : i = before[c].step
    BY <2>1
  <2>3. PICK j \in Nat : j = after[c].step
    BY <2>1
  <2>4. i <= j
    BY <2>1, <2>2, <2>3 DEF Follows
  <2>5. step <= j
    BY <2>1, <2>2, <2>4
  <2>6. QED
    BY <2>1, <2>3, <2>5
<1>4. ASSUME NEW n \in Int, Owes(after, s, n) PROVE Owes(before, s, n)
  <2>1. CASE s.radius_state = Nil /\ s.key[1] = "new" /\ n = 0
    BY <2>1 DEF Owes
  <2>2. ASSUME NEW c \in DOMAIN after, s.radius_state = <<c, after[c].step>>,
               after[c].verdict = Nil, n = Spent(after[c])
        PROVE  Owes(before, s, n)
    <3>1. c \in Nat /\ after[c].step \in Nat
      BY DEF Stepped
    <3>2. s.radius_state # Nil
      BY <2>2, <3>1, NoneAssumption DEF Alphabet
    <3>3. PICK e, step \in Nat :
            /\ s.radius_state = <<e, step>> /\ e \in DOMAIN before /\ e \in DOMAIN after
            /\ step <= before[e].step /\ before[e].step \in Nat /\ after[e].step \in Nat
      BY <1>2, <3>2
    <3>4. e = c /\ step = after[c].step
      BY <2>2, <3>3
    <3>5. after[c] = before[c]
      BY <2>2, <3>3, <3>4 DEF Follows
    <3>6. QED
      BY <2>2, <3>3, <3>4, <3>5 DEF Owes
  <2>3. QED
    BY <1>4, <2>1, <2>2 DEF Owes
<1>5. ASSUME NEW n \in Int, Owes(after, s, n) PROVE trips - x - n \in 0 .. more
  <2>1. trips - w - n \in 0 .. seen
    BY <1>1, <1>4, <1>5 DEF Charged
  <2>2. QED
    BY <1>1, <2>1
<1>6. QED
  BY <1>1, <1>3, <1>5 DEF Charged

(* A session that has been answered pays for one round trip more.          *)
LEMMA BillCharged ==
  ASSUME Alphabet, NEW after, Stepped(after), NEW s \in SessionType, NEW t \in SessionType,
         NEW r, NEW seen \in Nat, Charged(server, s, 1, seen), Bills(s, r, after),
         t.key = s.key, t.radius_state = r.state,
         t.upstream_round_trips = s.upstream_round_trips
  PROVE  /\ Charged(after, t, 0, seen)
         /\ r.code = "accept" =>
              \E c \in DOMAIN after :
                /\ after[c].verdict = "accept"
                /\ t.upstream_round_trips - ExpectedTrips(after[c].st) \in 0 .. seen
<1>1. PICK trips \in Nat : trips = s.upstream_round_trips /\ trips = t.upstream_round_trips
  BY DEF SessionType
<1>2. \A c \in DOMAIN after : <<c, after[c].step>> # Nil
  BY NoneAssumption DEF Alphabet, Stepped
<1>3. ASSUME r.state = Nil, s.key[1] # "new" PROVE Charged(after, t, 0, seen)
  <2>1. t.radius_state = Nil /\ ~(t.key[1] = "new")
    BY <1>3
  <2>2. \A c \in DOMAIN after : t.radius_state # <<c, after[c].step>>
    BY <1>2, <2>1
  <2>3. \A n \in Int : ~Owes(after, t, n)
    BY <2>1, <2>2, Zenon DEF Owes
  <2>4. QED
    BY <2>1, <2>3 DEF Charged
<1>4. CASE r.code = "reject" /\ r.state = Nil /\ s.key[1] # "new"
  BY <1>3, <1>4
<1>5. ASSUME NEW n \in Int, Owes(server, s, n), r.code = "challenge",
             NEW c \in DOMAIN after, r.state = <<c, after[c].step>>,
             Spent(after[c]) = n + 1
      PROVE  Charged(after, t, 0, seen)
  <2>1. trips - 1 - n \in 0 .. seen
    BY <1>1, <1>5 DEF Charged
  <2>2. ASSUME NEW m \in Int, Owes(after, t, m) PROVE m = n + 1
    <3>1. PICK e \in DOMAIN after : /\ t.radius_state = <<e, after[e].step>>
                                    /\ m = Spent(after[e])
      BY <1>2, <1>5, <2>2 DEF Owes
    <3>2. e = c
      BY <1>5, <3>1
    <3>3. QED
      BY <1>5, <3>1, <3>2
  <2>3. \A m \in Int : Owes(after, t, m) => trips - 0 - m \in 0 .. seen
    <3>1. SUFFICES ASSUME NEW m \in Int, Owes(after, t, m) PROVE trips - 0 - m \in 0 .. seen
      OBVIOUS
    <3>2. m = n + 1
      BY <2>2, <3>1
    <3>3. QED
      BY <2>1, <3>2, <1>1
  <2>4. /\ t.radius_state[1] \in DOMAIN after
        /\ t.radius_state[2] <= after[t.radius_state[1]].step
    <3>1. PICK j \in Nat : j = after[c].step
      BY DEF Stepped
    <3>2. t.radius_state = <<c, j>> /\ j <= j
      BY <1>5, <3>1
    <3>3. QED
      BY <3>1, <3>2
  <2>5. QED
    BY <1>1, <2>3, <2>4 DEF Charged
<1>6. ASSUME NEW n \in Int, Owes(server, s, n), r.code = "accept", r.state = Nil,
             s.key[1] # "new", NEW c \in DOMAIN after, after[c].verdict = "accept",
             ExpectedTrips(after[c].st) = n + 1
      PROVE  t.upstream_round_trips - ExpectedTrips(after[c].st) \in 0 .. seen
  <2>1. trips - 1 - n \in 0 .. seen
    BY <1>1, <1>6 DEF Charged
  <2>2. trips - (n + 1) \in 0 .. seen
    BY <1>1, <2>1
  <2>3. QED
    BY <1>1, <1>6, <2>2
<1>7. QED
  BY <1>3, <1>4, <1>5, <1>6 DEF Bills

LEMMA TalliedCharged ==
  ASSUME Alphabet, NEW conversations, NEW s, NEW x, NEW w \in Nat, NEW seen \in Nat,
         s.upstream_round_trips \in Nat,
         Charged(conversations, s, 0, seen), Tallied(x, s, w)
  PROVE  Charged(conversations, x, w, seen)
<1>1. PICK trips \in Nat : trips = s.upstream_round_trips
  OBVIOUS
<1>2. x.upstream_round_trips = trips + w /\ x.radius_state = s.radius_state
  BY <1>1 DEF Tallied
<1>3. \A n \in Int : Owes(conversations, x, n) => Owes(conversations, s, n)
  BY DEF Owes, Tallied
<1>4. ASSUME NEW n \in Int, Owes(conversations, x, n)
      PROVE  x.upstream_round_trips - w - n \in 0 .. seen
  <2>1. trips - 0 - n \in 0 .. seen
    BY <1>1, <1>3, <1>4 DEF Charged
  <2>2. (trips + w) - w - n = trips - 0 - n
    BY <1>1
  <2>3. QED
    BY <1>2, <2>1, <2>2
<1>5. QED
  BY <1>2, <1>4 DEF Charged

-----------------------------------------------------------------------------
(* The ledger: the sessions of the table, and the reports.                 *)

Timeouts == MaxTimeouts - budget.timeout

(* The session remembers the link as the access point gave it.             *)
KnowsLink(s) == DOMAIN s.ap_attrs # {} => s.ap_attrs = ApAttrs

Ledger ==
  \A k \in DOMAIN sessions :
    KnowsLink(sessions[k]) /\ Charged(server, sessions[k], Wire(k), Timeouts)

(* Flights do not change.                                                  *)
LEMMA LedgerOf ==
  ASSUME script' = script,
         \A k \in DOMAIN sessions' :
           KnowsLink(sessions'[k]) /\ Charged(server', sessions'[k], Wire(k)', Timeouts')
  PROVE  Ledger'
BY DEF Ledger, KnowsLink, Charged, Owes, Spent, Flight

LEMMA ReportsKept ==
  ASSUME script' = script, RoundTripsExact, Follows(server, server'),
         Timeouts \in Nat, Timeouts' \in Nat, Timeouts <= Timeouts',
         server \in Seq(Conversations), server' \in Seq(Conversations),
         NEW x \in reports, x.result = "accept", x.upstream_round_trips \in Nat
  PROVE  \E c \in DOMAIN server' :
           /\ server'[c].verdict = "accept"
           /\ x.upstream_round_trips - ExpectedTrips(server'[c].st) \in 0 .. Timeouts'
<1>1. PICK v \in Range(server) :
        /\ v.verdict = "accept"
        /\ x.upstream_round_trips - ExpectedTrips(v.st) \in 0 .. Timeouts
  BY DEF RoundTripsExact, Timeouts
<1>2. PICK c \in DOMAIN server : v = server[c]
  BY DEF Range
<1>3. c \in DOMAIN server' /\ server'[c] = v
  BY <1>1, <1>2, NoneAssumption DEF Follows, Verdict
<1>4. PICK n : n = x.upstream_round_trips - ExpectedTrips(v.st)
  OBVIOUS
<1>5. n \in 0 .. Timeouts'
  BY <1>1, <1>4
<1>6. QED
  BY <1>1, <1>3, <1>4, <1>5

LEMMA ReportsOf ==
  ASSUME script' = script,
         \A x \in reports' : x.result = "accept" =>
           \E c \in DOMAIN server' :
             /\ server'[c].verdict = "accept"
             /\ x.upstream_round_trips - ExpectedTrips(server'[c].st) \in 0 .. Timeouts'
  PROVE  RoundTripsExact'
<1>1. \A x \in reports' : x.result = "accept" =>
        \E v \in Range(server') :
          /\ v.verdict = "accept"
          /\ x.upstream_round_trips - ExpectedTrips(v.st) \in 0 .. Timeouts'
  BY DEF Range
<1>2. QED
  BY <1>1 DEF RoundTripsExact, ExpectedTrips, Timeouts

(* Requests are cut to the stations' fragment size, all but the last of a  *)
(* flight.                                                                 *)
RequestsCut ==
  /\ \A d \in InFlight : Full(d.eap, PeerFragmentSize)
  /\ \A st \in Stations :
       /\ Even(peer[st].tx, PeerFragmentSize)
       /\ peer[st].status = "waiting" => Full(peer[st].request.eap, PeerFragmentSize)

TripInv ==
  /\ Budgeted /\ Timeouts \in Nat
  /\ RequestsNameLink /\ RequestsCut /\ HandlerCut /\ Ledger /\ RoundTripsExact

LEMMA ServerStepped ==
  ASSUME NEW conversations \in Seq(Conversations) PROVE Stepped(conversations)
<1>1. \A c \in DOMAIN conversations : c \in Nat /\ conversations[c] \in Conversations
  OBVIOUS
<1>2. QED
  BY <1>1 DEF Stepped, Conversations, Conversation

LEMMA FollowsItself == ASSUME NEW conversations PROVE Follows(conversations, conversations)
BY DEF Follows

(* When the handler has left off, session s being charged for, everything  *)
(* is.                                                                     *)
LEMMA SettledLedger ==
  ASSUME Alphabet, script' = script, Timeouts' \in Nat,
         NEW s \in SessionType, s.ap_attrs = ApAttrs, NEW code, Settled(s, code),
         Charged(server', s, 0, Timeouts'),
         \A k \in DOMAIN sessions : k # s.key =>
           KnowsLink(sessions[k]) /\ Charged(server', sessions[k], 0, Timeouts')
  PROVE  Ledger'
<1>1. \A k : Wire(k)' \in Nat
  BY DEF Wire
<1>2. s.upstream_round_trips \in Nat
  BY DEF SessionType
<1>3. ASSUME NEW k \in DOMAIN sessions', Tallied(sessions'[k], s, Wire(k)')
      PROVE  KnowsLink(sessions'[k]) /\ Charged(server', sessions'[k], Wire(k)', Timeouts')
  <2>1. PICK x : x = sessions'[k]
    OBVIOUS
  <2>2. PICK w \in Nat : w = Wire(k)'
    BY <1>1
  <2>3. Tallied(x, s, w)
    BY <1>3, <2>1, <2>2
  <2>4. Charged(server', x, w, Timeouts')
    BY <1>2, <2>3, TalliedCharged
  <2>5. KnowsLink(x)
    BY <2>3 DEF Tallied, KnowsLink
  <2>6. QED
    BY <2>1, <2>2, <2>4, <2>5
<1>4. ASSUME NEW k \in DOMAIN sessions', Untouched(k, s)
      PROVE  KnowsLink(sessions'[k]) /\ Charged(server', sessions'[k], Wire(k)', Timeouts')
  BY <1>4 DEF Untouched
<1>5. QED
  BY <1>3, <1>4, LedgerOf DEF Settled

(* The session that a datagram finds.                                      *)
LEMMA OpenedCharged ==
  ASSUME Alphabet, ProxyInv, Ledger, Timeouts \in Nat, handler = Nil,
         Stepped(server),
         NEW d \in Datagram, d.attrs = ApAttrs
  PROVE  /\ Opened(d) \in SessionType /\ Opened(d).key = KeyOf(d)
         /\ Opened(d).ap_attrs = ApAttrs
         /\ Charged(server, Opened(d), 0, Timeouts)
<1>1. Opened(d) \in SessionType
  BY OpenedCurrent, CurrentType
<1>2. PICK s : s = Get(sessions, KeyOf(d))
  OBVIOUS
<1>3. \A k : Wire(k) = 0
  BY DEF Wire
<1>4. /\ s \in SessionType /\ s.key = KeyOf(d) /\ KnowsLink(s)
      /\ Charged(server, s, 0, Timeouts)
  <2>1. CASE KeyOf(d) \in DOMAIN sessions
    <3>1. s = sessions[KeyOf(d)] /\ Wire(KeyOf(d)) = 0
      BY <1>2, <1>3, <2>1 DEF Get
    <3>2. s \in SessionType /\ s.key = KeyOf(d)
      BY <2>1, <3>1 DEF ProxyInv, TypeOK, TableCoherent
    <3>3. KnowsLink(s) /\ Charged(server, s, 0, Timeouts)
      BY <2>1, <3>1 DEF Ledger
    <3>4. QED
      BY <3>2, <3>3
  <2>2. CASE KeyOf(d) \notin DOMAIN sessions
    <3>1. s = NewSession(KeyOf(d))
      BY <1>2, <2>2 DEF Get
    <3>2. s.ap_attrs = <<>> /\ s.radius_state = Nil /\ s.upstream_round_trips = 0
      BY <3>1 DEF NewSession
    <3>3. s \in SessionType /\ s.key = KeyOf(d)
      BY <3>1, KeyOfType, NewSessionKept DEF Kept, KeptBelow
    <3>4. KnowsLink(s)
      BY <3>2 DEF KnowsLink
    <3>5. \A c \in DOMAIN server : s.radius_state # <<c, server[c].step>>
      BY <3>2, NoneAssumption DEF Alphabet, Stepped
    <3>6. \A n \in Int : Owes(server, s, n) => n = 0
      BY <3>5 DEF Owes
    <3>7. 0 - 0 - 0 \in 0 .. Timeouts
      OBVIOUS
    <3>8. Charged(server, s, 0, Timeouts)
      BY <3>2, <3>6, <3>7 DEF Charged
    <3>9. QED
      BY <3>3, <3>4, <3>8
  <2>3. QED
    BY <2>1, <2>2
<1>5. PICK attrs : attrs = IF DOMAIN s.ap_attrs = {} THEN d.attrs ELSE s.ap_attrs
  OBVIOUS
<1>6. attrs = ApAttrs
  BY <1>4, <1>5 DEF KnowsLink
<1>7. Opened(d) = [s EXCEPT !.last_ap_authenticator = d.authenticator, !.ap_attrs = attrs]
  BY <1>2, <1>4, <1>5 DEF Opened, SessionType
<1>8. PICK o : o = Opened(d)
  OBVIOUS
<1>9. /\ o.key = s.key /\ o.radius_state = s.radius_state
      /\ o.upstream_round_trips = s.upstream_round_trips /\ o.ap_attrs = ApAttrs
  BY <1>4, <1>6, <1>7, <1>8 DEF SessionType
<1>10. Charged(server, o, 0, Timeouts)
  BY <1>4, <1>9 DEF Charged, Owes
<1>11. QED
  BY <1>1, <1>4, <1>8, <1>9, <1>10

LEMMA BlockedPays ==
  ASSUME ProxyInv, handler # Nil, NEW r \in ServerReply, r.code = "accept" => r.keyed,
         NEW s, s = sessions[handler.key], NEW t, t = Blocked(r)
  PROVE  /\ s \in SessionType /\ t \in SessionType
         /\ t.key = s.key /\ t.ap_attrs = s.ap_attrs /\ t.radius_state = r.state
         /\ t.upstream_round_trips = s.upstream_round_trips
<1>1. Blocked(r) \in SessionType
  BY BlockedCurrent, CurrentType
<1>2. s \in SessionType
  BY DEF ProxyInv, HandlerCoherent, TypeOK
<1>3. PICK id : id = IF r.eap # Nil /\ r.eap.kind \notin {"success", "failure"}
                       THEN r.eap.id ELSE s.upstream_last_eap_req_id
  OBVIOUS
<1>4. PICK keys : keys = IF r.code = "accept" /\ r.keyed THEN upstream.authenticator ELSE s.keys
  OBVIOUS
<1>5. t = [s EXCEPT !.radius_state = r.state, !.upstream_last_eap_req_id = id, !.keys = keys]
  BY <1>2, <1>3, <1>4 DEF Blocked, Learned, SessionType
<1>6. /\ t.key = s.key /\ t.ap_attrs = s.ap_attrs /\ t.radius_state = r.state
      /\ t.upstream_round_trips = s.upstream_round_trips
  BY <1>2, <1>5 DEF SessionType
<1>7. QED
  BY <1>1, <1>2, <1>6

LEMMA TimeoutsKept ==
  ASSUME Budgeted, Timeouts \in Nat, budget' = budget
  PROVE  Budgeted' /\ Timeouts' = Timeouts
BY BudgetKept DEF Timeouts

LEMMA TimeoutsGrow ==
  ASSUME Budgeted, Timeouts \in Nat, NEW fault \in {"loss", "timeout", "restart"}, Spend(fault)
  PROVE  /\ Budgeted' /\ Timeouts' \in Nat /\ Timeouts <= Timeouts'
         /\ fault = "timeout" => Timeouts' = Timeouts + 1
<1>1. Budgeted'
  BY BudgetSpent
<1>2. budget.timeout \in Int /\ MaxTimeouts \in Nat
  BY BudgetAssumption DEF Budgeted
<1>3. budget'.timeout = IF fault = "timeout" THEN budget.timeout - 1 ELSE budget.timeout
  BY DEF Budgeted, Spend
<1>4. QED
  BY <1>1, <1>2, <1>3 DEF Timeouts

(* A request taken from the access point.                                  *)
LEMMA ProxyStepTrips ==
  ASSUME Alphabet, TestbedInv, TunnelInv, TripInv, TestbedInv', ProxyStep PROVE TripInv'
<1>1. PICK d : d = Head(inbox)
  OBVIOUS
<1>2. /\ inbox # <<>> /\ Receive(d) /\ inbox' = Tail(inbox)
      /\ script' = script /\ peer' = peer /\ server' = server /\ budget' = budget
  BY <1>1 DEF ProxyStep
<1>3. InFlight' \subseteq InFlight /\ d \in InFlight
  BY <1>1, <1>2, InFlightTail DEF TestbedInv, PeerTypeOK
<1>4. d \in Datagram /\ d.attrs = ApAttrs /\ Full(d.eap, PeerFragmentSize)
  BY <1>3 DEF TestbedInv, PeerTypeOK, OfStation, TripInv, RequestsNameLink, RequestsCut
<1>5. handler = Nil
  BY <1>2 DEF Receive
<1>6. Get(sessions, KeyOf(d)).result = Nil
  <2>1. PICK st \in Stations : st = d.authenticator[1]
    BY <1>4 DEF Datagram, Alphabet
  <2>2. PICK s : s = Get(sessions, KeyOf(d))
    OBVIOUS
  <2>3. RequestFine(Flights(st), peer[st], s, Talks(st), d)
    BY <1>3, <2>1, <2>2 DEF RequestsOf, TunnelInv, Course
  <2>4. CASE d.state = Nil
    <3>1. KeyOf(d)[1] = "new" /\ KeyOf(d) \in Key
      BY <1>4, <2>4, KeyOfType DEF KeyOf
    <3>2. CASE KeyOf(d) \in DOMAIN sessions
      BY <2>2, <3>1, <3>2 DEF TunnelInv, Blank, Get
    <3>3. CASE KeyOf(d) \notin DOMAIN sessions
      BY <2>2, <3>3 DEF Get, NewSession
    <3>4. QED
      BY <2>2, <3>2, <3>3
  <2>5. CASE d.state # Nil
    BY <2>2, <2>3, <2>5 DEF RequestFine, Introduces, Standing, Dead, Linked
  <2>6. QED
    BY <2>4, <2>5
<1>7. PICK s : s = Opened(d)
  OBVIOUS
<1>8. Stepped(server)
  BY ServerStepped DEF TestbedInv, ServerTypeOK
<1>9. /\ s \in SessionType /\ s.ap_attrs = ApAttrs
      /\ Charged(server, s, 0, Timeouts)
  BY <1>4, <1>5, <1>7, <1>8, OpenedCharged DEF TestbedInv, TripInv
<1>10. LeavesOff(d, s, "challenge")
  BY <1>2, <1>4, <1>6, <1>7, ReceiveLeavesOff DEF TestbedInv
<1>11. Settled(s, "challenge")
  BY <1>4, <1>9, <1>10, LeftOffSettles
<1>12. Budgeted' /\ Timeouts' = Timeouts /\ Timeouts \in Nat
  BY <1>2, TimeoutsKept DEF TripInv
<1>13. Ledger'
  <2>1. \A k : Wire(k) = 0
    BY <1>5 DEF Wire
  <2>2. \A k \in DOMAIN sessions :
          KnowsLink(sessions[k]) /\ Charged(server', sessions[k], 0, Timeouts')
    BY <1>2, <1>12, <2>1 DEF TripInv, Ledger
  <2>3. Charged(server', s, 0, Timeouts')
    BY <1>2, <1>9, <1>12
  <2>4. QED
    BY <1>2, <1>9, <1>11, <1>12, <2>2, <2>3, SettledLedger
<1>14. RoundTripsExact'
  <2>1. Outcome("challenge") \notin Verdict
    BY NoneAssumption DEF Outcome
  <2>2. reports' \subseteq reports
    BY <1>11, <2>1 DEF Settled, Reported
  <2>3. \A x \in reports' : x.upstream_round_trips \in Nat
    BY DEF TestbedInv, ProxyInv, TypeOK
  <2>4. Follows(server, server')
    BY <1>2, FollowsItself
  <2>5. QED
    BY <1>2, <1>12, <2>2, <2>3, <2>4, ReportsKept, ReportsOf DEF TripInv, TestbedInv, ServerTypeOK
<1>15. RequestsNameLink' /\ RequestsCut'
  BY <1>2, <1>3 DEF TripInv, RequestsNameLink, RequestsCut
<1>16. QED
  BY <1>11, <1>12, <1>13, <1>14, <1>15 DEF TripInv, Settled

(* What the sessions have paid for stays so as the conversations move on.  *)
LEMMA OthersCharged ==
  ASSUME Alphabet, TestbedInv, TestbedInv', TripInv, Follows(server, server'),
         Timeouts' \in Nat, NEW k \in DOMAIN sessions, NEW x \in 0 .. Wire(k),
         Timeouts + (Wire(k) - x) <= Timeouts'
  PROVE  KnowsLink(sessions[k]) /\ Charged(server', sessions[k], x, Timeouts')
<1>1. Stepped(server)
  BY ServerStepped DEF TestbedInv, ServerTypeOK
<1>2. Stepped(server')
  BY ServerStepped DEF TestbedInv, ServerTypeOK
<1>3. KnowsLink(sessions[k]) /\ Charged(server, sessions[k], Wire(k), Timeouts)
  BY DEF TripInv, Ledger
<1>4. sessions[k] \in SessionType /\ Timeouts \in Nat /\ Wire(k) \in Nat
  BY DEF TestbedInv, ProxyInv, TypeOK, TripInv, Wire
<1>5. QED
  BY <1>1, <1>2, <1>3, <1>4, ChargeKept

(* An answer of the server.                                                *)
LEMMA ServerStepTrips ==
  ASSUME Alphabet, FlightsCarryData, TestbedInv, TunnelInv, TripInv, TestbedInv', ServerStep
  PROVE  TripInv'
<1>1. PICK o \in Outcomes(upstream) : server' = o.server /\ Answer(o.reply)
  BY DEF ServerStep
<1>2. /\ script' = script /\ peer' = peer /\ inbox' = inbox /\ budget' = budget
      /\ handler # Nil
  BY <1>1 DEF ServerStep, Answer
<1>3. PICK r : r = o.reply
  OBVIOUS
<1>4. r \in ServerReply /\ (r.code = "accept" => r.keyed) /\ Answer(r)
  BY <1>1, <1>2, <1>3, UpstreamOwned DEF Fits
<1>5. PICK s : s = sessions[handler.key]
  OBVIOUS
<1>6. PICK t : t = Blocked(r)
  OBVIOUS
<1>7. Follows(server, server') /\ Bills(s, r, server')
  BY <1>1, <1>2, <1>3, <1>5, OutcomeSpends DEF TripInv
<1>8. /\ s \in SessionType /\ t \in SessionType
      /\ t.key = s.key /\ t.ap_attrs = s.ap_attrs /\ t.radius_state = r.state
      /\ t.upstream_round_trips = s.upstream_round_trips
  BY <1>2, <1>4, <1>5, <1>6, BlockedPays DEF TestbedInv
<1>9. /\ handler.key \in DOMAIN sessions /\ s.key = handler.key /\ t.ap_attrs = ApAttrs
  BY <1>2, <1>5, <1>8 DEF TestbedInv, ProxyInv, HandlerCoherent, TableCoherent, TripInv, HandlerCut
<1>10. Budgeted' /\ Timeouts' = Timeouts /\ Timeouts \in Nat
  BY <1>2, TimeoutsKept DEF TripInv
<1>11. s.result = Nil
  <2>1. PICK st : st = handler.datagram.authenticator[1]
    OBVIOUS
  <2>2. HandlerFine(Flights(st), peer[st], s, Talks(st), handler, upstream.eap)
    BY <1>2, <1>5, <2>1, Blocking
  <2>3. CASE handler.pc = "non_tls" /\ Introduces(peer[st], Talks(st), handler.datagram)
    <3>1. handler.datagram.state = Nil /\ handler.key = KeyOf(handler.datagram)
      BY <1>2, <2>3, Blocking DEF Introduces
    <3>2. handler.key[1] = "new"
      BY <3>1 DEF KeyOf
    <3>3. QED
      BY <1>5, <1>9, <3>2 DEF TunnelInv, Blank
  <2>4. CASE Dead(s) \/ \E c \in DOMAIN Talks(st) : Linked(s, c, Talks(st)[c])
    BY <2>4 DEF Dead, Linked
  <2>5. QED
    BY <2>2, <2>3, <2>4 DEF HandlerFine
<1>12. LeavesOff(handler.datagram, t, r.code)
  BY <1>2, <1>4, <1>5, <1>6, <1>11, AnswerLeavesOff DEF TestbedInv, TripInv
<1>13. handler.datagram \in Datagram /\ r.code \in {"challenge"} \cup Verdict
  BY <1>2, <1>4 DEF TestbedInv, ProxyInv, TypeOK, HandlerType, ServerReply
<1>14. Settled(t, r.code)
  BY <1>9, <1>12, <1>13, LeftOffSettles
<1>15. Stepped(server')
  BY ServerStepped DEF TestbedInv, ServerTypeOK
<1>16. Charged(server, s, 1, Timeouts)
  <2>1. Wire(handler.key) = 1
    BY <1>2 DEF Wire
  <2>2. QED
    BY <1>5, <1>9, <2>1 DEF TripInv, Ledger
<1>17. /\ Charged(server', t, 0, Timeouts')
       /\ r.code = "accept" =>
            \E c \in DOMAIN server' :
              /\ server'[c].verdict = "accept"
              /\ t.upstream_round_trips - ExpectedTrips(server'[c].st) \in 0 .. Timeouts'
  BY <1>7, <1>8, <1>10, <1>15, <1>16, BillCharged
<1>18. Ledger'
  <2>1. ASSUME NEW k \in DOMAIN sessions, k # t.key
        PROVE  KnowsLink(sessions[k]) /\ Charged(server', sessions[k], 0, Timeouts')
    <3>1. Wire(k) = 0
      BY <1>8, <1>9, <2>1 DEF Wire
    <3>2. 0 \in 0 .. Wire(k) /\ Timeouts + (Wire(k) - 0) <= Timeouts' /\ Timeouts' \in Nat
      BY <1>10, <3>1
    <3>3. QED
      BY <1>7, <3>2, OthersCharged
  <2>2. Timeouts' \in Nat
    BY <1>10
  <2>3. QED
    BY <1>2, <1>8, <1>9, <1>14, <1>17, <2>1, <2>2, SettledLedger
<1>19. RoundTripsExact'
  <2>1. ASSUME NEW x \in reports', x.result = "accept"
        PROVE  \E c \in DOMAIN server' :
                 /\ server'[c].verdict = "accept"
                 /\ x.upstream_round_trips - ExpectedTrips(server'[c].st) \in 0 .. Timeouts'
    <3>1. x.upstream_round_trips \in Nat
      BY DEF TestbedInv, ProxyInv, TypeOK
    <3>2. CASE x \in reports
      <4>1. server \in Seq(Conversations) /\ server' \in Seq(Conversations)
        BY DEF TestbedInv, ServerTypeOK
      <4>2. Timeouts' \in Nat /\ Timeouts <= Timeouts'
        BY <1>10
      <4>3. QED
        BY <1>2, <1>7, <1>10, <2>1, <3>1, <3>2, <4>1, <4>2, ReportsKept DEF TripInv
    <3>3. CASE Reported(x, t, r.code)
      BY <1>17, <2>1, <3>3 DEF Reported
    <3>4. QED
      BY <1>14, <3>2, <3>3 DEF Settled
  <2>2. QED
    BY <1>2, <2>1, ReportsOf
<1>20. RequestsNameLink' /\ RequestsCut'
  BY <1>2 DEF TripInv, RequestsNameLink, RequestsCut, InFlight
<1>21. QED
  BY <1>10, <1>14, <1>18, <1>19, <1>20 DEF TripInv, Settled

-----------------------------------------------------------------------------
(* The stations.                                                           *)

(* Station st sends a packet that is cut as it should be.                  *)
SendsCut(st) ==
  \E p, state, eap :
    /\ {"status", "request", "rounds", "id", "tx"} \subseteq DOMAIN p
    /\ p = [i \in DOMAIN p |-> p[i]]
    /\ Even(p.tx, PeerFragmentSize) /\ Full(eap, PeerFragmentSize)
    /\ Transmit(st, Sending(st, p, state, eap))

LEMMA SendsKeepCut ==
  ASSUME PeerTypeOK, PeerTypeOK', RequestsCut, NEW st \in Stations, SendsCut(st)
  PROVE  RequestsCut'
<1>1. PICK p, state, eap :
        /\ {"status", "request", "rounds", "id", "tx"} \subseteq DOMAIN p
        /\ p = [i \in DOMAIN p |-> p[i]]
        /\ Even(p.tx, PeerFragmentSize) /\ Full(eap, PeerFragmentSize)
        /\ Transmit(st, Sending(st, p, state, eap))
  BY DEF SendsCut
<1>2. PICK q : q = Sending(st, p, state, eap)
  OBVIOUS
<1>3. peer' = [peer EXCEPT ![st] = q] /\ inbox' = Append(inbox, q.request)
  BY <1>1, <1>2 DEF Transmit
<1>4. q.tx = p.tx /\ q.status = "waiting" /\ q.request.eap = eap
  BY <1>1, <1>2 DEF Sending
<1>5. peer'[st] = q /\ \A u \in Stations : u # st => peer'[u] = peer[u]
  BY <1>3 DEF PeerTypeOK
<1>6. q.request \in Datagram
  BY <1>4, <1>5 DEF PeerTypeOK, OfStation
<1>7. InFlight' = InFlight \cup {q.request}
  BY <1>3, <1>6, InFlightAppend DEF PeerTypeOK
<1>8. \A d \in InFlight' : Full(d.eap, PeerFragmentSize)
  BY <1>1, <1>4, <1>7 DEF RequestsCut
<1>9. ASSUME NEW u \in Stations
      PROVE  /\ Even(peer'[u].tx, PeerFragmentSize)
             /\ peer'[u].status = "waiting" => Full(peer'[u].request.eap, PeerFragmentSize)
  BY <1>1, <1>4, <1>5 DEF RequestsCut
<1>10. QED
  BY <1>8, <1>9 DEF RequestsCut

LEMMA EvenNothing == \A size : Even(<<>>, size)
BY DEF Even

LEMMA BeginCut ==
  ASSUME NEW st \in Stations, Begin(st, NewPeer) PROVE SendsCut(st)
<1>1. PICK id \in FirstIds :
        Transmit(st, Sending(st, NewPeer, Nil,
                             [Bare("other", id) EXCEPT !.data = <<<<st, 0, 0>>>>]))
  BY DEF Begin
<1>2. PICK eap : eap = [Bare("other", id) EXCEPT !.data = <<<<st, 0, 0>>>>]
  OBVIOUS
<1>3. eap.data = <<<<st, 0, 0>>>> /\ eap.more = FALSE
  BY <1>2 DEF Bare
<1>4. Len(<<<<st, 0, 0>>>>) = 1 /\ PeerFragmentSize \in Nat /\ PeerFragmentSize >= 1
  BY TestbedAssumption
<1>5. Full(eap, PeerFragmentSize)
  BY <1>3, <1>4 DEF Full
<1>6. PICK p : p = NewPeer
  OBVIOUS
<1>7. /\ {"status", "request", "rounds", "id", "tx"} \subseteq DOMAIN p
      /\ p = [i \in DOMAIN p |-> p[i]] /\ p.tx = <<>>
  BY <1>6 DEF NewPeer
<1>8. QED
  BY <1>1, <1>2, <1>5, <1>6, <1>7, EvenNothing DEF SendsCut

LEMMA SendFlightCut ==
  ASSUME Alphabet, script \in [Stations -> Scripts], NEW st \in Stations, NEW p,
         {"status", "request", "rounds", "id", "tx"} \subseteq DOMAIN p,
         p = [j \in DOMAIN p |-> p[j]],
         Even(p.tx, PeerFragmentSize), NEW m, NEW i \in Nat \ {0}, SendFlight(st, p, m, i)
  PROVE  SendsCut(st)
<1>1. PeerFragmentSize \in Nat \ {0}
  BY TestbedAssumption
<1>2. CASE i > FlightCount
  <2>1. Full(AckPacket(m.eap.id), PeerFragmentSize)
    BY <1>1, FullAck
  <2>2. QED
    BY <1>2, <2>1 DEF SendFlight, SendsCut
<1>3. CASE ~(i > FlightCount)
  <2>1. PICK flight : flight = Flight(st, i)
    OBVIOUS
  <2>2. PICK chunks : chunks = Fragment(flight, PeerFragmentSize)
    OBVIOUS
  <2>3. PICK rest : rest = Tail(chunks)
    OBVIOUS
  <2>4. PICK q : q = [p EXCEPT !.tx = rest]
    OBVIOUS
  <2>5. PICK eap : eap = FirstFragment(m.eap.id, flight, chunks)
    OBVIOUS
  <2>6. Transmit(st, Sending(st, q, m.state, eap))
    BY <1>3, <2>1, <2>2, <2>3, <2>4, <2>5 DEF SendFlight
  <2>7. flight \in Seq(Of(st))
    BY <2>1, FlightType
  <2>8. /\ chunks \in Seq(Seq(Of(st))) /\ chunks # <<>> /\ Even(chunks, PeerFragmentSize)
    BY <1>1, <2>2, <2>7, FragmentType, FragmentEven
  <2>9. Full(eap, PeerFragmentSize) /\ Even(rest, PeerFragmentSize)
    BY <1>1, <2>3, <2>5, <2>8, EvenHead DEF FirstFragment
  <2>10. /\ DOMAIN q = DOMAIN p /\ q = [j \in DOMAIN q |-> q[j]] /\ q.tx = rest
    BY <2>4
  <2>11. QED
    BY <2>6, <2>9, <2>10 DEF SendsCut
<1>4. QED
  BY <1>2, <1>3

LEMMA RespondCut ==
  ASSUME Alphabet, PeerTypeOK, RequestsCut, NEW st \in Stations, NEW m,
         peer[st].status = "waiting", Respond(st, m)
  PROVE  \/ SendsCut(st)
         \/ \E p : peer' = [peer EXCEPT ![st] = p] /\ inbox' = inbox
                   /\ p.tx = peer[st].tx /\ p.status = "failure"
<1>1. PICK p : p = peer[st]
  OBVIOUS
<1>2. p \in Peer(st) /\ PeerFragmentSize \in Nat \ {0}
  BY <1>1, TestbedAssumption DEF PeerTypeOK
<1>3. /\ {"status", "request", "rounds", "id", "tx", "rx", "got"} \subseteq DOMAIN p
      /\ p = [i \in DOMAIN p |-> p[i]]
      /\ p.tx \in Seq(Seq(Of(st))) /\ p.got \in Seq(Seq(Of(st)))
  BY <1>2 DEF Peer
<1>4. Even(p.tx, PeerFragmentSize) /\ Full(p.request.eap, PeerFragmentSize)
  BY <1>1 DEF RequestsCut
<1>5. script \in [Stations -> Scripts]
  BY DEF PeerTypeOK
<1>6. ASSUME AnswerAgain(st, m) PROVE SendsCut(st)
  <2>1. Transmit(st, Sending(st, p, m.state, p.request.eap))
    BY <1>1, <1>6 DEF AnswerAgain
  <2>2. QED
    BY <1>3, <1>4, <2>1 DEF SendsCut
<1>7. ASSUME AnswerStart(st, m) PROVE SendsCut(st)
  <2>1. SendFlight(st, p, m, 1) /\ 1 \in Nat \ {0}
    BY <1>1, <1>7 DEF AnswerStart
  <2>2. QED
    BY <1>3, <1>4, <1>5, <2>1, SendFlightCut
<1>8. ASSUME AnswerAck(st, m) PROVE SendsCut(st)
  <2>1. PICK rest : rest = Tail(p.tx)
    OBVIOUS
  <2>2. PICK q : q = [p EXCEPT !.tx = rest]
    OBVIOUS
  <2>3. PICK eap : eap = NextFragment(m.eap.id, p.tx)
    OBVIOUS
  <2>4. p.tx # <<>> /\ Transmit(st, Sending(st, q, m.state, eap))
    BY <1>1, <1>8, <2>1, <2>2, <2>3 DEF AnswerAck
  <2>5. Full(eap, PeerFragmentSize) /\ Even(rest, PeerFragmentSize)
    BY <1>2, <1>3, <1>4, <2>1, <2>3, <2>4, EvenHead DEF NextFragment
  <2>6. DOMAIN q = DOMAIN p /\ q = [i \in DOMAIN q |-> q[i]] /\ q.tx = rest
    BY <1>3, <2>2
  <2>7. QED
    BY <1>3, <2>4, <2>5, <2>6 DEF SendsCut
<1>9. ASSUME AnswerData(st, m)
      PROVE  \/ SendsCut(st)
             \/ \E q : peer' = [peer EXCEPT ![st] = q] /\ inbox' = inbox
                       /\ q.tx = peer[st].tx /\ q.status = "failure"
  <2>1. PICK record : record = p.rx \o m.eap.data
    OBVIOUS
  <2>2. PICK got : got = Append(p.got, record)
    OBVIOUS
  <2>3. \/ Transmit(st, Sending(st, [p EXCEPT !.rx = record], m.state, AckPacket(m.eap.id)))
        \/ /\ peer' = [peer EXCEPT ![st] = [p EXCEPT !.got = got, !.status = "failure"]]
           /\ inbox' = inbox
        \/ SendFlight(st, [p EXCEPT !.got = got, !.rx = <<>>], m, 2 * Len(got) + 1)
    BY <1>1, <1>9, <2>1, <2>2 DEF AnswerData
  <2>4. CASE Transmit(st, Sending(st, [p EXCEPT !.rx = record], m.state, AckPacket(m.eap.id)))
    <3>1. PICK q : q = [p EXCEPT !.rx = record]
      OBVIOUS
    <3>2. DOMAIN q = DOMAIN p /\ q = [i \in DOMAIN q |-> q[i]] /\ q.tx = p.tx
      BY <1>3, <3>1
    <3>3. Full(AckPacket(m.eap.id), PeerFragmentSize)
      BY <1>2, FullAck
    <3>4. QED
      BY <1>3, <1>4, <2>4, <3>1, <3>2, <3>3 DEF SendsCut
  <2>5. CASE /\ peer' = [peer EXCEPT ![st] = [p EXCEPT !.got = got, !.status = "failure"]]
             /\ inbox' = inbox
    <3>1. PICK q : q = [p EXCEPT !.got = got, !.status = "failure"]
      OBVIOUS
    <3>2. q.tx = p.tx /\ q.status = "failure"
      BY <1>3, <3>1
    <3>3. QED
      BY <1>1, <2>5, <3>1, <3>2
  <2>6. CASE SendFlight(st, [p EXCEPT !.got = got, !.rx = <<>>], m, 2 * Len(got) + 1)
    <3>1. PICK q : q = [p EXCEPT !.got = got, !.rx = <<>>]
      OBVIOUS
    <3>2. DOMAIN q = DOMAIN p /\ q = [i \in DOMAIN q |-> q[i]] /\ q.tx = p.tx
      BY <1>3, <3>1
    <3>3. Len(got) \in Nat
      BY <1>3, <2>2
    <3>4. PICK k \in Nat \ {0} : k = 2 * Len(got) + 1
      BY <3>3
    <3>5. SendFlight(st, q, m, k)
      BY <2>6, <3>1, <3>4
    <3>6. /\ {"status", "request", "rounds", "id", "tx"} \subseteq DOMAIN q
          /\ Even(q.tx, PeerFragmentSize)
      BY <1>3, <1>4, <3>2
    <3>7. SendsCut(st)
      BY <1>5, <3>2, <3>5, <3>6, SendFlightCut
    <3>8. QED
      BY <3>7
  <2>7. QED
    BY <2>3, <2>4, <2>5, <2>6
<1>10. QED
  BY <1>6, <1>7, <1>8, <1>9 DEF Respond

LEMMA PeerKeepsCut ==
  ASSUME Alphabet, PeerTypeOK, PeerTypeOK', RequestsCut, NEW st \in Stations, PeerStep(st),
         ~Retry(st)
  PROVE  RequestsCut'
<1>1. ASSUME NEW p, peer' = [peer EXCEPT ![st] = p], inbox' = inbox, p.tx = peer[st].tx,
             p.status \in {"success", "failure"}
      PROVE  RequestsCut'
  <2>1. peer'[st] = p /\ \A u \in Stations : u # st => peer'[u] = peer[u]
    BY <1>1 DEF PeerTypeOK
  <2>2. p.status # "waiting" /\ InFlight' = InFlight
    BY <1>1 DEF InFlight
  <2>3. QED
    BY <1>1, <2>1, <2>2 DEF RequestsCut
<1>2. CASE Start(st)
  BY <1>2, BeginCut, SendsKeepCut DEF Start
<1>3. ASSUME NEW m \in toAp, TakeReply(st, m) PROVE RequestsCut'
  <2>1. ASSUME Awaited(st, m), Respond(st, m) PROVE RequestsCut'
    <3>1. \/ SendsCut(st)
          \/ \E p : peer' = [peer EXCEPT ![st] = p] /\ inbox' = inbox
                    /\ p.tx = peer[st].tx /\ p.status = "failure"
      BY <2>1, RespondCut DEF Awaited
    <3>2. QED
      BY <1>1, <3>1, SendsKeepCut
  <2>2. ASSUME TakeVerdict(st, m) PROVE RequestsCut'
    <3>1. PICK status : status = IF m.code = "accept" THEN "success" ELSE "failure"
      OBVIOUS
    <3>2. peer[st] \in Peer(st) /\ st \in DOMAIN peer
      BY DEF PeerTypeOK
    <3>3. PICK p : p = [peer[st] EXCEPT !.status = status]
      OBVIOUS
    <3>4. peer' = [peer EXCEPT ![st] = p] /\ inbox' = inbox
      BY <2>2, <3>1, <3>2, <3>3 DEF TakeVerdict
    <3>5. p.tx = peer[st].tx /\ p.status = status
      BY <3>2, <3>3 DEF Peer
    <3>6. QED
      BY <1>1, <3>1, <3>4, <3>5
  <2>3. ASSUME UNCHANGED <<peer, inbox>> PROVE RequestsCut'
    BY <2>3 DEF RequestsCut, InFlight
  <2>4. QED
    BY <1>3, <2>1, <2>2, <2>3 DEF TakeReply
<1>4. QED
  BY <1>2, <1>3 DEF PeerStep

-----------------------------------------------------------------------------
(* The invariant.                                                          *)

(* No report is taken back, and what it says stays true.                   *)
LEMMA ReportsStay ==
  ASSUME TestbedInv, TestbedInv', TripInv, script' = script, reports' = reports,
         Follows(server, server'), Timeouts' \in Nat, Timeouts <= Timeouts'
  PROVE  RoundTripsExact'
<1>1. ASSUME NEW x \in reports', x.result = "accept"
      PROVE  \E c \in DOMAIN server' :
               /\ server'[c].verdict = "accept"
               /\ x.upstream_round_trips - ExpectedTrips(server'[c].st) \in 0 .. Timeouts'
  <2>1. server \in Seq(Conversations) /\ server' \in Seq(Conversations)
    BY DEF TestbedInv, ServerTypeOK
  <2>2. x \in reports /\ x.upstream_round_trips \in Nat
    BY DEF TestbedInv, ProxyInv, TypeOK
  <2>3. QED
    BY <1>1, <2>1, <2>2, ReportsKept DEF TripInv
<1>2. QED
  BY <1>1, ReportsOf

(* Steps that leave the proxy and the server alone.                        *)
LEMMA ElsewherePaid ==
  ASSUME Alphabet, TestbedInv, TestbedInv', TripInv, script' = script,
         UNCHANGED <<sessions, handler, upstream, reports, server>>,
         Timeouts' \in Nat, Timeouts <= Timeouts'
  PROVE  HandlerCut' /\ Ledger' /\ RoundTripsExact'
<1>1. Follows(server, server')
  BY FollowsItself
<1>2. HandlerCut'
  BY DEF TripInv, HandlerCut
<1>3. \A k : Wire(k)' = Wire(k) /\ Wire(k) \in Nat
  BY DEF Wire
<1>4. ASSUME NEW k \in DOMAIN sessions
      PROVE  KnowsLink(sessions[k]) /\ Charged(server', sessions[k], Wire(k), Timeouts')
  <2>1. PICK x \in Nat : x = Wire(k)
    BY <1>3
  <2>2. x \in 0 .. Wire(k) /\ Timeouts \in Nat
    BY <2>1 DEF TripInv
  <2>3. Timeouts + (Wire(k) - x) <= Timeouts'
    BY <2>1, <2>2
  <2>4. KnowsLink(sessions[k]) /\ Charged(server', sessions[k], x, Timeouts')
    BY <1>1, <2>2, <2>3, OthersCharged
  <2>5. QED
    BY <2>1, <2>4
<1>5. Ledger'
  BY <1>3, <1>4, LedgerOf
<1>6. QED
  BY <1>1, <1>2, <1>5, ReportsStay

LEMMA PeerStepTrips ==
  ASSUME Alphabet, TestbedInv, TripInv, TestbedInv', NEW st \in Stations, PeerStep(st),
         ~Retry(st)
  PROVE  TripInv'
<1>1. /\ RequestsNameLink'
      /\ UNCHANGED <<sessions, handler, upstream, server>>
  BY PeerNamesLink DEF TripInv
<1>2. RequestsCut'
  BY PeerKeepsCut DEF TripInv, TestbedInv
<1>3. script' = script /\ budget' = budget /\ reports' = reports
  BY DEF PeerStep, Start, TakeReply, proxyVars
<1>4. Budgeted' /\ Timeouts' = Timeouts /\ Timeouts \in Nat
  BY <1>3, TimeoutsKept DEF TripInv
<1>5. HandlerCut' /\ Ledger' /\ RoundTripsExact'
  BY <1>1, <1>3, <1>4, ElsewherePaid
<1>6. QED
  BY <1>1, <1>2, <1>4, <1>5 DEF TripInv

(* A timeout is paid for by the session the handler was about.             *)
LEMMA TimeOutTrips ==
  ASSUME Alphabet, FlightsCarryData, TestbedInv, TunnelInv, TripInv, TestbedInv', TimeOut
  PROVE  TripInv'
<1>1. /\ Spend("timeout") /\ handler # Nil /\ Raise(sessions[handler.key])
      /\ script' = script /\ peer' = peer /\ inbox' = inbox
      /\ server' = server \/ \E o \in Outcomes(upstream) : server' = o.server
  BY DEF TimeOut, UpstreamTimeout
<1>2. /\ Budgeted' /\ Timeouts' \in Nat /\ Timeouts <= Timeouts'
      /\ Timeouts' = Timeouts + 1 /\ Timeouts \in Nat
  BY <1>1, TimeoutsGrow DEF TripInv
<1>3. Follows(server, server')
  <2>1. CASE server' = server
    BY <2>1, FollowsItself
  <2>2. ASSUME NEW o \in Outcomes(upstream), server' = o.server PROVE Follows(server, server')
    BY <1>1, <2>2, OutcomeSpends DEF TripInv
  <2>3. QED
    BY <1>1, <2>1, <2>2
<1>4. /\ sessions' = Put(sessions, sessions[handler.key])
      /\ handler' = Nil /\ reports' = reports
  BY <1>1 DEF Raise
<1>5. handler.key \in DOMAIN sessions /\ sessions[handler.key].key = handler.key
  BY <1>1 DEF TestbedInv, ProxyInv, HandlerCoherent, TableCoherent
<1>6. \A k \in DOMAIN sessions' : k \in DOMAIN sessions /\ sessions'[k] = sessions[k]
  BY <1>4, <1>5 DEF Put
<1>7. \A k : Wire(k)' = 0 /\ Wire(k) \in 0 .. 1
  BY <1>4 DEF Wire
<1>8. ASSUME NEW k \in DOMAIN sessions
      PROVE  KnowsLink(sessions[k]) /\ Charged(server', sessions[k], 0, Timeouts')
  <2>1. PICK w \in 0 .. 1 : w = Wire(k)
    BY <1>7
  <2>2. 0 \in 0 .. Wire(k) /\ Timeouts + (Wire(k) - 0) <= Timeouts'
    BY <1>2, <2>1
  <2>3. QED
    BY <1>2, <1>3, <2>2, OthersCharged
<1>9. Ledger'
  <2>1. ASSUME NEW k \in DOMAIN sessions'
        PROVE  KnowsLink(sessions'[k]) /\ Charged(server', sessions'[k], Wire(k)', Timeouts')
    BY <1>6, <1>7, <1>8
  <2>2. QED
    BY <1>1, <2>1, LedgerOf
<1>10. RoundTripsExact'
  BY <1>1, <1>2, <1>3, <1>4, ReportsStay
<1>11. HandlerCut' /\ RequestsNameLink' /\ RequestsCut'
  BY <1>1, <1>4 DEF TripInv, HandlerCut, RequestsNameLink, RequestsCut, InFlight
<1>12. QED
  BY <1>2, <1>9, <1>10, <1>11 DEF TripInv

LEMMA LossTrips ==
  ASSUME Alphabet, TestbedInv, TripInv, TestbedInv', LoseDatagram \/ LoseReply \/ RestartProxy
  PROVE  TripInv'
<1>1. script' = script /\ peer' = peer /\ server' = server /\ reports' = reports
  BY DEF LoseDatagram, LoseReply, RestartProxy, Restart, proxyVars
<1>2. Budgeted' /\ Timeouts' \in Nat /\ Timeouts <= Timeouts'
  BY TimeoutsGrow DEF TripInv, LoseDatagram, LoseReply, RestartProxy
<1>3. InFlight' \subseteq InFlight
  <2>1. CASE LoseDatagram
    BY <2>1, InFlightTail DEF LoseDatagram, TestbedInv, PeerTypeOK
  <2>2. CASE inbox' = inbox
    BY <2>2 DEF InFlight
  <2>3. QED
    BY <2>1, <2>2 DEF LoseReply, RestartProxy
<1>4. RequestsNameLink' /\ RequestsCut'
  BY <1>1, <1>3 DEF TripInv, RequestsNameLink, RequestsCut
<1>5. HandlerCut' /\ Ledger' /\ RoundTripsExact'
  <2>1. CASE LoseDatagram \/ LoseReply
    <3>1. UNCHANGED <<sessions, handler, upstream, reports, server>>
      BY <2>1 DEF LoseDatagram, LoseReply, proxyVars
    <3>2. QED
      BY <1>1, <1>2, <3>1, ElsewherePaid
  <2>2. CASE RestartProxy
    <3>1. sessions' = <<>> /\ handler' = Nil
      BY <2>2 DEF RestartProxy, Restart
    <3>2. HandlerCut' /\ Ledger'
      BY <3>1 DEF HandlerCut, Ledger
    <3>3. QED
      BY <1>1, <1>2, <3>2, FollowsItself, ReportsStay
  <2>3. QED
    BY <2>1, <2>2
<1>6. QED
  BY <1>2, <1>4, <1>5 DEF TripInv

LEMMA StutterTrips ==
  ASSUME Alphabet, TestbedInv, TripInv, TestbedInv', UNCHANGED vars PROVE TripInv'
<1>1. /\ script' = script /\ peer' = peer /\ inbox' = inbox /\ budget' = budget
      /\ UNCHANGED <<sessions, handler, upstream, reports, server>>
  BY DEF vars
<1>2. Budgeted' /\ Timeouts' = Timeouts /\ Timeouts \in Nat
  BY <1>1, TimeoutsKept DEF TripInv
<1>3. HandlerCut' /\ Ledger' /\ RoundTripsExact'
  BY <1>1, <1>2, ElsewherePaid
<1>4. RequestsNameLink' /\ RequestsCut'
  BY <1>1 DEF TripInv, RequestsNameLink, RequestsCut, InFlight
<1>5. QED
  BY <1>2, <1>3, <1>4 DEF TripInv

LEMMA TripNext ==
  ASSUME Alphabet, FlightsCarryData, TestbedInv, TunnelInv, TripInv, TestbedInv', [Next]_vars
  PROVE  TripInv'
<1>1. \A st : ~Retry(st) /\ ~Retransmit(st)
  BY NothingRepeats DEF TunnelInv
<1>2. ASSUME NEW st \in Stations, PeerStep(st) PROVE TripInv'
  BY <1>1, <1>2, PeerStepTrips
<1>3. CASE Fault
  BY <1>1, <1>3, LossTrips, TimeOutTrips DEF Fault
<1>4. CASE UNCHANGED vars
  BY <1>4, StutterTrips
<1>5. QED
  BY <1>2, <1>3, <1>4, ProxyStepTrips, ServerStepTrips DEF Next, System, Stop

LEMMA TripInit == ASSUME Init PROVE TripInv
<1>1. /\ sessions = <<>> /\ handler = Nil /\ inbox = <<>> /\ reports = {}
      /\ peer = [st \in Stations |-> NewPeer]
  BY DEF Init, ProxyInit
<1>2. budget = [loss |-> MaxLosses, retransmission |-> MaxRetransmissions,
                timeout |-> MaxTimeouts, restart |-> MaxRestarts, attempt |-> MaxAttempts]
  BY DEF Init
<1>3. Budgeted /\ Timeouts = 0
  BY <1>2, BudgetAssumption DEF Budgeted, Timeouts
<1>4. InFlight = {} /\ \A st \in Stations : peer[st].status = "off" /\ peer[st].tx = <<>>
  BY <1>1 DEF InFlight, NewPeer
<1>5. RequestsNameLink /\ RequestsCut
  BY <1>4, EvenNothing DEF RequestsNameLink, RequestsCut
<1>6. HandlerCut /\ Ledger /\ RoundTripsExact
  BY <1>1 DEF HandlerCut, Ledger, RoundTripsExact
<1>7. QED
  BY <1>3, <1>5, <1>6 DEF TripInv

(* The figure the project measures: every authentication reported as       *)
(* accepted has cost one upstream round trip for Identity, one for each    *)
(* chunk of a station flight at the upstream size, one for every further   *)
(* fragment of a server flight and one for the verdict, in either mode and *)
(* whatever send_eap() makes of Framed-MTU, and beyond that no more than   *)
(* the requests that have timed out, which upstream_round_trips counts     *)
(* too.  For any number of stations, handshakes of any shape, and any      *)
(* losses, timeouts, restarts and failures to send or to report, as long   *)
(* as the access point repeats no request and no station begins again.     *)
THEOREM RoundTripsAreExact ==
  ASSUME Alphabet, FlightsCarryData, NothingRepeated
  PROVE  Spec => []RoundTripsExact
<1>1. Init => TestbedInv /\ TunnelInv /\ TripInv
  BY TestbedInitInv, TunnelInit, TripInit
<1>2. TestbedInv /\ TunnelInv /\ TripInv /\ [Next]_vars => (TestbedInv /\ TunnelInv /\ TripInv)'
  <2>1. SUFFICES ASSUME TestbedInv, TunnelInv, TripInv, [Next]_vars
                 PROVE  TestbedInv' /\ TunnelInv' /\ TripInv'
    OBVIOUS
  <2>2. TestbedInv'
    BY <2>1, TestbedNextInv
  <2>3. TunnelInv'
    BY <2>1, TunnelNext
  <2>4. TripInv'
    BY <2>1, <2>2, TripNext
  <2>5. QED
    BY <2>2, <2>3, <2>4
<1>3. TripInv => RoundTripsExact
  BY DEF TripInv
<1>4. QED
  BY <1>1, <1>2, <1>3, PTL DEF Spec
=============================================================================
