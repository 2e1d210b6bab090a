-------------------------- MODULE OpenProxyProofs --------------------------
(***************************************************************************)
(* Proofs about the proxy in an arbitrary environment (OpenProxy).         *)
(***************************************************************************)
EXTENDS OpenProxy, SequenceTheorems, TLAPS

USE NilAssumption, NoneAssumption, MaxMessageLenAssumption DEF Verdict

-----------------------------------------------------------------------------
(* Helpers of the framing core return what they should, whatever set U     *)
(* the units they are given are from.                                      *)

(* NextId() stays within one octet.                                        *)
LEMMA NextIdType == ASSUME NEW i \in Identifier PROVE NextId(i) \in Identifier
BY DEF NextId, Identifier, IdSpace

(* build() and build_ack() give packets.                                   *)
LEMMA FrameType ==
  ASSUME NEW U, NEW id \in Identifier, NEW length \in Nat \cup {Nil}, NEW more \in BOOLEAN,
         NEW data \in Seq(U)
  PROVE  Frame(id, length, more, data) \in Packet(U)
BY DEF Frame, Packet, Kind

LEMMA AckPacketType ==
  ASSUME NEW U, NEW id \in Identifier PROVE AckPacket(id) \in Packet(U)
<1>1. <<>> \in Seq(U) /\ FALSE \in BOOLEAN /\ Nil \in Nat \cup {Nil}
  OBVIOUS
<1>2. QED
  BY <1>1, FrameType DEF AckPacket

(* ingest() leaves a reassembler, whatever the verdict.                    *)
LEMMA IngestType ==
  ASSUME NEW U, NEW r \in Reassembler(U), NEW p \in Packet(U)
  PROVE  Ingest(r, p).reasm \in Reassembler(U)
<1>1. Appended(r, p) \in Seq(U)
  BY DEF Appended, StartsRecord, Reassembler, Packet
<1>2. QED
  BY <1>1 DEF Ingest, Reassembler

(* fragment() gives at least one chunk.                                    *)
LEMMA FragmentType ==
  ASSUME NEW U, NEW record \in Seq(U), NEW size \in Nat \ {0}
  PROVE  /\ Fragment(record, size) \in Seq(Seq(U))
         /\ Fragment(record, size) # <<>>
<1> DEFINE n == ChunkCount(Len(record), size)
           first(i) == (i - 1) * size + 1
           last(i) == Smaller(i * size, Len(record))
<1>1. Len(record) \in Nat /\ size \in Nat /\ size >= 1
  OBVIOUS
<1>2. n \in Nat /\ n >= 1
  BY <1>1 DEF ChunkCount
<1>3. ASSUME NEW i \in 1 .. n
      PROVE  SubSeq(record, first(i), last(i)) \in Seq(U)
  <2>1. first(i) \in Int /\ first(i) >= 1
    <3>1. i - 1 \in Nat
      BY <1>2
    <3>2. (i - 1) * size \in Nat
      BY <3>1, <1>1
    <3>3. QED
      BY <3>2
  <2>2. last(i) \in Int /\ last(i) <= Len(record)
    <3>1. i * size \in Int
      BY <1>1, <1>2
    <3>2. QED
      BY <3>1, <1>1 DEF Smaller
  <2>3. \A j \in first(i) .. last(i) : record[j] \in U
    BY <2>1, <2>2, ElementOfSeq
  <2> HIDE DEF first, last
  <2>4. QED
    BY <2>1, <2>2, <2>3, SubSeqProperties
<1>4. Fragment(record, size) = [i \in 1 .. n |-> SubSeq(record, first(i), last(i))]
  BY DEF Fragment
<1> HIDE DEF n, first, last
<1>5. Fragment(record, size) \in [1 .. n -> Seq(U)]
  BY <1>3, <1>4
<1>6. Fragment(record, size) \in Seq(Seq(U))
  BY <1>5, <1>2, SeqDef
<1>7. 1 \in DOMAIN Fragment(record, size)
  BY <1>5, <1>2
<1>8. QED
  BY <1>6, <1>7

-----------------------------------------------------------------------------
(* The sessions a handler works on.                                        *)

(* A session fit to be put into the table, n States having been minted.    *)
KeptBelow(s, n) ==
  /\ s \in SessionType
  /\ s.downstream_state # Nil =>
       s.key = StateKey(s.downstream_state) /\ s.downstream_state < n

Kept(s) == KeptBelow(s, minted)

(* ... by the handler of datagram d, and, unless sends fail, unfinished.   *)
Current(s, d) ==
  /\ Kept(s)
  /\ s.last_ap_authenticator = d.authenticator
  /\ ~IoMayFail => s.result = Nil

(* An update that leaves alone the fields Current speaks of.               *)
LEMMA StaysCurrent ==
  ASSUME NEW d, NEW s, Current(s, d), NEW t \in SessionType,
         t.key = s.key, t.downstream_state = s.downstream_state,
         t.last_ap_authenticator = s.last_ap_authenticator, t.result = s.result
  PROVE  Current(t, d)
BY DEF Current, Kept, KeptBelow

LEMMA CurrentType ==
  ASSUME NEW d, NEW s, Current(s, d) PROVE s \in SessionType
BY DEF Current, Kept, KeptBelow

LEMMA EmptyReassemblerType == EmptyReassembler \in Reassembler(Unit)
BY DEF EmptyReassembler, Reassembler

LEMMA NewSessionKept ==
  ASSUME NEW k \in Key
  PROVE  Kept(NewSession(k)) /\ NewSession(k).key = k /\ NewSession(k).result = Nil
<1>1. <<>> \in Attributes
  <2>1. <<>> \in [{} -> AttrValue]
    OBVIOUS
  <2>2. {} \in SUBSET {"Framed-MTU", "NAS-IP-Address"}
    OBVIOUS
  <2>3. QED
    BY <2>1, <2>2 DEF Attributes
<1>2. 0 \in Identifier
  BY DEF Identifier, IdSpace
<1>3. [accept |-> Nil, reject |-> Nil] \in [Verdict -> Packet(Unit) \cup {Nil}]
  OBVIOUS
<1>4. <<>> \in Seq(Seq(Unit))
  OBVIOUS
<1>5. QED
  BY <1>1, <1>2, <1>3, <1>4, EmptyReassemblerType DEF Kept, KeptBelow, NewSession, SessionType

LEMMA KeyOfType ==
  ASSUME NEW d \in Datagram PROVE KeyOf(d) \in Key
BY DEF KeyOf, Key, StateKey, Datagram, Packet

(* get_or_create() and the two assignments after it.                       *)
LEMMA OpenedCurrent ==
  ASSUME ProxyInv, NEW d \in Datagram
  PROVE  Current(Opened(d), d)
<1> DEFINE k == KeyOf(d)
           s == Get(sessions, k)
<1>1. k \in Key
  BY KeyOfType
<1>2. Kept(s) /\ (~IoMayFail => s.result = Nil)
  <2>1. CASE k \in DOMAIN sessions
    BY <2>1 DEF Get, Kept, KeptBelow, ProxyInv, TypeOK, TableCoherent, NoFinishedSession
  <2>2. CASE k \notin DOMAIN sessions
    BY <2>2, <1>1, NewSessionKept DEF Get
  <2>3. QED
    BY <2>1, <2>2
<1> HIDE DEF s
<1>3. d.authenticator \in Authenticator /\ d.attrs \in Attributes
  BY DEF Datagram
<1>4. Opened(d) = [s EXCEPT !.last_ap_authenticator = d.authenticator,
                            !.ap_attrs = IF DOMAIN s.ap_attrs = {} THEN d.attrs ELSE s.ap_attrs]
  BY DEF Opened, s, Kept, KeptBelow, SessionType
<1>5. s \in SessionType
  BY <1>2 DEF Kept, KeptBelow
<1> DEFINE attrs == IF DOMAIN s.ap_attrs = {} THEN d.attrs ELSE s.ap_attrs
<1>6. attrs \in Attributes
  BY <1>3, <1>5 DEF SessionType
<1> HIDE DEF attrs
<1>7. Opened(d) = [s EXCEPT !.last_ap_authenticator = d.authenticator, !.ap_attrs = attrs]
  BY <1>4 DEF attrs
<1>8. Opened(d) \in SessionType
  BY <1>3, <1>5, <1>6, <1>7 DEF SessionType
<1>9. /\ Opened(d).key = s.key /\ Opened(d).downstream_state = s.downstream_state
      /\ Opened(d).last_ap_authenticator = d.authenticator /\ Opened(d).result = s.result
  BY <1>5, <1>7 DEF SessionType
<1>10. QED
  BY <1>2, <1>8, <1>9 DEF Current, Kept, KeptBelow

(* The Identifiers set from an EAP-TLS Response.                           *)
LEMMA SyncedCurrent ==
  ASSUME ProxyInv, NEW d \in Datagram
  PROVE  Current(Synced(d), d)
<1> DEFINE s == Opened(d)
<1>1. Current(s, d)
  BY OpenedCurrent
<1>2. d.eap.id \in Identifier
  BY DEF Datagram, Packet
<1> HIDE DEF s
<1> DEFINE last == IF Reassembling THEN d.eap.id ELSE s.down_last_req_id
<1>3. Synced(d) = [s EXCEPT !.down_next_id = d.eap.id,
                            !.down_last_req_id = last]
  BY <1>1, CurrentType DEF Synced, s, SessionType
<1>4. s \in SessionType
  BY <1>1, CurrentType
<1>5. last \in Identifier \cup {Nil}
  BY <1>2, <1>4 DEF SessionType
<1> HIDE DEF last
<1>6. Synced(d) \in SessionType
  BY <1>2, <1>3, <1>4, <1>5 DEF SessionType
<1>7. /\ Synced(d).key = s.key /\ Synced(d).downstream_state = s.downstream_state
      /\ Synced(d).last_ap_authenticator = s.last_ap_authenticator
      /\ Synced(d).result = s.result
  BY <1>3, <1>4 DEF SessionType
<1>8. QED
  BY <1>1, <1>6, <1>7, StaysCurrent

(* What the blocked session has learned from a reply, the keys included.   *)
LEMMA BlockedCurrent ==
  ASSUME ProxyInv, handler # Nil, NEW r \in ServerReply,
         r.code = "accept" => r.keyed
  PROVE  /\ Current(Blocked(r), handler.datagram)
         /\ r.code = "accept" => Blocked(r).keys = handler.datagram.authenticator
<1> DEFINE s == sessions[handler.key]
<1>1. Current(s, handler.datagram) /\ upstream.authenticator = handler.datagram.authenticator
  BY DEF ProxyInv, TypeOK, HandlerType, TableCoherent, HandlerCoherent, NoFinishedSession,
         Current, Kept, KeptBelow
<1>2. upstream.authenticator \in Authenticator
  BY DEF ProxyInv, HandlerCoherent, TypeOK, UpstreamType
<1>3. /\ r.state \in ServerState \cup {Nil}
      /\ r.eap # Nil => r.eap.id \in Identifier
  BY DEF ServerReply, Packet
<1> HIDE DEF s
<1>4. s \in SessionType
  BY <1>1, CurrentType
<1> DEFINE id == IF r.eap # Nil /\ r.eap.kind \notin {"success", "failure"}
                   THEN r.eap.id ELSE s.upstream_last_eap_req_id
           keys == IF r.code = "accept" /\ r.keyed THEN upstream.authenticator ELSE s.keys
<1>5. Blocked(r) = [s EXCEPT !.radius_state = r.state,
                             !.upstream_last_eap_req_id = id,
                             !.keys = keys]
  BY <1>4 DEF Blocked, Learned, s, SessionType
<1>6. id \in Identifier \cup {Nil}
  BY <1>3, <1>4 DEF SessionType
<1>7. keys \in Authenticator \cup {Nil}
  BY <1>2, <1>4 DEF SessionType
<1>8. r.code = "accept" => keys = handler.datagram.authenticator
  BY <1>1
<1> HIDE DEF id, keys
<1>9. Blocked(r) \in SessionType
  <2> DEFINE state == r.state
             t == [s EXCEPT !.radius_state = state, !.upstream_last_eap_req_id = id,
                            !.keys = keys]
  <2>1. state \in ServerState \cup {Nil}
    BY <1>3
  <2> HIDE DEF state
  <2>2. t \in SessionType
    BY <2>1, <1>4, <1>6, <1>7 DEF SessionType
  <2>3. QED
    BY <2>2, <1>5 DEF state
<1>10. /\ Blocked(r).key = s.key /\ Blocked(r).downstream_state = s.downstream_state
       /\ Blocked(r).last_ap_authenticator = s.last_ap_authenticator
       /\ Blocked(r).result = s.result /\ Blocked(r).keys = keys
  BY <1>4, <1>5 DEF SessionType
<1>11. Current(Blocked(r), handler.datagram)
  BY <1>1, <1>9, <1>10, StaysCurrent
<1>12. QED
  BY <1>8, <1>10, <1>11

-----------------------------------------------------------------------------
(* The three ways a step ends: an exception, an Access-Request to the      *)
(* server, a reply to the AP.  Each preserves the invariant.               *)

(* What the invariant says of the table.                                   *)
TableFine ==
  /\ \A k \in DOMAIN sessions : k \in Key /\ sessions[k].key = k /\ Kept(sessions[k])
  /\ NoFinishedSession

LEMMA TableFineFromInv == ASSUME ProxyInv PROVE TableFine
BY DEF ProxyInv, TypeOK, TableCoherent, TableFine, Kept, KeptBelow

(* Filing a session in the table, under its own key.                       *)
LEMMA PutTable ==
  ASSUME ProxyInv, NEW s, Kept(s), ~IoMayFail => s.result = Nil,
         sessions' = Put(sessions, s), minted' = minted
  PROVE  TableFine'
<1>1. TableFine
  BY TableFineFromInv
<1>2. s.key \in Key
  BY DEF Kept, KeptBelow, SessionType
<1>3. ASSUME NEW k \in DOMAIN sessions' 
      PROVE  /\ k \in Key /\ sessions'[k].key = k /\ Kept(sessions[k])'
             /\ ~IoMayFail => sessions'[k].result = Nil
  <2>1. CASE k = s.key
    BY <1>2, <2>1 DEF Put, Kept, KeptBelow
  <2>2. CASE k # s.key
    BY <1>1, <2>2 DEF Put, Kept, KeptBelow, TableFine, NoFinishedSession
  <2>3. QED
    BY <2>1, <2>2
<1>4. QED
  BY <1>3 DEF TableFine, NoFinishedSession

(* serve_forever()'s except clause.                                        *)
LEMMA RaiseStep ==
  ASSUME ProxyInv, NEW s, Kept(s), ~IoMayFail => s.result = Nil, Raise(s)
  PROVE  ProxyInv'
<1>1. TableFine'
  BY PutTable DEF Raise
<1>2. TypeOK' /\ TableCoherent' /\ NoFinishedSession'
  BY <1>1 DEF Raise, TableFine, Kept, KeptBelow, ProxyInv, TypeOK, TableCoherent
<1>3. HandlerCoherent' /\ KeysUsable'
  BY DEF Raise, ProxyInv, HandlerCoherent, KeysUsable
<1>4. QED
  BY <1>2, <1>3 DEF ProxyInv

(* send_eap() up to the point where it blocks.                             *)
LEMMA UpstreamAttrsType ==
  ASSUME NEW s \in SessionType PROVE UpstreamAttrs(s) \in Attributes
<1> DEFINE names == DOMAIN s.ap_attrs
           left == names \ (IF StripFramedMtu /\ Reassembling THEN {"Framed-MTU"} ELSE {})
<1>1. /\ names \in SUBSET {"Framed-MTU", "NAS-IP-Address"}
      /\ s.ap_attrs \in [names -> AttrValue]
  <2>1. s.ap_attrs \in Attributes
    BY DEF SessionType
  <2>2. QED
    BY <2>1 DEF Attributes
<1>2. left \in SUBSET {"Framed-MTU", "NAS-IP-Address"}
  BY <1>1
<1>3. UpstreamAttrs(s) \in [left -> AttrValue]
  BY <1>1, MtuAssumption DEF UpstreamAttrs
<1>4. QED
  BY <1>2, <1>3 DEF Attributes

LEMMA CountedTrip ==
  ASSUME NEW d, NEW s, Current(s, d)
  PROVE  Current([s EXCEPT !.upstream_round_trips = @ + 1], d)
<1> DEFINE n == s.upstream_round_trips + 1
           t == [s EXCEPT !.upstream_round_trips = n]
<1>1. s \in SessionType /\ n \in Nat
  BY CurrentType DEF SessionType
<1> HIDE DEF n
<1>2. t \in SessionType
  BY <1>1 DEF SessionType
<1>3. /\ t.key = s.key /\ t.downstream_state = s.downstream_state
      /\ t.last_ap_authenticator = s.last_ap_authenticator /\ t.result = s.result
  BY <1>1 DEF SessionType
<1> HIDE DEF t
<1>4. Current(t, d)
  BY <1>2, <1>3, StaysCurrent
<1>5. QED
  BY <1>4 DEF t, n

LEMMA AskStep ==
  ASSUME ProxyInv, NEW d \in Datagram, NEW s, Current(s, d),
         NEW pc \in {"forward", "drain", "passthrough", "non_tls"},
         NEW eap \in Packet(Unit), NEW rest \in Seq(Seq(Unit)),
         Ask(d, s, pc, eap, rest)
  PROVE  ProxyInv'
<1> DEFINE t == [s EXCEPT !.upstream_round_trips = @ + 1]
<1>1. Current(t, d) /\ t.key = s.key
  BY CountedTrip DEF Current, Kept, KeptBelow, SessionType
<1>2. sessions' = Put(sessions, t) /\ minted' = minted
  BY DEF Ask
<1>3. /\ s \in SessionType /\ s.key \in Key
      /\ s.radius_state \in ServerState \cup {Nil}
      /\ s.last_ap_authenticator = d.authenticator
      /\ d.authenticator \in Authenticator /\ d.calling \in Station \cup {Nil}
  BY DEF Current, Kept, KeptBelow, SessionType, Datagram
<1> HIDE DEF t
<1>4. TableFine'
  BY <1>1, <1>2, PutTable DEF Current
<1>5. UpstreamAttrs(s) \in Attributes
  BY <1>3, UpstreamAttrsType
<1>6. /\ handler' = [pc |-> pc, key |-> s.key, datagram |-> d, rest |-> rest]
      /\ upstream' = [authenticator |-> s.last_ap_authenticator, state |-> s.radius_state,
                      calling |-> d.calling, attrs |-> UpstreamAttrs(s), eap |-> eap]
  BY DEF Ask
<1>7. handler' \in HandlerType /\ handler' # Nil
  BY <1>3, <1>6 DEF HandlerType
<1>8. upstream' \in UpstreamType /\ upstream' # Nil
  BY <1>3, <1>5, <1>6 DEF UpstreamType
<1>9. TypeOK' /\ TableCoherent' /\ NoFinishedSession'
  BY <1>4, <1>7, <1>8 DEF Ask, TableFine, Kept, KeptBelow, ProxyInv, TypeOK, TableCoherent
<1>10. HandlerCoherent'
  <2>1. sessions'[s.key] = t /\ s.key \in DOMAIN sessions'
    BY <1>1, <1>2 DEF Put
  <2>2. handler'.key = s.key /\ handler'.datagram = d /\ upstream'.authenticator = d.authenticator
    BY <1>3, <1>6
  <2>3. QED
    BY <2>1, <2>2, <1>1, <1>7, <1>8 DEF Current, HandlerCoherent
<1>11. KeysUsable'
  BY DEF Ask, ProxyInv, KeysUsable
<1>12. QED
  BY <1>9, <1>10, <1>11 DEF ProxyInv

(* A reply to the AP: the session under its new key, or gone.              *)
LEMMA ReplyStep ==
  ASSUME ProxyInv, NEW d \in Datagram, NEW s, Kept(s),
         NEW code \in {"challenge"} \cup Verdict, NEW eap \in Packet(Unit) \cup {Nil},
         ~IoMayFail => s.result = IF code = "challenge" THEN Nil ELSE code,
         ~IoMayFail /\ code = "accept" => s.keys = d.authenticator,
         Reply(d, s, code, eap)
  PROVE  ProxyInv'
<1> DEFINE mints == code = "challenge" /\ s.downstream_state = Nil
           t == IF mints
                  THEN [s EXCEPT !.downstream_state = minted, !.key = StateKey(minted)]
                  ELSE s
           kept == Rekey(sessions, s.key, t)
           packet == [to |-> d.authenticator,
                      code |-> code,
                      state |-> IF code = "challenge" THEN t.downstream_state ELSE Nil,
                      keys |-> IF code = "accept" THEN s.keys ELSE Nil,
                      eap |-> eap]
<1>1. TableFine /\ minted \in Nat
  BY TableFineFromInv DEF ProxyInv, TypeOK
<1>2. s \in SessionType /\ s.key \in Key
  BY DEF Kept, KeptBelow, SessionType
<1>3. minted' \in Nat /\ minted' >= minted
  BY <1>1 DEF Reply
<1>4. t \in SessionType /\ t.result = s.result /\ t.key \in Key /\ KeptBelow(t, minted')
  <2>1. CASE mints
    <3>1. StateKey(minted) \in Key
      BY <1>1 DEF StateKey, Key
    <3>2. minted' = minted + 1
      BY <2>1 DEF Reply
    <3>3. /\ t \in SessionType /\ t.result = s.result
          /\ t.key = StateKey(minted) /\ t.downstream_state = minted
      <4>1. t = [s EXCEPT !.downstream_state = minted, !.key = StateKey(minted)]
        BY <2>1
      <4>2. QED
        BY <4>1, <1>1, <1>2, <3>1 DEF SessionType
    <3>4. QED
      <4> HIDE DEF t
      <4>1. QED
        BY <3>1, <3>2, <3>3, <1>1 DEF KeptBelow
  <2>2. CASE ~mints
    <3>1. s.downstream_state \in Nat \cup {Nil}
      BY <1>2 DEF SessionType
    <3>2. QED
      BY <2>2, <3>1, <1>1, <1>2, <1>3 DEF Kept, KeptBelow
  <2>3. QED
    BY <2>1, <2>2
<1>5. ASSUME NEW k \in DOMAIN kept
      PROVE  /\ k \in Key /\ kept[k].key = k /\ KeptBelow(kept[k], minted')
             /\ ~IoMayFail /\ k # t.key => kept[k].result = Nil
  <2> HIDE DEF t
  <2>1. CASE k = t.key
    BY <2>1, <1>4 DEF Rekey, Put, Drop
  <2>2. CASE k # t.key
    <3>1. k \in DOMAIN sessions /\ kept[k] = sessions[k]
      BY <2>2 DEF Rekey, Put, Drop
    <3>2. /\ k \in Key /\ sessions[k].key = k /\ Kept(sessions[k])
          /\ ~IoMayFail => sessions[k].result = Nil
      BY <3>1, <1>1 DEF TableFine, NoFinishedSession
    <3>3. sessions[k].downstream_state \in Nat \cup {Nil}
      BY <3>2 DEF Kept, KeptBelow, SessionType
    <3>4. QED
      BY <2>2, <3>1, <3>2, <3>3, <1>1, <1>3 DEF Kept, KeptBelow
  <2>3. QED
    BY <2>1, <2>2
<1>6. kept[t.key] = t
  BY DEF Rekey, Put
<1>7. packet \in ApReplyType /\ (~IoMayFail /\ code = "accept" => packet.keys = packet.to)
  <2>1. t.downstream_state \in Nat \cup {Nil} /\ s.keys \in Authenticator \cup {Nil}
    BY <1>2, <1>4 DEF SessionType
  <2>2. d.authenticator \in Authenticator
    BY DEF Datagram
  <2> HIDE DEF t
  <2>3. QED
    BY <2>1, <2>2 DEF ApReplyType
<1>8. Summary(t) \in [key : Key, result : Verdict \cup {Nil}, upstream_round_trips : Nat]
  BY <1>4 DEF Summary, SessionType
<1>9. /\ handler' = Nil /\ upstream' = Nil
      /\ \/ /\ toAp' = toAp \cup {packet}
            /\ IF t.result \in Verdict
                 THEN /\ reports' = reports \cup {Summary(t)} \/ reports' = reports
                      /\ \/ sessions' = Drop(kept, t.key)
                         \/ IoMayFail /\ sessions' = kept
                 ELSE sessions' = kept /\ reports' = reports
         \/ /\ IoMayFail
            /\ sessions' = kept
            /\ toAp' = toAp /\ reports' = reports
  BY DEF Reply, Report
<1> HIDE DEF t, kept, packet
<1>10. ASSUME NEW k \in DOMAIN sessions'
       PROVE  /\ k \in Key /\ sessions'[k].key = k /\ KeptBelow(sessions'[k], minted')
              /\ ~IoMayFail => sessions'[k].result = Nil
  <2>1. CASE sessions' = Drop(kept, t.key)
    <3>1. k \in DOMAIN kept /\ k # t.key /\ sessions'[k] = kept[k]
      BY <2>1 DEF Drop
    <3>2. QED
      BY <3>1, <1>5
  <2>2. CASE sessions' = kept /\ (IoMayFail \/ t.result \notin Verdict)
    <3>1. ~IoMayFail => t.result = Nil
      BY <2>2, <1>4
    <3>2. QED
      BY <2>2, <3>1, <1>5, <1>6
  <2>3. QED
    BY <2>1, <2>2, <1>9
<1>11. DOMAIN sessions' \subseteq Key /\ \A k \in DOMAIN sessions' : sessions'[k] \in SessionType
  BY <1>10 DEF Kept, KeptBelow
<1>12. toAp' \subseteq ApReplyType
       /\ \A x \in reports' : x \in [key : Key, result : Verdict, upstream_round_trips : Nat]
  <2>1. /\ toAp \subseteq ApReplyType
        /\ \A x \in reports : x \in [key : Key, result : Verdict, upstream_round_trips : Nat]
    BY DEF ProxyInv, TypeOK
  <2>2. t.result \in Verdict =>
          Summary(t) \in [key : Key, result : Verdict, upstream_round_trips : Nat]
    BY <1>8 DEF Summary
  <2>3. QED
    BY <1>7, <1>9, <2>1, <2>2
<1>13. TypeOK'
  BY <1>3, <1>9, <1>11, <1>12 DEF TypeOK
<1>14. TableCoherent' /\ NoFinishedSession'
  BY <1>10 DEF TableCoherent, NoFinishedSession, Kept, KeptBelow
<1>15. HandlerCoherent'
  BY <1>9 DEF HandlerCoherent
<1>16. KeysUsable'
  BY <1>7, <1>9 DEF KeysUsable, ProxyInv, packet
<1>17. QED
  BY <1>13, <1>14, <1>15, <1>16 DEF ProxyInv

-----------------------------------------------------------------------------
(* The ways the handler of d can leave off, having found session s: with a *)
(* session that is in the same place of the table and has the same State   *)
(* of the server and verdict, but for the verdict it may conclude with.    *)
(* And if all the data that it has come upon is made of the units U, so is *)
(* all that it leaves behind and sends.                                    *)

Carries(s, U) ==
  /\ s.up_reasm \in Reassembler(U) /\ s.down_reasm \in Reassembler(U)
  /\ s.down_outbox \in Seq(Seq(U)) /\ s.pending \in [Verdict -> Packet(U) \cup {Nil}]

SamePlace(t, s) ==
  /\ t.key = s.key /\ t.downstream_state = s.downstream_state
  /\ t.radius_state = s.radius_state /\ t.last_ap_authenticator = s.last_ap_authenticator

Alike(t, s, U) == SamePlace(t, s) /\ t.result = s.result /\ Carries(t, U)

Fails(d, s, U) == \E t : Current(t, d) /\ Alike(t, s, U) /\ Raise(t)

Asks(d, s, U) ==
  \E t : \E pc \in {"forward", "drain", "passthrough"},
          eap \in Packet(U), rest \in Seq(Seq(U)) :
    Current(t, d) /\ Alike(t, s, U) /\ eap.kind = "tls" /\ Ask(d, t, pc, eap, rest)

Challenges(d, s, U) ==
  \E t : \E eap \in Packet(U) \cup {Nil} :
    Current(t, d) /\ Alike(t, s, U) /\ Reply(d, t, "challenge", eap)

Concludes(d, s, code, U) ==
  \E t : \E eap \in Packet(U) \cup {Nil} :
    /\ Kept(t) /\ SamePlace(t, s) /\ t.result = code /\ Carries(t, U)
    /\ ~IoMayFail /\ code = "accept" => t.keys = d.authenticator
    /\ Reply(d, t, code, eap)

(* What is made of units U is made of any V that has them all.             *)
LEMMA Widens ==
  ASSUME NEW V, NEW U \in SUBSET V
  PROVE  /\ Seq(U) \subseteq Seq(V) /\ Seq(Seq(U)) \subseteq Seq(Seq(V))
         /\ Packet(U) \subseteq Packet(V) /\ Reassembler(U) \subseteq Reassembler(V)
         /\ \A s : Carries(s, U) => Carries(s, V)
<1>1. Seq(U) \subseteq Seq(V)
  OBVIOUS
<1>2. Seq(Seq(U)) \subseteq Seq(Seq(V))
  BY <1>1
<1>3. Packet(U) \subseteq Packet(V)
  BY <1>1 DEF Packet
<1>4. Reassembler(U) \subseteq Reassembler(V)
  BY <1>1 DEF Reassembler
<1>5. [Verdict -> Packet(U) \cup {Nil}] \subseteq [Verdict -> Packet(V) \cup {Nil}]
  BY <1>3
<1>6. QED
  BY <1>1, <1>2, <1>3, <1>4, <1>5 DEF Carries

(* An update of other fields.                                              *)
LEMMA StaysAlike ==
  ASSUME NEW U \in SUBSET Unit, NEW d, NEW s0, NEW s, Current(s, d), Alike(s, s0, U),
         NEW t \in SessionType,
         t.key = s.key, t.downstream_state = s.downstream_state,
         t.last_ap_authenticator = s.last_ap_authenticator, t.result = s.result,
         t.radius_state = s.radius_state, Carries(t, U)
  PROVE  Current(t, d) /\ Alike(t, s0, U)
BY StaysCurrent DEF Alike, SamePlace

LEMMA EchoedAlike ==
  ASSUME NEW U \in SUBSET Unit, NEW d, NEW s0, NEW s, Current(s, d), Alike(s, s0, U)
  PROVE  EchoId(s) \in Identifier /\ Current(Echoed(s), d) /\ Alike(Echoed(s), s0, U)
<1>1. /\ s \in SessionType /\ s.up_next_id \in Identifier
      /\ s.upstream_last_eap_req_id \in Identifier \cup {Nil}
  BY DEF Current, Kept, KeptBelow, SessionType
<1>2. NextId(s.up_next_id) \in Identifier
  BY <1>1, NextIdType
<1>3. EchoId(s) \in Identifier
  BY <1>1, <1>2 DEF EchoId
<1> DEFINE id == NextId(s.up_next_id)
           t == [s EXCEPT !.up_next_id = id]
<1>4. Current(t, d) /\ Alike(t, s0, U)
  <2> HIDE DEF id
  <2>1. t \in SessionType
    BY <1>1, <1>2 DEF SessionType, id
  <2>2. /\ t.key = s.key /\ t.downstream_state = s.downstream_state
        /\ t.last_ap_authenticator = s.last_ap_authenticator /\ t.result = s.result
        /\ t.radius_state = s.radius_state
    BY <1>1 DEF SessionType
  <2>3. Carries(t, U)
    BY <1>1 DEF SessionType, Alike, Carries
  <2> HIDE DEF t
  <2>4. QED
    BY <2>1, <2>2, <2>3, StaysAlike
<1>5. Echoed(s) = t \/ Echoed(s) = s
  BY DEF Echoed
<1> HIDE DEF t
<1>6. QED
  BY <1>3, <1>4, <1>5

LEMMA RestampType ==
  ASSUME NEW U, NEW s \in SessionType, NEW eap \in Packet(U) \cup {Nil}
  PROVE  Restamp(s, eap) \in Packet(U) \cup {Nil}
BY DEF Restamp, SessionType, Packet

(* The next chunk of a record goes upstream.                               *)
LEMMA AskChunkAsks ==
  ASSUME NEW U \in SUBSET Unit, NEW d, NEW s0, NEW s, Current(s, d), Alike(s, s0, U),
         NEW chunks \in Seq(Seq(U)), chunks # <<>>, NEW length \in Nat \cup {Nil},
         AskChunk(d, s, chunks, length)
  PROVE  Asks(d, s0, U)
<1> DEFINE t == Echoed(s)
           eap == Frame(EchoId(s), length, Len(chunks) > 1, Head(chunks))
<1>1. EchoId(s) \in Identifier /\ Current(t, d) /\ Alike(t, s0, U)
  BY EchoedAlike
<1>2. /\ Head(chunks) \in Seq(U) /\ Tail(chunks) \in Seq(Seq(U))
      /\ (Len(chunks) > 1) \in BOOLEAN
  OBVIOUS
<1>3. eap \in Packet(U)
  BY <1>1, <1>2, FrameType
<1>4. eap.kind = "tls"
  BY DEF Frame
<1>5. Ask(d, t, "forward", eap, Tail(chunks))
  BY DEF AskChunk
<1> HIDE DEF t, eap
<1>6. QED
  BY <1>1, <1>2, <1>3, <1>4, <1>5 DEF Asks

(* An ACK goes upstream, to poll or to ask for the next fragment.          *)
LEMMA AskAckAsks ==
  ASSUME NEW U \in SUBSET Unit, NEW d, NEW s0, NEW s, Current(s, d), Alike(s, s0, U),
         NEW pc \in {"forward", "drain"}, AskAck(d, s, pc)
  PROVE  Asks(d, s0, U)
<1> DEFINE t == Echoed(s)
           eap == AckPacket(EchoId(s))
<1>1. EchoId(s) \in Identifier /\ Current(t, d) /\ Alike(t, s0, U)
  BY EchoedAlike
<1>2. eap \in Packet(U) /\ <<>> \in Seq(Seq(U))
  BY <1>1, AckPacketType
<1>3. eap.kind = "tls"
  BY DEF AckPacket, Frame
<1>4. Ask(d, t, pc, eap, <<>>)
  BY DEF AskAck
<1> HIDE DEF t, eap
<1>5. QED
  BY <1>1, <1>2, <1>3, <1>4 DEF Asks

(* The next chunk of a record goes to the supplicant.                      *)
LEMMA ReplyFragmentChallenges ==
  ASSUME NEW U \in SUBSET Unit, NEW d, NEW s0, NEW s, Current(s, d), Alike(s, s0, U),
         s.down_outbox # <<>>, NEW length \in Nat \cup {Nil},
         ReplyFragment(d, s, length)
  PROVE  Challenges(d, s0, U)
<1> DEFINE id == NextId(s.down_next_id)
           chunks == s.down_outbox
           t == [s EXCEPT !.down_next_id = id, !.down_outbox = Tail(chunks)]
           eap == Frame(id, length, Len(chunks) > 1, Head(chunks))
<1>1. s \in SessionType /\ s.down_next_id \in Identifier /\ chunks \in Seq(Seq(U))
  BY DEF Current, Kept, KeptBelow, SessionType, Alike, Carries
<1>2. id \in Identifier
  BY <1>1, NextIdType
<1>3. /\ Head(chunks) \in Seq(U) /\ Tail(chunks) \in Seq(Seq(U))
      /\ Tail(chunks) \in Seq(Seq(Unit)) /\ (Len(chunks) > 1) \in BOOLEAN
  BY <1>1, Widens
<1>4. eap \in Packet(U)
  BY <1>2, <1>3, FrameType
<1>5. Current(t, d) /\ Alike(t, s0, U)
  <2> HIDE DEF id
  <2>1. t \in SessionType
    BY <1>1, <1>2, <1>3 DEF SessionType
  <2>2. /\ t.key = s.key /\ t.downstream_state = s.downstream_state
        /\ t.last_ap_authenticator = s.last_ap_authenticator /\ t.result = s.result
        /\ t.radius_state = s.radius_state
    BY <1>1 DEF SessionType
  <2>3. Carries(t, U)
    BY <1>1, <1>3 DEF SessionType, Alike, Carries
  <2>4. QED
    BY <2>1, <2>2, <2>3, StaysAlike
<1>6. Reply(d, t, "challenge", eap)
  BY DEF ReplyFragment
<1> HIDE DEF t, eap
<1>7. QED
  BY <1>4, <1>5, <1>6 DEF Challenges

(* A whole record is cut and its first chunk goes to the supplicant.       *)
LEMMA ReplyRecordChallenges ==
  ASSUME NEW U \in SUBSET Unit, NEW d, NEW s0, NEW s, Current(s, d), Alike(s, s0, U),
         NEW record \in Seq(U), ReplyRecord(d, s, record)
  PROVE  Challenges(d, s0, U)
<1> DEFINE chunks == Fragment(record, DownstreamFragmentSize)
           t == [s EXCEPT !.down_outbox = chunks]
<1>1. chunks \in Seq(Seq(U)) /\ chunks \in Seq(Seq(Unit)) /\ chunks # <<>>
  BY FragmentSizeAssumption, FragmentType, Widens
<1>2. Len(record) \in Nat
  OBVIOUS
<1>3. ReplyFragment(d, t, Len(record))
  BY DEF ReplyRecord
<1> HIDE DEF chunks
<1>4. Current(t, d) /\ Alike(t, s0, U) /\ t.down_outbox # <<>>
  <2>1. s \in SessionType
    BY CurrentType
  <2>2. t \in SessionType
    BY <1>1, <2>1 DEF SessionType
  <2>3. /\ t.key = s.key /\ t.downstream_state = s.downstream_state
        /\ t.last_ap_authenticator = s.last_ap_authenticator /\ t.result = s.result
        /\ t.radius_state = s.radius_state /\ t.down_outbox = chunks
    BY <2>1 DEF SessionType
  <2>4. Carries(t, U)
    BY <1>1, <2>1 DEF SessionType, Alike, Carries
  <2>5. QED
    BY <1>1, <2>2, <2>3, <2>4, StaysAlike
<1> HIDE DEF t
<1>5. QED
  BY <1>2, <1>3, <1>4, ReplyFragmentChallenges

(* Each of them preserves the invariant.                                   *)
LEMMA EndStep ==
  ASSUME ProxyInv, NEW U \in SUBSET Unit, NEW d \in Datagram, NEW s,
         \/ Fails(d, s, U) \/ Asks(d, s, U) \/ Challenges(d, s, U)
         \/ \E code \in Verdict : Concludes(d, s, code, U)
  PROVE  ProxyInv'
<1>1. Packet(U) \subseteq Packet(Unit) /\ Seq(Seq(U)) \subseteq Seq(Seq(Unit))
  BY Widens
<1>2. CASE Fails(d, s, U)
  BY <1>2, RaiseStep DEF Fails, Current
<1>3. CASE Asks(d, s, U)
  BY <1>1, <1>3, AskStep DEF Asks
<1>4. CASE Challenges(d, s, U)
  BY <1>1, <1>4, ReplyStep DEF Challenges, Current
<1>5. ASSUME NEW code \in Verdict, Concludes(d, s, code, U)
      PROVE  ProxyInv'
  BY <1>1, <1>5, ReplyStep DEF Concludes
<1>6. QED
  BY <1>2, <1>3, <1>4, <1>5

-----------------------------------------------------------------------------
(* A datagram from the AP, one step per branch of the handler.             *)

LEMMA SyncedAlike ==
  ASSUME ProxyInv, NEW U, NEW d \in Datagram, Carries(Opened(d), U)
  PROVE  Current(Synced(d), d) /\ Alike(Synced(d), Opened(d), U)
<1> DEFINE s == Opened(d)
<1>1. s \in SessionType
  BY OpenedCurrent, CurrentType
<1> HIDE DEF s
<1>2. Synced(d) = [s EXCEPT !.down_next_id = d.eap.id,
                            !.down_last_req_id = IF Reassembling THEN d.eap.id ELSE @]
  BY DEF Synced, s
<1>3. Carries(s, U)
  BY DEF s
<1>4. Alike(Synced(d), s, U)
  BY <1>1, <1>2, <1>3 DEF Alike, SamePlace, SessionType, Carries
<1>5. QED
  BY <1>4, SyncedCurrent DEF s

LEMMA ReceiveShape ==
  ASSUME ProxyInv, NEW U \in SUBSET Unit, NEW d \in Datagram,
         Carries(Opened(d), U), d.eap \in Packet(U), Receive(d)
  PROVE  \/ ~IsTls(d) /\ Raise(Opened(d))
         \/ ~IsTls(d) /\ Ask(d, Opened(d), "non_tls", d.eap, <<>>)
         \/ IsTls(d) /\ (Fails(d, Opened(d), U) \/ Asks(d, Opened(d), U))
         \/ IsTls(d) /\ Challenges(d, Opened(d), U)
         \/ /\ IsTls(d) /\ Opened(d).result \in Verdict
            /\ Concludes(d, Opened(d), Opened(d).result, U)
<1> DEFINE s0 == Opened(d)
           s == Synced(d)
           in == Ingest(s.up_reasm, d.eap)
           t == [s EXCEPT !.up_reasm = in.reasm]
<1>1. Current(s0, d) /\ Alike(s0, s0, U)
  BY OpenedCurrent DEF Alike, SamePlace
<1>2. Current(s, d) /\ Alike(s, s0, U)
  BY SyncedAlike
<1>3. d.eap \in Packet(U) /\ <<>> \in Seq(Seq(U))
  OBVIOUS
<1>4. in.reasm \in Reassembler(U) /\ in.reasm \in Reassembler(Unit)
  BY <1>2, <1>3, IngestType, Widens DEF Alike, Carries
<1>5. Current(t, d) /\ Alike(t, s0, U)
  <2> HIDE DEF s, s0, in
  <2>1. s \in SessionType
    BY <1>2, CurrentType
  <2>2. t \in SessionType
    BY <1>4, <2>1 DEF SessionType
  <2>3. /\ t.key = s.key /\ t.downstream_state = s.downstream_state
        /\ t.last_ap_authenticator = s.last_ap_authenticator /\ t.result = s.result
        /\ t.radius_state = s.radius_state
    BY <2>1 DEF SessionType
  <2>4. Carries(t, U)
    BY <1>2, <1>4, <2>1 DEF SessionType, Alike, Carries
  <2>5. QED
    BY <1>2, <2>2, <2>3, <2>4, StaysAlike
<1>6. CASE ForwardNonTls(d)
  BY <1>6 DEF ForwardNonTls, IsTls
<1>7. CASE RefuseMalformed(d)
  BY <1>7 DEF RefuseMalformed, IsTls
<1>8. CASE ForwardVerbatim(d)
  <2>1. IsTls(d) /\ Ask(d, s, "passthrough", d.eap, <<>>)
    BY <1>8 DEF ForwardVerbatim
  <2> HIDE DEF s, s0
  <2>2. Asks(d, s0, U)
    BY <2>1, <1>2, <1>3 DEF Asks, IsTls
  <2>3. QED
    BY <2>1, <2>2 DEF s0
<1>9. CASE SendNextFragment(d)
  <2>1. IsTls(d) /\ s.down_outbox # <<>> /\ ReplyFragment(d, s, Nil)
    BY <1>9 DEF SendNextFragment
  <2> HIDE DEF s, s0
  <2>2. Challenges(d, s0, U)
    BY <2>1, <1>2, ReplyFragmentChallenges
  <2>3. QED
    BY <2>1, <2>2 DEF s0
<1>10. CASE SendPendingVerdict(d)
  <2> DEFINE eap == Restamp(s, s.pending[s.result])
  <2>1. IsTls(d) /\ s.result # Nil /\ Reply(d, s, s.result, eap)
    BY <1>10 DEF SendPendingVerdict
  <2> HIDE DEF s, s0
  <2>2. IoMayFail
    BY <2>1, <1>2 DEF Current
  <2>3. s \in SessionType /\ s.result \in Verdict /\ Kept(s) /\ s.result = s0.result
    BY <2>1, <1>2 DEF Current, Kept, KeptBelow, SessionType, Alike
  <2>4. s.pending[s.result] \in Packet(U) \cup {Nil}
    BY <2>3, <1>2 DEF Alike, Carries
  <2>5. eap \in Packet(U) \cup {Nil}
    BY <2>3, <2>4, RestampType
  <2> HIDE DEF eap
  <2>6. Concludes(d, s0, s0.result, U)
    BY <2>1, <2>2, <2>3, <2>5, <1>2 DEF Concludes, Alike
  <2>7. QED
    BY <2>1, <2>3, <2>6 DEF s0
<1>11. CASE PollUpstream(d)
  <2>1. IsTls(d) /\ AskAck(d, s, "forward")
    BY <1>11 DEF PollUpstream
  <2> HIDE DEF s, s0
  <2>2. Asks(d, s0, U)
    BY <2>1, <1>2, AskAckAsks
  <2>3. QED
    BY <2>1, <2>2 DEF s0
<1>12. CASE AckLocally(d)
  <2> DEFINE id == NextId(s.down_next_id)
             u == [s EXCEPT !.up_reasm = in.reasm, !.down_next_id = id]
             eap == AckPacket(id)
  <2>1. IsTls(d) /\ Reply(d, u, "challenge", eap)
    BY <1>12 DEF AckLocally
  <2> HIDE DEF s, s0, in
  <2>2. id \in Identifier
    BY <1>2, NextIdType DEF Current, Kept, KeptBelow, SessionType
  <2>3. eap \in Packet(U)
    BY <2>2, AckPacketType
  <2> HIDE DEF id, eap
  <2>4. Current(u, d) /\ Alike(u, s0, U)
    <3>1. s \in SessionType
      BY <1>2, CurrentType
    <3>2. u \in SessionType
      BY <1>4, <2>2, <3>1 DEF SessionType
    <3>3. /\ u.key = s.key /\ u.downstream_state = s.downstream_state
          /\ u.last_ap_authenticator = s.last_ap_authenticator /\ u.result = s.result
          /\ u.radius_state = s.radius_state
      BY <3>1 DEF SessionType
    <3>4. Carries(u, U)
      BY <1>2, <1>4, <3>1 DEF SessionType, Alike, Carries
    <3>5. QED
      BY <1>2, <3>2, <3>3, <3>4, StaysAlike
  <2> HIDE DEF u
  <2>5. Challenges(d, s0, U)
    BY <2>1, <2>3, <2>4 DEF Challenges
  <2>6. QED
    BY <2>1, <2>5 DEF s0
<1>13. CASE ForwardRecord(d)
  <2> DEFINE record == in.reasm.buffer
             chunks == Fragment(record, UpstreamFragmentSize)
  <2>1. IsTls(d) /\ AskChunk(d, t, chunks, Len(record))
    BY <1>13 DEF ForwardRecord
  <2>2. record \in Seq(U)
    BY <1>4 DEF Reassembler
  <2> HIDE DEF t, record, s0
  <2>3. chunks \in Seq(Seq(U)) /\ chunks # <<>>
    BY <2>2, FragmentSizeAssumption, FragmentType
  <2>4. Len(record) \in Nat
    BY <2>2
  <2> HIDE DEF chunks
  <2>5. Asks(d, s0, U)
    BY <2>1, <2>3, <2>4, <1>5, AskChunkAsks
  <2>6. QED
    BY <2>1, <2>5 DEF s0
<1>14. CASE RefuseOversize(d)
  <2>1. IsTls(d) /\ Raise(t)
    BY <1>14 DEF RefuseOversize
  <2> HIDE DEF t, s0
  <2>2. Fails(d, s0, U)
    BY <2>1, <1>5 DEF Fails
  <2>3. QED
    BY <2>1, <2>2 DEF s0
<1>15. QED
  BY <1>6, <1>7, <1>8, <1>9, <1>10, <1>11, <1>12, <1>13, <1>14 DEF Receive

LEMMA TypeCarries == ASSUME NEW s \in SessionType PROVE Carries(s, Unit)
BY DEF SessionType, Carries

LEMMA ReceiveStep ==
  ASSUME ProxyInv, NEW d \in Datagram, Receive(d)
  PROVE  ProxyInv'
<1> DEFINE s0 == Opened(d)
<1>1. Current(s0, d) /\ Carries(s0, Unit)
  BY OpenedCurrent, CurrentType, TypeCarries
<1>2. d.eap \in Packet(Unit) /\ <<>> \in Seq(Seq(Unit)) /\ Unit \in SUBSET Unit
  BY DEF Datagram
<1>3. \/ Raise(s0) \/ Ask(d, s0, "non_tls", d.eap, <<>>)
      \/ Fails(d, s0, Unit) \/ Asks(d, s0, Unit) \/ Challenges(d, s0, Unit)
      \/ \E code \in Verdict : Concludes(d, s0, code, Unit)
  BY <1>1, <1>2, ReceiveShape
<1> HIDE DEF s0
<1>4. CASE Raise(s0)
  BY <1>1, <1>4, RaiseStep DEF Current
<1>5. QED
  BY <1>1, <1>2, <1>3, <1>4, AskStep, EndStep

-----------------------------------------------------------------------------
(* A session given its verdict.                                            *)
LEMMA FinishedKept ==
  ASSUME NEW d, NEW s, Current(s, d), NEW code \in Verdict,
         NEW eap \in Packet(Unit) \cup {Nil}
  PROVE  /\ Kept(Finished(s, code)) /\ Kept(Stashed(s, code, eap))
         /\ SamePlace(Finished(s, code), s) /\ SamePlace(Stashed(s, code, eap), s)
         /\ Finished(s, code).result = code /\ Stashed(s, code, eap).result = code
         /\ Finished(s, code).keys = s.keys /\ Stashed(s, code, eap).keys = s.keys
<1> DEFINE f == Finished(s, code)
           pending == [s.pending EXCEPT ![code] = eap]
<1>1. s \in SessionType
  BY DEF Current, Kept, KeptBelow
<1>2. f = [s EXCEPT !.result = code]
  BY DEF Finished
<1>3. /\ Kept(f) /\ SamePlace(f, s)
      /\ f.result = code /\ f.keys = s.keys /\ f.pending = s.pending
  <2>1. f \in SessionType
    BY <1>1, <1>2 DEF SessionType
  <2>2. /\ SamePlace(f, s)
        /\ f.result = code /\ f.keys = s.keys /\ f.pending = s.pending
    BY <1>1, <1>2 DEF SessionType, SamePlace
  <2> HIDE DEF f
  <2>3. QED
    BY <2>1, <2>2 DEF Current, Kept, KeptBelow, SamePlace
<1>4. pending \in [Verdict -> Packet(Unit) \cup {Nil}]
  BY <1>1 DEF SessionType
<1>5. Stashed(s, code, eap) = [f EXCEPT !.pending = pending]
  BY <1>1, <1>3 DEF Stashed, Kept, KeptBelow, SessionType
<1> HIDE DEF f, pending
<1>6. /\ Kept(Stashed(s, code, eap)) /\ SamePlace(Stashed(s, code, eap), s)
      /\ Stashed(s, code, eap).result = code /\ Stashed(s, code, eap).keys = s.keys
  <2> DEFINE t == Stashed(s, code, eap)
  <2>1. f \in SessionType
    BY <1>3 DEF Kept, KeptBelow
  <2>2. t \in SessionType
    BY <1>4, <1>5, <2>1 DEF SessionType
  <2>3. SamePlace(t, f) /\ t.result = f.result /\ t.keys = f.keys
    BY <1>5, <2>1 DEF SessionType, SamePlace
  <2> HIDE DEF t
  <2>4. Kept(t) /\ SamePlace(t, s) /\ t.result = code /\ t.keys = s.keys
    BY <1>3, <2>2, <2>3 DEF Kept, KeptBelow, SamePlace
  <2>5. QED
    BY <2>4 DEF t
<1>7. QED
  BY <1>3, <1>6 DEF f

LEMMA FinishedCarries ==
  ASSUME NEW U, NEW s \in SessionType, Carries(s, U), NEW code \in Verdict
  PROVE  /\ Carries(Finished(s, code), U)
         /\ \A eap \in Packet(U) \cup {Nil} : Carries(Stashed(s, code, eap), U)
<1> DEFINE f == Finished(s, code)
<1>1. f = [s EXCEPT !.result = code]
  BY DEF Finished
<1>2. Carries(f, U) /\ f \in SessionType
  BY <1>1 DEF SessionType, Carries
<1>3. ASSUME NEW eap \in Packet(U) \cup {Nil}
      PROVE  Carries(Stashed(s, code, eap), U)
  <2> DEFINE pending == [f.pending EXCEPT ![code] = eap]
  <2>1. pending \in [Verdict -> Packet(U) \cup {Nil}]
    BY <1>2 DEF Carries
  <2>2. Stashed(s, code, eap) = [f EXCEPT !.pending = pending]
    BY <1>2 DEF Stashed, SessionType
  <2> HIDE DEF f, pending
  <2>3. QED
    BY <1>2, <2>1, <2>2 DEF SessionType, Carries
<1>4. QED
  BY <1>2, <1>3

(* A reply from the server, one step per branch of the blocked handler.    *)
LEMMA AnswerShape ==
  ASSUME ProxyInv, NEW U \in SUBSET Unit, NEW r \in ServerReply,
         r.code = "accept" => r.keyed, Carries(Blocked(r), U),
         r.eap \in Packet(U) \cup {Nil}, handler.rest \in Seq(Seq(U)), Answer(r)
  PROVE  \/ handler.pc # "non_tls" /\ Fails(handler.datagram, Blocked(r), U)
         \/ handler.pc # "non_tls" /\ Asks(handler.datagram, Blocked(r), U)
         \/ r.code = "challenge" /\ Challenges(handler.datagram, Blocked(r), U)
         \/ r.code \in Verdict /\ Concludes(handler.datagram, Blocked(r), r.code, U)
<1> DEFINE d == handler.datagram
           s == Blocked(r)
           in == Ingest(s.down_reasm, r.eap)
           t == [s EXCEPT !.down_reasm = in.reasm]
<1>1. handler # Nil
  BY DEF Answer
<1>2. handler \in HandlerType
  BY <1>1 DEF ProxyInv, TypeOK
<1>3. d \in Datagram
  BY <1>2 DEF HandlerType
<1>4. Current(s, d) /\ (r.code = "accept" => s.keys = d.authenticator)
  BY <1>1, BlockedCurrent
<1>5. r.code \in {"challenge"} \cup Verdict /\ r.eap \in Packet(Unit) \cup {Nil}
  BY DEF ServerReply
<1>6. Carries(s, U)
  OBVIOUS
<1> SUFFICES \/ handler.pc # "non_tls" /\ (Fails(d, s, U) \/ Asks(d, s, U))
             \/ r.code = "challenge" /\ Challenges(d, s, U)
             \/ r.code \in Verdict /\ Concludes(d, s, r.code, U)
  OBVIOUS
<1> HIDE DEF d, s
<1>7. s \in SessionType /\ s.down_reasm \in Reassembler(U) /\ Alike(s, s, U)
  BY <1>4, <1>6 DEF Current, Kept, KeptBelow, Alike, SamePlace, Carries
<1>8. r.eap # Nil => in.reasm \in Reassembler(U) /\ in.reasm \in Reassembler(Unit)
  BY <1>7, IngestType, Widens
<1> HIDE DEF in
<1>9. r.eap # Nil => Current(t, d) /\ Alike(t, s, U)
  <2>1. r.eap # Nil => t \in SessionType
    BY <1>7, <1>8 DEF SessionType
  <2>2. /\ t.key = s.key /\ t.downstream_state = s.downstream_state
        /\ t.last_ap_authenticator = s.last_ap_authenticator /\ t.result = s.result
        /\ t.radius_state = s.radius_state
    BY <1>7 DEF SessionType
  <2>3. r.eap # Nil => Carries(t, U)
    BY <1>7, <1>8 DEF SessionType, Alike, Carries
  <2>4. QED
    BY <1>4, <1>7, <2>1, <2>2, <2>3, StaysAlike
<1> HIDE DEF t
<1>10. CASE ForwardNextChunk(r)
  <2>1. /\ handler.pc = "forward" /\ handler.rest # <<>>
        /\ AskChunk(d, s, handler.rest, Nil)
    BY <1>10 DEF ForwardNextChunk, d, s
  <2>2. QED
    BY <2>1, <1>3, <1>4, <1>7, AskChunkAsks
<1>11. CASE Conclude(r)
  <2> DEFINE f == Stashed(s, r.code, r.eap)
             eap == Restamp(f, r.eap)
  <2>1. r.code \in Verdict /\ Reply(d, f, r.code, eap)
    BY <1>11 DEF Conclude, d, s
  <2>2. Kept(f) /\ SamePlace(f, s) /\ f.result = r.code /\ f.keys = s.keys
    BY <2>1, <1>4, <1>5, <1>7, FinishedKept
  <2>3. Carries(f, U)
    BY <2>1, <1>2, <1>5, <1>7, <1>6, FinishedCarries
  <2> HIDE DEF f
  <2>4. eap \in Packet(U) \cup {Nil}
    BY <2>2, RestampType DEF Kept, KeptBelow
  <2> HIDE DEF eap
  <2>5. QED
    BY <2>1, <2>2, <2>3, <2>4, <1>4 DEF Concludes
<1>12. CASE RelayEmptyChallenge(r)
  <2>1. r.code = "challenge" /\ Reply(d, s, "challenge", Nil)
    BY <1>12 DEF RelayEmptyChallenge, d, s
  <2>2. QED
    BY <2>1, <1>4, <1>7 DEF Challenges
<1>13. CASE BreakOffDrain(r)
  <2>1. r.code = "challenge" /\ ReplyRecord(d, s, s.down_reasm.buffer)
    BY <1>13 DEF BreakOffDrain, d, s
  <2>2. s.down_reasm.buffer \in Seq(U)
    BY <1>7 DEF Reassembler
  <2>3. QED
    BY <2>1, <2>2, <1>4, <1>7, ReplyRecordChallenges
<1>14. CASE RefuseUnparsable(r)
  <2>1. handler.pc # "non_tls" /\ Raise(s)
    BY <1>14 DEF RefuseUnparsable, Settling, s
  <2>2. QED
    BY <2>1, <1>4, <1>7 DEF Fails
<1>15. CASE PullNextFragment(r)
  <2>1. handler.pc # "non_tls" /\ r.eap # Nil /\ AskAck(d, t, "drain")
    BY <1>15 DEF PullNextFragment, IsFragment, Settling, d, s, t, in
  <2>2. QED
    BY <2>1, <1>9, AskAckAsks
<1>16. CASE RelayRecord(r)
  <2>1. r.code = "challenge" /\ r.eap # Nil /\ ReplyRecord(d, t, in.reasm.buffer)
    BY <1>16 DEF RelayRecord, IsFragment, d, s, t, in
  <2>2. in.reasm.buffer \in Seq(U)
    BY <2>1, <1>8 DEF Reassembler
  <2>3. QED
    BY <2>1, <2>2, <1>9, ReplyRecordChallenges
<1>17. CASE RefuseOversizeUpstream(r)
  <2>1. handler.pc # "non_tls" /\ r.eap # Nil /\ Raise(t)
    BY <1>17 DEF RefuseOversizeUpstream, IsFragment, Settling, s, t, in
  <2>2. QED
    BY <2>1, <1>9 DEF Fails
<1>18. ASSUME NEW eap \in Packet(U) \cup {Nil},
              Reply(d, IF r.code \in Verdict THEN Finished(s, r.code) ELSE s, r.code, eap)
       PROVE  \/ r.code = "challenge" /\ Challenges(d, s, U)
              \/ r.code \in Verdict /\ Concludes(d, s, r.code, U)
  <2>1. CASE r.code \in Verdict
    <3> DEFINE f == Finished(s, r.code)
    <3>1. /\ Kept(f) /\ SamePlace(f, s) /\ f.result = r.code /\ f.keys = s.keys
          /\ Carries(f, U)
      BY <2>1, <1>4, <1>7, <1>6, FinishedKept, FinishedCarries
    <3>2. Reply(d, f, r.code, eap)
      BY <2>1, <1>18
    <3> HIDE DEF f
    <3>3. QED
      BY <2>1, <3>1, <3>2, <1>4 DEF Concludes
  <2>2. CASE r.code = "challenge"
    <3>1. Reply(d, s, "challenge", eap)
      BY <2>2, <1>18
    <3>2. QED
      BY <2>2, <3>1, <1>4, <1>7 DEF Challenges
  <2>3. QED
    BY <2>1, <2>2, <1>5
<1>19. CASE RelayNonTls(r)
  <2>1. Reply(d, IF r.code \in Verdict THEN Finished(s, r.code) ELSE s, r.code, r.eap)
    BY <1>19 DEF RelayNonTls, d, s
  <2>2. QED
    BY <2>1, <1>5, <1>18
<1>20. CASE RelayVerbatim(r)
  <2> DEFINE eap == IF r.code = "reject" THEN Nil ELSE r.eap
  <2>1. Reply(d, IF r.code \in Verdict THEN Finished(s, r.code) ELSE s, r.code, eap)
    BY <1>20 DEF RelayVerbatim, d, s
  <2>2. eap \in Packet(U) \cup {Nil}
    OBVIOUS
  <2> HIDE DEF eap
  <2>3. QED
    BY <2>1, <2>2, <1>18
<1>21. QED
  BY <1>10, <1>11, <1>12, <1>13, <1>14, <1>15, <1>16, <1>17, <1>19, <1>20 DEF Answer

LEMMA AnswerStep ==
  ASSUME ProxyInv, NEW r \in ServerReply, r.code = "accept" => r.keyed, Answer(r)
  PROVE  ProxyInv'
<1> DEFINE d == handler.datagram
           s == Blocked(r)
<1>1. handler # Nil /\ handler \in HandlerType
  BY DEF Answer, ProxyInv, TypeOK
<1>2. d \in Datagram /\ handler.rest \in Seq(Seq(Unit)) /\ Unit \in SUBSET Unit
  BY <1>1 DEF HandlerType
<1>3. Carries(s, Unit) /\ r.eap \in Packet(Unit) \cup {Nil}
  BY <1>1, BlockedCurrent, CurrentType, TypeCarries DEF ServerReply
<1>4. \/ Fails(d, s, Unit) \/ Asks(d, s, Unit) \/ Challenges(d, s, Unit)
      \/ \E code \in Verdict : Concludes(d, s, code, Unit)
  BY <1>2, <1>3, AnswerShape
<1> HIDE DEF d, s
<1>5. QED
  BY <1>2, <1>4, EndStep

-----------------------------------------------------------------------------
(* The invariant.                                                          *)

LEMMA InitInv == ASSUME ProxyInit PROVE ProxyInv
<1>1. DOMAIN sessions = {}
  BY DEF ProxyInit
<1>2. TypeOK
  BY <1>1 DEF ProxyInit, TypeOK
<1>3. QED
  BY <1>1, <1>2
  DEF ProxyInit, ProxyInv, TableCoherent, HandlerCoherent, NoFinishedSession, KeysUsable

LEMMA NextInv == ASSUME ProxyInv, [OpenNext]_proxyVars PROVE ProxyInv'
<1>1. CASE ReceiveAny
  <2>1. PICK d \in Datagrams : Receive(d)
    BY <1>1 DEF ReceiveAny
  <2>2. d \in Datagram
    BY DatagramsAssumption
  <2>3. QED
    BY <2>1, <2>2, ReceiveStep
<1>2. CASE AnswerAny
  <2>1. PICK r \in ServerReplies : Answer(r)
    BY <1>2 DEF AnswerAny
  <2>2. r \in ServerReply /\ (r.code = "accept" => r.keyed)
    BY ServerRepliesAssumption
  <2>3. QED
    BY <2>1, <2>2, AnswerStep
<1>3. CASE UpstreamTimeout
  <2> DEFINE s == sessions[handler.key]
  <2>1. handler.key \in DOMAIN sessions /\ Raise(s)
    BY <1>3 DEF UpstreamTimeout, ProxyInv, HandlerCoherent
  <2>2. Kept(s) /\ (~IoMayFail => s.result = Nil)
    BY <2>1, TableFineFromInv DEF TableFine, NoFinishedSession
  <2> HIDE DEF s
  <2>3. QED
    BY <2>1, <2>2, RaiseStep
<1>4. CASE Restart
  <2>1. DOMAIN sessions' = {}
    BY <1>4 DEF Restart
  <2>2. TypeOK'
    BY <1>4, <2>1 DEF Restart, ProxyInv, TypeOK
  <2>3. TableCoherent' /\ NoFinishedSession'
    BY <2>1 DEF TableCoherent, NoFinishedSession
  <2>4. HandlerCoherent' /\ KeysUsable'
    BY <1>4 DEF Restart, ProxyInv, HandlerCoherent, KeysUsable
  <2>5. QED
    BY <2>2, <2>3, <2>4 DEF ProxyInv
<1>5. CASE Leave
  <2>1. toAp' \subseteq toAp /\ UNCHANGED <<sessions, handler, upstream, minted, reports>>
    BY <1>5 DEF Leave
  <2>2. TypeOK'
    BY <2>1 DEF ProxyInv, TypeOK
  <2>3. TableCoherent' /\ HandlerCoherent' /\ NoFinishedSession' /\ KeysUsable'
    BY <2>1
    DEF ProxyInv, TableCoherent, HandlerCoherent, NoFinishedSession, KeysUsable
  <2>4. QED
    BY <2>2, <2>3 DEF ProxyInv
<1>6. CASE UNCHANGED proxyVars
  <2>1. UNCHANGED <<sessions, handler, upstream, toAp, minted, reports>>
    BY <1>6 DEF proxyVars
  <2>2. TypeOK'
    BY <2>1 DEF ProxyInv, TypeOK
  <2>3. TableCoherent' /\ HandlerCoherent' /\ NoFinishedSession' /\ KeysUsable'
    BY <2>1
    DEF ProxyInv, TableCoherent, HandlerCoherent, NoFinishedSession, KeysUsable
  <2>4. QED
    BY <2>2, <2>3 DEF ProxyInv
<1>7. QED
  BY <1>1, <1>2, <1>3, <1>4, <1>5, <1>6 DEF OpenNext

(* ProxyInv holds of the proxy whatever access points and server do: it is *)
(* preserved by every branch of serve_forever() and of the blocked         *)
(* handler, by timeouts, restarts and lost replies.                        *)
THEOREM Invariance == OpenSpec => []ProxyInv
<1>1. ProxyInit => ProxyInv
  BY InitInv
<1>2. ProxyInv /\ [OpenNext]_proxyVars => ProxyInv'
  BY NextInv
<1>3. QED
  BY <1>1, <1>2, PTL DEF OpenSpec

(* The state of the proxy is well typed, so Identifiers stay in one octet. *)
THEOREM TypeCorrect == OpenSpec => []TypeOK
<1>1. ProxyInv => TypeOK
  BY DEF ProxyInv
<1>2. QED
  BY <1>1, Invariance, PTL

(* Every session is filed under the key the AP will quote: rekey() on the  *)
(* first challenge and the drop on the verdict keep it so.                 *)
THEOREM TableIsCoherent == OpenSpec => []TableCoherent
<1>1. ProxyInv => TableCoherent
  BY DEF ProxyInv
<1>2. QED
  BY <1>1, Invariance, PTL

(* The session of a blocked handler stays in the table with the            *)
(* authenticator of the datagram being answered (send_eap()).              *)
THEOREM HandlerIsCoherent == OpenSpec => []HandlerCoherent
<1>1. ProxyInv => HandlerCoherent
  BY DEF ProxyInv
<1>2. QED
  BY <1>1, Invariance, PTL

(* Unless sends fail, no session outlives its verdict: the drop at the end *)
(* of _handle_datagram misses none.                                        *)
THEOREM NoneFinished == OpenSpec => []NoFinishedSession
<1>1. ProxyInv => NoFinishedSession
  BY DEF ProxyInv
<1>2. QED
  BY <1>1, Invariance, PTL

(* Unless sends fail, the keys of every Access-Accept can be decrypted by  *)
(* the AP it is for: mirroring the Request Authenticator upstream works,   *)
(* on whichever round of whichever record the server accepts.              *)
THEOREM KeysAreUsable == OpenSpec => []KeysUsable
<1>1. ProxyInv => KeysUsable
  BY DEF ProxyInv
<1>2. QED
  BY <1>1, Invariance, PTL
=============================================================================
