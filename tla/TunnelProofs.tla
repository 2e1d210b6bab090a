---------------------------- MODULE TunnelProofs ----------------------------
(***************************************************************************)
(* The whole path implements the tunnel, and each leg sees its Identifiers *)
(* in order, for any number of stations, fragment sizes and handshakes, in *)
(* both modes, with replies and datagrams lost, requests timing out,       *)
(* restarts and rejections anywhere: what a station or the server is given *)
(* of a flight is always the next part of it.  Only repeated requests are  *)
(* left out, by the access point and by stations that begin anew.          *)
(***************************************************************************)
EXTENDS TestbedProofs, EapTlsProofs

-----------------------------------------------------------------------------
(* Flights and their parts.                                                *)

(* The flights of a handshake, with two empty ones after the last.         *)
Flights(st) == [i \in 1 .. FlightCount + 2 |-> Flight(st, i)]

(* What a station that has p.got is to send and to receive next, f being   *)
(* its flights; whether there is more to come, or nothing.                 *)
UpFlight(f, p) == f[2 * Len(p.got) + 1]
DownFlight(f, p) == f[2 * Len(p.got) + 2]
UnderWay(p) == 2 * Len(p.got) < FlightCount
Through(p) == 2 * Len(p.got) = FlightCount

(* The first a units of a record, and the rest of it, cut up.              *)
Upto(record, a) == SubSeq(record, 1, a)
CutFrom(record, a, size) ==
  IF a < Len(record) THEN Fragment(SubSeq(record, a + 1, Len(record)), size) ELSE <<>>

(* eap brings units a + 1 to b of a record.                                *)
Piece(record, a, b, eap) ==
  /\ a \in Nat /\ b \in Nat /\ a < b /\ b <= Len(record)
  /\ eap.kind = "tls" /\ ~eap.start
  /\ eap.data = SubSeq(record, a + 1, b)
  /\ eap.more = (b < Len(record))

(* record continues head with tail.                                        *)
Joins(head, tail, record) == head \o tail = record

(* A reassembler that has gathered the first a units of a record.          *)
Gathers(reasm, record, a) ==
  IF a = 0 THEN StartsRecord(reasm)
  ELSE reasm = [state |-> "in_progress", buffer |-> Upto(record, a)]

LEMMA UptoParts ==
  ASSUME NEW U, NEW record \in Seq(U), NEW b \in 0 .. Len(record), NEW a \in 0 .. b
  PROVE  /\ SubSeq(record, a + 1, b) \in Seq(U) /\ Len(SubSeq(record, a + 1, b)) = b - a
         /\ Upto(record, a) \in Seq(U) /\ Len(Upto(record, a)) = a
         /\ Joins(Upto(record, a), SubSeq(record, a + 1, b), Upto(record, b))
         /\ Upto(record, 0) = <<>> /\ Upto(record, Len(record)) = record
<1>1. /\ \A i \in a + 1 .. b : record[i] \in U
      /\ \A i \in 1 .. a : record[i] \in U
      /\ \A i \in 1 .. 0 : record[i] \in U
  BY ElementOfSeq
<1>2. SubSeq(record, a + 1, b) \in Seq(U) /\ Len(SubSeq(record, a + 1, b)) = b - a
  BY <1>1, SubSeqProperties
<1>3. SubSeq(record, 1, a) \in Seq(U) /\ Len(SubSeq(record, 1, a)) = a
  BY <1>1, SubSeqProperties
<1>4. SubSeq(record, 1, 0) = <<>>
  <2> DEFINE none == SubSeq(record, 1, 0)
  <2>1. none \in Seq(U) /\ Len(none) = 0
    BY <1>1, SubSeqProperties
  <2> HIDE DEF none
  <2>2. none = <<>>
    BY <2>1, EmptySeq
  <2>3. QED
    BY <2>2 DEF none
<1>5. SubSeq(record, 1, Len(record)) = record
  BY SubSeqFull
<1>6. SubSeq(record, 1, a) \o SubSeq(record, a + 1, b) = SubSeq(record, 1, b)
  <2>1. 1 \in 1 .. Len(record) + 1 /\ a \in 1 - 1 .. Len(record) /\ b \in a .. Len(record)
    OBVIOUS
  <2>2. QED
    BY <2>1, ConcatAdjacentSubSeq
<1>7. QED
  BY <1>2, <1>3, <1>4, <1>5, <1>6 DEF Upto, Joins

(* The head of what is left of a record is its next piece, its tail what   *)
(* is left after that.                                                     *)
LEMMA NextPiece ==
  ASSUME NEW U, NEW record \in Seq(U), NEW a \in Nat, a < Len(record), NEW size \in Nat \ {0}
  PROVE  LET chunks == CutFrom(record, a, size) IN
         /\ chunks \in Seq(Seq(U)) /\ chunks # <<>>
         /\ \E b \in Nat :
              /\ a < b /\ b <= a + size /\ Tail(chunks) = CutFrom(record, b, size)
              /\ \A id, length :
                   Piece(record, a, b, Frame(id, length, Len(chunks) > 1, Head(chunks)))
<1>1. PICK rest : rest = SubSeq(record, a + 1, Len(record))
  OBVIOUS
<1>2. rest \in Seq(U) /\ Len(rest) = Len(record) - a /\ Len(rest) \in Nat \ {0}
  BY <1>1, UptoParts
<1>3. rest \in Seq(U) \ {<<>>}
  BY <1>2, EmptySeq
<1>4. PICK chunks : chunks = CutFrom(record, a, size)
  OBVIOUS
<1>5. chunks = Fragment(rest, size)
  BY <1>1, <1>4 DEF CutFrom
<1>6. PICK n : n = Smaller(size, Len(rest))
  OBVIOUS
<1>7. /\ n \in 1 .. Len(rest) /\ n <= size
      /\ Len(rest) > size => n = size
      /\ ~(Len(rest) > size) => n = Len(rest)
  BY <1>2, <1>6 DEF Smaller
<1>8. PICK b : b = a + n
  OBVIOUS
<1>9. /\ b \in Nat /\ a < b /\ b <= a + size /\ b <= Len(record)
      /\ b < Len(record) <=> Len(rest) > size
  BY <1>2, <1>7, <1>8
<1>10. chunks \in Seq(Seq(U)) /\ Len(chunks) = ChunkCount(Len(rest), size)
  BY <1>3, <1>5, FragmentChunks
<1>11. Len(chunks) \in Nat \ {0} /\ chunks # <<>>
  <2>1. Len(chunks) \in Nat \ {0}
    BY <1>2, <1>10, ChunkCountBounds
  <2>2. QED
    BY <2>1, <1>10, EmptySeq
<1>12. Head(chunks) = SubSeq(record, a + 1, b) /\ (Len(chunks) > 1 <=> b < Len(record))
  <2>1. Head(chunks) = SubSeq(rest, 1, n) /\ (Len(chunks) > 1 <=> Len(rest) > size)
    BY <1>3, <1>5, <1>6, FragmentHead
  <2>2. a \in 0 .. Len(record) /\ n \in 0 .. Len(record) - a /\ 0 \in 0 .. n
    BY <1>2, <1>7
  <2>3. SubSeq(rest, 0 + 1, n) = SubSeq(record, a + 0 + 1, a + n)
    BY <2>2, <1>1, SubSeqOfSuffix
  <2>4. 0 + 1 = 1 /\ a + 0 + 1 = a + 1
    OBVIOUS
  <2>5. QED
    BY <2>1, <2>3, <2>4, <1>8, <1>9
<1>13. Tail(chunks) = CutFrom(record, b, size)
  <2>1. CASE b < Len(record)
    <3>1. n = size /\ size < Len(rest)
      BY <2>1, <1>2, <1>7, <1>9
    <3>2. Tail(chunks) = Fragment(SubSeq(rest, size + 1, Len(rest)), size)
      BY <3>1, <1>3, <1>5, FragmentTail
    <3>3. /\ a \in 0 .. Len(record) /\ Len(rest) \in 0 .. Len(record) - a
          /\ size \in 0 .. Len(rest)
      BY <3>1, <1>2
    <3>4. SubSeq(rest, size + 1, Len(rest)) = SubSeq(record, a + size + 1, a + Len(rest))
      BY <3>3, <1>1, SubSeqOfSuffix
    <3>5. a + Len(rest) = Len(record)
      BY <1>2
    <3>6. QED
      BY <2>1, <3>1, <3>2, <3>4, <3>5, <1>8 DEF CutFrom
  <2>2. CASE ~(b < Len(record))
    <3>1. Len(chunks) = 1
      <4>1. ~(Len(chunks) > 1) /\ Len(chunks) \in Nat \ {0}
        BY <2>2, <1>11, <1>12
      <4>2. \A k \in Nat \ {0} : ~(k > 1) => k = 1
        OBVIOUS
      <4>3. QED
        BY <4>1, <4>2, Zenon
    <3>2. Tail(chunks) \in Seq(Seq(U)) /\ Len(Tail(chunks)) = 0
      BY <3>1, <1>10, <1>11, HeadTailProperties
    <3>3. Tail(chunks) = <<>>
      BY <3>2, EmptySeq
    <3>4. QED
      BY <2>2, <3>3 DEF CutFrom
  <2>3. QED
    BY <2>1, <2>2
<1>14. \A id, length :
         Piece(record, a, b, Frame(id, length, Len(chunks) > 1, Head(chunks)))
  BY <1>9, <1>12 DEF Piece, Frame
<1>15. QED
  BY <1>4, <1>9, <1>10, <1>11, <1>13, <1>14

(* What ingest() makes of the next piece of the record it gathers.         *)
LEMMA PieceIngested ==
  ASSUME NEW U, NEW record \in Seq(U), NEW a, NEW b, NEW eap, Piece(record, a, b, eap),
         NEW reasm, Gathers(reasm, record, a)
  PROVE  LET in == Ingest(reasm, eap) IN
         /\ ~IsAck(eap) /\ eap.data # <<>>
         /\ in.verdict \in {"more", "done", "error"}
         /\ in.verdict = "more" =>
              eap.more /\ b > 0 /\ b < Len(record) /\ Gathers(in.reasm, record, b)
         /\ in.verdict = "done" =>
              /\ ~eap.more /\ b = Len(record)
              /\ in.reasm.buffer = record /\ StartsRecord(in.reasm)
<1>1. /\ a \in Nat /\ b \in Nat /\ a < b /\ b <= Len(record)
      /\ eap.data = SubSeq(record, a + 1, b) /\ (eap.more <=> b < Len(record))
  BY DEF Piece
<1>2. b \in 0 .. Len(record) /\ a \in 0 .. b
  BY <1>1
<1>3. PICK buffer : buffer = Upto(record, b)
  OBVIOUS
<1>4. PICK data : data = eap.data
  OBVIOUS
<1>5. /\ data \in Seq(U) /\ Len(data) = b - a
      /\ Joins(Upto(record, a), data, buffer) /\ Upto(record, 0) = <<>>
      /\ Upto(record, Len(record)) = record
  <2>1. SubSeq(record, a + 1, b) \in Seq(U) /\ Len(SubSeq(record, a + 1, b)) = b - a
    BY <1>2, UptoParts
  <2>2. Joins(Upto(record, a), SubSeq(record, a + 1, b), Upto(record, b))
    BY <1>2, UptoParts
  <2>3. Upto(record, 0) = <<>> /\ Upto(record, Len(record)) = record
    BY <1>2, UptoParts
  <2>4. data = SubSeq(record, a + 1, b)
    BY <1>1, <1>4
  <2>5. QED
    BY <2>1, <2>2, <2>3, <2>4, <1>3
<1>6. data # <<>>
  BY <1>1, <1>5, EmptySeq
<1>7. Appended(reasm, eap) = buffer
  <2>1. CASE a = 0
    <3>1. StartsRecord(reasm)
      BY <2>1 DEF Gathers
    <3>2. Joins(<<>>, data, Appended(reasm, eap))
      BY <3>1, <1>4 DEF Appended, Joins
    <3>3. QED
      BY <3>2, <2>1, <1>5 DEF Joins
  <2>2. CASE a # 0
    <3>1. ~StartsRecord(reasm) /\ reasm.buffer = Upto(record, a)
      BY <2>2 DEF Gathers, StartsRecord
    <3>2. QED
      BY <3>1, <1>4, <1>5 DEF Appended, Joins
  <2>3. QED
    BY <2>1, <2>2
<1>8. ~IsAck(eap)
  BY <1>4, <1>6 DEF IsAck
<1>9. PICK in : in = Ingest(reasm, eap)
  OBVIOUS
<1>10. \/ in.verdict = "error"
       \/ /\ in.verdict = "more" /\ eap.more
          /\ in.reasm = [state |-> "in_progress", buffer |-> buffer]
       \/ /\ in.verdict = "done" /\ ~eap.more
          /\ in.reasm = [state |-> "complete", buffer |-> buffer]
  BY <1>7, <1>8, <1>9 DEF Ingest
<1>11. CASE in.verdict = "more"
  <2>1. eap.more /\ in.reasm = [state |-> "in_progress", buffer |-> buffer]
    BY <1>10, <1>11
  <2>2. Gathers(in.reasm, record, b) /\ b > 0 /\ b < Len(record)
    BY <2>1, <1>1, <1>3 DEF Gathers
  <2>3. QED
    BY <2>1, <2>2, <1>4, <1>6, <1>8, <1>9, <1>11
<1>12. CASE in.verdict = "done"
  <2>1. ~eap.more /\ in.reasm = [state |-> "complete", buffer |-> buffer] /\ b = Len(record)
    BY <1>1, <1>10, <1>12
  <2>2. buffer = record
    BY <2>1, <1>3, <1>5
  <2>3. QED
    BY <2>1, <2>2, <1>4, <1>6, <1>8, <1>9, <1>12 DEF StartsRecord
<1>13. QED
  BY <1>4, <1>6, <1>8, <1>9, <1>10, <1>11, <1>12

LEMMA PieceData ==
  ASSUME NEW U, NEW record \in Seq(U), NEW a, NEW b, NEW eap, Piece(record, a, b, eap)
  PROVE  eap.data # <<>> /\ ~IsAck(eap) /\ eap.kind = "tls" /\ ~eap.start
<1>1. b \in 0 .. Len(record) /\ a \in 0 .. b /\ a < b
  BY DEF Piece
<1>2. PICK data : data = SubSeq(record, a + 1, b)
  OBVIOUS
<1>3. data \in Seq(U) /\ Len(data) = b - a
  BY <1>1, <1>2, UptoParts
<1>4. data # <<>>
  BY <1>1, <1>3, EmptySeq
<1>5. QED
  BY <1>2, <1>4 DEF Piece, IsAck

-----------------------------------------------------------------------------
(* Where the conversation with a station stands, p being the station, s    *)
(* the session its request or reply leads to, v the server's side of it    *)
(* and f its flights.                                                      *)

(* Up to a units of the station's next flight are through to the server,   *)
(* or to the proxy where that gathers them.                                *)
AwaitsUp(f, p, s, v, a) ==
  /\ Len(v.got) = Len(p.got) /\ v.tx = <<>>
  /\ IF Reassembling
       THEN /\ v.rx = <<>> /\ s.down_outbox = <<>> /\ StartsRecord(s.down_reasm)
            /\ Gathers(s.up_reasm, UpFlight(f, p), a)
       ELSE v.rx = Upto(UpFlight(f, p), a)

(* All but the first a units of the server's next flight are still with    *)
(* the server, or with the proxy.                                          *)
AwaitsDown(f, p, s, v, a) ==
  /\ Len(v.got) = Len(p.got) + 1 /\ v.rx = <<>>
  /\ IF Reassembling
       THEN /\ StartsRecord(s.up_reasm) /\ StartsRecord(s.down_reasm) /\ v.tx = <<>>
            /\ s.down_outbox = CutFrom(DownFlight(f, p), a, DownstreamFragmentSize)
       ELSE \E k \in Nat \ {0} : v.tx = CutFrom(DownFlight(f, p), a, k)

(* A session in no conversation, as a fault leaves it, and one in          *)
(* conversation c.                                                         *)
Dead(s) == s.radius_state = Nil /\ s.result = Nil /\ s.down_outbox = <<>>
Linked(s, c, v) ==
  /\ v.verdict = Nil /\ v.id \in Identifier
  /\ s.result = Nil /\ s.radius_state = <<c, v.step>>
  /\ Reassembling => s.upstream_last_eap_req_id = v.id

(* The station says, in eap, what is next: a part of its flight, an ACK of *)
(* a part of the server's, or the last ACK of all.                         *)
Speaking(f, p, s, v, eap) ==
  \/ /\ UnderWay(p) /\ p.rx = <<>>
     /\ \E a, b \in Nat : /\ Piece(UpFlight(f, p), a, b, eap)
                          /\ p.tx = CutFrom(UpFlight(f, p), b, PeerFragmentSize)
                          /\ AwaitsUp(f, p, s, v, a)
  \/ /\ UnderWay(p) /\ p.tx = <<>> /\ IsAck(eap)
     /\ \E a \in Nat \ {0} : /\ a < Len(DownFlight(f, p))
                             /\ p.rx = Upto(DownFlight(f, p), a)
                             /\ AwaitsDown(f, p, s, v, a)
  \/ /\ Through(p) /\ p.tx = <<>> /\ p.rx = <<>> /\ IsAck(eap)
     /\ AwaitsUp(f, p, s, v, 0)

(* The conversations with a station: there is at most one.                 *)
Talks(st) == [i \in {c \in DOMAIN server : server[c].st = st} |-> server[i]]

(* d opens the conversation.                                               *)
Introduces(p, talks, d) ==
  /\ d.state = Nil /\ IsIdentity(d.eap) /\ DOMAIN talks = {}
  /\ p.got = <<>> /\ p.tx = <<>> /\ p.rx = <<>>

Requesting(p, d) == p.status = "waiting" /\ d = p.request /\ d.eap.id = p.id

(* A Response whose session is in no conversation gets no further than the *)
(* server's refusal, one in a conversation says what is next in it.        *)
Standing(f, p, s, talks, eap) ==
  \/ Dead(s)
  \/ \E c \in DOMAIN talks :
       /\ Linked(s, c, talks[c]) /\ (~Reassembling => eap.id = talks[c].id)
       /\ Speaking(f, p, s, talks[c], eap)

(* A request on its way to the proxy.                                      *)
RequestFine(f, p, s, talks, d) ==
  /\ Requesting(p, d)
  /\ \/ Introduces(p, talks, d)
     \/ d.state # Nil /\ IsTls(d) /\ Standing(f, p, s, talks, d.eap)

(* The proxy forwards a flight of the station, or its last ACK, eap being  *)
(* on the wire, or asks with eap for the rest of a flight of the server.   *)
Forwarding(f, p, s, v, eap, rest) ==
  /\ p.tx = <<>> /\ p.rx = <<>> /\ Len(v.got) = Len(p.got) /\ v.tx = <<>>
  /\ StartsRecord(s.up_reasm) /\ StartsRecord(s.down_reasm) /\ s.down_outbox = <<>>
  /\ \/ /\ UnderWay(p)
        /\ \E a, b \in Nat : /\ Piece(UpFlight(f, p), a, b, eap)
                             /\ v.rx = Upto(UpFlight(f, p), a)
                             /\ rest = CutFrom(UpFlight(f, p), b, UpstreamFragmentSize)
     \/ Through(p) /\ IsAck(eap) /\ rest = <<>> /\ v.rx = <<>>

Draining(f, p, s, v, eap) ==
  /\ UnderWay(p) /\ IsAck(eap)
  /\ p.tx = <<>> /\ p.rx = <<>> /\ Len(v.got) = Len(p.got) + 1 /\ v.rx = <<>>
  /\ StartsRecord(s.up_reasm) /\ s.down_outbox = <<>>
  /\ \E a, k \in Nat \ {0} : /\ a < Len(DownFlight(f, p))
                             /\ Gathers(s.down_reasm, DownFlight(f, p), a)
                             /\ v.tx = CutFrom(DownFlight(f, p), a, k)

(* What the handler h is about, and what it says in eap.                   *)
Minds(f, p, s, v, h, eap) ==
  \/ h.pc = "passthrough" /\ eap.id = p.id /\ Speaking(f, p, s, v, eap)
  \/ h.pc = "forward" /\ Forwarding(f, p, s, v, eap, h.rest)
  \/ h.pc = "drain" /\ h.rest = <<>> /\ Draining(f, p, s, v, eap)

(* The handler h of a request of the station, and the packet eap it waits  *)
(* for an answer to.                                                       *)
HandlerFine(f, p, s, talks, h, eap) ==
  /\ Requesting(p, h.datagram) /\ h.key = KeyOf(h.datagram)
  /\ \/ h.pc = "non_tls" /\ Introduces(p, talks, h.datagram) /\ eap = h.datagram.eap
     \/ /\ h.pc # "non_tls" /\ h.datagram.state # Nil /\ eap.kind = "tls"
        /\ s.down_next_id = p.id /\ (Reassembling => s.down_last_req_id = p.id)
        /\ h.pc = "passthrough" <=> ~Reassembling
        /\ \/ Dead(s)
           \/ \E c \in DOMAIN talks :
                /\ Linked(s, c, talks[c]) /\ eap.id = talks[c].id
                /\ Minds(f, p, s, talks[c], h, eap)

(* eap asks the station for its flight from the unit after a on.           *)
Bids(f, p, eap, a) ==
  /\ p.rx = <<>>
  /\ \/ eap.start /\ a = 0 /\ p.got = <<>> /\ p.tx = <<>>
     \/ /\ IsAck(eap) /\ a > 0 /\ UnderWay(p) /\ a < Len(UpFlight(f, p))
        /\ p.tx = CutFrom(UpFlight(f, p), a, PeerFragmentSize)

(* A challenge on its way to the station: one that leads nowhere, one that *)
(* asks for a part of its flight, one that brings it a part of the         *)
(* server's.                                                               *)
Challenged(f, p, s, talks, eap) ==
  LET Live(c) == Linked(s, c, talks[c]) /\ (~Reassembling => eap.id = talks[c].id) IN
  \/ eap.data = <<>> /\ Dead(s)
  \/ /\ eap.data = <<>>
     /\ \E c \in DOMAIN talks, a \in Nat :
          Live(c) /\ Bids(f, p, eap, a) /\ AwaitsUp(f, p, s, talks[c], a)
  \/ /\ UnderWay(p) /\ p.tx = <<>>
     /\ \E c \in DOMAIN talks : Len(talks[c].got) = Len(p.got) + 1
     /\ \E a, b \in Nat :
          /\ Piece(DownFlight(f, p), a, b, eap) /\ p.rx = Upto(DownFlight(f, p), a)
          /\ Dead(s) \/ \E c \in DOMAIN talks : Live(c) /\ AwaitsDown(f, p, s, talks[c], b)

(* What a reply may tell the station, and one on its way there.            *)
Telling(f, p, s, talks, code, eap) ==
  \/ code = "reject" /\ (eap # Nil => eap.id = p.id)
  \/ code = "accept" /\ (eap # Nil => eap.id = p.id) /\ Through(p)
  \/ /\ code = "challenge" /\ eap # Nil /\ eap.kind = "tls" /\ eap.id # p.id
     /\ Challenged(f, p, s, talks, eap)

ReplyFine(f, p, s, talks, m) ==
  /\ p.status = "waiting" /\ m.to = p.request.authenticator
  /\ Telling(f, p, s, talks, m.code, m.eap)

(* What is under way for a station, which is one thing at most.            *)
RequestsOf(st) == {d \in InFlight : d.authenticator[1] = st}
RepliesOf(st) == {m \in toAp : m.to[1] = st}
Handles(st) == handler # Nil /\ handler.datagram.authenticator[1] = st

OneAtATime(st) ==
  /\ RequestsOf(st) # {} => ~Handles(st) /\ RepliesOf(st) = {}
  /\ Handles(st) => RepliesOf(st) = {}
  /\ \A m, n \in RepliesOf(st) : m = n

Course(st) ==
  /\ \A c, e \in DOMAIN Talks(st) : c = e
  /\ peer[st].status = "off" => peer[st] = NewPeer /\ DOMAIN Talks(st) = {}
  /\ OneAtATime(st)
  /\ \A d \in RequestsOf(st) :
       RequestFine(Flights(st), peer[st], Get(sessions, KeyOf(d)), Talks(st), d)
  /\ Handles(st) => HandlerFine(Flights(st), peer[st], sessions[handler.key], Talks(st),
                                handler, upstream.eap)
  /\ \A m \in RepliesOf(st) :
       ReplyFine(Flights(st), peer[st], Get(sessions, StateKey(m.state)), Talks(st), m)

(* A session under a synthetic key, which stations may share, has nothing  *)
(* of a handshake in it.                                                   *)
Blank(s) ==
  /\ s.result = Nil /\ s.down_outbox = <<>>
  /\ StartsRecord(s.up_reasm) /\ StartsRecord(s.down_reasm)

Apart ==
  \A i, j \in DOMAIN inbox : inbox[i].authenticator[1] = inbox[j].authenticator[1] => i = j

(* Nobody repeats anything.                                                *)
NoRepeats ==
  /\ {"retransmission", "attempt"} \subseteq DOMAIN budget
  /\ budget.retransmission = 0 /\ budget.attempt = 0

TunnelInv ==
  /\ NoRepeats
  /\ Apart
  /\ \A k \in DOMAIN sessions : k[1] = "new" => Blank(sessions[k])
  /\ \A st \in Stations : Course(st)

(* What is assumed of the handshakes, and of the faults.                   *)
FlightsCarryData == \A s \in Scripts : \A i \in 1 .. FlightCount : s[i] > 0
NothingRepeated == MaxRetransmissions = 0 /\ MaxAttempts = 0

-----------------------------------------------------------------------------
(* A station whose request, handler or reply a step leaves alone, or takes *)
(* away, is where it was; so is one whose session a fault has reset.       *)
Steady(k) == Get(sessions', k) = Get(sessions, k) \/ Dead(Get(sessions', k))

LEMMA FlightsKept == ASSUME script' = script, NEW st PROVE Flights(st)' = Flights(st)
BY DEF Flights, Flight

LEMMA CourseKept ==
  ASSUME NEW st \in Stations, Course(st), script' = script, peer'[st] = peer[st],
         Talks(st)' = Talks(st),
         RequestsOf(st)' \subseteq RequestsOf(st), RepliesOf(st)' \subseteq RepliesOf(st),
         Handles(st)' => /\ Handles(st) /\ handler' = handler /\ upstream' = upstream
                         /\ sessions'[handler.key] = sessions[handler.key],
         \A d \in RequestsOf(st)' : d.state # Nil => Steady(KeyOf(d)),
         \A m \in RepliesOf(st)' : m.code = "challenge" => Steady(StateKey(m.state))
  PROVE  Course(st)'
<1>1. Flights(st)' = Flights(st)
  BY FlightsKept
<1>2. ASSUME NEW f, NEW p, NEW s, NEW talks, NEW d, RequestFine(f, p, s, talks, d),
             NEW t, t = s \/ Dead(t) \/ d.state = Nil
      PROVE  RequestFine(f, p, t, talks, d)
  BY <1>2 DEF RequestFine, Standing
<1>3. ASSUME NEW f, NEW p, NEW s, NEW talks, NEW m, ReplyFine(f, p, s, talks, m),
             NEW t, t = s \/ Dead(t) \/ m.code # "challenge"
      PROVE  ReplyFine(f, p, t, talks, m)
  BY <1>3 DEF ReplyFine, Telling, Challenged
<1>4. ASSUME NEW d \in RequestsOf(st)'
      PROVE  RequestFine(Flights(st), peer[st], Get(sessions', KeyOf(d)), Talks(st), d)
  <2>1. RequestFine(Flights(st), peer[st], Get(sessions, KeyOf(d)), Talks(st), d)
    BY DEF Course
  <2>2. d.state # Nil => Steady(KeyOf(d))
    OBVIOUS
  <2>3. QED
    BY <1>2, <2>1, <2>2 DEF Steady
<1>5. ASSUME NEW m \in RepliesOf(st)'
      PROVE  ReplyFine(Flights(st), peer[st], Get(sessions', StateKey(m.state)), Talks(st), m)
  <2>1. ReplyFine(Flights(st), peer[st], Get(sessions, StateKey(m.state)), Talks(st), m)
    BY DEF Course
  <2>2. m.code = "challenge" => Steady(StateKey(m.state))
    OBVIOUS
  <2>3. QED
    BY <1>3, <2>1, <2>2 DEF Steady
<1>6. OneAtATime(st)'
  BY DEF Course, OneAtATime
<1>7. Handles(st)' => HandlerFine(Flights(st), peer[st], sessions'[handler'.key], Talks(st),
                                  handler', upstream'.eap)
  BY DEF Course
<1>8. QED
  BY <1>1, <1>4, <1>5, <1>6, <1>7 DEF Course

(* What a station's one request, handler or reply comes to.                *)
LEMMA CourseTaken ==
  ASSUME NEW st \in Stations, \A c, e \in DOMAIN Talks(st)' : c = e,
         peer'[st].status # "off",
         \/ /\ ~Handles(st)' /\ RepliesOf(st)' = {}
            /\ \A d \in RequestsOf(st)' :
                 RequestFine(Flights(st), peer[st], Get(sessions, KeyOf(d)), Talks(st), d)'
         \/ /\ RequestsOf(st)' = {} /\ RepliesOf(st)' = {}
            /\ Handles(st)' => HandlerFine(Flights(st), peer[st], sessions[handler.key],
                                           Talks(st), handler, upstream.eap)'
         \/ /\ RequestsOf(st)' = {} /\ ~Handles(st)'
            /\ \A m, n \in RepliesOf(st)' : m = n
            /\ \A m \in RepliesOf(st)' :
                 ReplyFine(Flights(st), peer[st], Get(sessions, StateKey(m.state)), Talks(st), m)'
  PROVE  Course(st)'
BY DEF Course, OneAtATime

LEMMA InboxTail ==
  ASSUME inbox \in Seq(Datagram), inbox # <<>>, Apart, inbox' = Tail(inbox)
  PROVE  /\ Apart' /\ Head(inbox) \in InFlight
         /\ \A st : RequestsOf(st)' \subseteq RequestsOf(st)
         /\ \A st : st = Head(inbox).authenticator[1] => RequestsOf(st)' = {}
<1>1. /\ inbox' \in Seq(Datagram) /\ Len(inbox') = Len(inbox) - 1 /\ Len(inbox) \in Nat \ {0}
  OBVIOUS
<1>2. /\ DOMAIN inbox' = 1 .. Len(inbox) - 1 /\ Head(inbox) = inbox[1] /\ 1 \in DOMAIN inbox
      /\ \A i \in DOMAIN inbox' : /\ inbox'[i] = inbox[i + 1] /\ i + 1 \in DOMAIN inbox
                                  /\ i + 1 # 1
  BY <1>1
<1>3. InFlight' \subseteq InFlight /\ Head(inbox) \in InFlight
  BY <1>2 DEF InFlight
<1>4. Apart'
  BY <1>2 DEF Apart
<1>5. \A i \in DOMAIN inbox' : inbox'[i].authenticator[1] # inbox[1].authenticator[1]
  BY <1>2 DEF Apart
<1>6. \A st : RequestsOf(st)' \subseteq RequestsOf(st)
  BY <1>3 DEF RequestsOf
<1>7. ASSUME NEW st, st = Head(inbox).authenticator[1] PROVE RequestsOf(st)' = {}
  <2>1. \A d \in InFlight' : d.authenticator[1] # inbox[1].authenticator[1]
    BY <1>5 DEF InFlight
  <2>2. QED
    BY <2>1, <1>2, <1>7 DEF RequestsOf
<1>8. QED
  BY <1>3, <1>4, <1>6, <1>7

LEMMA InboxAppend ==
  ASSUME inbox \in Seq(Datagram), Apart, NEW d \in Datagram, inbox' = Append(inbox, d),
         RequestsOf(d.authenticator[1]) = {}
  PROVE  /\ Apart' /\ RequestsOf(d.authenticator[1])' = {d}
         /\ \A st : st # d.authenticator[1] => RequestsOf(st)' = RequestsOf(st)
<1>1. /\ DOMAIN inbox' = DOMAIN inbox \cup {Len(inbox) + 1} /\ Len(inbox) + 1 \notin DOMAIN inbox
      /\ \A i \in DOMAIN inbox : inbox'[i] = inbox[i]
      /\ inbox'[Len(inbox) + 1] = d
  OBVIOUS
<1>2. InFlight' = InFlight \cup {d}
  BY InFlightAppend
<1>3. \A i \in DOMAIN inbox : inbox[i].authenticator[1] # d.authenticator[1]
  BY DEF RequestsOf, InFlight
<1>4. Apart'
  BY <1>1, <1>3 DEF Apart
<1>5. QED
  BY <1>2, <1>4 DEF RequestsOf

-----------------------------------------------------------------------------
(* What the proxy does to its table.                                       *)
OnlyAt(ks) ==
  \A k : k \notin ks => /\ k \in DOMAIN sessions' <=> k \in DOMAIN sessions
                        /\ k \in DOMAIN sessions => sessions'[k] = sessions[k]

LEMMA OnlyAtSteady ==
  ASSUME NEW ks, OnlyAt(ks), NEW k, k \notin ks PROVE Steady(k)
BY DEF OnlyAt, Steady, Get

LEMMA PutOnly ==
  ASSUME NEW t, sessions' = Put(sessions, t)
  PROVE  /\ OnlyAt({t.key}) /\ t.key \in DOMAIN sessions' /\ sessions'[t.key] = t
BY DEF Put, OnlyAt

(* t tells of its conversation what s does.                                *)
Similar(t, s) ==
  /\ t.radius_state = s.radius_state /\ t.result = s.result
  /\ t.upstream_last_eap_req_id = s.upstream_last_eap_req_id
  /\ t.up_reasm = s.up_reasm /\ t.down_reasm = s.down_reasm
  /\ t.down_outbox = s.down_outbox

LEMMA SimilarStands ==
  ASSUME NEW t, NEW s, Similar(t, s)
  PROVE  /\ Dead(t) <=> Dead(s)
         /\ \A c, v : Linked(t, c, v) <=> Linked(s, c, v)
         /\ \A f, p, v, a : AwaitsUp(f, p, t, v, a) <=> AwaitsUp(f, p, s, v, a)
         /\ \A f, p, v, a : AwaitsDown(f, p, t, v, a) <=> AwaitsDown(f, p, s, v, a)
BY DEF Similar, Dead, Linked, AwaitsUp, AwaitsDown

LEMMA SimilarFine ==
  ASSUME NEW t, NEW s, Similar(t, s), NEW f, NEW p, NEW talks
  PROVE  /\ \A v, eap : Speaking(f, p, s, v, eap) => Speaking(f, p, t, v, eap)
         /\ \A eap : Challenged(f, p, s, talks, eap) => Challenged(f, p, t, talks, eap)
         /\ Blank(s) => Blank(t)
<1>1. ASSUME NEW v, NEW eap, Speaking(f, p, s, v, eap) PROVE Speaking(f, p, t, v, eap)
  BY <1>1, SimilarStands DEF Speaking
<1>2. ASSUME NEW eap, Challenged(f, p, s, talks, eap) PROVE Challenged(f, p, t, talks, eap)
  BY <1>2, SimilarStands DEF Challenged
<1>3. Blank(s) => Blank(t)
  BY DEF Similar, Blank
<1>4. QED
  BY <1>1, <1>2, <1>3

LEMMA SimilarHandler ==
  ASSUME NEW t, NEW s, Similar(t, s),
         t.down_next_id = s.down_next_id, t.down_last_req_id = s.down_last_req_id,
         NEW f, NEW p, NEW talks, NEW h, NEW eap, HandlerFine(f, p, s, talks, h, eap)
  PROVE  HandlerFine(f, p, t, talks, h, eap)
<1>1. \A v : /\ Speaking(f, p, s, v, eap) => Speaking(f, p, t, v, eap)
             /\ Forwarding(f, p, s, v, eap, h.rest) => Forwarding(f, p, t, v, eap, h.rest)
             /\ Draining(f, p, s, v, eap) => Draining(f, p, t, v, eap)
  <2>1. \A v : Speaking(f, p, s, v, eap) => Speaking(f, p, t, v, eap)
    BY SimilarFine
  <2>2. \A v : Forwarding(f, p, s, v, eap, h.rest) => Forwarding(f, p, t, v, eap, h.rest)
    BY DEF Forwarding, Similar
  <2>3. \A v : Draining(f, p, s, v, eap) => Draining(f, p, t, v, eap)
    BY DEF Draining, Similar
  <2>4. QED
    BY <2>1, <2>2, <2>3
<1>2. (Dead(t) <=> Dead(s)) /\ \A c, v : Linked(t, c, v) <=> Linked(s, c, v)
  BY SimilarStands
<1>3. QED
  BY <1>1, <1>2 DEF HandlerFine, Minds

-----------------------------------------------------------------------------
(* The ways a step of the handler of d can end for the station p that sent *)
(* d, talks being its conversations after the step: it has nothing to wait *)
(* for any more, the handler blocks upstream, or a reply goes out.         *)
Turn(f, p, talks, d) ==
  /\ OnlyAt({KeyOf(d), StateKey(minted)})
  /\ KeyOf(d)[1] = "new" /\ KeyOf(d) \in DOMAIN sessions' => Blank(sessions'[KeyOf(d)])
  /\ \/ handler' = Nil /\ toAp' = toAp
     \/ /\ handler'.datagram = d /\ toAp' = toAp
        /\ HandlerFine(f, p, sessions'[handler'.key], talks, handler', upstream'.eap)
     \/ /\ handler' = Nil
        /\ \E m : /\ toAp' = toAp \cup {m} /\ m.to = d.authenticator
                  /\ ReplyFine(f, p, Get(sessions', StateKey(m.state)), talks, m)

LEMMA RaiseTurn ==
  ASSUME NEW d, NEW s, s.key = KeyOf(d), KeyOf(d)[1] = "new" => Blank(s), Raise(s),
         NEW f, NEW p, NEW talks
  PROVE  Turn(f, p, talks, d)
<1>1. OnlyAt({s.key}) /\ sessions'[s.key] = s
  BY PutOnly DEF Raise
<1>2. OnlyAt({KeyOf(d), StateKey(minted)})
  BY <1>1 DEF OnlyAt
<1>3. QED
  BY <1>1, <1>2 DEF Turn, Raise

LEMMA AskTurn ==
  ASSUME NEW d, NEW s \in SessionType, s.key = KeyOf(d), KeyOf(d)[1] = "new" => Blank(s),
         NEW pc, NEW eap, NEW rest, Ask(d, s, pc, eap, rest), NEW f, NEW p, NEW talks,
         HandlerFine(f, p, s, talks,
                     [pc |-> pc, key |-> s.key, datagram |-> d, rest |-> rest], eap)
  PROVE  Turn(f, p, talks, d)
<1> DEFINE t == [s EXCEPT !.upstream_round_trips = @ + 1]
           h == [pc |-> pc, key |-> s.key, datagram |-> d, rest |-> rest]
<1>1. /\ t.key = s.key /\ Similar(t, s)
      /\ t.down_next_id = s.down_next_id /\ t.down_last_req_id = s.down_last_req_id
  BY DEF SessionType, Similar
<1>2. sessions' = Put(sessions, t) /\ handler' = h /\ upstream'.eap = eap /\ toAp' = toAp
  BY DEF Ask
<1>3. h.datagram = d /\ h.key = s.key
  OBVIOUS
<1> HIDE DEF t, h
<1>4. OnlyAt({t.key}) /\ sessions'[t.key] = t
  BY <1>2, PutOnly
<1>5. OnlyAt({KeyOf(d), StateKey(minted)})
  BY <1>1, <1>4 DEF OnlyAt
<1>6. HandlerFine(f, p, t, talks, h, eap)
  BY <1>1, SimilarHandler DEF h
<1>7. KeyOf(d)[1] = "new" => Blank(t)
  BY <1>1, SimilarFine
<1>8. QED
  BY <1>1, <1>2, <1>3, <1>4, <1>5, <1>6, <1>7 DEF Turn

LEMMA ReplyTurn ==
  ASSUME NEW d, NEW s, Kept(s), s.key = KeyOf(d), NEW code, NEW eap,
         Reply(d, s, code, eap),
         KeyOf(d)[1] = "new" => code = "challenge",
         code = "challenge" => s.result = Nil,
         NEW f, NEW p, NEW talks,
         p.status = "waiting", d.authenticator = p.request.authenticator,
         Telling(f, p, s, talks, code, eap)
  PROVE  Turn(f, p, talks, d)
<1> DEFINE mints == code = "challenge" /\ s.downstream_state = Nil
           t == IF mints
                  THEN [s EXCEPT !.downstream_state = minted, !.key = StateKey(minted)]
                  ELSE s
           kept == Rekey(sessions, s.key, t)
           m == [to |-> d.authenticator,
                 code |-> code,
                 state |-> IF code = "challenge" THEN t.downstream_state ELSE Nil,
                 keys |-> IF code = "accept" THEN s.keys ELSE Nil,
                 eap |-> eap]
<1>1. /\ handler' = Nil
      /\ \/ sessions' = kept
         \/ t.result \in Verdict /\ sessions' = Drop(kept, t.key)
      /\ toAp' = toAp \/ toAp' = toAp \cup {m}
  BY DEF Reply, Report
<1>2. /\ Similar(t, s) /\ t.key \in {s.key, StateKey(minted)}
      /\ code = "challenge" => t.key = StateKey(t.downstream_state)
      /\ mints => t.key = StateKey(minted)
  BY DEF Kept, KeptBelow, SessionType, Similar
<1>3. /\ m.to = d.authenticator /\ m.code = code /\ m.eap = eap
      /\ code = "challenge" => m.state = t.downstream_state
  OBVIOUS
<1>4. KeyOf(d)[1] = "new" => mints
  BY KeyKinds DEF Kept, KeptBelow
<1> HIDE DEF t, m, mints
<1>5. /\ kept[t.key] = t /\ t.key \in DOMAIN kept
      /\ s.key # t.key => s.key \notin DOMAIN kept
      /\ \A k : k \notin {s.key, t.key} =>
           (k \in DOMAIN kept <=> k \in DOMAIN sessions)
           /\ (k \in DOMAIN sessions => kept[k] = sessions[k])
  BY DEF Rekey, Put, Drop
<1> HIDE DEF kept
<1>6. OnlyAt({KeyOf(d), StateKey(minted)})
  BY <1>1, <1>2, <1>5 DEF OnlyAt, Drop
<1>7. code = "challenge" => sessions' = kept
  BY <1>1, <1>2, NoneAssumption DEF Similar
<1>8. KeyOf(d)[1] = "new" => KeyOf(d) \notin DOMAIN sessions'
  BY <1>2, <1>4, <1>5, <1>7, KeyKinds
<1>9. code = "challenge" => Get(sessions', StateKey(m.state)) = t
  BY <1>2, <1>3, <1>5, <1>7 DEF Get
<1>10. Telling(f, p, t, talks, code, eap)
  BY <1>2, SimilarFine DEF Telling
<1>11. ReplyFine(f, p, Get(sessions', StateKey(m.state)), talks, m)
  BY <1>3, <1>9, <1>10 DEF ReplyFine, Telling
<1>12. QED
  BY <1>1, <1>3, <1>6, <1>8, <1>11 DEF Turn

(* Whatever is quoted by another station is not what the handler touches.  *)
LEMMA Elsewhere ==
  ASSUME TestbedInv, NEW d, NEW a \in Stations, NEW b \in Stations, a # b,
         d.state # Nil => d.state \in Nat /\ Quoting(d.state, a),
         NEW n \in Nat, Quoting(n, b)
  PROVE  StateKey(n) \notin {KeyOf(d), StateKey(minted)}
<1>1. n < minted /\ minted \in Nat
  BY DEF TestbedInv, ProxyInv, TypeOK, Owned, StatesUnshared
<1>2. StateKey(n) # StateKey(minted)
  BY <1>1, KeyKinds
<1>3. d.state # Nil => n # d.state
  BY DEF TestbedInv, Owned, StatesUnshared
<1>4. StateKey(n) # KeyOf(d)
  BY <1>3, KeyKinds DEF KeyOf
<1>5. QED
  BY <1>2, <1>4

(* A step of the handler of d, the request of st, keeps every station on   *)
(* its course.                                                             *)
LEMMA TurnCourses ==
  ASSUME TestbedInv, TunnelInv, NEW st \in Stations, NEW d \in Datagram,
         d.authenticator[1] = st, d.state # Nil => Quoting(d.state, st),
         peer[st].status # "off", RepliesOf(st) = {}, \A b \in Stations : Handles(b) => b = st,
         script' = script, peer' = peer, NoRepeats', Apart', RequestsOf(st)' = {},
         \A b \in Stations : RequestsOf(b)' \subseteq RequestsOf(b),
         \A c, e \in DOMAIN Talks(st)' : c = e,
         \A b \in Stations : b # st => Talks(b)' = Talks(b),
         Turn(Flights(st), peer[st], Talks(st)', d)
  PROVE  TunnelInv'
<1>1. \A k \in DOMAIN sessions' : k[1] = "new" => Blank(sessions'[k])
  <2>1. ASSUME NEW k \in DOMAIN sessions', k[1] = "new" PROVE Blank(sessions'[k])
    <3>1. CASE k = KeyOf(d)
      BY <3>1, <2>1 DEF Turn
    <3>2. CASE k # KeyOf(d)
      <4>1. k \in DOMAIN sessions /\ sessions'[k] = sessions[k]
        BY <3>2, <2>1, KeyKinds DEF Turn, OnlyAt
      <4>2. QED
        BY <4>1, <2>1 DEF TunnelInv
    <3>3. QED
      BY <3>1, <3>2
  <2>2. QED
    BY <2>1
<1>2. \A b : Handles(b)' => b = st
  BY DEF Turn, Handles
<1>3. \A b : b # st => RepliesOf(b)' = RepliesOf(b)
  BY DEF Turn, RepliesOf
<1>4. ASSUME NEW b \in Stations, b # st PROVE Course(b)'
  <2>1. ASSUME NEW n \in Nat, Quoting(n, b) PROVE Steady(StateKey(n))
    <3>1. d.state # Nil => d.state \in Nat
      BY DEF Datagram
    <3>2. QED
      BY <1>4, <2>1, <3>1, Elsewhere, OnlyAtSteady DEF Turn
  <2>2. ASSUME NEW q \in RequestsOf(b)', q.state # Nil PROVE Steady(KeyOf(q))
    <3>1. q \in RequestsOf(b) /\ q \in InFlight /\ q \in Datagram
      BY DEF RequestsOf, TestbedInv, PeerTypeOK, OfStation
    <3>2. q.state \in Nat /\ KeyOf(q) = StateKey(q.state)
      BY <2>2, <3>1 DEF Datagram, KeyOf
    <3>3. Quoting(q.state, b)
      BY <3>1 DEF Quoting, RequestsOf
    <3>4. QED
      BY <2>1, <3>2, <3>3
  <2>3. ASSUME NEW m \in RepliesOf(b)', m.code = "challenge" PROVE Steady(StateKey(m.state))
    <3>1. m \in toAp /\ m.to[1] = b
      BY <1>3, <1>4, <2>3 DEF RepliesOf
    <3>2. m.state \in Nat
      BY <2>3, <3>1 DEF TestbedInv, ProxyInv, TypeOK, ApReplyType, Owned, ChallengesQuote
    <3>3. Quoting(m.state, b)
      BY <3>1 DEF Quoting
    <3>4. QED
      BY <2>1, <3>2, <3>3
  <2>4. Course(b) /\ ~Handles(b)'
    BY <1>2, <1>4 DEF TunnelInv
  <2>5. QED
    BY <1>3, <1>4, <2>2, <2>3, <2>4, CourseKept
<1>5. Course(st)'
  <2>1. Flights(st)' = Flights(st)
    BY FlightsKept
  <2>2. CASE handler' = Nil /\ toAp' = toAp
    <3>1. ~Handles(st)' /\ RepliesOf(st)' = {}
      BY <2>2 DEF Handles, RepliesOf
    <3>2. QED
      BY <3>1, CourseTaken
  <2>3. CASE /\ handler'.datagram = d /\ toAp' = toAp
             /\ HandlerFine(Flights(st), peer[st], sessions'[handler'.key], Talks(st)',
                            handler', upstream'.eap)
    <3>1. RepliesOf(st)' = {}
      BY <2>3 DEF RepliesOf
    <3>2. HandlerFine(Flights(st), peer[st], sessions[handler.key], Talks(st), handler,
                      upstream.eap)'
      BY <2>1, <2>3
    <3>3. QED
      BY <3>1, <3>2, CourseTaken
  <2>4. ASSUME handler' = Nil, NEW m, toAp' = toAp \cup {m},
               ReplyFine(Flights(st), peer[st], Get(sessions', StateKey(m.state)),
                         Talks(st)', m)
        PROVE  Course(st)'
    <3>1. ~Handles(st)'
      BY <2>4 DEF Handles
    <3>2. RepliesOf(st)' \subseteq {m}
      BY <2>4 DEF RepliesOf
    <3>3. ReplyFine(Flights(st), peer[st], Get(sessions, StateKey(m.state)), Talks(st), m)'
      BY <2>1, <2>4
    <3>4. \A n \in RepliesOf(st)' : n = m
      BY <3>2
    <3>5. QED
      BY <3>1, <3>3, <3>4, CourseTaken
  <2>5. QED
    BY <2>2, <2>3, <2>4 DEF Turn
<1>6. QED
  BY <1>1, <1>4, <1>5 DEF TunnelInv

-----------------------------------------------------------------------------
(* A datagram from a station.                                              *)

LEMMA FlightFacts ==
  ASSUME Alphabet, script \in [Stations -> Scripts], FlightsCarryData, NEW st \in Stations,
         NEW p, p.got \in Seq(Seq(Of(st))), UnderWay(p) \/ Through(p)
  PROVE  /\ UpFlight(Flights(st), p) = Flight(st, 2 * Len(p.got) + 1)
         /\ DownFlight(Flights(st), p) = Flight(st, 2 * Len(p.got) + 2)
         /\ UpFlight(Flights(st), p) \in Seq(Of(st)) /\ DownFlight(Flights(st), p) \in Seq(Of(st))
         /\ UnderWay(p) => /\ Len(UpFlight(Flights(st), p)) > 0
                           /\ Len(DownFlight(Flights(st), p)) > 0
<1>1. PICK n : n = Len(p.got)
  OBVIOUS
<1>2. n \in Nat /\ 2 * n <= FlightCount /\ FlightCount \in Nat /\ FlightCount % 2 = 0
  <2>1. n \in Nat
    BY <1>1
  <2>2. 2 * n < FlightCount \/ 2 * n = FlightCount
    BY <1>1 DEF UnderWay, Through
  <2>3. FlightCount \in Nat /\ FlightCount % 2 = 0
    BY TestbedAssumption
  <2>4. QED
    BY <2>1, <2>2, <2>3
<1>3. /\ 2 * n + 1 \in 1 .. FlightCount + 2 /\ 2 * n + 1 \in Nat \ {0}
      /\ 2 * n + 2 \in 1 .. FlightCount + 2 /\ 2 * n + 2 \in Nat \ {0}
  BY <1>2
<1>4. /\ UpFlight(Flights(st), p) = Flight(st, 2 * n + 1)
      /\ DownFlight(Flights(st), p) = Flight(st, 2 * n + 2)
  BY <1>1, <1>3 DEF UpFlight, DownFlight, Flights
<1>5. Flight(st, 2 * n + 1) \in Seq(Of(st)) /\ Flight(st, 2 * n + 2) \in Seq(Of(st))
  BY <1>3, FlightType
<1>6. ASSUME NEW i \in 1 .. FlightCount PROVE Len(Flight(st, i)) > 0
  <2>1. script[st] \in Scripts /\ ~(i > FlightCount)
    BY <1>2
  <2>2. script[st][i] \in Nat /\ script[st][i] > 0
    <3>1. script[st] \in Seq(Nat) /\ Len(script[st]) = FlightCount
      BY <2>1, TestbedAssumption
    <3>2. script[st][i] > 0
      BY <2>1 DEF FlightsCarryData
    <3>3. i \in 1 .. Len(script[st])
      BY <3>1
    <3>4. script[st][i] \in Nat
      BY <3>1, <3>3, ElementOfSeq
    <3>5. QED
      BY <3>2, <3>4
  <2>3. Flight(st, i) = [j \in 1 .. script[st][i] |-> <<st, i, j>>]
    BY <2>1 DEF Flight
  <2>4. QED
    BY <2>2, <2>3
<1>7. UnderWay(p) => 2 * n + 1 \in 1 .. FlightCount /\ 2 * n + 2 \in 1 .. FlightCount
  <2>1. FlightCount = 2 * (FlightCount \div 2) /\ FlightCount \div 2 \in Nat
    BY <1>2
  <2>2. PICK h \in Nat : FlightCount = 2 * h
    BY <2>1
  <2>3. QED
    BY <1>1, <1>2, <2>2 DEF UnderWay
<1>8. QED
  BY <1>1, <1>4, <1>5, <1>6, <1>7

LEMMA GetType ==
  ASSUME ProxyInv, NEW k \in Key
  PROVE  Get(sessions, k) \in SessionType /\ Get(sessions, k).key = k
<1>1. CASE k \in DOMAIN sessions
  BY <1>1 DEF Get, ProxyInv, TypeOK, TableCoherent
<1>2. CASE k \notin DOMAIN sessions
  BY <1>2, NewSessionKept DEF Get, Kept, KeptBelow
<1>3. QED
  BY <1>1, <1>2

LEMMA SyncedSimilar ==
  ASSUME ProxyInv, NEW d \in Datagram
  PROVE  LET s == Get(sessions, KeyOf(d)) IN
         /\ Similar(Opened(d), s) /\ Similar(Synced(d), s)
         /\ Opened(d) \in SessionType /\ Opened(d).key = KeyOf(d)
         /\ Synced(d) \in SessionType /\ Synced(d).key = KeyOf(d) /\ Kept(Synced(d))
         /\ Synced(d).down_next_id = d.eap.id
         /\ Reassembling => Synced(d).down_last_req_id = d.eap.id
<1>1. PICK s : s = Get(sessions, KeyOf(d))
  OBVIOUS
<1>2. s \in SessionType /\ s.key = KeyOf(d)
  BY <1>1, KeyOfType, GetType
<1>3. PICK o : o = Opened(d)
  OBVIOUS
<1>4. Similar(o, s) /\ o.key = s.key
  BY <1>1, <1>2, <1>3 DEF Opened, Similar, SessionType
<1>5. o \in SessionType
  BY <1>3, OpenedCurrent, CurrentType
<1>6. PICK t : t = Synced(d)
  OBVIOUS
<1>7. /\ Similar(t, o) /\ t.key = o.key /\ t.down_next_id = d.eap.id
      /\ Reassembling => t.down_last_req_id = d.eap.id
  BY <1>3, <1>5, <1>6 DEF Synced, Similar, SessionType
<1>8. t \in SessionType /\ Kept(t)
  BY <1>6, SyncedCurrent, CurrentType DEF Current
<1>9. Similar(t, s)
  BY <1>4, <1>7 DEF Similar
<1>10. QED
  BY <1>1, <1>2, <1>3, <1>4, <1>5, <1>6, <1>7, <1>8, <1>9

LEMMA EchoedSimilar ==
  ASSUME NEW s \in SessionType
  PROVE  /\ Echoed(s) \in SessionType /\ Echoed(s).key = s.key /\ Similar(Echoed(s), s)
         /\ Echoed(s).down_next_id = s.down_next_id
         /\ Echoed(s).down_last_req_id = s.down_last_req_id
         /\ s.upstream_last_eap_req_id # Nil => EchoId(s) = s.upstream_last_eap_req_id
         /\ EchoId(s) \in Identifier
<1>1. NextId(s.up_next_id) \in Identifier
  BY NextIdType DEF SessionType
<1>2. PICK id \in Identifier : id = NextId(s.up_next_id)
  BY <1>1
<1>3. [s EXCEPT !.up_next_id = id] \in SessionType
  BY DEF SessionType
<1>4. Echoed(s) = s \/ Echoed(s) = [s EXCEPT !.up_next_id = id]
  BY <1>2 DEF Echoed, SessionType
<1>5. QED
  <2>1. /\ Echoed(s).key = s.key /\ Similar(Echoed(s), s)
        /\ Echoed(s).down_next_id = s.down_next_id
        /\ Echoed(s).down_last_req_id = s.down_last_req_id
    BY <1>4 DEF Similar, SessionType
  <2>2. EchoId(s) \in Identifier
    BY <1>1 DEF EchoId, SessionType
  <2>3. QED
    BY <2>1, <2>2, <1>3, <1>4 DEF EchoId

(* The packets made are not Python's None.                                 *)
LEMMA PacketNotNil ==
  ASSUME NEW U \in SUBSET Unit, NEW eap \in Packet(U) PROVE eap # Nil
<1>1. eap \in Packet(Unit)
  BY Widens
<1>2. QED
  BY <1>1, NoneAssumption

LEMMA ChunkFrame ==
  ASSUME NEW U \in SUBSET Unit, NEW id \in Identifier, NEW length \in Nat \cup {Nil},
         NEW chunks \in Seq(Seq(U)), chunks # <<>>
  PROVE  LET eap == Frame(id, length, Len(chunks) > 1, Head(chunks)) IN
         eap \in Packet(U) /\ eap # Nil /\ eap.kind = "tls" /\ eap.id = id
<1>1. PICK eap : eap = Frame(id, length, Len(chunks) > 1, Head(chunks))
  OBVIOUS
<1>2. Head(chunks) \in Seq(U) /\ (Len(chunks) > 1) \in BOOLEAN
  OBVIOUS
<1>3. eap \in Packet(U)
  BY <1>1, <1>2, FrameType
<1>4. eap # Nil
  BY <1>3, PacketNotNil
<1>5. QED
  BY <1>1, <1>3, <1>4 DEF Frame

LEMMA AckNotNil ==
  ASSUME NEW id \in Identifier
  PROVE  /\ AckPacket(id) # Nil /\ AckPacket(id).kind = "tls" /\ AckPacket(id).id = id
         /\ AckPacket(id).data = <<>> /\ IsAck(AckPacket(id))
<1>1. AckPacket(id) # Nil
  BY AckPacketType, NoneAssumption
<1>2. QED
  BY <1>1 DEF AckPacket, Frame, IsAck

LEMMA FreshId == ASSUME NEW i \in Identifier PROVE NextId(i) \in Identifier /\ NextId(i) # i /\ i # Nil
BY NilAssumption DEF NextId, Identifier, IdSpace

(* p's flights are whole, of units of U.                                   *)
Whole(U, f, p) ==
  UnderWay(p) \/ Through(p) =>
    /\ UpFlight(f, p) \in Seq(U) /\ DownFlight(f, p) \in Seq(U)
    /\ UnderWay(p) => Len(UpFlight(f, p)) > 0 /\ Len(DownFlight(f, p)) > 0

(* The handler has EAP-TLS request d of p in hand, and its session s.      *)
Asked(f, p, s, talks, d, U) ==
  /\ U \in SUBSET Unit /\ Whole(U, f, p)
  /\ Requesting(p, d) /\ p.id \in Identifier /\ d.eap \in Packet(U)
  /\ d.state # Nil /\ IsTls(d)
  /\ s \in SessionType /\ Kept(s) /\ s.key = KeyOf(d)
  /\ s.down_next_id = p.id /\ (Reassembling => s.down_last_req_id = p.id)
  /\ Standing(f, p, s, talks, d.eap)

LEMMA AskedKey ==
  ASSUME NEW f, NEW p, NEW s, NEW talks, NEW d, NEW U, Asked(f, p, s, talks, d, U)
  PROVE  KeyOf(d)[1] # "new"
BY KeyKinds DEF Asked, KeyOf

(* What the proxy is sent in a conversation is data of the station's next  *)
(* flight, or an ACK.                                                      *)
LEMMA SpeakingData ==
  ASSUME NEW U, NEW f, NEW p, Whole(U, f, p), NEW s, NEW v, NEW eap,
         Speaking(f, p, s, v, eap)
  PROVE  IsAck(eap) \/ /\ eap.data # <<>> /\ ~IsAck(eap) /\ UnderWay(p) /\ p.rx = <<>>
                       /\ \E a, b \in Nat :
                            /\ Piece(UpFlight(f, p), a, b, eap)
                            /\ p.tx = CutFrom(UpFlight(f, p), b, PeerFragmentSize)
                            /\ AwaitsUp(f, p, s, v, a)
<1>1. CASE ~IsAck(eap)
  <2>1. /\ UnderWay(p) /\ p.rx = <<>>
        /\ \E a, b \in Nat : /\ Piece(UpFlight(f, p), a, b, eap)
                             /\ p.tx = CutFrom(UpFlight(f, p), b, PeerFragmentSize)
                             /\ AwaitsUp(f, p, s, v, a)
    BY <1>1 DEF Speaking
  <2>2. PICK a, b \in Nat : Piece(UpFlight(f, p), a, b, eap)
    BY <2>1
  <2>3. UpFlight(f, p) \in Seq(U)
    BY <2>1 DEF Whole
  <2>4. eap.data # <<>>
    BY <2>2, <2>3, PieceData
  <2>5. QED
    BY <1>1, <2>1, <2>4
<1>2. QED
  BY <1>1

LEMMA VerbatimTurn ==
  ASSUME NEW f, NEW p, NEW s, NEW talks, NEW d, NEW U, Asked(f, p, s, talks, d, U),
         ~Reassembling, Ask(d, s, "passthrough", d.eap, <<>>)
  PROVE  Turn(f, p, talks, d)
<1> DEFINE h == [pc |-> "passthrough", key |-> s.key, datagram |-> d, rest |-> <<>>]
<1>1. HandlerFine(f, p, s, talks, h, d.eap)
  <2>1. h.pc = "passthrough" /\ h.key = KeyOf(d) /\ h.datagram = d
    BY DEF Asked
  <2> HIDE DEF h
  <2>2. QED
    BY <2>1 DEF Asked, Standing, HandlerFine, Minds, Requesting, IsTls
<1>2. QED
  BY <1>1, AskedKey, AskTurn DEF Asked

(* A fragment of the server's flight the proxy has queued.                 *)
LEMMA NextFragmentTurn ==
  ASSUME NEW f, NEW p, NEW s, NEW talks, NEW d, NEW U, Asked(f, p, s, talks, d, U),
         Reassembling, IsAck(d.eap), s.down_outbox # <<>>, ReplyFragment(d, s, Nil)
  PROVE  Turn(f, p, talks, d)
<1>1. PICK c \in DOMAIN talks : Linked(s, c, talks[c]) /\ Speaking(f, p, s, talks[c], d.eap)
  BY DEF Asked, Standing, Dead
<1>2. Whole(U, f, p)
  BY DEF Asked
<1>3. /\ UnderWay(p) /\ p.tx = <<>>
      /\ \E a \in Nat \ {0} : /\ a < Len(DownFlight(f, p))
                              /\ p.rx = Upto(DownFlight(f, p), a)
                              /\ AwaitsDown(f, p, s, talks[c], a)
  <2>1. ~ \E a, b \in Nat : Piece(UpFlight(f, p), a, b, d.eap) /\ UnderWay(p)
    BY <1>2, PieceData DEF Whole
  <2>2. ~AwaitsUp(f, p, s, talks[c], 0)
    BY DEF AwaitsUp
  <2>3. QED
    BY <1>1, <2>1, <2>2 DEF Speaking
<1>4. PICK a \in Nat \ {0} : /\ a < Len(DownFlight(f, p))
                             /\ p.rx = Upto(DownFlight(f, p), a)
                             /\ AwaitsDown(f, p, s, talks[c], a)
  BY <1>3
<1>5. PICK down : down = DownFlight(f, p)
  OBVIOUS
<1>6. PICK chunks : chunks = s.down_outbox
  OBVIOUS
<1>7. chunks = CutFrom(down, a, DownstreamFragmentSize) /\ down \in Seq(U)
  BY <1>2, <1>3, <1>4, <1>5, <1>6 DEF AwaitsDown, Whole
<1>8. PICK b \in Nat :
        /\ a < b /\ Tail(chunks) = CutFrom(down, b, DownstreamFragmentSize)
        /\ \A id, length : Piece(down, a, b, Frame(id, length, Len(chunks) > 1, Head(chunks)))
  BY <1>4, <1>5, <1>7, NextPiece, FragmentSizeAssumption
<1>9. PICK id : id = NextId(p.id)
  OBVIOUS
<1>10. id \in Identifier /\ id # p.id
  BY <1>9, FreshId DEF Asked
<1>11. PICK eap : eap = Frame(id, Nil, Len(chunks) > 1, Head(chunks))
  OBVIOUS
<1>12. PICK t : t = [s EXCEPT !.down_next_id = id, !.down_outbox = Tail(chunks)]
  OBVIOUS
<1>13. Reply(d, t, "challenge", eap)
  BY <1>6, <1>9, <1>11, <1>12 DEF ReplyFragment, Asked
<1>14. Tail(chunks) \in Seq(Seq(Unit))
  BY <1>6 DEF Asked, SessionType
<1>15. Kept(t) /\ t.key = KeyOf(d)
  BY <1>10, <1>12, <1>14 DEF Asked, Kept, KeptBelow, SessionType
<1>16. /\ t.result = s.result /\ t.radius_state = s.radius_state
       /\ t.upstream_last_eap_req_id = s.upstream_last_eap_req_id
       /\ t.up_reasm = s.up_reasm /\ t.down_reasm = s.down_reasm
       /\ t.down_outbox = CutFrom(down, b, DownstreamFragmentSize)
  BY <1>8, <1>12 DEF Asked, SessionType
<1>17. Linked(t, c, talks[c]) /\ AwaitsDown(f, p, t, talks[c], b) /\ t.result = Nil
  BY <1>1, <1>4, <1>5, <1>16 DEF Linked, AwaitsDown
<1>18. Len(talks[c].got) = Len(p.got) + 1
  BY <1>4 DEF AwaitsDown
<1>19. Piece(down, a, b, eap) /\ eap.kind = "tls" /\ eap.id = id
  BY <1>8, <1>11 DEF Frame
<1>20. Challenged(f, p, t, talks, eap)
  BY <1>3, <1>4, <1>5, <1>17, <1>18, <1>19 DEF Challenged
<1>21. Telling(f, p, t, talks, "challenge", eap)
  <2>1. chunks \in Seq(Seq(U)) /\ chunks # <<>> /\ U \in SUBSET Unit /\ Nil \in Nat \cup {Nil}
    BY <1>4, <1>5, <1>7, NextPiece, FragmentSizeAssumption DEF Asked
  <2>2. Frame(id, Nil, Len(chunks) > 1, Head(chunks)) # Nil
    <3>1. PICK length \in Nat \cup {Nil} : length = Nil
      BY <2>1
    <3>2. Frame(id, length, Len(chunks) > 1, Head(chunks)) # Nil
      BY <2>1, <1>10, ChunkFrame
    <3>3. QED
      BY <3>1, <3>2
  <2>3. QED
    BY <2>2, <1>10, <1>11, <1>19, <1>20 DEF Telling
<1>22. QED
  BY <1>13, <1>15, <1>17, <1>21, ReplyTurn DEF Asked, Requesting

(* Nothing is queued for the station: it has said all it had to say.       *)
LEMMA LastAck ==
  ASSUME NEW U, NEW f, NEW p, Whole(U, f, p), Reassembling, NEW s, NEW v, NEW eap,
         Speaking(f, p, s, v, eap), IsAck(eap), s.down_outbox = <<>>
  PROVE  Through(p) /\ p.tx = <<>> /\ p.rx = <<>> /\ AwaitsUp(f, p, s, v, 0)
<1>1. CASE UnderWay(p)
  <2>1. UpFlight(f, p) \in Seq(U) /\ DownFlight(f, p) \in Seq(U)
    BY <1>1 DEF Whole
  <2>2. ASSUME NEW a \in Nat, a < Len(DownFlight(f, p)), AwaitsDown(f, p, s, v, a)
        PROVE  FALSE
    <3>1. CutFrom(DownFlight(f, p), a, DownstreamFragmentSize) # <<>>
      BY <2>1, <2>2, NextPiece, FragmentSizeAssumption
    <3>2. QED
      BY <2>2, <3>1 DEF AwaitsDown
  <2>3. ASSUME NEW a, NEW b, Piece(UpFlight(f, p), a, b, eap) PROVE FALSE
    BY <2>1, <2>3, PieceData
  <2>4. QED
    BY <2>2, <2>3 DEF Speaking
<1>2. QED
  BY <1>1 DEF Speaking

(* An ACK with nothing queued asks the server to conclude.                 *)
LEMMA PollTurn ==
  ASSUME NEW f, NEW p, NEW s, NEW talks, NEW d, NEW U, Asked(f, p, s, talks, d, U),
         Reassembling, IsAck(d.eap), s.down_outbox = <<>>, AskAck(d, s, "forward")
  PROVE  Turn(f, p, talks, d)
<1>1. PICK t : t = Echoed(s)
  OBVIOUS
<1>2. PICK eap : eap = AckPacket(EchoId(s))
  OBVIOUS
<1>3. /\ t \in SessionType /\ t.key = s.key /\ Similar(t, s)
      /\ t.down_next_id = s.down_next_id /\ t.down_last_req_id = s.down_last_req_id
      /\ s.upstream_last_eap_req_id # Nil => EchoId(s) = s.upstream_last_eap_req_id
      /\ EchoId(s) \in Identifier
  BY <1>1, EchoedSimilar DEF Asked
<1>4. eap.kind = "tls" /\ eap.id = EchoId(s) /\ IsAck(eap)
  BY <1>2, <1>3, AckNotNil
<1>5. Ask(d, t, "forward", eap, <<>>)
  BY <1>1, <1>2 DEF AskAck
<1>6. PICK h : h = [pc |-> "forward", key |-> t.key, datagram |-> d, rest |-> <<>>]
  OBVIOUS
<1>7. /\ h.pc = "forward" /\ h.key = KeyOf(d) /\ h.datagram = d /\ h.rest = <<>>
      /\ Requesting(p, d) /\ d.state # Nil
      /\ t.down_next_id = p.id /\ t.down_last_req_id = p.id
  BY <1>3, <1>6 DEF Asked
<1>8. \/ Dead(t)
      \/ \E c \in DOMAIN talks : /\ Linked(t, c, talks[c]) /\ eap.id = talks[c].id
                                 /\ Forwarding(f, p, t, talks[c], eap, h.rest)
  <2>1. CASE Dead(s)
    BY <2>1, <1>3, SimilarStands
  <2>2. ASSUME NEW c \in DOMAIN talks, Linked(s, c, talks[c]),
               Speaking(f, p, s, talks[c], d.eap)
        PROVE  /\ Linked(t, c, talks[c]) /\ eap.id = talks[c].id
               /\ Forwarding(f, p, t, talks[c], eap, h.rest)
    <3>1. Linked(t, c, talks[c])
      BY <2>2, <1>3, SimilarStands
    <3>2. eap.id = talks[c].id
      BY <2>2, <1>3, <1>4, FreshId DEF Linked
    <3>3. Through(p) /\ p.tx = <<>> /\ p.rx = <<>> /\ AwaitsUp(f, p, s, talks[c], 0)
      BY <2>2, LastAck DEF Asked
    <3>4. AwaitsUp(f, p, t, talks[c], 0)
      BY <3>3, <1>3, SimilarStands
    <3>5. Forwarding(f, p, t, talks[c], eap, h.rest)
      BY <3>3, <3>4, <1>4, <1>7 DEF AwaitsUp, Gathers, Forwarding
    <3>6. QED
      BY <3>1, <3>2, <3>5
  <2>3. QED
    BY <2>1, <2>2 DEF Asked, Standing
<1>9. HandlerFine(f, p, t, talks, h, eap)
  BY <1>4, <1>7, <1>8 DEF HandlerFine, Minds
<1>10. QED
  BY <1>3, <1>5, <1>6, <1>9, AskedKey, AskTurn DEF Asked

(* The reassembler fed with a request.                                     *)
LEMMA FedType ==
  ASSUME NEW f, NEW p, NEW s, NEW talks, NEW d, NEW U, Asked(f, p, s, talks, d, U)
  PROVE  LET reasm == Ingest(s.up_reasm, d.eap).reasm
             t == [s EXCEPT !.up_reasm = reasm]
         IN  /\ reasm \in Reassembler(Unit)
             /\ t \in SessionType /\ Kept(t) /\ t.key = s.key
             /\ t.radius_state = s.radius_state /\ t.result = s.result
             /\ t.upstream_last_eap_req_id = s.upstream_last_eap_req_id
             /\ t.up_reasm = reasm /\ t.down_reasm = s.down_reasm
             /\ t.down_outbox = s.down_outbox
             /\ t.down_next_id = p.id /\ (Reassembling => t.down_last_req_id = p.id)
<1>1. PICK reasm : reasm = Ingest(s.up_reasm, d.eap).reasm
  OBVIOUS
<1>2. s.up_reasm \in Reassembler(Unit) /\ d.eap \in Packet(Unit)
  BY Widens DEF Asked, SessionType
<1>3. reasm \in Reassembler(Unit)
  BY <1>1, <1>2, IngestType
<1>4. PICK t : t = [s EXCEPT !.up_reasm = reasm]
  OBVIOUS
<1>5. /\ t.radius_state = s.radius_state /\ t.result = s.result
      /\ t.upstream_last_eap_req_id = s.upstream_last_eap_req_id
      /\ t.up_reasm = reasm /\ t.down_reasm = s.down_reasm
      /\ t.down_outbox = s.down_outbox /\ t.key = s.key
      /\ t.down_next_id = s.down_next_id /\ t.down_last_req_id = s.down_last_req_id
      /\ t.downstream_state = s.downstream_state
  BY <1>4 DEF Asked, SessionType
<1>6. t \in SessionType
  BY <1>3, <1>4 DEF Asked, SessionType
<1>7. Kept(t)
  BY <1>5, <1>6 DEF Asked, Kept, KeptBelow
<1>8. QED
  BY <1>1, <1>3, <1>4, <1>5, <1>6, <1>7 DEF Asked

(* The proxy ACKs a part of the station's flight.                          *)
LEMMA AckTurn ==
  ASSUME NEW f, NEW p, NEW s, NEW talks, NEW d, NEW U, Asked(f, p, s, talks, d, U),
         s = Synced(d), AckLocally(d)
  PROVE  Turn(f, p, talks, d)
<1>1. PICK in : in = Ingest(s.up_reasm, d.eap)
  OBVIOUS
<1>2. PICK id : id = NextId(s.down_next_id)
  OBVIOUS
<1>3. /\ Reassembling /\ ~IsAck(d.eap) /\ in.verdict = "more"
      /\ Reply(d, [s EXCEPT !.up_reasm = in.reasm, !.down_next_id = id],
               "challenge", AckPacket(id))
  BY <1>1, <1>2 DEF AckLocally
<1>4. PICK w : w = [s EXCEPT !.up_reasm = in.reasm]
  OBVIOUS
<1>5. /\ w \in SessionType /\ Kept(w) /\ w.key = s.key
      /\ w.radius_state = s.radius_state /\ w.result = s.result
      /\ w.upstream_last_eap_req_id = s.upstream_last_eap_req_id
      /\ w.up_reasm = in.reasm /\ w.down_reasm = s.down_reasm
      /\ w.down_outbox = s.down_outbox
  BY <1>1, <1>4, FedType
<1>6. id \in Identifier /\ id # p.id
  BY <1>2, FreshId DEF Asked
<1>7. PICK t : t = [w EXCEPT !.down_next_id = id]
  OBVIOUS
<1>8. Similar(t, w) /\ t.key = KeyOf(d) /\ Kept(t)
  <2>1. t \in SessionType
    <3>1. w \in SessionType /\ id \in Identifier
      BY <1>5, <1>6
    <3>2. QED
      BY <3>1, <1>7 DEF SessionType
  <2>2. Similar(t, w) /\ t.key = w.key /\ t.downstream_state = w.downstream_state
    BY <1>5, <1>7 DEF SessionType, Similar
  <2>3. QED
    BY <2>1, <2>2, <1>5 DEF Kept, KeptBelow, Asked
<1>9. PICK eap : eap = AckPacket(id)
  OBVIOUS
<1>10. eap # Nil /\ eap.kind = "tls" /\ eap.id = id /\ eap.data = <<>> /\ IsAck(eap)
  BY <1>6, <1>9, AckNotNil
<1>11. Reply(d, t, "challenge", eap)
  BY <1>3, <1>4, <1>7, <1>9
<1>12. t.result = Nil /\ Challenged(f, p, t, talks, eap)
  <2>1. CASE Dead(s)
    BY <2>1, <1>5, <1>8, <1>10 DEF Dead, Similar, Challenged
  <2>2. ASSUME NEW c \in DOMAIN talks, Linked(s, c, talks[c]),
               Speaking(f, p, s, talks[c], d.eap)
        PROVE  t.result = Nil /\ Challenged(f, p, t, talks, eap)
    <3>1. /\ UnderWay(p) /\ p.rx = <<>>
          /\ \E a, b \in Nat : /\ Piece(UpFlight(f, p), a, b, d.eap)
                               /\ p.tx = CutFrom(UpFlight(f, p), b, PeerFragmentSize)
                               /\ AwaitsUp(f, p, s, talks[c], a)
      BY <1>3, <2>2 DEF Speaking
    <3>2. PICK a, b \in Nat : /\ Piece(UpFlight(f, p), a, b, d.eap)
                              /\ p.tx = CutFrom(UpFlight(f, p), b, PeerFragmentSize)
                              /\ AwaitsUp(f, p, s, talks[c], a)
      BY <3>1
    <3>3. UpFlight(f, p) \in Seq(U) /\ Gathers(s.up_reasm, UpFlight(f, p), a)
      BY <1>3, <3>1, <3>2 DEF Asked, Whole, AwaitsUp
    <3>4. b > 0 /\ b < Len(UpFlight(f, p)) /\ Gathers(in.reasm, UpFlight(f, p), b)
      BY <1>3, <3>2, <3>3, <1>1, PieceIngested
    <3>5. AwaitsUp(f, p, t, talks[c], b)
      BY <1>3, <3>2, <3>4, <1>5, <1>8 DEF AwaitsUp, Similar
    <3>6. Bids(f, p, eap, b)
      BY <3>1, <3>2, <3>4, <1>10 DEF Bids
    <3>7. Linked(t, c, talks[c]) /\ t.result = Nil
      BY <2>2, <1>5, <1>8 DEF Linked, Similar
    <3>8. QED
      BY <1>3, <3>5, <3>6, <3>7, <1>10 DEF Challenged
  <2>3. QED
    BY <2>1, <2>2 DEF Asked, Standing
<1>13. Telling(f, p, t, talks, "challenge", eap)
  BY <1>6, <1>10, <1>12 DEF Telling
<1>14. QED
  BY <1>8, <1>11, <1>12, <1>13, AskedKey, ReplyTurn DEF Asked, Requesting

(* The station's flight is whole: it goes upstream, cut anew.              *)
LEMMA RecordTurn ==
  ASSUME NEW f, NEW p, NEW s, NEW talks, NEW d, NEW U, Asked(f, p, s, talks, d, U),
         Reassembling, ~IsAck(d.eap), NEW in, in = Ingest(s.up_reasm, d.eap),
         in.verdict = "done",
         AskChunk(d, [s EXCEPT !.up_reasm = in.reasm],
                  Fragment(in.reasm.buffer, UpstreamFragmentSize), Len(in.reasm.buffer))
  PROVE  Turn(f, p, talks, d)
<1>1. PICK w : w = [s EXCEPT !.up_reasm = in.reasm]
  OBVIOUS
<1>2. /\ w \in SessionType /\ Kept(w) /\ w.key = s.key
      /\ w.radius_state = s.radius_state /\ w.result = s.result
      /\ w.upstream_last_eap_req_id = s.upstream_last_eap_req_id
      /\ w.up_reasm = in.reasm /\ w.down_reasm = s.down_reasm
      /\ w.down_outbox = s.down_outbox
      /\ w.down_next_id = p.id /\ w.down_last_req_id = p.id
  BY <1>1, FedType
<1>3. PICK t : t = Echoed(w)
  OBVIOUS
<1>4. /\ t \in SessionType /\ t.key = KeyOf(d) /\ Similar(t, w)
      /\ t.down_next_id = p.id /\ t.down_last_req_id = p.id
      /\ w.upstream_last_eap_req_id # Nil => EchoId(w) = w.upstream_last_eap_req_id
      /\ EchoId(w) \in Identifier
  BY <1>2, <1>3, EchoedSimilar DEF Asked
<1>5. PICK chunks : chunks = Fragment(in.reasm.buffer, UpstreamFragmentSize)
  OBVIOUS
<1>6. PICK eap : eap = Frame(EchoId(w), Len(in.reasm.buffer), Len(chunks) > 1, Head(chunks))
  OBVIOUS
<1>7. eap.kind = "tls" /\ eap.id = EchoId(w)
  BY <1>6 DEF Frame
<1>8. Ask(d, t, "forward", eap, Tail(chunks))
  BY <1>1, <1>3, <1>5, <1>6 DEF AskChunk
<1>9. PICK h : h = [pc |-> "forward", key |-> t.key, datagram |-> d, rest |-> Tail(chunks)]
  OBVIOUS
<1>10. /\ h.pc = "forward" /\ h.key = KeyOf(d) /\ h.datagram = d /\ h.rest = Tail(chunks)
       /\ Requesting(p, d) /\ d.state # Nil
  BY <1>4, <1>9 DEF Asked
<1>11. ASSUME NEW c \in DOMAIN talks, Linked(s, c, talks[c]),
              Speaking(f, p, s, talks[c], d.eap)
       PROVE  /\ Linked(t, c, talks[c]) /\ eap.id = talks[c].id
              /\ Forwarding(f, p, t, talks[c], eap, h.rest)
  <2>1. /\ UnderWay(p) /\ p.rx = <<>>
        /\ \E a, b \in Nat : /\ Piece(UpFlight(f, p), a, b, d.eap)
                             /\ p.tx = CutFrom(UpFlight(f, p), b, PeerFragmentSize)
                             /\ AwaitsUp(f, p, s, talks[c], a)
    BY <1>11 DEF Speaking
  <2>2. PICK a, b \in Nat : /\ Piece(UpFlight(f, p), a, b, d.eap)
                            /\ p.tx = CutFrom(UpFlight(f, p), b, PeerFragmentSize)
                            /\ AwaitsUp(f, p, s, talks[c], a)
    BY <2>1
  <2>3. PICK up : up = UpFlight(f, p)
    OBVIOUS
  <2>4. up \in Seq(U) /\ Len(up) > 0 /\ Gathers(s.up_reasm, up, a)
    BY <2>1, <2>2, <2>3 DEF Asked, Whole, AwaitsUp
  <2>5. b = Len(up) /\ in.reasm.buffer = up /\ StartsRecord(in.reasm)
    BY <2>2, <2>3, <2>4, PieceIngested
  <2>6. p.tx = <<>>
    <3>1. ~(b < Len(up))
      BY <2>4, <2>5
    <3>2. QED
      BY <3>1, <2>2, <2>3 DEF CutFrom
  <2>7. chunks = CutFrom(up, 0, UpstreamFragmentSize)
    <3>1. Upto(up, Len(up)) = up
      BY <2>4, UptoParts
    <3>2. 0 + 1 = 1
      OBVIOUS
    <3>3. QED
      BY <3>1, <3>2, <2>4, <2>5, <1>5 DEF CutFrom, Upto
  <2>8. \E e \in Nat : /\ Tail(chunks) = CutFrom(up, e, UpstreamFragmentSize)
                       /\ \A id, length : Piece(up, 0, e, Frame(id, length, Len(chunks) > 1,
                                                                Head(chunks)))
    BY <2>4, <2>7, NextPiece, FragmentSizeAssumption
  <2>9. PICK e \in Nat : /\ Tail(chunks) = CutFrom(up, e, UpstreamFragmentSize)
                         /\ Piece(up, 0, e, eap)
    BY <2>8, <1>6
  <2>10. Upto(up, 0) = <<>>
    BY <2>4, UptoParts
  <2>11. /\ talks[c].rx = Upto(up, 0) /\ talks[c].tx = <<>>
         /\ Len(talks[c].got) = Len(p.got)
         /\ StartsRecord(t.up_reasm) /\ StartsRecord(t.down_reasm) /\ t.down_outbox = <<>>
    BY <2>2, <2>5, <2>10, <1>2, <1>4 DEF AwaitsUp, Similar
  <2>12. Forwarding(f, p, t, talks[c], eap, h.rest)
    <3>1. 0 \in Nat
      OBVIOUS
    <3>2. QED
      BY <3>1, <2>1, <2>3, <2>6, <2>9, <2>11, <1>10 DEF Forwarding
  <2>13. Linked(t, c, talks[c])
    BY <1>2, <1>4, <1>11 DEF Linked, Similar
  <2>14. eap.id = talks[c].id
    BY <1>2, <1>4, <1>7, <1>11, FreshId DEF Linked
  <2>15. QED
    BY <2>12, <2>13, <2>14
<1>12. Dead(s) => Dead(t)
  BY <1>2, <1>4 DEF Dead, Similar
<1>13. HandlerFine(f, p, t, talks, h, eap)
  BY <1>4, <1>7, <1>10, <1>11, <1>12 DEF Asked, Standing, HandlerFine, Minds
<1>14. QED
  BY <1>4, <1>8, <1>9, <1>13, AskedKey, AskTurn

(* A Response is in its conversation, and so is the session it opens.      *)
LEMMA OpensAsked ==
  ASSUME Alphabet, TestbedInv, FlightsCarryData, NEW st \in Stations,
         NEW d \in RequestsOf(st), NEW f, f = Flights(st), NEW p, p = peer[st], NEW talks,
         RequestFine(f, p, Get(sessions, KeyOf(d)), talks, d), d.state # Nil
  PROVE  Asked(f, p, Synced(d), talks, d, Of(st))
<1>1. d \in InFlight /\ d.authenticator[1] = st
  BY DEF RequestsOf
<1>2. d \in Datagram /\ d.eap \in Packet(Of(st)) /\ d.eap.id \in Identifier
  BY <1>1 DEF TestbedInv, PeerTypeOK, OfStation, Speaks, Packet
<1>3. PICK s : s = Get(sessions, KeyOf(d))
  OBVIOUS
<1>4. PICK t : t = Synced(d)
  OBVIOUS
<1>5. /\ Similar(t, s) /\ t \in SessionType /\ t.key = KeyOf(d) /\ Kept(t)
      /\ t.down_next_id = d.eap.id /\ (Reassembling => t.down_last_req_id = d.eap.id)
  BY <1>2, <1>3, <1>4, SyncedSimilar DEF TestbedInv
<1>6. Requesting(p, d) /\ IsTls(d) /\ Standing(f, p, s, talks, d.eap)
  BY <1>3 DEF RequestFine, Introduces
<1>7. Standing(f, p, t, talks, d.eap)
  BY <1>5, <1>6, SimilarFine, SimilarStands DEF Standing
<1>8. Whole(Of(st), f, p)
  <2>1. p.got \in Seq(Seq(Of(st))) /\ script \in [Stations -> Scripts]
    BY DEF TestbedInv, PeerTypeOK, Peer
  <2>2. QED
    BY <2>1, FlightFacts DEF Whole
<1>9. Of(st) \in SUBSET Unit
  BY OfUnits
<1>10. QED
  BY <1>2, <1>4, <1>5, <1>6, <1>7, <1>8, <1>9 DEF Asked, Requesting

(* The Identity of a station is forwarded under a synthetic key.           *)
LEMMA IntroducesTurn ==
  ASSUME TestbedInv, TunnelInv, NEW d \in Datagram, NEW f, NEW p, NEW talks,
         Requesting(p, d), Introduces(p, talks, d), Receive(d)
  PROVE  Turn(f, p, talks, d)
<1>1. d.eap.kind = "other" /\ ~IsTls(d) /\ d.state = Nil
  BY DEF Introduces, IsIdentity, IsTls
<1>2. PICK s : s = Get(sessions, KeyOf(d))
  OBVIOUS
<1>3. PICK o : o = Opened(d)
  OBVIOUS
<1>4. Similar(o, s) /\ o \in SessionType /\ o.key = KeyOf(d)
  BY <1>2, <1>3, SyncedSimilar DEF TestbedInv
<1>5. KeyOf(d)[1] = "new"
  BY <1>1 DEF KeyOf
<1>6. Blank(s)
  <2>1. CASE KeyOf(d) \in DOMAIN sessions
    BY <2>1, <1>2, <1>5 DEF TunnelInv, Get
  <2>2. CASE KeyOf(d) \notin DOMAIN sessions
    BY <2>2, <1>2 DEF Get, NewSession, Blank, StartsRecord, EmptyReassembler
  <2>3. QED
    BY <2>1, <2>2
<1>7. Blank(o)
  BY <1>4, <1>6, SimilarFine
<1>8. Ask(d, o, "non_tls", d.eap, <<>>)
  BY <1>1, <1>3
  DEF Receive, ForwardNonTls, RefuseMalformed, ForwardVerbatim, SendNextFragment,
      SendPendingVerdict, PollUpstream, AckLocally, ForwardRecord, RefuseOversize
<1>9. HandlerFine(f, p, o, talks,
                  [pc |-> "non_tls", key |-> o.key, datagram |-> d, rest |-> <<>>], d.eap)
  BY <1>4 DEF HandlerFine
<1>10. QED
  BY <1>4, <1>7, <1>8, <1>9, AskTurn

(* Whatever datagram the proxy takes.                                      *)
LEMMA ReceiveTurn ==
  ASSUME Alphabet, TestbedInv, TunnelInv, FlightsCarryData, NEW st \in Stations,
         NEW d \in RequestsOf(st), Receive(d)
  PROVE  Turn(Flights(st), peer[st], Talks(st), d)
<1>1. PICK f : f = Flights(st)
  OBVIOUS
<1>2. PICK p : p = peer[st]
  OBVIOUS
<1>3. PICK talks : talks = Talks(st)
  OBVIOUS
<1>4. d \in Datagram /\ RequestFine(f, p, Get(sessions, KeyOf(d)), talks, d)
  BY <1>1, <1>2, <1>3 DEF RequestsOf, TestbedInv, PeerTypeOK, OfStation, TunnelInv, Course
<1>5. CASE Introduces(p, talks, d)
  BY <1>1, <1>2, <1>3, <1>4, <1>5, IntroducesTurn DEF RequestFine
<1>6. CASE ~Introduces(p, talks, d)
  <2>1. PICK s : s = Synced(d)
    OBVIOUS
  <2>2. IsTls(d) /\ d.state # Nil
    BY <1>4, <1>6 DEF RequestFine
  <2>3. Asked(f, p, s, talks, d, Of(st))
    BY <1>1, <1>2, <1>4, <2>1, <2>2, OpensAsked
  <2>4. s.result = Nil
    BY <2>3 DEF Asked, Standing, Dead, Linked
  <2>5. PICK in : in = Ingest(s.up_reasm, d.eap)
    OBVIOUS
  <2>6. CASE ForwardVerbatim(d)
    BY <1>1, <1>2, <1>3, <2>1, <2>3, <2>6, VerbatimTurn DEF ForwardVerbatim
  <2>7. CASE SendNextFragment(d)
    BY <1>1, <1>2, <1>3, <2>1, <2>3, <2>7, NextFragmentTurn DEF SendNextFragment
  <2>8. CASE SendPendingVerdict(d)
    BY <2>1, <2>4, <2>8 DEF SendPendingVerdict
  <2>9. CASE PollUpstream(d)
    BY <1>1, <1>2, <1>3, <2>1, <2>3, <2>9, PollTurn DEF PollUpstream
  <2>10. CASE AckLocally(d)
    BY <1>1, <1>2, <1>3, <2>1, <2>3, <2>10, AckTurn
  <2>11. CASE ForwardRecord(d)
    BY <1>1, <1>2, <1>3, <2>1, <2>3, <2>5, <2>11, RecordTurn DEF ForwardRecord
  <2>12. CASE RefuseOversize(d)
    <3>1. PICK t : t = [s EXCEPT !.up_reasm = in.reasm]
      OBVIOUS
    <3>2. t.key = KeyOf(d) /\ Raise(t)
      BY <3>1, <2>1, <2>3, <2>5, <2>12, FedType DEF RefuseOversize, Asked
    <3>3. QED
      BY <3>2, <2>3, <1>1, <1>2, <1>3, AskedKey, RaiseTurn
  <2>13. ~ForwardNonTls(d) /\ ~RefuseMalformed(d)
    BY <2>2 DEF IsTls, ForwardNonTls, RefuseMalformed
  <2>14. QED
    BY <2>6, <2>7, <2>8, <2>9, <2>10, <2>11, <2>12, <2>13 DEF Receive
<1>7. QED
  BY <1>5, <1>6

LEMMA ProxyStepTunnel ==
  ASSUME Alphabet, TestbedInv, TunnelInv, FlightsCarryData, ProxyStep PROVE TunnelInv'
<1>1. PICK d : d = Head(inbox)
  OBVIOUS
<1>2. PICK st : st = d.authenticator[1]
  OBVIOUS
<1>3. /\ inbox # <<>> /\ Receive(d) /\ inbox' = Tail(inbox)
      /\ script' = script /\ peer' = peer /\ server' = server /\ budget' = budget
  BY <1>1 DEF ProxyStep
<1>4. /\ Apart' /\ d \in InFlight
      /\ \A b : RequestsOf(b)' \subseteq RequestsOf(b)
      /\ RequestsOf(st)' = {}
  BY <1>1, <1>2, <1>3, InboxTail DEF TestbedInv, PeerTypeOK, TunnelInv
<1>5. d \in Datagram /\ st \in Stations /\ d \in RequestsOf(st)
  <2>1. d \in Datagram
    BY <1>4 DEF TestbedInv, PeerTypeOK, OfStation
  <2>2. QED
    BY <2>1, <1>2, <1>4 DEF Datagram, Alphabet, RequestsOf
<1>6. /\ RepliesOf(st) = {}
      /\ RequestFine(Flights(st), peer[st], Get(sessions, KeyOf(d)), Talks(st), d)
      /\ \A c, e \in DOMAIN Talks(st) : c = e
  BY <1>5 DEF TunnelInv, Course, OneAtATime
<1>7. peer[st].status # "off"
  BY <1>6 DEF RequestFine, Requesting
<1>8. \A b : Talks(b)' = Talks(b)
  BY <1>3 DEF Talks
<1>9. \A b : ~Handles(b)
  BY <1>3 DEF Receive, Handles
<1>10. Turn(Flights(st), peer[st], Talks(st)', d)
  BY <1>3, <1>5, <1>8, ReceiveTurn
<1>11. d.state # Nil => Quoting(d.state, st)
  BY <1>2, <1>4 DEF Quoting
<1>12. NoRepeats'
  BY <1>3 DEF TunnelInv, NoRepeats
<1>13. QED
  BY <1>2, <1>3, <1>4, <1>5, <1>6, <1>7, <1>8, <1>9, <1>10, <1>11, <1>12, TurnCourses

(* A step that takes something away, or everything the proxy had.          *)
LEMMA LossTunnel ==
  ASSUME TunnelInv, script' = script, peer' = peer, server' = server,
         NoRepeats', Apart', toAp' \subseteq toAp,
         \A st \in Stations : RequestsOf(st)' \subseteq RequestsOf(st),
         \/ sessions' = sessions /\ handler' = handler /\ upstream' = upstream
         \/ sessions' = <<>> /\ handler' = Nil
  PROVE  TunnelInv'
<1>1. \A k : Steady(k)
  <2>1. CASE sessions' = <<>>
    BY <2>1 DEF Steady, Get, NewSession, Dead
  <2>2. QED
    BY <2>1 DEF Steady
<1>2. \A st : Talks(st)' = Talks(st) /\ RepliesOf(st)' \subseteq RepliesOf(st)
  BY DEF Talks, RepliesOf
<1>3. \A st : Handles(st)' => /\ Handles(st) /\ handler' = handler /\ upstream' = upstream
                              /\ sessions' = sessions
  BY DEF Handles
<1>4. ASSUME NEW st \in Stations PROVE Course(st)'
  BY <1>1, <1>2, <1>3, CourseKept DEF TunnelInv
<1>5. \A k \in DOMAIN sessions' : k[1] = "new" => Blank(sessions'[k])
  BY DEF TunnelInv
<1>6. QED
  BY <1>4, <1>5 DEF TunnelInv

-----------------------------------------------------------------------------
(* What the server makes of a request.                                     *)

LEMMA TalksFacts ==
  ASSUME NEW st, NEW c
  PROVE  /\ c \in DOMAIN Talks(st) <=> c \in DOMAIN server /\ server[c].st = st
         /\ c \in DOMAIN Talks(st) => Talks(st)[c] = server[c]
BY DEF Talks

(* A blocked handler is introducing its station, or is in no conversation, *)
(* or in the station's own, where what it asks is taken up.                *)
LEMMA HandlersOutcome ==
  ASSUME Alphabet, TestbedInv, handler # Nil, NEW st, NEW talks, talks = Talks(st),
         NEW s, s = sessions[handler.key], NEW f, NEW p,
         HandlerFine(f, p, s, talks, handler, upstream.eap), NEW o \in Outcomes(upstream)
  PROVE  \/ /\ handler.pc = "non_tls" /\ Introduces(p, talks, handler.datagram)
            /\ upstream.eap = handler.datagram.eap /\ o = Converse(upstream)
         \/ handler.pc # "non_tls" /\ Dead(s) /\ o = NoSuchConversation(upstream)
         \/ /\ handler.pc # "non_tls"
            /\ \E c \in DOMAIN talks :
                 /\ Linked(s, c, talks[c]) /\ upstream.eap.id = talks[c].id
                 /\ Minds(f, p, s, talks[c], handler, upstream.eap)
                 /\ \/ o = Proceed(c, upstream)
                    \/ o = Verdicts(c, talks[c], "reject", talks[c].id)
<1>1. upstream.state = s.radius_state /\ s.key = handler.key /\ Unbegun(s)
  BY DEF TestbedInv, ProxyInv, HandlerCoherent, TableCoherent, Owned, HandlerOwned, SessionsOwned
<1>2. CASE handler.pc = "non_tls"
  <2>1. /\ Introduces(p, talks, handler.datagram) /\ upstream.eap = handler.datagram.eap
        /\ handler.key = KeyOf(handler.datagram)
    BY <1>2 DEF HandlerFine
  <2>2. handler.key[1] = "new"
    BY <2>1 DEF Introduces, KeyOf
  <2>3. upstream.state = Nil /\ IsIdentity(upstream.eap)
    BY <1>1, <2>1, <2>2 DEF Unbegun, Introduces
  <2>4. QED
    BY <1>2, <2>1, <2>3 DEF Outcomes
<1>3. CASE handler.pc # "non_tls" /\ Dead(s)
  BY <1>1, <1>3 DEF HandlerFine, Outcomes, IsIdentity, Continues, Dead
<1>4. ASSUME handler.pc # "non_tls", NEW c \in DOMAIN talks, Linked(s, c, talks[c]),
             upstream.eap.id = talks[c].id
      PROVE  \/ o = Proceed(c, upstream)
             \/ o = Verdicts(c, talks[c], "reject", talks[c].id)
  <2>1. c \in DOMAIN server /\ talks[c] = server[c]
    BY <1>4, TalksFacts
  <2>2. upstream.state = <<c, server[c].step>> /\ server[c].verdict = Nil
    BY <1>1, <1>4, <2>1 DEF Linked
  <2>3. upstream.state # Nil
    <3>1. server[c].step \in Nat /\ c \in Nat
      BY <2>1, ConversationType DEF TestbedInv, ServerTypeOK, Conversation
    <3>2. QED
      BY <3>1, <2>2, NoneAssumption DEF Alphabet
  <2>4. upstream.state[1] = c /\ upstream.state[2] = server[c].step
    BY <2>2
  <2>5. upstream.eap.kind = "tls"
    BY <1>4 DEF HandlerFine
  <2>6. Continues(upstream)
    BY <1>4, <2>1, <2>2, <2>3, <2>4, <2>5 DEF Continues
  <2>7. QED
    BY <2>1, <2>3, <2>4, <2>6 DEF Outcomes
<1>5. QED
  BY <1>2, <1>3, <1>4 DEF HandlerFine

(* x is what conversation w becomes with the server's next Request, eap.   *)
Advanced(x, w, eap) ==
  /\ x.id = eap.id /\ x.step = w.step + 1 /\ x.verdict = w.verdict
  /\ x.rx = w.rx /\ x.tx = w.tx /\ x.got = w.got

LEMMA ChallengeTalks ==
  ASSUME ServerTypeOK, NEW st, NEW c \in 1 .. Len(server) + 1,
         c \in DOMAIN server => server[c].st = st,
         NEW w \in Conversation(st), NEW eap, server' = Challenge(c, w, eap).server
  PROVE  /\ \A b : b # st => Talks(b)' = Talks(b)
         /\ DOMAIN Talks(st)' = DOMAIN Talks(st) \cup {c}
         /\ Advanced(server'[c], w, eap)
<1>1. PICK x : x = [w EXCEPT !.id = eap.id, !.step = @ + 1]
  OBVIOUS
<1>2. /\ x.st = st /\ x.id = eap.id /\ x.step = w.step + 1 /\ x.verdict = w.verdict
      /\ x.rx = w.rx /\ x.tx = w.tx /\ x.got = w.got
  BY <1>1 DEF Conversation
<1>3. server' = [i \in 1 .. Len(server) \cup {c} |-> IF i = c THEN x ELSE server[i]]
  BY <1>1 DEF Challenge
<1>4. /\ DOMAIN server' = DOMAIN server \cup {c} /\ server'[c] = x
      /\ \A i \in DOMAIN server : i # c => server'[i] = server[i]
  BY <1>3 DEF ServerTypeOK
<1>5. ASSUME NEW b, b # st PROVE Talks(b)' = Talks(b)
  <2>1. \A i : i \in DOMAIN server' /\ server'[i].st = b <=> i \in DOMAIN server /\ server[i].st = b
    BY <1>2, <1>4, <1>5
  <2>2. \A i : i \in DOMAIN server /\ server[i].st = b => server'[i] = server[i]
    BY <1>4, <1>5
  <2>3. QED
    BY <2>1, <2>2 DEF Talks
<1>6. DOMAIN Talks(st)' = DOMAIN Talks(st) \cup {c}
  BY <1>2, <1>4 DEF Talks
<1>7. QED
  BY <1>2, <1>4, <1>5, <1>6 DEF Advanced

LEMMA VerdictTalks ==
  ASSUME ServerTypeOK, NEW st, NEW c \in DOMAIN server, server[c].st = st,
         NEW w \in Conversation(st), NEW code, NEW id, server' = Verdicts(c, w, code, id).server
  PROVE  /\ \A b : b # st => Talks(b)' = Talks(b)
         /\ DOMAIN Talks(st)' = DOMAIN Talks(st)
<1>1. PICK x : x = [w EXCEPT !.verdict = code]
  OBVIOUS
<1>2. x.st = st
  BY <1>1 DEF Conversation
<1>3. server' = [server EXCEPT ![c] = x]
  BY <1>1 DEF Verdicts
<1>4. /\ DOMAIN server' = DOMAIN server /\ server'[c] = x
      /\ \A i \in DOMAIN server : i # c => server'[i] = server[i]
  BY <1>3 DEF ServerTypeOK
<1>5. ASSUME NEW b, b # st PROVE Talks(b)' = Talks(b)
  <2>1. \A i : i \in DOMAIN server' /\ server'[i].st = b <=> i \in DOMAIN server /\ server[i].st = b
    BY <1>2, <1>4, <1>5
  <2>2. \A i : i \in DOMAIN server /\ server[i].st = b => server'[i] = server[i]
    BY <1>4, <1>5
  <2>3. QED
    BY <2>1, <2>2 DEF Talks
<1>6. DOMAIN Talks(st)' = DOMAIN Talks(st)
  BY <1>2, <1>4 DEF Talks
<1>7. QED
  BY <1>5, <1>6

(* The outcome o of a request of st in conversation c, which v was, when   *)
(* that brings the flight up as far as unit b, or to its end, and when it  *)
(* asks for more of the flight down.                                       *)
HearsMore(o, st, c, v, up, b) ==
  /\ b < Len(up)
  /\ \E w \in Conversation(st) :
       /\ o = Challenge(c, w, AckPacket(NextId(v.id)))
       /\ w.rx = Upto(up, b) /\ w.tx = v.tx /\ w.got = v.got
       /\ w.step = v.step /\ w.verdict = v.verdict

HearsAll(o, st, c, v, up, down, b) ==
  /\ b = Len(up)
  /\ \E w \in Conversation(st), eap \in Packet(Of(st)), e, k \in Nat \ {0} :
       /\ o = Challenge(c, w, eap) /\ Piece(down, 0, e, eap) /\ eap.id = NextId(v.id)
       /\ w.rx = <<>> /\ w.tx = CutFrom(down, e, k) /\ w.got = Append(v.got, up)
       /\ w.step = v.step /\ w.verdict = v.verdict

Hands(o, st, c, v, down, a, k) ==
  \E w \in Conversation(st), eap \in Packet(Of(st)), b \in Nat :
    /\ o = Challenge(c, w, eap)
    /\ a < b /\ Piece(down, a, b, eap) /\ eap.id = NextId(v.id)
    /\ w.rx = v.rx /\ w.tx = CutFrom(down, b, k) /\ w.got = v.got
    /\ w.step = v.step /\ w.verdict = v.verdict

(* The server gathers a piece of the station's flight: it asks for more,   *)
(* or, having it all, begins its own.                                      *)
LEMMA ServerPiece ==
  ASSUME Alphabet, NEW st \in Stations, NEW c, NEW v \in Conversation(st), v = server[c],
         v.id \in Identifier, NEW q, q.attrs \in Attributes,
         NEW up \in Seq(Of(st)), NEW down \in Seq(Of(st)), Len(down) > 0,
         up = Flight(st, 2 * Len(v.got) + 1), down = Flight(st, 2 * Len(v.got) + 2),
         NEW a, NEW b, Piece(up, a, b, q.eap), v.rx = Upto(up, a)
  PROVE  HearsMore(Proceed(c, q), st, c, v, up, b) \/ HearsAll(Proceed(c, q), st, c, v, up, down, b)
<1>1. /\ a \in Nat /\ b \in Nat /\ a < b /\ b <= Len(up)
      /\ q.eap.data = SubSeq(up, a + 1, b) /\ (q.eap.more <=> b < Len(up))
  BY DEF Piece
<1>2. ~IsAck(q.eap)
  BY PieceData
<1>3. PICK record : record = v.rx \o q.eap.data
  OBVIOUS
<1>4. record = Upto(up, b) /\ record \in Seq(Of(st)) /\ Upto(up, Len(up)) = up
  <2>1. b \in 0 .. Len(up) /\ a \in 0 .. b
    BY <1>1
  <2>2. Joins(Upto(up, a), SubSeq(up, a + 1, b), Upto(up, b))
    BY <2>1, UptoParts
  <2>3. Upto(up, b) \in Seq(Of(st)) /\ Upto(up, Len(up)) = up
    BY <2>1, UptoParts
  <2>4. QED
    BY <2>2, <2>3, <1>1, <1>3 DEF Joins
<1>5. PICK id \in Identifier : id = NextId(v.id)
  BY FreshId
<1>6. /\ v.st = st /\ v.got \in Seq(Seq(Of(st)))
  BY DEF Conversation
<1>7. CASE b < Len(up)
  <2>1. Proceed(c, q) = Challenge(c, [v EXCEPT !.rx = record], AckPacket(id))
    BY <1>1, <1>2, <1>3, <1>5, <1>7 DEF Proceed
  <2>2. PICK w : w = [v EXCEPT !.rx = record]
    OBVIOUS
  <2>3. /\ w \in Conversation(st) /\ w.rx = record /\ w.tx = v.tx /\ w.got = v.got
        /\ w.step = v.step /\ w.verdict = v.verdict
    BY <1>4, <2>2 DEF Conversation
  <2>4. QED
    BY <1>4, <1>5, <1>7, <2>1, <2>2, <2>3 DEF HearsMore
<1>8. CASE ~(b < Len(up))
  <2>1. b = Len(up) /\ record = up
    <3>1. b = Len(up)
      BY <1>1, <1>8
    <3>2. QED
      BY <3>1, <1>4
  <2>2. PICK got : got = Append(v.got, record)
    OBVIOUS
  <2>3. got \in Seq(Seq(Of(st))) /\ Len(got) = Len(v.got) + 1 /\ Len(v.got) \in Nat
    BY <1>4, <1>6, <2>2
  <2>4. 2 * Len(got) - 1 = 2 * Len(v.got) + 1 /\ 2 * Len(got) = 2 * Len(v.got) + 2
    BY <2>3
  <2>5. PICK k \in Nat \ {0} : k = ServerLimit(q.attrs)
    BY ServerLimitType
  <2>6. PICK chunks : chunks = Fragment(down, k)
    OBVIOUS
  <2>7. PICK eap : eap = FirstFragment(id, down, chunks)
    OBVIOUS
  <2>8. chunks = CutFrom(down, 0, k)
    <3>1. Upto(down, Len(down)) = down /\ 0 + 1 = 1
      BY UptoParts
    <3>2. QED
      BY <3>1, <2>6 DEF CutFrom, Upto
  <2>9. PICK e \in Nat : /\ 0 < e /\ Tail(chunks) = CutFrom(down, e, k)
                         /\ \A i, length : Piece(down, 0, e, Frame(i, length, Len(chunks) > 1,
                                                                   Head(chunks)))
    BY <2>8, NextPiece
  <2>10. Piece(down, 0, e, eap) /\ eap.id = id
    BY <2>7, <2>9 DEF FirstFragment, Frame
  <2>11. eap \in Packet(Of(st)) /\ Tail(chunks) \in Seq(Seq(Of(st))) /\ e \in Nat \ {0}
    BY <2>6, <2>7, <2>9, ChunksType
  <2>12. PICK tx : tx = Tail(chunks)
    OBVIOUS
  <2>13. PICK w : w = [v EXCEPT !.got = got, !.rx = <<>>, !.tx = tx]
    OBVIOUS
  <2>14. /\ w \in Conversation(st) /\ w.rx = <<>> /\ w.tx = tx /\ w.got = got
         /\ w.step = v.step /\ w.verdict = v.verdict
    <3>1. tx \in Seq(Seq(Of(st))) /\ <<>> \in Seq(Of(st))
      BY <2>11, <2>12
    <3>2. w \in Conversation(st)
      BY <2>3, <2>13, <3>1 DEF Conversation
    <3>3. /\ w.rx = <<>> /\ w.tx = tx /\ w.got = got
          /\ w.step = v.step /\ w.verdict = v.verdict
      BY <2>13 DEF Conversation
    <3>4. QED
      BY <3>2, <3>3
  <2>15. Proceed(c, q) = Challenge(c, w, eap)
    <3> DEFINE rec == server[c].rx \o q.eap.data
               g == Append(server[c].got, rec)
               flight == Flight(server[c].st, 2 * Len(g))
               cut == Fragment(flight, ServerLimit(q.attrs))
    <3>1. ~q.eap.more
      BY <1>1, <1>8
    <3>2. rec = Flight(server[c].st, 2 * Len(g) - 1) =>
            Proceed(c, q) = Challenge(c, [server[c] EXCEPT !.got = g, !.rx = <<>>, !.tx = Tail(cut)],
                                      FirstFragment(NextId(server[c].id), flight, cut))
      BY <1>2, <3>1 DEF Proceed
    <3>3. rec = record
      BY <1>3
    <3> HIDE DEF rec
    <3>4. g = got
      BY <3>3, <2>2
    <3> HIDE DEF g
    <3>5. flight = down /\ rec = Flight(server[c].st, 2 * Len(g) - 1)
      BY <1>6, <2>1, <2>4, <3>3, <3>4
    <3> HIDE DEF flight
    <3>6. cut = chunks
      BY <2>5, <2>6, <3>5
    <3> HIDE DEF cut
    <3>7. QED
      BY <3>2, <3>4, <3>5, <3>6, <1>5, <2>7, <2>12, <2>13
  <2>16. QED
    BY <1>5, <2>1, <2>2, <2>9, <2>10, <2>11, <2>12, <2>14, <2>15 DEF HearsAll
<1>9. QED
  BY <1>7, <1>8

(* It is ACKed a fragment: the next one follows.                           *)
LEMMA ServerAck ==
  ASSUME NEW st \in Stations, NEW c, NEW v \in Conversation(st), v = server[c],
         v.id \in Identifier, NEW q, IsAck(q.eap), NEW down \in Seq(Of(st)),
         NEW a \in Nat, a < Len(down), NEW k \in Nat \ {0}, v.tx = CutFrom(down, a, k)
  PROVE  Hands(Proceed(c, q), st, c, v, down, a, k)
<1>1. PICK id \in Identifier : id = NextId(v.id)
  BY FreshId
<1>2. PICK chunks : chunks = v.tx
  OBVIOUS
<1>3. chunks \in Seq(Seq(Of(st))) /\ chunks # <<>>
  <2>1. CutFrom(down, a, k) \in Seq(Seq(Of(st))) /\ CutFrom(down, a, k) # <<>>
    BY NextPiece
  <2>2. QED
    BY <2>1, <1>2
<1>4. PICK b \in Nat : /\ a < b /\ Tail(chunks) = CutFrom(down, b, k)
                       /\ \A i, length : Piece(down, a, b, Frame(i, length, Len(chunks) > 1,
                                                                 Head(chunks)))
  <2>1. chunks = CutFrom(down, a, k)
    BY <1>2
  <2>2. QED
    BY <2>1, NextPiece
<1>5. PICK eap : eap = NextFragment(id, chunks)
  OBVIOUS
<1>6. Piece(down, a, b, eap) /\ eap.id = id
  BY <1>4, <1>5 DEF NextFragment, Frame
<1>7. eap \in Packet(Of(st)) /\ Tail(chunks) \in Seq(Seq(Of(st)))
  BY <1>3, <1>5, NextFragmentType
<1>8. PICK tx : tx = Tail(chunks)
  OBVIOUS
<1>9. PICK w : w = [v EXCEPT !.tx = tx]
  OBVIOUS
<1>10. /\ w \in Conversation(st) /\ w.rx = v.rx /\ w.tx = tx /\ w.got = v.got
       /\ w.step = v.step /\ w.verdict = v.verdict
  BY <1>7, <1>8, <1>9 DEF Conversation
<1>11. Proceed(c, q) = Challenge(c, w, eap)
  <2>1. [v EXCEPT !.tx = Tail(@)] = w
    BY <1>2, <1>8, <1>9 DEF Conversation
  <2>2. Proceed(c, q) = Challenge(c, [v EXCEPT !.tx = Tail(@)], NextFragment(id, v.tx))
    BY <1>1, <1>2, <1>3 DEF Proceed
  <2>3. QED
    BY <2>1, <2>2, <1>2, <1>5
<1>12. QED
  BY <1>1, <1>4, <1>6, <1>7, <1>8, <1>10, <1>11 DEF Hands

(* The server goes on from v to x in conversation c, saying so in r: it    *)
(* has the flight up as far as unit b, or all of it and begins the next,   *)
(* or sends more of it.                                                    *)
Moves(c, v, x, r) ==
  /\ r.code = "challenge" /\ r.state = <<c, x.step>> /\ x.verdict = Nil
  /\ r.eap # Nil /\ r.eap.kind = "tls" /\ r.eap.id = x.id
  /\ x.id = NextId(v.id) /\ x.id \in Identifier

MovesUp(v, x, r, up, b) ==
  /\ b < Len(up) /\ r.eap = AckPacket(x.id)
  /\ x.rx = Upto(up, b) /\ x.tx = v.tx /\ x.got = v.got

MovesRound(v, x, r, up, down, b) ==
  /\ b = Len(up) /\ x.rx = <<>> /\ x.got = Append(v.got, up)
  /\ \E e, k \in Nat \ {0} : x.tx = CutFrom(down, e, k) /\ Piece(down, 0, e, r.eap)

MovesDown(v, x, r, down, a, k) ==
  /\ x.rx = v.rx /\ x.got = v.got
  /\ \E b \in Nat : x.tx = CutFrom(down, b, k) /\ a < b /\ Piece(down, a, b, r.eap)

Shifts(x, w, eap, r) == r.eap = eap /\ x.rx = w.rx /\ x.tx = w.tx /\ x.got = w.got

LEMMA ChallengeMoves ==
  ASSUME Alphabet, ServerTypeOK, NEW st \in Stations, NEW c \in DOMAIN server,
         NEW v, v = server[c], v.st = st, v.verdict = Nil, v.id \in Identifier,
         NEW w \in Conversation(st), w.step = v.step, w.verdict = v.verdict,
         NEW eap \in Packet(Of(st)), eap.kind = "tls", eap.id = NextId(v.id),
         server' = Challenge(c, w, eap).server
  PROVE  /\ Moves(c, v, server'[c], Challenge(c, w, eap).reply)
         /\ Shifts(server'[c], w, eap, Challenge(c, w, eap).reply)
<1>1. c \in 1 .. Len(server) + 1
  BY DEF ServerTypeOK
<1>2. PICK x : x = server'[c]
  OBVIOUS
<1>3. Advanced(x, w, eap)
  BY <1>1, <1>2, ChallengeTalks
<1>4. PICK r : r = Challenge(c, w, eap).reply
  OBVIOUS
<1>5. r.code = "challenge" /\ r.eap = eap /\ r.state = <<c, w.step + 1>>
  BY <1>4 DEF Challenge
<1>6. eap # Nil /\ NextId(v.id) \in Identifier
  BY OfUnits, PacketNotNil, FreshId
<1>7. QED
  BY <1>2, <1>3, <1>4, <1>5, <1>6 DEF Moves, Shifts, Advanced

(* Conversation c with st, which is v, is under way, p being the station   *)
(* and f its flights, and q its request in it.                             *)
Talking(st, f, p, c, v, q) ==
  /\ f = Flights(st) /\ p = peer[st] /\ c \in DOMAIN server /\ v = server[c] /\ v.st = st
  /\ v.verdict = Nil /\ v.id \in Identifier /\ q.attrs \in Attributes

LEMMA TalkingFlights ==
  ASSUME Alphabet, TestbedInv, FlightsCarryData, NEW st \in Stations, NEW f, NEW p, NEW c,
         NEW v, NEW q, Talking(st, f, p, c, v, q), UnderWay(p)
  PROVE  /\ v \in Conversation(st)
         /\ UpFlight(f, p) = Flight(st, 2 * Len(p.got) + 1)
         /\ DownFlight(f, p) = Flight(st, 2 * Len(p.got) + 2)
         /\ UpFlight(f, p) \in Seq(Of(st)) /\ DownFlight(f, p) \in Seq(Of(st))
         /\ Len(DownFlight(f, p)) > 0
<1>1. p.got \in Seq(Seq(Of(st))) /\ script \in [Stations -> Scripts] /\ f = Flights(st)
  BY DEF TestbedInv, PeerTypeOK, Peer, Talking
<1>2. v \in Conversation(st)
  BY ConversationType DEF TestbedInv, Talking
<1>3. /\ UpFlight(Flights(st), p) = Flight(st, 2 * Len(p.got) + 1)
      /\ DownFlight(Flights(st), p) = Flight(st, 2 * Len(p.got) + 2)
      /\ UpFlight(Flights(st), p) \in Seq(Of(st)) /\ DownFlight(Flights(st), p) \in Seq(Of(st))
      /\ Len(DownFlight(Flights(st), p)) > 0
  BY <1>1, FlightFacts
<1>4. QED
  BY <1>1, <1>2, <1>3

LEMMA PieceMoves ==
  ASSUME Alphabet, TestbedInv, FlightsCarryData, NEW st \in Stations, NEW f, NEW p, NEW c,
         NEW v, NEW q, Talking(st, f, p, c, v, q), UnderWay(p), Len(v.got) = Len(p.got),
         NEW a, NEW b, Piece(UpFlight(f, p), a, b, q.eap), v.rx = Upto(UpFlight(f, p), a),
         server' = Proceed(c, q).server
  PROVE  /\ Moves(c, v, server'[c], Proceed(c, q).reply)
         /\ \/ MovesUp(v, server'[c], Proceed(c, q).reply, UpFlight(f, p), b)
            \/ MovesRound(v, server'[c], Proceed(c, q).reply, UpFlight(f, p), DownFlight(f, p), b)
<1>1. PICK up : up = UpFlight(f, p)
  OBVIOUS
<1>2. PICK down : down = DownFlight(f, p)
  OBVIOUS
<1>3. PICK o : o = Proceed(c, q)
  OBVIOUS
<1>4. PICK x : x = server'[c]
  OBVIOUS
<1>5. /\ c \in DOMAIN server /\ v = server[c] /\ v.st = st /\ v.verdict = Nil
      /\ v.id \in Identifier /\ q.attrs \in Attributes
  BY DEF Talking
<1>6. v \in Conversation(st) /\ up \in Seq(Of(st)) /\ down \in Seq(Of(st)) /\ Len(down) > 0
  BY <1>1, <1>2, TalkingFlights
<1>7. up = Flight(st, 2 * Len(v.got) + 1) /\ down = Flight(st, 2 * Len(v.got) + 2)
  BY <1>1, <1>2, TalkingFlights
<1>8. Piece(up, a, b, q.eap) /\ v.rx = Upto(up, a)
  BY <1>1
<1>9. HearsMore(o, st, c, v, up, b) \/ HearsAll(o, st, c, v, up, down, b)
  BY <1>3, <1>5, <1>6, <1>7, <1>8, ServerPiece
<1>10. CASE HearsMore(o, st, c, v, up, b)
  <2>1. PICK w \in Conversation(st) :
          /\ b < Len(up) /\ o = Challenge(c, w, AckPacket(NextId(v.id)))
          /\ w.rx = Upto(up, b) /\ w.tx = v.tx /\ w.got = v.got
          /\ w.step = v.step /\ w.verdict = v.verdict
    BY <1>10 DEF HearsMore
  <2>2. PICK eap : eap = AckPacket(NextId(v.id))
    OBVIOUS
  <2>3. eap \in Packet(Of(st)) /\ eap.kind = "tls" /\ eap.id = NextId(v.id)
    BY <1>5, <2>2, FreshId, AckNotNil, AckPacketType
  <2>4. Moves(c, v, x, o.reply) /\ Shifts(x, w, eap, o.reply)
    <3>1. o = Challenge(c, w, eap) /\ server' = Challenge(c, w, eap).server
      BY <2>1, <2>2, <1>3
    <3>2. QED
      BY <3>1, <1>4, <1>5, <2>1, <2>3, ChallengeMoves DEF TestbedInv
  <2>5. MovesUp(v, x, o.reply, up, b)
    BY <2>1, <2>2, <2>4 DEF Moves, MovesUp, Shifts
  <2>6. QED
    BY <1>1, <1>2, <1>3, <1>4, <2>4, <2>5
<1>11. CASE HearsAll(o, st, c, v, up, down, b)
  <2>1. PICK w \in Conversation(st), eap \in Packet(Of(st)), e \in Nat \ {0}, k \in Nat \ {0} :
          /\ b = Len(up) /\ o = Challenge(c, w, eap)
          /\ Piece(down, 0, e, eap) /\ eap.id = NextId(v.id)
          /\ w.rx = <<>> /\ w.tx = CutFrom(down, e, k) /\ w.got = Append(v.got, up)
          /\ w.step = v.step /\ w.verdict = v.verdict
    BY <1>11 DEF HearsAll
  <2>2. eap.kind = "tls"
    BY <2>1 DEF Piece
  <2>3. Moves(c, v, x, o.reply) /\ Shifts(x, w, eap, o.reply)
    BY <1>3, <1>4, <1>5, <2>1, <2>2, ChallengeMoves DEF TestbedInv
  <2>4. MovesRound(v, x, o.reply, up, down, b)
    BY <2>1, <2>3 DEF MovesRound, Shifts
  <2>5. QED
    BY <1>1, <1>2, <1>3, <1>4, <2>3, <2>4
<1>12. QED
  BY <1>9, <1>10, <1>11

LEMMA AckMoves ==
  ASSUME Alphabet, TestbedInv, FlightsCarryData, NEW st \in Stations, NEW f, NEW p, NEW c,
         NEW v, NEW q, Talking(st, f, p, c, v, q), UnderWay(p), IsAck(q.eap),
         NEW a \in Nat, a < Len(DownFlight(f, p)), NEW k \in Nat \ {0},
         v.tx = CutFrom(DownFlight(f, p), a, k), server' = Proceed(c, q).server
  PROVE  /\ Moves(c, v, server'[c], Proceed(c, q).reply)
         /\ MovesDown(v, server'[c], Proceed(c, q).reply, DownFlight(f, p), a, k)
<1>1. PICK down : down = DownFlight(f, p)
  OBVIOUS
<1>2. PICK o : o = Proceed(c, q)
  OBVIOUS
<1>3. PICK x : x = server'[c]
  OBVIOUS
<1>4. /\ c \in DOMAIN server /\ v = server[c] /\ v.st = st /\ v.verdict = Nil
      /\ v.id \in Identifier
  BY DEF Talking
<1>5. v \in Conversation(st) /\ down \in Seq(Of(st))
  BY <1>1, TalkingFlights
<1>6. Hands(o, st, c, v, down, a, k)
  BY <1>1, <1>2, <1>4, <1>5, ServerAck
<1>7. PICK w \in Conversation(st), eap \in Packet(Of(st)), b \in Nat :
        /\ o = Challenge(c, w, eap)
        /\ a < b /\ Piece(down, a, b, eap) /\ eap.id = NextId(v.id)
        /\ w.rx = v.rx /\ w.tx = CutFrom(down, b, k) /\ w.got = v.got
        /\ w.step = v.step /\ w.verdict = v.verdict
  BY <1>6 DEF Hands
<1>8. eap.kind = "tls"
  BY <1>7 DEF Piece
<1>9. Moves(c, v, x, o.reply) /\ Shifts(x, w, eap, o.reply)
  BY <1>2, <1>3, <1>4, <1>7, <1>8, ChallengeMoves DEF TestbedInv
<1>10. MovesDown(v, x, o.reply, down, a, k)
  BY <1>7, <1>9 DEF MovesDown, Shifts
<1>11. QED
  BY <1>1, <1>2, <1>3, <1>9, <1>10

(* The station has ACKed everything there was: the server lets it in.      *)
LEMMA LastAckVerdict ==
  ASSUME NEW c, NEW v, v = server[c], v.tx = <<>>, NEW q, IsAck(q.eap),
         NEW p, Through(p), Len(v.got) = Len(p.got)
  PROVE  Proceed(c, q) = Verdicts(c, v, "accept", v.id)
BY DEF Proceed, Through

(* A station's conversations after its request has been answered.          *)
OnlyOneTalk(st) == \A c, e \in DOMAIN Talks(st) : c = e

(* The server begins a conversation.                                       *)
Begins(x, r) ==
  /\ x.got = <<>> /\ x.tx = <<>> /\ x.rx = <<>>
  /\ r.eap.start /\ r.eap.data = <<>>

LEMMA ConverseTalks ==
  ASSUME Alphabet, ServerTypeOK, NEW st \in Stations, NEW q, q.eap.data[1][1] = st,
         q.eap.id \in Identifier, server' = Converse(q).server
  PROVE  /\ \A b : b # st => Talks(b)' = Talks(b)
         /\ DOMAIN Talks(st)' = DOMAIN Talks(st) \cup {Len(server) + 1}
         /\ Moves(Len(server) + 1, q.eap, server'[Len(server) + 1], Converse(q).reply)
         /\ Begins(server'[Len(server) + 1], Converse(q).reply)
<1>1. PICK w : w = [st |-> st, id |-> Nil, step |-> 0, tx |-> <<>>, rx |-> <<>>,
                    got |-> <<>>, verdict |-> Nil]
  OBVIOUS
<1>2. PICK c : c = Len(server) + 1
  OBVIOUS
<1>3. PICK id \in Identifier : id = NextId(q.eap.id)
  BY FreshId
<1>4. PICK bare : bare = Bare("tls", id)
  OBVIOUS
<1>5. PICK eap : eap = [bare EXCEPT !.start = TRUE]
  OBVIOUS
<1>6. /\ eap \in Packet(Of(st)) /\ eap.start /\ eap.data = <<>> /\ eap.kind = "tls"
      /\ eap.id = id /\ eap # Nil
  <2>1. bare \in Packet(Of(st))
    BY <1>4, BareType DEF Kind
  <2>2. eap \in Packet(Of(st))
    BY <1>5, <2>1 DEF Packet
  <2>3. eap # Nil
    BY <2>2, OfUnits, PacketNotNil
  <2>4. QED
    BY <1>4, <1>5, <2>2, <2>3 DEF Bare
<1>7. w \in Conversation(st)
  <2>1. <<>> \in Seq(Of(st)) /\ <<>> \in Seq(Seq(Of(st)))
    OBVIOUS
  <2>2. QED
    BY <1>1, <2>1 DEF Conversation
<1>8. c \in 1 .. Len(server) + 1 /\ c \notin DOMAIN server
  BY <1>2 DEF ServerTypeOK
<1>9. PICK o : o = Challenge(c, w, eap)
  OBVIOUS
<1>10. Converse(q) = o
  BY <1>1, <1>2, <1>3, <1>4, <1>5, <1>9 DEF Converse
<1>11. server' = Challenge(c, w, eap).server
  BY <1>9, <1>10
<1>12. \A b : b # st => Talks(b)' = Talks(b)
  BY <1>7, <1>8, <1>11, ChallengeTalks
<1>13. DOMAIN Talks(st)' = DOMAIN Talks(st) \cup {c}
  <2>1. PICK y : y = [w EXCEPT !.id = eap.id, !.step = @ + 1]
    OBVIOUS
  <2>2. y.st = st
    BY <1>7, <2>1 DEF Conversation
  <2>3. server' = [i \in 1 .. Len(server) \cup {c} |-> IF i = c THEN y ELSE server[i]]
    BY <1>11, <2>1 DEF Challenge
  <2>4. /\ DOMAIN server' = DOMAIN server \cup {c} /\ server'[c] = y
        /\ \A i \in DOMAIN server : i # c => server'[i] = server[i]
    BY <2>3 DEF ServerTypeOK
  <2>5. QED
    BY <2>2, <2>4 DEF Talks
<1>14. PICK x : x = server'[c]
  OBVIOUS
<1>15. Advanced(x, w, eap)
  BY <1>7, <1>8, <1>11, <1>14, ChallengeTalks
<1>16. PICK r : r = o.reply
  OBVIOUS
<1>17. r.code = "challenge" /\ r.eap = eap /\ r.state = <<c, w.step + 1>>
  BY <1>9, <1>16 DEF Challenge
<1>18. Moves(c, q.eap, x, r) /\ Begins(x, r)
  BY <1>1, <1>3, <1>6, <1>15, <1>17 DEF Moves, Begins, Advanced
<1>19. QED
  BY <1>2, <1>10, <1>12, <1>13, <1>14, <1>16, <1>18

LEMMA OutcomeTalks ==
  ASSUME Alphabet, TestbedInv, handler # Nil, NEW st \in Stations,
         st = handler.datagram.authenticator[1],
         HandlerFine(Flights(st), peer[st], sessions[handler.key], Talks(st), handler,
                     upstream.eap),
         OnlyOneTalk(st), NEW o \in Outcomes(upstream), server' = o.server
  PROVE  /\ OnlyOneTalk(st)' /\ \A b : b # st => Talks(b)' = Talks(b)
         /\ DOMAIN Talks(st) \subseteq DOMAIN Talks(st)'
<1>1. PICK talks : talks = Talks(st)
  OBVIOUS
<1>2. PICK s : s = sessions[handler.key]
  OBVIOUS
<1>3. PICK f : f = Flights(st)
  OBVIOUS
<1>4. PICK p : p = peer[st]
  OBVIOUS
<1>5. PICK q : q = upstream
  OBVIOUS
<1>6. /\ q \in UpstreamType /\ q.state = s.radius_state /\ q.eap \in Packet(Of(st))
      /\ IsIdentity(q.eap) => q.eap.data[1][1] = st
  BY <1>2, <1>5 DEF TestbedInv, ProxyInv, TypeOK, HandlerCoherent, Owned, HandlerOwned
<1>7. script \in [Stations -> Scripts] /\ ServerTypeOK
  BY DEF TestbedInv, PeerTypeOK
<1>8. CASE /\ handler.pc = "non_tls" /\ Introduces(p, talks, handler.datagram)
           /\ upstream.eap = handler.datagram.eap /\ o = Converse(upstream)
  <2>1. q.eap.data[1][1] = st /\ q.eap.id \in Identifier
    BY <1>5, <1>6, <1>8 DEF Introduces, Packet
  <2>2. server' = Converse(q).server
    BY <1>5, <1>8
  <2>3. DOMAIN Talks(st)' = DOMAIN Talks(st) \cup {Len(server) + 1}
    BY <1>7, <2>1, <2>2, ConverseTalks
  <2>4. \A b : b # st => Talks(b)' = Talks(b)
    BY <1>7, <2>1, <2>2, ConverseTalks
  <2>5. DOMAIN Talks(st) = {}
    BY <1>1, <1>8 DEF Introduces
  <2>6. QED
    BY <2>3, <2>4, <2>5 DEF OnlyOneTalk
<1>9. CASE o = NoSuchConversation(upstream)
  <2>1. server' = server
    BY <1>9 DEF NoSuchConversation
  <2>2. \A b : Talks(b)' = Talks(b)
    BY <2>1 DEF Talks
  <2>3. QED
    BY <2>2 DEF OnlyOneTalk
<1>10. ASSUME NEW c \in DOMAIN talks, Linked(s, c, talks[c]), q.eap.id = talks[c].id,
              \/ o = Proceed(c, q) \/ o = Verdicts(c, talks[c], "reject", talks[c].id)
       PROVE  /\ OnlyOneTalk(st)' /\ \A b : b # st => Talks(b)' = Talks(b)
              /\ DOMAIN Talks(st) \subseteq DOMAIN Talks(st)'
  <2>1. c \in DOMAIN server /\ server[c].st = st /\ talks[c] = server[c]
    BY <1>1, <1>10, TalksFacts
  <2>2. server[c].verdict = Nil /\ q.eap.id = server[c].id /\ q.state = <<c, server[c].step>>
    BY <1>6, <1>10, <2>1 DEF Linked
  <2>3. q.state # Nil
    <3>1. server[c].step \in Nat /\ c \in Nat
      BY <1>7, <2>1, ConversationType DEF ServerTypeOK, Conversation
    <3>2. QED
      BY <3>1, <2>2, NoneAssumption DEF Alphabet
  <2>4. server[c] \in Conversation(st) /\ "reject" \in Verdict
    BY <1>7, <2>1, ConversationType DEF Verdict
  <2>5. Continued(o, c, st) \/ Ended(o, c, st, server[c].id)
    <3>1. CASE o = Proceed(c, q)
      BY <3>1, <1>6, <1>7, <2>1, <2>2, <2>3, ProceedShape
    <3>2. CASE o = Verdicts(c, talks[c], "reject", talks[c].id)
      BY <3>2, <2>1, <2>4 DEF Ended
    <3>3. QED
      BY <1>10, <3>1, <3>2
  <2>6. CASE Continued(o, c, st)
    <3>1. PICK w \in Conversation(st), eap \in Packet(Of(st)) : o = Challenge(c, w, eap)
      BY <2>6 DEF Continued
    <3>2. c \in 1 .. Len(server) + 1
      BY <1>7, <2>1 DEF ServerTypeOK
    <3>3. /\ \A b : b # st => Talks(b)' = Talks(b)
          /\ DOMAIN Talks(st)' = DOMAIN Talks(st) \cup {c}
      BY <1>7, <2>1, <3>1, <3>2, ChallengeTalks
    <3>4. QED
      BY <3>3, <1>1, <1>10 DEF OnlyOneTalk
  <2>7. CASE Ended(o, c, st, server[c].id)
    <3>1. PICK w \in Conversation(st), code \in Verdict :
            o = Verdicts(c, w, code, server[c].id)
      BY <2>7 DEF Ended
    <3>2. PICK id : id = server[c].id
      OBVIOUS
    <3>3. server' = Verdicts(c, w, code, id).server
      BY <3>1, <3>2
    <3>4. /\ \A b : b # st => Talks(b)' = Talks(b)
          /\ DOMAIN Talks(st)' = DOMAIN Talks(st)
      BY <1>7, <2>1, <3>3, VerdictTalks
    <3>5. QED
      BY <3>4 DEF OnlyOneTalk
  <2>8. QED
    BY <2>5, <2>6, <2>7
<1>11. \/ /\ handler.pc = "non_tls" /\ Introduces(p, talks, handler.datagram)
          /\ upstream.eap = handler.datagram.eap /\ o = Converse(upstream)
       \/ o = NoSuchConversation(upstream)
       \/ \E c \in DOMAIN talks :
            /\ Linked(s, c, talks[c]) /\ q.eap.id = talks[c].id
            /\ \/ o = Proceed(c, q) \/ o = Verdicts(c, talks[c], "reject", talks[c].id)
  BY <1>1, <1>2, <1>3, <1>4, <1>5, HandlersOutcome
<1>12. QED
  BY <1>8, <1>9, <1>10, <1>11

-----------------------------------------------------------------------------
(* What the proxy makes of the answer.                                     *)

(* t is session s once it has learned from reply r.                        *)
Learnt(t, s, r) ==
  /\ t \in SessionType /\ t.key = s.key /\ t.result = s.result
  /\ t.radius_state = r.state
  /\ r.eap # Nil /\ r.eap.kind = "tls" => t.upstream_last_eap_req_id = r.eap.id
  /\ t.up_reasm = s.up_reasm /\ t.down_reasm = s.down_reasm
  /\ t.down_outbox = s.down_outbox
  /\ t.down_next_id = s.down_next_id /\ t.down_last_req_id = s.down_last_req_id

LEMMA BlockedFields ==
  ASSUME ProxyInv, handler # Nil, NEW r \in ServerReply, r.code = "accept" => r.keyed
  PROVE  /\ Learnt(Blocked(r), sessions[handler.key], r)
         /\ Current(Blocked(r), handler.datagram)
<1>1. PICK s : s = sessions[handler.key]
  OBVIOUS
<1>2. s \in SessionType
  BY <1>1 DEF ProxyInv, HandlerCoherent, TypeOK
<1>3. PICK t : t = Blocked(r)
  OBVIOUS
<1>4. Current(t, handler.datagram) /\ t \in SessionType
  BY <1>3, BlockedCurrent, CurrentType
<1>5. /\ t.key = s.key /\ t.result = s.result
      /\ t.radius_state = r.state
      /\ r.eap # Nil /\ r.eap.kind = "tls" => t.upstream_last_eap_req_id = r.eap.id
      /\ t.up_reasm = s.up_reasm /\ t.down_reasm = s.down_reasm
      /\ t.down_outbox = s.down_outbox
      /\ t.down_next_id = s.down_next_id /\ t.down_last_req_id = s.down_last_req_id
  BY <1>1, <1>2, <1>3 DEF Blocked, Learned, SessionType
<1>6. QED
  BY <1>1, <1>3, <1>4, <1>5 DEF Learnt

LEMMA LearntLinked ==
  ASSUME NEW t, NEW s, NEW r, Learnt(t, s, r), s.result = Nil,
         NEW c, NEW v, NEW x, Moves(c, v, x, r)
  PROVE  Linked(t, c, x) /\ t.result = Nil
BY DEF Learnt, Moves, Linked

(* The handler of d, p's EAP-TLS Response, is answered with r: session s   *)
(* becomes t.                                                              *)
Answering(f, p, s, t, d, r, U) ==
  /\ U \in SUBSET Unit /\ Whole(U, f, p)
  /\ Requesting(p, d) /\ p.id \in Identifier /\ d.state # Nil
  /\ handler.datagram = d /\ handler.pc # "non_tls"
  /\ handler.pc = "passthrough" <=> ~Reassembling
  /\ s.key = KeyOf(d) /\ s.result = Nil /\ s.down_next_id = p.id
  /\ Reassembling => s.down_last_req_id = p.id
  /\ t = Blocked(r) /\ Learnt(t, s, r) /\ Current(t, d)

LEMMA AnsweringKey ==
  ASSUME NEW f, NEW p, NEW s, NEW t, NEW d, NEW r, NEW U, Answering(f, p, s, t, d, r, U)
  PROVE  /\ KeyOf(d)[1] # "new" /\ t \in SessionType /\ Kept(t) /\ t.key = KeyOf(d)
         /\ t.result = Nil /\ t.down_next_id = p.id
         /\ Reassembling => t.down_last_req_id = p.id
         /\ p.status = "waiting" /\ d.authenticator = p.request.authenticator
BY KeyKinds DEF Answering, KeyOf, Learnt, Current, Requesting

(* A chunk of the station's flight goes upstream, whether or not there is  *)
(* still a conversation.                                                   *)
LEMMA ForwardTurn ==
  ASSUME NEW f, NEW p, NEW s, NEW t, NEW d, NEW r, NEW U, Answering(f, p, s, t, d, r, U),
         NEW talks, handler.rest \in Seq(Seq(Unit)), NEW rest, rest = handler.rest,
         \/ Dead(t)
         \/ \E c \in DOMAIN talks :
              /\ Linked(t, c, talks[c])
              /\ \A id, length :
                   Forwarding(f, p, t, talks[c],
                              Frame(id, length, Len(rest) > 1, Head(rest)), Tail(rest)),
         ForwardNextChunk(r)
  PROVE  Turn(f, p, talks, d)
<1>1. /\ KeyOf(d)[1] # "new" /\ t \in SessionType /\ t.key = KeyOf(d)
      /\ t.down_next_id = p.id /\ (Reassembling => t.down_last_req_id = p.id)
  BY AnsweringKey
<1>2. PICK e : e = Echoed(t)
  OBVIOUS
<1>3. /\ e \in SessionType /\ e.key = KeyOf(d) /\ Similar(e, t)
      /\ e.down_next_id = p.id /\ (Reassembling => e.down_last_req_id = p.id)
      /\ t.upstream_last_eap_req_id # Nil => EchoId(t) = t.upstream_last_eap_req_id
  BY <1>1, <1>2, EchoedSimilar
<1>4. PICK eap : eap = Frame(EchoId(t), Nil, Len(rest) > 1, Head(rest))
  OBVIOUS
<1>5. eap.kind = "tls" /\ eap.id = EchoId(t)
  BY <1>4 DEF Frame
<1>6. handler.pc = "forward" /\ Ask(d, e, "forward", eap, Tail(rest))
  BY <1>2, <1>4 DEF ForwardNextChunk, AskChunk, Answering
<1>7. PICK h : h = [pc |-> "forward", key |-> e.key, datagram |-> d, rest |-> Tail(rest)]
  OBVIOUS
<1>8. /\ h.pc = "forward" /\ h.key = KeyOf(d) /\ h.datagram = d /\ h.rest = Tail(rest)
      /\ Requesting(p, d) /\ d.state # Nil /\ Reassembling
  BY <1>3, <1>6, <1>7 DEF Answering
<1>9. \/ Dead(e)
      \/ \E c \in DOMAIN talks : /\ Linked(e, c, talks[c]) /\ eap.id = talks[c].id
                                 /\ Forwarding(f, p, e, talks[c], eap, h.rest)
  <2>1. CASE Dead(t)
    BY <2>1, <1>3, SimilarStands
  <2>2. ASSUME NEW c \in DOMAIN talks, Linked(t, c, talks[c]),
               \A id, length :
                 Forwarding(f, p, t, talks[c],
                            Frame(id, length, Len(rest) > 1, Head(rest)), Tail(rest))
        PROVE  /\ Linked(e, c, talks[c]) /\ eap.id = talks[c].id
               /\ Forwarding(f, p, e, talks[c], eap, h.rest)
    <3>1. Linked(e, c, talks[c])
      BY <2>2, <1>3, SimilarStands
    <3>2. eap.id = talks[c].id
      BY <2>2, <1>3, <1>5, <1>8, FreshId DEF Linked
    <3>3. Forwarding(f, p, t, talks[c], eap, h.rest)
      BY <2>2, <1>4, <1>8
    <3>4. Forwarding(f, p, e, talks[c], eap, h.rest)
      BY <3>3, <1>3 DEF Forwarding, Similar
    <3>5. QED
      BY <3>1, <3>2, <3>4
  <2>3. QED
    BY <2>1, <2>2
<1>10. HandlerFine(f, p, e, talks, h, eap)
  BY <1>3, <1>5, <1>8, <1>9 DEF HandlerFine, Minds
<1>11. QED
  BY <1>1, <1>3, <1>6, <1>7, <1>10, AskTurn

(* The server's verdict reaches the station under the Identifier of its    *)
(* last Response.                                                          *)
LEMMA VerdictTurn ==
  ASSUME NEW f, NEW p, NEW s, NEW t, NEW d, NEW r, NEW U, Answering(f, p, s, t, d, r, U),
         NEW talks, handler.rest \in Seq(Seq(Unit)),
         r.code \in Verdict, r.state = Nil, r.eap \in Packet(Unit),
         Reassembling => s.down_outbox = <<>>,
         r.code = "accept" => Through(p) /\ (~Reassembling => r.eap.id = p.id), Answer(r)
  PROVE  Turn(f, p, talks, d)
<1>1. /\ KeyOf(d)[1] # "new" /\ t \in SessionType /\ Kept(t) /\ t.key = KeyOf(d)
      /\ t.result = Nil /\ (Reassembling => t.down_last_req_id = p.id)
      /\ p.status = "waiting" /\ d.authenticator = p.request.authenticator
  BY AnsweringKey
<1>2. r.code # "challenge" /\ r.code \in {"accept", "reject"}
  BY DEF Verdict
<1>3. PICK code : code = r.code
  OBVIOUS
<1>4. CASE ForwardNextChunk(r)
  <2>1. Reassembling
    BY <1>4 DEF ForwardNextChunk, Answering
  <2>2. Dead(t)
    BY <2>1, <1>1 DEF Dead, Answering, Learnt
  <2>3. PICK rest : rest = handler.rest
    OBVIOUS
  <2>4. QED
    BY <1>4, <2>2, <2>3, ForwardTurn
<1>5. CASE Conclude(r)
  <2>1. PICK w : w = Stashed(t, code, r.eap)
    OBVIOUS
  <2>2. Kept(w) /\ SamePlace(w, t)
    BY <1>3, <2>1, FinishedKept DEF Answering
  <2>3. w.key = KeyOf(d) /\ w.down_last_req_id = t.down_last_req_id
    BY <1>1, <2>1 DEF Stashed, Finished, SessionType
  <2>4. PICK eap : eap = Restamp(w, r.eap)
    OBVIOUS
  <2>5. Reassembling
    BY <1>5 DEF Conclude, Settling, Answering
  <2>6. eap # Nil => eap.id = p.id
    BY <1>1, <2>3, <2>4, <2>5, FreshId DEF Answering, Restamp, Packet
  <2>7. Reply(d, w, code, eap)
    BY <1>3, <1>5, <2>1, <2>4 DEF Conclude, Answering
  <2>8. Telling(f, p, w, talks, code, eap)
    BY <1>2, <1>3, <2>6 DEF Telling
  <2>9. QED
    BY <1>1, <1>2, <1>3, <2>2, <2>3, <2>7, <2>8, ReplyTurn
<1>6. CASE RelayVerbatim(r)
  <2>1. PICK w : w = Finished(t, code)
    OBVIOUS
  <2>2. Kept(w)
    BY <1>3, <2>1, FinishedKept DEF Answering
  <2>3. w.key = KeyOf(d)
    BY <1>1, <2>1 DEF Finished, SessionType
  <2>4. PICK eap : eap = IF r.code = "reject" THEN Nil ELSE r.eap
    OBVIOUS
  <2>5. ~Reassembling
    BY <1>6 DEF RelayVerbatim, Answering
  <2>6. eap # Nil => eap.id = p.id
    BY <1>2, <2>4, <2>5
  <2>7. Reply(d, w, code, eap)
    BY <1>3, <1>6, <2>1, <2>4 DEF RelayVerbatim, Answering
  <2>8. Telling(f, p, w, talks, code, eap)
    BY <1>2, <1>3, <2>6 DEF Telling
  <2>9. QED
    BY <1>1, <1>2, <1>3, <2>2, <2>3, <2>7, <2>8, ReplyTurn
<1>7. /\ ~RelayEmptyChallenge(r) /\ ~BreakOffDrain(r) /\ ~RefuseUnparsable(r) /\ ~IsFragment(r)
      /\ ~RelayNonTls(r)
  BY <1>2
  DEF RelayEmptyChallenge, BreakOffDrain, RefuseUnparsable, IsFragment, RelayNonTls, Answering
<1>8. QED
  BY <1>4, <1>5, <1>6, <1>7 DEF Answer, PullNextFragment, RelayRecord, RefuseOversizeUpstream

(* A part of its own flight the station is asked for, or of the server's.  *)
LEMMA RoundPieces ==
  ASSUME NEW U, NEW f, NEW p, Whole(U, f, p), UnderWay(p)
  PROVE  /\ Upto(DownFlight(f, p), 0) = <<>> /\ Upto(UpFlight(f, p), 0) = <<>>
         /\ \A size : CutFrom(UpFlight(f, p), Len(UpFlight(f, p)), size) = <<>>
<1>1. UpFlight(f, p) \in Seq(U) /\ DownFlight(f, p) \in Seq(U)
  BY DEF Whole
<1>2. PICK up : up = UpFlight(f, p)
  OBVIOUS
<1>3. Len(up) \in Nat
  BY <1>1, <1>2
<1>4. \A size : CutFrom(up, Len(up), size) = <<>>
  BY <1>3 DEF CutFrom
<1>5. ASSUME NEW record \in Seq(U) PROVE Upto(record, 0) = <<>>
  <2>1. 0 \in 0 .. Len(record) /\ 0 \in 0 .. 0
    OBVIOUS
  <2>2. QED
    BY <2>1, UptoParts
<1>6. QED
  BY <1>1, <1>2, <1>4, <1>5

(* The server has gone on from v to x, in its answer r to the part of its  *)
(* flight, or to the ACK, that the station sent in one packet.             *)
PassedOn(f, p, v, x, r) ==
  \/ \E b \in Nat :
       /\ p.rx = <<>> /\ p.tx = CutFrom(UpFlight(f, p), b, PeerFragmentSize)
       /\ v.tx = <<>> /\ Len(v.got) = Len(p.got) /\ b > 0
       /\ \/ MovesUp(v, x, r, UpFlight(f, p), b)
          \/ /\ MovesRound(v, x, r, UpFlight(f, p), DownFlight(f, p), b)
             /\ Len(x.got) = Len(v.got) + 1
  \/ \E a, k \in Nat \ {0} :
       /\ p.tx = <<>> /\ p.rx = Upto(DownFlight(f, p), a)
       /\ v.rx = <<>> /\ Len(v.got) = Len(p.got) + 1
       /\ MovesDown(v, x, r, DownFlight(f, p), a, k)

(* In passthrough what the server says next reaches the station as it is.  *)
LEMMA VerbatimMoves ==
  ASSUME ~Reassembling, NEW U, NEW f, NEW p, Whole(U, f, p), NEW t, NEW talks,
         NEW c \in DOMAIN talks, NEW v, NEW x, x = talks[c], NEW r,
         Moves(c, v, x, r), Linked(t, c, x), UnderWay(p), PassedOn(f, p, v, x, r)
  PROVE  Challenged(f, p, t, talks, r.eap)
<1>1. PICK up : up = UpFlight(f, p)
  OBVIOUS
<1>2. PICK down : down = DownFlight(f, p)
  OBVIOUS
<1>3. PICK eap : eap = r.eap
  OBVIOUS
<1>4. /\ Upto(down, 0) = <<>> /\ Upto(up, 0) = <<>>
      /\ \A size : CutFrom(up, Len(up), size) = <<>>
  BY <1>1, <1>2, RoundPieces
<1>5. x.id \in Identifier /\ eap.id = x.id
  BY <1>3 DEF Moves
<1>6. ASSUME NEW b \in Nat, p.rx = <<>>, p.tx = CutFrom(up, b, PeerFragmentSize),
             v.tx = <<>>, Len(v.got) = Len(p.got), b > 0, MovesUp(v, x, r, up, b)
      PROVE  Challenged(f, p, t, talks, eap)
  <2>1. b < Len(up) /\ eap = AckPacket(x.id) /\ x.rx = Upto(up, b) /\ x.tx = v.tx /\ x.got = v.got
    BY <1>3, <1>6 DEF MovesUp
  <2>2. eap.data = <<>> /\ IsAck(eap)
    BY <2>1, <1>5, AckNotNil
  <2>3. Bids(f, p, eap, b)
    BY <1>1, <1>6, <2>1, <2>2 DEF Bids
  <2>4. AwaitsUp(f, p, t, talks[c], b)
    BY <1>1, <1>6, <2>1 DEF AwaitsUp
  <2>5. QED
    BY <1>5, <2>2, <2>3, <2>4 DEF Challenged
<1>7. ASSUME NEW b \in Nat, p.rx = <<>>, p.tx = CutFrom(up, b, PeerFragmentSize),
             Len(v.got) = Len(p.got), MovesRound(v, x, r, up, down, b),
             Len(x.got) = Len(v.got) + 1
      PROVE  Challenged(f, p, t, talks, eap)
  <2>1. PICK e \in Nat \ {0}, k \in Nat \ {0} :
          x.tx = CutFrom(down, e, k) /\ Piece(down, 0, e, eap)
    BY <1>3, <1>7 DEF MovesRound
  <2>2. b = Len(up) /\ x.rx = <<>>
    BY <1>7 DEF MovesRound
  <2>3. p.tx = <<>> /\ p.rx = Upto(down, 0)
    BY <1>4, <1>7, <2>2
  <2>4. Len(talks[c].got) = Len(p.got) + 1
    BY <1>7
  <2>5. AwaitsDown(f, p, t, talks[c], e)
    BY <1>2, <2>1, <2>2, <2>4 DEF AwaitsDown
  <2>6. 0 \in Nat /\ e \in Nat
    OBVIOUS
  <2>7. QED
    BY <1>2, <1>5, <2>1, <2>3, <2>4, <2>5, <2>6 DEF Challenged
<1>8. ASSUME NEW a \in Nat \ {0}, NEW k \in Nat \ {0}, p.tx = <<>>, p.rx = Upto(down, a),
             v.rx = <<>>, Len(v.got) = Len(p.got) + 1, MovesDown(v, x, r, down, a, k)
      PROVE  Challenged(f, p, t, talks, eap)
  <2>1. PICK b \in Nat : x.tx = CutFrom(down, b, k) /\ a < b /\ Piece(down, a, b, eap)
    BY <1>3, <1>8 DEF MovesDown
  <2>2. x.rx = <<>> /\ Len(talks[c].got) = Len(p.got) + 1
    BY <1>8 DEF MovesDown
  <2>3. AwaitsDown(f, p, t, talks[c], b)
    BY <1>2, <2>1, <2>2 DEF AwaitsDown
  <2>4. QED
    BY <1>2, <1>5, <1>8, <2>1, <2>2, <2>3 DEF Challenged
<1>9. QED
  BY <1>1, <1>2, <1>3, <1>6, <1>7, <1>8 DEF PassedOn

(* The proxy's answer to a Response of a station in conversation c, which  *)
(* was v and is x, when it passes packets through.                         *)
LEMMA PassTurn ==
  ASSUME ~Reassembling, Alphabet, TestbedInv, FlightsCarryData, NEW st \in Stations,
         NEW f, NEW p, NEW s, NEW t, NEW d, NEW r, NEW q, Answering(f, p, s, t, d, r, Of(st)),
         NEW c, NEW v, Talking(st, f, p, c, v, q), q.eap.id = v.id,
         NEW talks, c \in DOMAIN talks, talks[c] = server'[c],
         Minds(f, p, s, v, handler, q.eap), handler.rest \in Seq(Seq(Unit)),
         server' = Proceed(c, q).server, r = Proceed(c, q).reply, Answer(r)
  PROVE  Turn(f, p, talks, d)
<1>1. handler.pc = "passthrough" /\ Speaking(f, p, s, v, q.eap) /\ v.id = p.id
  BY DEF Answering, Minds
<1>2. PICK x : x = server'[c]
  OBVIOUS
<1>3. Whole(Of(st), f, p) /\ Learnt(t, s, r) /\ s.result = Nil
  BY DEF Answering
<1>4. CASE Through(p) /\ p.tx = <<>> /\ p.rx = <<>> /\ IsAck(q.eap) /\ AwaitsUp(f, p, s, v, 0)
  <2>1. r = Verdicts(c, v, "accept", v.id).reply
    BY <1>4, LastAckVerdict DEF AwaitsUp, Talking
  <2>2. r.code = "accept" /\ r.state = Nil /\ r.eap = Bare("success", v.id)
    BY <2>1 DEF Verdicts
  <2>3. r.eap \in Packet(Unit) /\ r.eap.id = p.id /\ "accept" \in Verdict
    <3>1. p.id \in Identifier /\ "success" \in Kind
      BY DEF Answering, Kind
    <3>2. QED
      BY <3>1, <1>1, <2>2, BareType DEF Bare, Verdict
  <2>4. QED
    BY <1>4, <2>2, <2>3, VerdictTurn
<1>5. CASE UnderWay(p)
  <2>1. v.got \in Seq(Seq(Of(st)))
    BY <1>5, TalkingFlights DEF Conversation
  <2>2. Len(v.got) \in Nat
    BY <2>1
  <2>3. \/ \E a, b \in Nat :
             /\ Piece(UpFlight(f, p), a, b, q.eap) /\ p.rx = <<>>
             /\ p.tx = CutFrom(UpFlight(f, p), b, PeerFragmentSize)
             /\ v.tx = <<>> /\ Len(v.got) = Len(p.got) /\ v.rx = Upto(UpFlight(f, p), a)
        \/ /\ IsAck(q.eap) /\ p.tx = <<>>
           /\ \E a, k \in Nat \ {0} :
                /\ a < Len(DownFlight(f, p)) /\ p.rx = Upto(DownFlight(f, p), a)
                /\ v.rx = <<>> /\ Len(v.got) = Len(p.got) + 1
                /\ v.tx = CutFrom(DownFlight(f, p), a, k)
    BY <1>1, <1>5 DEF Speaking, AwaitsUp, AwaitsDown, UnderWay, Through
  <2>4. Moves(c, v, x, r) /\ PassedOn(f, p, v, x, r)
    <3>1. ASSUME NEW a \in Nat, NEW b \in Nat, Piece(UpFlight(f, p), a, b, q.eap),
                 Len(v.got) = Len(p.got), v.rx = Upto(UpFlight(f, p), a)
          PROVE  /\ Moves(c, v, x, r) /\ b > 0
                 /\ \/ MovesUp(v, x, r, UpFlight(f, p), b)
                    \/ /\ MovesRound(v, x, r, UpFlight(f, p), DownFlight(f, p), b)
                       /\ Len(x.got) = Len(v.got) + 1
      <4>1. Moves(c, v, x, r) /\ (\/ MovesUp(v, x, r, UpFlight(f, p), b)
                                  \/ MovesRound(v, x, r, UpFlight(f, p), DownFlight(f, p), b))
        BY <1>2, <1>5, <3>1, PieceMoves
      <4>2. MovesRound(v, x, r, UpFlight(f, p), DownFlight(f, p), b) => Len(x.got) = Len(v.got) + 1
        <5>1. UpFlight(f, p) \in Seq(Of(st))
          BY <1>3, <1>5 DEF Whole
        <5>2. PICK up \in Seq(Of(st)) : up = UpFlight(f, p)
          BY <5>1
        <5>3. Len(Append(v.got, up)) = Len(v.got) + 1
          BY <2>1
        <5>4. QED
          BY <5>2, <5>3 DEF MovesRound
      <4>3. b > 0
        BY <3>1 DEF Piece
      <4>4. QED
        BY <4>1, <4>2, <4>3
    <3>2. ASSUME NEW a \in Nat \ {0}, NEW k \in Nat \ {0}, IsAck(q.eap),
                 a < Len(DownFlight(f, p)), v.tx = CutFrom(DownFlight(f, p), a, k)
          PROVE  Moves(c, v, x, r) /\ MovesDown(v, x, r, DownFlight(f, p), a, k)
      BY <1>2, <1>5, <3>2, AckMoves
    <3>3. QED
      BY <2>3, <3>1, <3>2 DEF PassedOn
  <2>5. Linked(t, c, x) /\ t.result = Nil
    BY <1>3, <2>4, LearntLinked
  <2>6. Challenged(f, p, t, talks, r.eap)
    BY <1>2, <1>3, <1>5, <2>4, <2>5, VerbatimMoves
  <2>7. /\ r.code = "challenge" /\ r.eap # Nil /\ r.eap.kind = "tls" /\ r.eap.id # p.id
    BY <1>1, <2>4, FreshId DEF Moves, Answering
  <2>8. Telling(f, p, t, talks, "challenge", r.eap)
    BY <2>6, <2>7 DEF Telling
  <2>9. Reply(d, t, "challenge", r.eap)
    <3>1. RelayVerbatim(r)
      BY <1>1 DEF Answer, ForwardNextChunk, Conclude, RelayEmptyChallenge, BreakOffDrain,
                  RefuseUnparsable, PullNextFragment, RelayRecord, RefuseOversizeUpstream,
                  IsFragment, Settling, RelayNonTls
    <3>2. r.code \notin Verdict /\ r.code # "reject"
      BY <2>7 DEF Verdict
    <3>3. QED
      BY <2>7, <3>1, <3>2 DEF RelayVerbatim, Answering
  <2>10. QED
    BY <2>5, <2>8, <2>9, AnsweringKey, ReplyTurn
<1>6. QED
  BY <1>1, <1>4, <1>5 DEF Speaking

(* The reassembler of the server's flights fed with its answer.            *)
Fed(w, t, reasm) ==
  /\ w \in SessionType /\ Kept(w) /\ w.key = t.key
  /\ w.radius_state = t.radius_state /\ w.result = t.result
  /\ w.upstream_last_eap_req_id = t.upstream_last_eap_req_id
  /\ w.up_reasm = t.up_reasm /\ w.down_reasm = reasm
  /\ w.down_outbox = t.down_outbox
  /\ w.down_next_id = t.down_next_id /\ w.down_last_req_id = t.down_last_req_id

LEMMA DownFed ==
  ASSUME NEW t \in SessionType, Kept(t), NEW eap \in Packet(Unit),
         NEW reasm, reasm = Ingest(t.down_reasm, eap).reasm
  PROVE  Fed([t EXCEPT !.down_reasm = reasm], t, reasm) /\ reasm \in Reassembler(Unit)
<1>1. t.down_reasm \in Reassembler(Unit)
  BY DEF SessionType
<1>2. reasm \in Reassembler(Unit)
  BY <1>1, IngestType
<1>3. PICK w : w = [t EXCEPT !.down_reasm = reasm]
  OBVIOUS
<1>4. /\ w.radius_state = t.radius_state /\ w.result = t.result /\ w.key = t.key
      /\ w.upstream_last_eap_req_id = t.upstream_last_eap_req_id
      /\ w.up_reasm = t.up_reasm /\ w.down_reasm = reasm
      /\ w.down_outbox = t.down_outbox /\ w.downstream_state = t.downstream_state
      /\ w.down_next_id = t.down_next_id /\ w.down_last_req_id = t.down_last_req_id
  BY <1>3 DEF SessionType
<1>5. w \in SessionType
  BY <1>2, <1>3 DEF SessionType
<1>6. Kept(w)
  BY <1>4, <1>5 DEF Kept, KeptBelow
<1>7. QED
  BY <1>2, <1>3, <1>4, <1>5, <1>6 DEF Fed

(* r brings units a + 1 to b of the server's flight, the first a being     *)
(* with the proxy, the rest still with the server.                         *)
Bringing(f, p, s, x, r, a, b, k) ==
  /\ UnderWay(p) /\ p.tx = <<>> /\ p.rx = <<>>
  /\ Len(x.got) = Len(p.got) + 1 /\ x.rx = <<>>
  /\ StartsRecord(s.up_reasm) /\ s.down_outbox = <<>>
  /\ Piece(DownFlight(f, p), a, b, r.eap) /\ Gathers(s.down_reasm, DownFlight(f, p), a)
  /\ x.tx = CutFrom(DownFlight(f, p), b, k)

(* It is not the last: the proxy asks for the next.                        *)
LEMMA DrainTurn ==
  ASSUME Reassembling, NEW U, NEW f, NEW p, NEW s, NEW t, NEW d, NEW r,
         Answering(f, p, s, t, d, r, U), r.eap \in Packet(Unit),
         NEW c, NEW v, NEW talks, c \in DOMAIN talks, Moves(c, v, talks[c], r),
         NEW a, NEW b, NEW k \in Nat \ {0}, Bringing(f, p, s, talks[c], r, a, b, k),
         PullNextFragment(r)
  PROVE  Turn(f, p, talks, d)
<1>1. PICK x : x = talks[c]
  OBVIOUS
<1>2. PICK reasm : reasm = Ingest(t.down_reasm, r.eap).reasm
  OBVIOUS
<1>3. /\ KeyOf(d)[1] # "new" /\ t \in SessionType /\ Kept(t) /\ t.key = KeyOf(d)
      /\ t.down_next_id = p.id /\ t.down_last_req_id = p.id
  BY AnsweringKey
<1>4. Linked(t, c, x) /\ Learnt(t, s, r)
  BY <1>1, LearntLinked DEF Answering
<1>5. PICK w : w = [t EXCEPT !.down_reasm = reasm]
  OBVIOUS
<1>6. Fed(w, t, reasm)
  BY <1>2, <1>3, <1>5, DownFed
<1>7. PICK e : e = Echoed(w)
  OBVIOUS
<1>8. /\ e \in SessionType /\ e.key = w.key /\ Similar(e, w)
      /\ e.down_next_id = w.down_next_id /\ e.down_last_req_id = w.down_last_req_id
      /\ w.upstream_last_eap_req_id # Nil => EchoId(w) = w.upstream_last_eap_req_id
      /\ EchoId(w) \in Identifier
  BY <1>6, <1>7, EchoedSimilar DEF Fed
<1>9. PICK eap : eap = AckPacket(EchoId(w))
  OBVIOUS
<1>10. eap.kind = "tls" /\ eap.id = EchoId(w) /\ IsAck(eap)
  BY <1>8, <1>9, AckNotNil
<1>11. Ask(d, e, "drain", eap, <<>>)
  BY <1>2, <1>5, <1>7, <1>9 DEF PullNextFragment, AskAck, Answering
<1>12. PICK h : h = [pc |-> "drain", key |-> e.key, datagram |-> d, rest |-> <<>>]
  OBVIOUS
<1>13. /\ h.pc = "drain" /\ h.key = KeyOf(d) /\ h.datagram = d /\ h.rest = <<>>
       /\ Requesting(p, d) /\ d.state # Nil /\ e.key = KeyOf(d)
       /\ e.down_next_id = p.id /\ e.down_last_req_id = p.id
  BY <1>3, <1>6, <1>8, <1>12 DEF Answering, Fed
<1>14. PICK down : down = DownFlight(f, p)
  OBVIOUS
<1>15. /\ UnderWay(p) /\ p.tx = <<>> /\ p.rx = <<>>
       /\ Len(x.got) = Len(p.got) + 1 /\ x.rx = <<>>
       /\ StartsRecord(s.up_reasm) /\ s.down_outbox = <<>>
       /\ Piece(down, a, b, r.eap) /\ Gathers(s.down_reasm, down, a)
       /\ x.tx = CutFrom(down, b, k)
  BY <1>1, <1>14 DEF Bringing
<1>16. down \in Seq(U)
  BY <1>14, <1>15 DEF Answering, Whole
<1>17. Gathers(reasm, down, b) /\ b > 0 /\ b < Len(down) /\ b \in Nat
  <2>1. Gathers(t.down_reasm, down, a)
    BY <1>4, <1>15 DEF Learnt
  <2>2. Ingest(t.down_reasm, r.eap).verdict = "more"
    BY DEF PullNextFragment, Answering
  <2>3. Gathers(Ingest(t.down_reasm, r.eap).reasm, down, b) /\ b > 0 /\ b < Len(down)
    BY <2>1, <2>2, <1>15, <1>16, PieceIngested
  <2>4. QED
    BY <2>3, <1>2, <1>15 DEF Piece
<1>18. Draining(f, p, e, x, eap)
  <2>1. /\ StartsRecord(e.up_reasm) /\ e.down_outbox = <<>> /\ e.down_reasm = reasm
    BY <1>4, <1>6, <1>8, <1>15 DEF Learnt, Fed, Similar
  <2>2. b \in Nat \ {0}
    BY <1>17
  <2>3. QED
    BY <2>1, <2>2, <1>10, <1>14, <1>15, <1>17 DEF Draining
<1>19. Linked(e, c, x) /\ eap.id = x.id
  BY <1>4, <1>6, <1>8, <1>10, FreshId DEF Linked, Fed, Similar
<1>20. HandlerFine(f, p, e, talks, h, eap)
  BY <1>1, <1>10, <1>13, <1>18, <1>19 DEF HandlerFine, Minds
<1>21. QED
  BY <1>3, <1>8, <1>11, <1>12, <1>13, <1>20, AskTurn

(* It is the last: the flight is cut anew for the station.                 *)
LEMMA RelayTurn ==
  ASSUME Reassembling, NEW U, NEW f, NEW p, NEW s, NEW t, NEW d, NEW r,
         Answering(f, p, s, t, d, r, U), r.eap \in Packet(Unit),
         NEW c, NEW v, NEW talks, c \in DOMAIN talks, Moves(c, v, talks[c], r),
         NEW a, NEW b, NEW k \in Nat \ {0}, Bringing(f, p, s, talks[c], r, a, b, k),
         RelayRecord(r)
  PROVE  Turn(f, p, talks, d)
<1>1. PICK x : x = talks[c]
  OBVIOUS
<1>2. PICK in : in = Ingest(t.down_reasm, r.eap)
  OBVIOUS
<1>3. /\ KeyOf(d)[1] # "new" /\ t \in SessionType /\ Kept(t) /\ t.key = KeyOf(d)
      /\ t.down_next_id = p.id /\ t.result = Nil
      /\ p.status = "waiting" /\ d.authenticator = p.request.authenticator
  BY AnsweringKey
<1>4. Linked(t, c, x) /\ Learnt(t, s, r) /\ U \in SUBSET Unit /\ p.id \in Identifier
  BY <1>1, LearntLinked DEF Answering
<1>5. PICK w : w = [t EXCEPT !.down_reasm = in.reasm]
  OBVIOUS
<1>6. Fed(w, t, in.reasm)
  BY <1>2, <1>3, <1>5, DownFed
<1>7. PICK down : down = DownFlight(f, p)
  OBVIOUS
<1>8. /\ UnderWay(p) /\ p.tx = <<>> /\ p.rx = <<>>
      /\ Len(x.got) = Len(p.got) + 1 /\ x.rx = <<>>
      /\ StartsRecord(s.up_reasm) /\ s.down_outbox = <<>>
      /\ Piece(down, a, b, r.eap) /\ Gathers(s.down_reasm, down, a)
      /\ x.tx = CutFrom(down, b, k)
  BY <1>1, <1>7 DEF Bringing
<1>9. down \in Seq(U) /\ Len(down) > 0
  BY <1>7, <1>8 DEF Answering, Whole
<1>10. in.reasm.buffer = down /\ StartsRecord(in.reasm) /\ b = Len(down)
  <2>1. Gathers(t.down_reasm, down, a)
    BY <1>4, <1>8 DEF Learnt
  <2>2. in.verdict # "error" /\ ~r.eap.more
    BY <1>2 DEF RelayRecord, Answering
  <2>3. /\ in.verdict \in {"more", "done", "error"}
        /\ in.verdict = "more" => r.eap.more
        /\ in.verdict = "done" =>
             in.reasm.buffer = down /\ StartsRecord(in.reasm) /\ b = Len(down)
    BY <2>1, <1>2, <1>8, <1>9, PieceIngested
  <2>4. QED
    BY <2>2, <2>3
<1>11. PICK chunks : chunks = Fragment(down, DownstreamFragmentSize)
  OBVIOUS
<1>12. chunks = CutFrom(down, 0, DownstreamFragmentSize)
  <2>1. 0 \in 0 .. Len(down) /\ 0 \in 0 .. 0 /\ 0 + 1 = 1
    BY <1>9
  <2>2. SubSeq(down, 0 + 1, Len(down)) = down
    BY <1>9, <2>1, UptoParts DEF Upto
  <2>3. QED
    BY <2>2, <1>9, <1>11 DEF CutFrom
<1>13. PICK e \in Nat :
         /\ Tail(chunks) = CutFrom(down, e, DownstreamFragmentSize)
         /\ \A id, length : Piece(down, 0, e, Frame(id, length, Len(chunks) > 1, Head(chunks)))
  BY <1>9, <1>12, NextPiece, FragmentSizeAssumption
<1>14. chunks \in Seq(Seq(U)) /\ chunks # <<>>
  BY <1>9, <1>12, NextPiece, FragmentSizeAssumption
<1>15. PICK id : id = NextId(p.id)
  OBVIOUS
<1>16. id \in Identifier /\ id # p.id
  BY <1>4, <1>15, FreshId
<1>17. PICK length \in Nat \cup {Nil} : length = Len(down)
  BY <1>9
<1>18. PICK eap : eap = Frame(id, length, Len(chunks) > 1, Head(chunks))
  OBVIOUS
<1>19. eap # Nil /\ eap.kind = "tls" /\ eap.id = id /\ Piece(down, 0, e, eap)
  BY <1>4, <1>13, <1>14, <1>16, <1>18, ChunkFrame
<1>20. PICK tail : tail = Tail(chunks)
  OBVIOUS
<1>21. PICK y : y = [w EXCEPT !.down_next_id = id, !.down_outbox = tail]
  OBVIOUS
<1>22. Reply(d, y, "challenge", eap)
  <2>1. PICK w2 : w2 = [w EXCEPT !.down_outbox = chunks]
    OBVIOUS
  <2>2. w2.down_outbox = chunks /\ w2.down_next_id = p.id
    BY <1>3, <1>6, <2>1 DEF Fed, SessionType
  <2>3. [w2 EXCEPT !.down_next_id = id, !.down_outbox = tail] = y
    BY <1>6, <1>21, <2>1 DEF Fed, SessionType
  <2>4. ReplyFragment(d, w2, length)
    BY <1>2, <1>5, <1>10, <1>11, <1>17, <2>1 DEF RelayRecord, ReplyRecord, Answering
  <2>5. QED
    BY <1>15, <1>18, <1>20, <2>2, <2>3, <2>4 DEF ReplyFragment
<1>23. /\ y.key = w.key /\ y.result = w.result /\ y.radius_state = w.radius_state
       /\ y.upstream_last_eap_req_id = w.upstream_last_eap_req_id
       /\ y.up_reasm = w.up_reasm /\ y.down_reasm = w.down_reasm /\ y.down_outbox = tail
       /\ y.downstream_state = w.downstream_state
  BY <1>6, <1>21 DEF Fed, SessionType
<1>24. Kept(y) /\ y.key = KeyOf(d)
  <2>1. tail \in Seq(Seq(Unit))
    <3>1. tail \in Seq(Seq(U)) /\ Seq(U) \subseteq Seq(Unit)
      BY <1>4, <1>14, <1>20
    <3>2. QED
      BY <3>1
  <2>2. y \in SessionType
    BY <1>6, <1>16, <1>21, <2>1 DEF Fed, SessionType
  <2>3. QED
    BY <2>2, <1>3, <1>6, <1>23 DEF Kept, KeptBelow, Fed
<1>25. Linked(y, c, x) /\ y.result = Nil
  BY <1>3, <1>4, <1>6, <1>23 DEF Linked, Fed
<1>26. AwaitsDown(f, p, y, x, e)
  <2>1. x.tx = <<>>
    BY <1>8, <1>9, <1>10 DEF CutFrom
  <2>2. /\ StartsRecord(y.up_reasm) /\ StartsRecord(y.down_reasm)
        /\ y.down_outbox = CutFrom(down, e, DownstreamFragmentSize)
    BY <1>4, <1>6, <1>8, <1>10, <1>13, <1>20, <1>23 DEF Learnt, Fed
  <2>3. QED
    BY <2>1, <2>2, <1>7, <1>8 DEF AwaitsDown
<1>27. Upto(down, 0) = <<>>
  BY <1>4, <1>7, <1>8, RoundPieces DEF Answering
<1>28. Challenged(f, p, y, talks, eap)
  <2>1. 0 \in Nat /\ p.rx = Upto(down, 0)
    BY <1>8, <1>27
  <2>2. QED
    BY <2>1, <1>1, <1>7, <1>8, <1>19, <1>25, <1>26 DEF Challenged
<1>29. Telling(f, p, y, talks, "challenge", eap)
  BY <1>16, <1>19, <1>28 DEF Telling
<1>30. QED
  BY <1>3, <1>22, <1>24, <1>25, <1>29, ReplyTurn

LEMMA FragmentTurn ==
  ASSUME Reassembling, NEW U, NEW f, NEW p, NEW s, NEW t, NEW d, NEW r,
         Answering(f, p, s, t, d, r, U), r.eap \in Packet(Unit), handler.rest = <<>>,
         NEW c, NEW v, NEW talks, c \in DOMAIN talks, Moves(c, v, talks[c], r),
         NEW a, NEW b, NEW k \in Nat \ {0}, Bringing(f, p, s, talks[c], r, a, b, k),
         Answer(r)
  PROVE  Turn(f, p, talks, d)
<1>1. /\ r.code = "challenge" /\ r.code \notin Verdict /\ r.eap # Nil /\ r.eap.kind = "tls"
      /\ handler.pc \notin {"non_tls", "passthrough"}
  BY DEF Moves, Verdict, Answering
<1>2. PullNextFragment(r) \/ RelayRecord(r) \/ RefuseOversizeUpstream(r)
  BY <1>1 DEF Answer, ForwardNextChunk, Conclude, RelayEmptyChallenge, BreakOffDrain,
              RefuseUnparsable, RelayNonTls, RelayVerbatim
<1>3. CASE PullNextFragment(r)
  BY <1>3, DrainTurn
<1>4. CASE RelayRecord(r)
  BY <1>4, RelayTurn
<1>5. CASE RefuseOversizeUpstream(r)
  <2>1. PICK reasm : reasm = Ingest(t.down_reasm, r.eap).reasm
    OBVIOUS
  <2>2. PICK w : w = [t EXCEPT !.down_reasm = reasm]
    OBVIOUS
  <2>3. w.key = KeyOf(d)
    BY <2>1, <2>2, DownFed, AnsweringKey DEF Fed
  <2>4. Raise(w)
    BY <1>5, <2>1, <2>2 DEF RefuseOversizeUpstream, Answering
  <2>5. QED
    BY <2>3, <2>4, AnsweringKey, RaiseTurn
<1>6. QED
  BY <1>2, <1>3, <1>4, <1>5

(* The same for a proxy that gathers flights: it is forwarding a flight of *)
(* the station, or drawing one from the server.                            *)
LEMMA GatherTurn ==
  ASSUME Reassembling, Alphabet, TestbedInv, FlightsCarryData, NEW st \in Stations,
         NEW f, NEW p, NEW s, NEW t, NEW d, NEW r, NEW q, Answering(f, p, s, t, d, r, Of(st)),
         NEW c, NEW v, Talking(st, f, p, c, v, q), q.eap.id = v.id,
         NEW talks, c \in DOMAIN talks, talks[c] = server'[c],
         Minds(f, p, s, v, handler, q.eap), handler.rest \in Seq(Seq(Unit)),
         server' = Proceed(c, q).server, r = Proceed(c, q).reply, r.eap \in Packet(Unit),
         Answer(r)
  PROVE  Turn(f, p, talks, d)
<1>1. \/ handler.pc = "forward" /\ Forwarding(f, p, s, v, q.eap, handler.rest)
      \/ handler.pc = "drain" /\ handler.rest = <<>> /\ Draining(f, p, s, v, q.eap)
  BY DEF Minds, Answering
<1>2. PICK x : x = server'[c]
  OBVIOUS
<1>3. Whole(Of(st), f, p) /\ Learnt(t, s, r) /\ s.result = Nil
  BY DEF Answering
<1>4. p.tx = <<>> /\ p.rx = <<>> /\ StartsRecord(s.up_reasm) /\ s.down_outbox = <<>>
  BY <1>1 DEF Forwarding, Draining
<1>5. CASE /\ handler.pc = "forward" /\ Through(p) /\ IsAck(q.eap) /\ v.tx = <<>>
           /\ Len(v.got) = Len(p.got)
  <2>1. r = Verdicts(c, v, "accept", v.id).reply
    BY <1>5, LastAckVerdict DEF Talking
  <2>2. r.code = "accept" /\ r.state = Nil
    BY <2>1 DEF Verdicts
  <2>3. "accept" \in Verdict
    BY DEF Verdict
  <2>4. QED
    BY <1>4, <1>5, <2>2, <2>3, VerdictTurn
<1>6. UnderWay(p) => v.got \in Seq(Seq(Of(st))) /\ Len(v.got) \in Nat
  <2>1. UnderWay(p) => v.got \in Seq(Seq(Of(st)))
    BY TalkingFlights DEF Conversation
  <2>2. QED
    BY <2>1
<1>7. ASSUME handler.pc = "forward", UnderWay(p), Len(v.got) = Len(p.got), v.tx = <<>>,
             StartsRecord(s.down_reasm),
             NEW a, NEW b, Piece(UpFlight(f, p), a, b, q.eap), v.rx = Upto(UpFlight(f, p), a),
             handler.rest = CutFrom(UpFlight(f, p), b, UpstreamFragmentSize)
      PROVE  Turn(f, p, talks, d)
  <2>1. PICK up : up = UpFlight(f, p)
    OBVIOUS
  <2>2. PICK down : down = DownFlight(f, p)
    OBVIOUS
  <2>3. up \in Seq(Of(st)) /\ down \in Seq(Of(st)) /\ Len(up) > 0 /\ Len(down) > 0
    BY <1>3, <1>7, <2>1, <2>2 DEF Whole
  <2>4. b \in Nat /\ b <= Len(up)
    BY <1>7, <2>1 DEF Piece
  <2>5. Moves(c, v, x, r) /\ (MovesUp(v, x, r, up, b) \/ MovesRound(v, x, r, up, down, b))
    BY <1>2, <1>7, <2>1, <2>2, PieceMoves
  <2>6. Linked(t, c, x)
    BY <1>3, <2>5, LearntLinked
  <2>7. CASE MovesUp(v, x, r, up, b)
    <3>1. PICK rest : rest = handler.rest
      OBVIOUS
    <3>2. /\ b < Len(up) /\ r.eap = AckPacket(x.id)
          /\ x.rx = Upto(up, b) /\ x.tx = v.tx /\ x.got = v.got
      BY <2>7 DEF MovesUp
    <3>3. rest = CutFrom(up, b, UpstreamFragmentSize)
      BY <1>7, <2>1, <3>1
    <3>4. PICK e \in Nat :
            /\ Tail(rest) = CutFrom(up, e, UpstreamFragmentSize)
            /\ \A id, length : Piece(up, b, e, Frame(id, length, Len(rest) > 1, Head(rest)))
      BY <2>3, <2>4, <3>2, <3>3, NextPiece, FragmentSizeAssumption
    <3>5. rest # <<>>
      BY <2>3, <2>4, <3>2, <3>3, NextPiece, FragmentSizeAssumption
    <3>6. /\ StartsRecord(t.up_reasm) /\ StartsRecord(t.down_reasm) /\ t.down_outbox = <<>>
      BY <1>3, <1>4, <1>7 DEF Learnt
    <3>7. ASSUME NEW id, NEW length
          PROVE  Forwarding(f, p, t, x, Frame(id, length, Len(rest) > 1, Head(rest)), Tail(rest))
      <4>1. Piece(up, b, e, Frame(id, length, Len(rest) > 1, Head(rest)))
        BY <3>4
      <4>2. QED
        BY <4>1, <1>4, <1>7, <2>1, <2>4, <3>2, <3>4, <3>6 DEF Forwarding
    <3>8. ForwardNextChunk(r)
      <4>1. ~Settling /\ handler.pc \notin {"non_tls", "passthrough", "drain"}
        BY <1>7, <3>1, <3>5 DEF Settling
      <4>2. QED
        BY <4>1 DEF Answer, Conclude, RelayEmptyChallenge, BreakOffDrain, IsFragment,
                    RefuseUnparsable, PullNextFragment, RelayRecord, RefuseOversizeUpstream,
                    RelayNonTls, RelayVerbatim
    <3>9. QED
      BY <1>2, <2>6, <3>1, <3>7, <3>8, ForwardTurn
  <2>8. CASE MovesRound(v, x, r, up, down, b)
    <3>1. /\ b = Len(up) /\ x.rx = <<>> /\ x.got = Append(v.got, up)
      BY <2>8 DEF MovesRound
    <3>2. PICK e \in Nat \ {0}, k \in Nat \ {0} :
            x.tx = CutFrom(down, e, k) /\ Piece(down, 0, e, r.eap)
      BY <2>8 DEF MovesRound
    <3>3. handler.rest = <<>>
      BY <1>7, <2>1, <2>3, <3>1 DEF CutFrom
    <3>4. Len(x.got) = Len(p.got) + 1
      <4>1. PICK got \in Seq(Seq(Of(st))) : got = v.got
        BY <1>6, <1>7
      <4>2. Len(Append(got, up)) = Len(got) + 1
        BY <2>3
      <4>3. QED
        BY <1>7, <3>1, <4>1, <4>2
    <3>5. Gathers(s.down_reasm, down, 0)
      BY <1>7 DEF Gathers
    <3>6. Bringing(f, p, s, x, r, 0, e, k)
      BY <1>4, <1>7, <2>2, <3>1, <3>2, <3>4, <3>5 DEF Bringing
    <3>7. QED
      BY <1>2, <2>5, <3>3, <3>6, FragmentTurn
  <2>9. QED
    BY <2>5, <2>7, <2>8
<1>8. ASSUME handler.pc = "drain", handler.rest = <<>>, UnderWay(p), IsAck(q.eap),
             Len(v.got) = Len(p.got) + 1, v.rx = <<>>,
             NEW a \in Nat \ {0}, NEW k \in Nat \ {0}, a < Len(DownFlight(f, p)),
             Gathers(s.down_reasm, DownFlight(f, p), a), v.tx = CutFrom(DownFlight(f, p), a, k)
      PROVE  Turn(f, p, talks, d)
  <2>1. PICK down : down = DownFlight(f, p)
    OBVIOUS
  <2>2. Moves(c, v, x, r) /\ MovesDown(v, x, r, down, a, k)
    BY <1>2, <1>8, <2>1, AckMoves
  <2>3. PICK b \in Nat : x.tx = CutFrom(down, b, k) /\ Piece(down, a, b, r.eap)
    BY <2>2 DEF MovesDown
  <2>4. x.rx = <<>> /\ x.got = v.got
    BY <1>8, <2>2 DEF MovesDown
  <2>5. Bringing(f, p, s, x, r, a, b, k)
    BY <1>4, <1>8, <2>1, <2>3, <2>4 DEF Bringing
  <2>6. QED
    BY <1>2, <1>8, <2>2, <2>5, FragmentTurn
<1>9. CASE handler.pc = "forward" /\ Forwarding(f, p, s, v, q.eap, handler.rest)
  BY <1>5, <1>7, <1>9 DEF Forwarding
<1>10. CASE handler.pc = "drain" /\ handler.rest = <<>> /\ Draining(f, p, s, v, q.eap)
  BY <1>8, <1>10 DEF Draining
<1>11. QED
  BY <1>1, <1>9, <1>10

(* The server takes the station up on its Identity.                        *)
LEMMA IntroducedTurn ==
  ASSUME NEW U, NEW f, NEW p, Whole(U, f, p), p.id \in Identifier, NEW d, Requesting(p, d),
         NEW known, Introduces(p, known, d), handler.pc = "non_tls", handler.datagram = d,
         NEW s, s.key = KeyOf(d), Blank(s), NEW t, NEW r, t = Blocked(r), Learnt(t, s, r),
         Current(t, d), NEW c, NEW talks, c \in DOMAIN talks, Moves(c, d.eap, talks[c], r),
         Begins(talks[c], r), Answer(r)
  PROVE  Turn(f, p, talks, d)
<1>1. PICK x : x = talks[c]
  OBVIOUS
<1>2. /\ r.code = "challenge" /\ r.eap # Nil /\ r.eap.kind = "tls" /\ r.eap.id = x.id
      /\ x.id = NextId(p.id)
  BY <1>1 DEF Moves, Requesting
<1>3. r.eap.id # p.id /\ r.eap.data = <<>> /\ r.eap.start
  BY <1>2, FreshId DEF Begins
<1>4. Linked(t, c, x) /\ t.result = Nil
  BY <1>1, LearntLinked DEF Blank
<1>5. Kept(t) /\ t.key = KeyOf(d)
  BY DEF Current, Learnt
<1>6. Reply(d, t, "challenge", r.eap)
  <2>1. RelayNonTls(r)
    BY DEF Answer, ForwardNextChunk, Conclude, RelayEmptyChallenge, BreakOffDrain, RefuseUnparsable,
           PullNextFragment, RelayRecord, RefuseOversizeUpstream, IsFragment, Settling,
           RelayVerbatim
  <2>2. r.code \notin Verdict
    BY <1>2 DEF Verdict
  <2>3. QED
    BY <1>2, <2>1, <2>2 DEF RelayNonTls
<1>7. p.got = <<>> /\ p.tx = <<>> /\ p.rx = <<>>
  BY DEF Introduces
<1>8. Upto(UpFlight(f, p), 0) = <<>>
  <2>1. UnderWay(p) \/ Through(p)
    <3>1. Len(p.got) = 0 /\ FlightCount \in Nat
      BY <1>7, TestbedAssumption
    <3>2. QED
      BY <3>1 DEF UnderWay, Through
  <2>2. UpFlight(f, p) \in Seq(U)
    BY <2>1 DEF Whole
  <2>3. PICK up \in Seq(U) : up = UpFlight(f, p)
    BY <2>2
  <2>4. 0 \in 0 .. Len(up) /\ 0 \in 0 .. 0
    OBVIOUS
  <2>5. Upto(up, 0) = <<>>
    BY <2>4, UptoParts
  <2>6. QED
    BY <2>3, <2>5
<1>9. AwaitsUp(f, p, t, x, 0)
  BY <1>1, <1>7, <1>8 DEF AwaitsUp, Begins, Learnt, Blank, Gathers
<1>10. Bids(f, p, r.eap, 0)
  BY <1>3, <1>7 DEF Bids
<1>11. Challenged(f, p, t, talks, r.eap)
  <2>1. 0 \in Nat
    OBVIOUS
  <2>2. QED
    BY <2>1, <1>1, <1>2, <1>3, <1>4, <1>9, <1>10 DEF Challenged
<1>12. Telling(f, p, t, talks, "challenge", r.eap)
  BY <1>2, <1>3, <1>11 DEF Telling
<1>13. QED
  BY <1>4, <1>5, <1>6, <1>12, ReplyTurn DEF Requesting

(* What the handler of st's request has to go by.                          *)
LEMMA HandlerAnswering ==
  ASSUME Alphabet, TestbedInv, FlightsCarryData, handler # Nil, NEW st \in Stations,
         st = handler.datagram.authenticator[1], NEW f, f = Flights(st), NEW p, p = peer[st],
         NEW known, NEW s, s = sessions[handler.key], NEW d, d = handler.datagram,
         HandlerFine(f, p, s, known, handler, upstream.eap), handler.pc # "non_tls",
         NEW r \in ServerReply, r.code = "accept" => r.keyed
  PROVE  Answering(f, p, s, Blocked(r), d, r, Of(st))
<1>1. /\ handler.key \in DOMAIN sessions /\ s.key = handler.key /\ d \in Datagram
  BY DEF TestbedInv, ProxyInv, TypeOK, HandlerCoherent, HandlerType, TableCoherent
<1>2. /\ Requesting(p, d) /\ handler.key = KeyOf(d) /\ d.state # Nil
      /\ s.down_next_id = p.id /\ (Reassembling => s.down_last_req_id = p.id)
      /\ handler.pc = "passthrough" <=> ~Reassembling
      /\ s.result = Nil
  BY DEF HandlerFine, Dead, Linked
<1>3. p.id \in Identifier
  <2>1. d.eap \in Packet(Unit)
    BY <1>1 DEF Datagram
  <2>2. d.eap.id = p.id
    BY <1>2, Zenon DEF Requesting
  <2>3. QED
    BY <2>1, <2>2 DEF Packet
<1>4. Whole(Of(st), f, p)
  <2>1. p.got \in Seq(Seq(Of(st))) /\ script \in [Stations -> Scripts]
    BY DEF TestbedInv, PeerTypeOK, Peer
  <2>2. QED
    BY <2>1, FlightFacts DEF Whole
<1>5. Of(st) \in SUBSET Unit
  BY OfUnits
<1>6. PICK t : t = Blocked(r)
  OBVIOUS
<1>7. Learnt(t, s, r) /\ Current(t, d)
  BY <1>6, BlockedFields DEF TestbedInv
<1>8. QED
  BY <1>1, <1>2, <1>3, <1>4, <1>5, <1>6, <1>7 DEF Answering

(* Whatever the server answers, the station is where it may be.            *)
LEMMA AnswerTurn ==
  ASSUME Alphabet, TestbedInv, TunnelInv, FlightsCarryData, handler # Nil,
         NEW st \in Stations, st = handler.datagram.authenticator[1],
         HandlerFine(Flights(st), peer[st], sessions[handler.key], Talks(st), handler,
                     upstream.eap),
         NEW o \in Outcomes(upstream), server' = o.server, Answer(o.reply)
  PROVE  Turn(Flights(st), peer[st], Talks(st)', handler.datagram)
<1>1. PICK f : f = Flights(st)
  OBVIOUS
<1>2. PICK p : p = peer[st]
  OBVIOUS
<1>3. PICK known : known = Talks(st)
  OBVIOUS
<1>4. PICK talks : talks = Talks(st)'
  OBVIOUS
<1>5. PICK s : s = sessions[handler.key]
  OBVIOUS
<1>6. PICK d : d = handler.datagram
  OBVIOUS
<1>7. PICK q : q = upstream
  OBVIOUS
<1>8. PICK r : r = o.reply
  OBVIOUS
<1>9. PICK t : t = Blocked(r)
  OBVIOUS
<1>10. /\ r \in ServerReply /\ (r.code = "accept" => r.keyed) /\ r.eap \in Packet(Unit)
  <2>1. Fits(o, upstream, st)
    BY UpstreamOwned
  <2>2. Of(st) \in SUBSET Unit /\ {} \in SUBSET Unit
    BY OfUnits
  <2>3. r.eap \in Packet({}) \/ r.eap \in Packet(Of(st))
    BY <2>1, <1>8 DEF Fits
  <2>4. r.eap \in Packet(Unit)
    BY <2>2, <2>3, Widens
  <2>5. QED
    BY <2>1, <2>4, <1>8 DEF Fits
<1>11. /\ handler \in HandlerType /\ s.key = handler.key
       /\ q \in UpstreamType /\ q.state = s.radius_state /\ q.eap \in Packet(Of(st))
       /\ IsIdentity(q.eap) => q.eap.data[1][1] = st
  BY <1>5, <1>7 DEF TestbedInv, ProxyInv, TypeOK, HandlerCoherent, TableCoherent, Owned, HandlerOwned
<1>12. handler.rest \in Seq(Seq(Unit)) /\ d \in Datagram /\ q.attrs \in Attributes
  BY <1>6, <1>11 DEF HandlerType, UpstreamType
<1>13. HandlerFine(f, p, s, known, handler, q.eap)
  BY <1>1, <1>2, <1>3, <1>5, <1>7
<1>14. script \in [Stations -> Scripts] /\ ServerTypeOK
  BY DEF TestbedInv, PeerTypeOK
<1>15. CASE /\ handler.pc = "non_tls" /\ Introduces(p, known, d)
            /\ q.eap = d.eap /\ o = Converse(q)
  <2>1. q.eap.data[1][1] = st /\ q.eap.id \in Identifier
    BY <1>11, <1>15 DEF Introduces, Packet
  <2>2. server' = Converse(q).server /\ r = Converse(q).reply
    BY <1>8, <1>15
  <2>3. PICK c : c = Len(server) + 1
    OBVIOUS
  <2>4. DOMAIN Talks(st)' = DOMAIN Talks(st) \cup {c}
    BY <1>14, <2>1, <2>2, <2>3, ConverseTalks
  <2>5. Moves(c, d.eap, server'[c], r) /\ Begins(server'[c], r)
    BY <1>14, <1>15, <2>1, <2>2, <2>3, ConverseTalks
  <2>6. c \in DOMAIN talks /\ talks[c] = server'[c]
    BY <1>4, <2>4 DEF Talks
  <2>7. Requesting(p, d) /\ s.key = KeyOf(d) /\ KeyOf(d)[1] = "new"
    BY <1>6, <1>11, <1>13, <1>15 DEF HandlerFine, Introduces, KeyOf
  <2>8. Blank(s)
    <3>1. s.key \in DOMAIN sessions
      BY <1>11 DEF TestbedInv, ProxyInv, HandlerCoherent
    <3>2. QED
      BY <3>1, <2>7, <1>5, <1>11 DEF TunnelInv
  <2>9. p.id \in Identifier
    BY <1>12, <2>7 DEF Requesting, Datagram, Packet
  <2>10. Whole(Of(st), f, p)
    <3>1. p.got \in Seq(Seq(Of(st)))
      BY <1>2 DEF TestbedInv, PeerTypeOK, Peer
    <3>2. QED
      BY <3>1, <1>1, <1>14, FlightFacts DEF Whole
  <2>11. Learnt(t, s, r) /\ Current(t, d)
    BY <1>5, <1>6, <1>9, <1>10, BlockedFields DEF TestbedInv
  <2>12. QED
    BY <1>1, <1>2, <1>4, <1>6, <1>8, <1>9, <1>15, <2>5, <2>6, <2>7, <2>8, <2>9, <2>10, <2>11,
       IntroducedTurn
<1>16. ASSUME handler.pc # "non_tls"
       PROVE  Answering(f, p, s, t, d, r, Of(st))
  BY <1>1, <1>2, <1>5, <1>6, <1>7, <1>9, <1>10, <1>13, <1>16, HandlerAnswering
<1>17. CASE handler.pc # "non_tls" /\ Dead(s) /\ o = NoSuchConversation(q)
  <2>1. /\ r.code = "reject" /\ r.state = Nil /\ r.eap = Bare("failure", q.eap.id)
    BY <1>8, <1>17 DEF NoSuchConversation
  <2>2. "reject" \in Verdict /\ r.code # "accept"
    BY <2>1 DEF Verdict
  <2>3. s.down_outbox = <<>>
    BY <1>17 DEF Dead
  <2>4. Turn(f, p, talks, d)
    BY <1>8, <1>10, <1>12, <1>16, <1>17, <2>1, <2>2, <2>3, VerdictTurn
  <2>5. QED
    BY <2>4, <1>1, <1>2, <1>4, <1>6
<1>18. ASSUME handler.pc # "non_tls", NEW c \in DOMAIN known, Linked(s, c, known[c]),
              q.eap.id = known[c].id, Minds(f, p, s, known[c], handler, q.eap),
              \/ o = Proceed(c, q) \/ o = Verdicts(c, known[c], "reject", known[c].id)
       PROVE  Turn(f, p, talks, d)
  <2>1. PICK v : v = known[c]
    OBVIOUS
  <2>2. c \in DOMAIN server /\ server[c].st = st /\ v = server[c]
    BY <1>3, <1>18, <2>1, TalksFacts
  <2>3. Talking(st, f, p, c, v, q)
    BY <1>1, <1>2, <1>12, <1>18, <2>1, <2>2 DEF Talking, Linked
  <2>4. Answering(f, p, s, t, d, r, Of(st))
    BY <1>16, <1>18
  <2>5. CASE o = Verdicts(c, known[c], "reject", known[c].id)
    <3>1. r.code = "reject" /\ r.state = Nil /\ r.eap = Bare("failure", v.id)
      BY <1>8, <2>1, <2>5 DEF Verdicts
    <3>2. "reject" \in Verdict /\ r.code # "accept"
      BY <3>1 DEF Verdict
    <3>3. Reassembling => s.down_outbox = <<>>
      BY <1>18, <2>4 DEF Minds, Answering, Forwarding, Draining
    <3>4. QED
      BY <1>8, <1>10, <1>12, <2>4, <3>1, <3>2, <3>3, VerdictTurn
  <2>6. CASE o = Proceed(c, q)
    <3>1. server' = Proceed(c, q).server /\ r = Proceed(c, q).reply
      BY <1>8, <2>6
    <3>2. c \in DOMAIN talks /\ talks[c] = server'[c]
      <4>1. Grows(server, server')
        BY UpstreamOwned DEF Fits
      <4>2. c \in DOMAIN server' /\ server'[c].st = st
        BY <4>1, <2>2 DEF Grows
      <4>3. QED
        BY <4>2, <1>4 DEF Talks
    <3>3. CASE Reassembling
      BY <1>8, <1>10, <1>12, <1>18, <2>1, <2>3, <2>4, <3>1, <3>2, <3>3, GatherTurn
    <3>4. CASE ~Reassembling
      BY <1>8, <1>10, <1>12, <1>18, <2>1, <2>3, <2>4, <3>1, <3>2, <3>4, PassTurn
    <3>5. QED
      BY <3>3, <3>4
  <2>7. QED
    BY <1>18, <2>5, <2>6
<1>19. QED
  BY <1>1, <1>2, <1>3, <1>4, <1>5, <1>6, <1>7, <1>13, <1>15, <1>17, <1>18, HandlersOutcome

-----------------------------------------------------------------------------
(* The steps of server and proxy, and what may go wrong with them.         *)

(* The fault is no repetition.                                             *)
LEMMA SpentElsewhere ==
  ASSUME NoRepeats, NEW fault, fault \in {"loss", "timeout", "restart"}, Spend(fault)
  PROVE  NoRepeats'
BY DEF NoRepeats, Spend

(* The request the proxy is blocked on.                                    *)
LEMMA Blocking ==
  ASSUME Alphabet, TestbedInv, TunnelInv, handler # Nil
  PROVE  LET d == handler.datagram
             st == handler.datagram.authenticator[1]
         IN  /\ st \in Stations /\ d \in Datagram
             /\ d.state # Nil => Quoting(d.state, st)
             /\ handler.key = KeyOf(d) /\ handler.key \in DOMAIN sessions
             /\ sessions[handler.key].key = handler.key
             /\ HandlerFine(Flights(st), peer[st], sessions[handler.key], Talks(st), handler,
                            upstream.eap)
             /\ peer[st].status # "off"
             /\ RepliesOf(st) = {} /\ RequestsOf(st) = {} /\ OnlyOneTalk(st)
             /\ \A b : Handles(b) => b = st
<1>1. PICK d : d = handler.datagram
  OBVIOUS
<1>2. PICK st : st = d.authenticator[1]
  OBVIOUS
<1>3. d \in Datagram /\ handler.key \in DOMAIN sessions /\ sessions[handler.key].key = handler.key
  BY <1>1 DEF TestbedInv, ProxyInv, TypeOK, HandlerCoherent, HandlerType, TableCoherent
<1>4. st \in Stations
  BY <1>2, <1>3 DEF Datagram, Alphabet
<1>5. Handles(st) /\ \A b : Handles(b) => b = st
  BY <1>1, <1>2 DEF Handles
<1>6. Course(st)
  BY <1>4 DEF TunnelInv
<1>7. HandlerFine(Flights(st), peer[st], sessions[handler.key], Talks(st), handler, upstream.eap)
  BY <1>5, <1>6 DEF Course
<1>8. RepliesOf(st) = {} /\ RequestsOf(st) = {} /\ OnlyOneTalk(st)
  BY <1>5, <1>6 DEF Course, OneAtATime, OnlyOneTalk
<1>9. peer[st].status # "off" /\ handler.key = KeyOf(d)
  BY <1>1, <1>7 DEF HandlerFine, Requesting
<1>10. d.state # Nil => Quoting(d.state, st)
  BY <1>1, <1>7 DEF Quoting, HandlerFine, Requesting
<1>11. QED
  BY <1>1, <1>2, <1>3, <1>4, <1>5, <1>7, <1>8, <1>9, <1>10

(* A turn of the handler with everything but server and proxy left alone.  *)
LEMMA BlockedTurn ==
  ASSUME Alphabet, TestbedInv, TunnelInv, handler # Nil, NEW st,
         st = handler.datagram.authenticator[1],
         script' = script, peer' = peer, inbox' = inbox, NoRepeats',
         OnlyOneTalk(st)', \A b : b # st => Talks(b)' = Talks(b),
         Turn(Flights(st), peer[st], Talks(st)', handler.datagram)
  PROVE  TunnelInv'
<1>1. PICK d : d = handler.datagram
  OBVIOUS
<1>2. /\ st \in Stations /\ d \in Datagram /\ st = d.authenticator[1]
      /\ d.state # Nil => Quoting(d.state, st)
      /\ peer[st].status # "off"
      /\ RepliesOf(st) = {} /\ RequestsOf(st) = {}
      /\ \A b : Handles(b) => b = st
  BY <1>1, Blocking
<1>3. \A b : RequestsOf(b)' = RequestsOf(b)
  BY DEF RequestsOf, InFlight
<1>4. Apart'
  BY DEF TunnelInv, Apart
<1>5. \A c, e \in DOMAIN Talks(st)' : c = e
  BY DEF OnlyOneTalk
<1>6. QED
  BY <1>1, <1>2, <1>3, <1>4, <1>5, TurnCourses

LEMMA ServerStepTunnel ==
  ASSUME Alphabet, TestbedInv, TunnelInv, FlightsCarryData, ServerStep PROVE TunnelInv'
<1>1. PICK st : st = handler.datagram.authenticator[1]
  OBVIOUS
<1>2. PICK o \in Outcomes(upstream) : server' = o.server /\ Answer(o.reply)
  BY DEF ServerStep
<1>3. handler # Nil
  BY <1>2 DEF Answer
<1>4. /\ script' = script /\ peer' = peer /\ inbox' = inbox /\ budget' = budget
  BY DEF ServerStep
<1>5. /\ st \in Stations /\ OnlyOneTalk(st)
      /\ HandlerFine(Flights(st), peer[st], sessions[handler.key], Talks(st), handler,
                     upstream.eap)
  BY <1>1, <1>3, Blocking
<1>6. OnlyOneTalk(st)' /\ \A b : b # st => Talks(b)' = Talks(b)
  BY <1>1, <1>2, <1>3, <1>5, OutcomeTalks
<1>7. Turn(Flights(st), peer[st], Talks(st)', handler.datagram)
  BY <1>1, <1>2, <1>3, <1>5, AnswerTurn
<1>8. NoRepeats'
  BY <1>4 DEF TunnelInv, NoRepeats
<1>9. QED
  BY <1>1, <1>3, <1>4, <1>6, <1>7, <1>8, BlockedTurn

(* The request times out, whether or not the server has seen it.           *)
LEMMA TimeOutTunnel ==
  ASSUME Alphabet, TestbedInv, TunnelInv, TimeOut PROVE TunnelInv'
<1>1. PICK st : st = handler.datagram.authenticator[1]
  OBVIOUS
<1>2. PICK d : d = handler.datagram
  OBVIOUS
<1>3. PICK s : s = sessions[handler.key]
  OBVIOUS
<1>4. /\ handler # Nil /\ Raise(s)
      /\ script' = script /\ peer' = peer /\ inbox' = inbox
      /\ server' = server \/ \E o \in Outcomes(upstream) : server' = o.server
  BY <1>3 DEF TimeOut, UpstreamTimeout
<1>5. /\ st \in Stations /\ d \in Datagram /\ OnlyOneTalk(st)
      /\ handler.key = KeyOf(d) /\ handler.key \in DOMAIN sessions /\ s.key = KeyOf(d)
      /\ HandlerFine(Flights(st), peer[st], sessions[handler.key], Talks(st), handler,
                     upstream.eap)
  BY <1>1, <1>2, <1>3, <1>4, Blocking
<1>6. OnlyOneTalk(st)' /\ \A b : b # st => Talks(b)' = Talks(b)
  <2>1. CASE server' = server
    <3>1. \A b : Talks(b)' = Talks(b)
      BY <2>1 DEF Talks
    <3>2. QED
      BY <3>1, <1>5 DEF OnlyOneTalk
  <2>2. ASSUME NEW o \in Outcomes(upstream), server' = o.server
        PROVE  OnlyOneTalk(st)' /\ \A b : b # st => Talks(b)' = Talks(b)
    BY <1>1, <1>4, <1>5, <2>2, OutcomeTalks
  <2>3. QED
    BY <1>4, <2>1, <2>2
<1>7. KeyOf(d)[1] = "new" => Blank(s)
  BY <1>3, <1>5 DEF TunnelInv
<1>8. Turn(Flights(st), peer[st], Talks(st)', handler.datagram)
  BY <1>2, <1>4, <1>5, <1>7, RaiseTurn
<1>9. NoRepeats'
  BY SpentElsewhere DEF TimeOut, TunnelInv
<1>10. QED
  BY <1>1, <1>4, <1>6, <1>8, <1>9, BlockedTurn

LEMMA LossesTunnel ==
  ASSUME TestbedInv, TunnelInv, LoseDatagram \/ LoseReply \/ RestartProxy PROVE TunnelInv'
<1>1. NoRepeats'
  BY SpentElsewhere DEF LoseDatagram, LoseReply, RestartProxy, TunnelInv
<1>2. CASE LoseDatagram
  <2>1. /\ inbox # <<>> /\ inbox' = Tail(inbox)
        /\ sessions' = sessions /\ handler' = handler /\ upstream' = upstream /\ toAp' = toAp
        /\ script' = script /\ peer' = peer /\ server' = server
    BY <1>2 DEF LoseDatagram, proxyVars
  <2>2. Apart' /\ \A st : RequestsOf(st)' \subseteq RequestsOf(st)
    BY <2>1, InboxTail DEF TestbedInv, PeerTypeOK, TunnelInv
  <2>3. QED
    BY <1>1, <2>1, <2>2, LossTunnel
<1>3. CASE LoseReply \/ RestartProxy
  <2>1. /\ inbox' = inbox /\ script' = script /\ peer' = peer /\ server' = server
        /\ toAp' \subseteq toAp
        /\ \/ sessions' = sessions /\ handler' = handler /\ upstream' = upstream
           \/ sessions' = <<>> /\ handler' = Nil
    BY <1>3 DEF LoseReply, RestartProxy, Restart
  <2>2. Apart' /\ \A st : RequestsOf(st)' \subseteq RequestsOf(st)
    BY <2>1 DEF TunnelInv, Apart, RequestsOf, InFlight
  <2>3. QED
    BY <1>1, <2>1, <2>2, LossTunnel
<1>4. QED
  BY <1>2, <1>3

-----------------------------------------------------------------------------
(* What a station sends.                                                   *)

LEMMA StandingAlike ==
  ASSUME NEW f, NEW p, NEW q, q.tx = p.tx, q.rx = p.rx, q.got = p.got, NEW s, NEW talks,
         NEW eap, Standing(f, p, s, talks, eap)
  PROVE  Standing(f, q, s, talks, eap)
<1>1. /\ UpFlight(f, q) = UpFlight(f, p) /\ DownFlight(f, q) = DownFlight(f, p)
      /\ UnderWay(q) <=> UnderWay(p)
      /\ Through(q) <=> Through(p)
  BY DEF UpFlight, DownFlight, UnderWay, Through
<1>2. \A v, a : /\ AwaitsUp(f, p, s, v, a) => AwaitsUp(f, q, s, v, a)
                /\ AwaitsDown(f, p, s, v, a) => AwaitsDown(f, q, s, v, a)
  BY <1>1 DEF AwaitsUp, AwaitsDown
<1>3. \A v : Speaking(f, p, s, v, eap) => Speaking(f, q, s, v, eap)
  BY <1>1, <1>2 DEF Speaking
<1>4. QED
  BY <1>3 DEF Standing

(* Nothing of the proxy or the server changes, and no reply comes.         *)
Apartly(st) ==
  /\ sessions' = sessions /\ handler' = handler /\ upstream' = upstream
  /\ script' = script /\ server' = server /\ NoRepeats'
  /\ toAp' \subseteq toAp /\ RequestsOf(st) = {} /\ RepliesOf(st)' = {} /\ ~Handles(st)

(* The courses of the others are theirs.                                   *)
LEMMA OthersKeep ==
  ASSUME TunnelInv, NEW st \in Stations, Apartly(st), Apart',
         \A b \in Stations : b # st =>
           peer'[b] = peer[b] /\ RequestsOf(b)' \subseteq RequestsOf(b),
         Course(st)'
  PROVE  TunnelInv'
<1>1. \A k : Steady(k)
  BY DEF Apartly, Steady
<1>2. \A b : Talks(b)' = Talks(b) /\ RepliesOf(b)' \subseteq RepliesOf(b)
  BY DEF Apartly, Talks, RepliesOf
<1>3. \A b : Handles(b)' => /\ Handles(b) /\ handler' = handler /\ upstream' = upstream
                            /\ sessions'[handler.key] = sessions[handler.key]
  BY DEF Apartly, Handles
<1>4. ASSUME NEW b \in Stations, b # st PROVE Course(b)'
  <2>1. Course(b) /\ script' = script
    BY DEF TunnelInv, Apartly
  <2>2. QED
    BY <1>1, <1>2, <1>3, <1>4, <2>1, CourseKept
<1>5. \A k \in DOMAIN sessions' : k[1] = "new" => Blank(sessions'[k])
  BY DEF Apartly, TunnelInv
<1>6. QED
  BY <1>4, <1>5 DEF TunnelInv, Apartly

(* Station st, being q, sends eap in a request that is as it may be.       *)
LEMMA SentTunnel ==
  ASSUME Alphabet, TestbedInv, TunnelInv, NEW st \in Stations, Apartly(st),
         NEW q \in Peer(st), NEW state \in Nat \cup {Nil}, NEW eap, Speaks(st, state, eap),
         Transmit(st, Sending(st, q, state, eap)),
         \/ state = Nil /\ Introduces(q, Talks(st), [state |-> Nil, eap |-> eap])
         \/ /\ state # Nil /\ eap.kind = "tls"
            /\ Standing(Flights(st), q, Get(sessions, StateKey(state)), Talks(st), eap)
  PROVE  TunnelInv' /\ peer'[st].got = q.got /\ peer'[st].status = "waiting"
<1>1. PICK p : p = Sending(st, q, state, eap)
  OBVIOUS
<1>2. PICK d : d = p.request
  OBVIOUS
<1>3. p \in Peer(st) /\ OfStation(d, st) /\ d.state = state
  BY <1>1, <1>2, SendingType
<1>4. /\ p.status = "waiting" /\ p.id = eap.id /\ d.eap = eap
      /\ p.tx = q.tx /\ p.rx = q.rx /\ p.got = q.got
  BY <1>1, <1>2 DEF Sending, Peer
<1>5. DOMAIN peer = Stations /\ peer' = [peer EXCEPT ![st] = p] /\ inbox' = Append(inbox, d)
  BY <1>1, <1>2 DEF Transmit, TestbedInv, PeerTypeOK
<1>6. peer'[st] = p /\ \A b \in Stations : b # st => peer'[b] = peer[b]
  BY <1>5
<1>7. d \in Datagram /\ d.authenticator[1] = st /\ inbox \in Seq(Datagram)
  BY <1>3 DEF OfStation, TestbedInv, PeerTypeOK
<1>8. /\ Apart' /\ RequestsOf(st)' = {d}
      /\ \A b : b # st => RequestsOf(b)' = RequestsOf(b)
  BY <1>5, <1>7, InboxAppend DEF Apartly, TunnelInv
<1>9. /\ Talks(st)' = Talks(st) /\ Flights(st)' = Flights(st) /\ ~Handles(st)'
      /\ sessions' = sessions /\ RepliesOf(st)' = {}
  BY FlightsKept DEF Apartly, Talks, Handles
<1>10. PICK f : f = Flights(st)
  OBVIOUS
<1>11. PICK talks : talks = Talks(st)
  OBVIOUS
<1>12. RequestFine(f, p, Get(sessions, KeyOf(d)), talks, d)
  <2>1. Requesting(p, d)
    BY <1>2, <1>4 DEF Requesting
  <2>2. CASE state = Nil /\ Introduces(q, talks, [state |-> Nil, eap |-> eap])
    <3>1. Introduces(p, talks, d)
      BY <2>2, <1>3, <1>4 DEF Introduces
    <3>2. QED
      BY <2>1, <3>1 DEF RequestFine
  <2>3. CASE /\ state # Nil /\ eap.kind = "tls"
             /\ Standing(f, q, Get(sessions, StateKey(state)), talks, eap)
    <3>1. KeyOf(d) = StateKey(state) /\ IsTls(d) /\ d.state # Nil
      BY <2>3, <1>3, <1>4 DEF KeyOf, IsTls
    <3>2. Standing(f, p, Get(sessions, StateKey(state)), talks, eap)
      BY <2>3, <1>4, StandingAlike
    <3>3. QED
      BY <2>1, <3>1, <3>2, <1>4 DEF RequestFine
  <2>4. QED
    BY <2>2, <2>3, <1>10, <1>11
<1>13. RequestFine(Flights(st), peer[st], Get(sessions, KeyOf(d)), Talks(st), d)'
  BY <1>6, <1>9, <1>10, <1>11, <1>12
<1>14. /\ \A c, e \in DOMAIN Talks(st)' : c = e
       /\ peer'[st].status # "off"
  BY <1>4, <1>6, <1>9 DEF TunnelInv, Course
<1>15. Course(st)'
  BY <1>8, <1>9, <1>13, <1>14, CourseTaken
<1>16. QED
  BY <1>4, <1>6, <1>8, <1>15, OthersKeep

(* Some conversation, if the session is in one, awaits the station's next  *)
(* flight from the unit after a on, or has brought it the first a of the   *)
(* server's.                                                               *)
OpenUp(f, p, s, talks, id, a) ==
  \/ Dead(s)
  \/ \E c \in DOMAIN talks :
       /\ Linked(s, c, talks[c]) /\ (~Reassembling => id = talks[c].id)
       /\ AwaitsUp(f, p, s, talks[c], a)
OpenDown(f, p, s, talks, id, a) ==
  \/ Dead(s)
  \/ \E c \in DOMAIN talks :
       /\ Linked(s, c, talks[c]) /\ (~Reassembling => id = talks[c].id)
       /\ AwaitsDown(f, p, s, talks[c], a)

(* The answer of a station, which has then received the records got.       *)
Said(st, f, s, talks, m, got) ==
  \E q \in Peer(st), eap \in Packet(Of(st)) :
    /\ eap.kind = "tls" /\ q.got = got
    /\ Transmit(st, Sending(st, q, m.state, eap))
    /\ Standing(f, q, s, talks, eap)

LEMMA SpokenStands ==
  ASSUME NEW f, NEW p, NEW q, q.got = p.got, NEW s, NEW talks, NEW eap, NEW a, NEW b,
         q.rx = <<>>, UnderWay(p),
         Piece(UpFlight(f, p), a, b, eap), q.tx = CutFrom(UpFlight(f, p), b, PeerFragmentSize),
         OpenUp(f, p, s, talks, eap.id, a)
  PROVE  Standing(f, q, s, talks, eap)
<1>1. UpFlight(f, q) = UpFlight(f, p) /\ UnderWay(q)
  BY DEF UpFlight, UnderWay
<1>2. a \in Nat /\ b \in Nat
  BY DEF Piece
<1>3. \A v : AwaitsUp(f, p, s, v, a) => AwaitsUp(f, q, s, v, a)
  BY <1>1 DEF AwaitsUp
<1>4. \A v : AwaitsUp(f, p, s, v, a) => Speaking(f, q, s, v, eap)
  BY <1>1, <1>2, <1>3 DEF Speaking
<1>5. QED
  BY <1>4 DEF OpenUp, Standing

(* A flight, or the last ACK.                                              *)
LEMMA FlightSent ==
  ASSUME Alphabet, script \in [Stations -> Scripts], FlightsCarryData, NEW st \in Stations,
         NEW f, f = Flights(st), NEW p \in Peer(st), NEW s, NEW talks, NEW m,
         m.eap.id \in Identifier, NEW i \in Nat \ {0}, SendFlight(st, p, m, i),
         \/ Dead(s)
         \/ /\ p.tx = <<>> /\ p.rx = <<>> /\ (UnderWay(p) \/ Through(p))
            /\ i = 2 * Len(p.got) + 1
            /\ OpenUp(f, p, s, talks, m.eap.id, 0)
  PROVE  Said(st, f, s, talks, m, p.got)
<1>1. PICK id : id = m.eap.id
  OBVIOUS
<1>2. PICK flight : flight = Flight(st, i)
  OBVIOUS
<1>3. flight \in Seq(Of(st)) /\ PeerFragmentSize \in Nat \ {0} /\ FlightCount \in Nat
  BY <1>2, FlightType, TestbedAssumption
<1>4. p.got \in Seq(Seq(Of(st)))
  BY DEF Peer
<1>5. CASE i > FlightCount
  <2>1. PICK eap : eap = AckPacket(id)
    OBVIOUS
  <2>2. eap \in Packet(Of(st)) /\ eap.kind = "tls" /\ eap.id = id /\ IsAck(eap)
    <3>1. eap \in Packet(Of(st))
      BY <2>1, <1>1, AckPacketType
    <3>2. eap.kind = "tls" /\ eap.id = id /\ IsAck(eap)
      BY <2>1 DEF AckPacket, Frame, IsAck
    <3>3. QED
      BY <3>1, <3>2
  <2>3. Transmit(st, Sending(st, p, m.state, eap))
    BY <2>1, <1>1, <1>5 DEF SendFlight
  <2>4. Standing(f, p, s, talks, eap)
    <3>1. CASE Dead(s)
      BY <3>1 DEF Standing
    <3>2. CASE ~Dead(s)
      <4>1. /\ p.tx = <<>> /\ p.rx = <<>> /\ (UnderWay(p) \/ Through(p))
            /\ i = 2 * Len(p.got) + 1
            /\ OpenUp(f, p, s, talks, id, 0)
        BY <3>2, <1>1
      <4>2. ~UnderWay(p)
        <5>1. Len(p.got) \in Nat
          BY <1>4
        <5>2. \A n \in Nat : 2 * n + 1 > FlightCount => ~(2 * n < FlightCount)
          BY <1>3
        <5>3. QED
          BY <5>1, <5>2, <4>1, <1>5, Zenon DEF UnderWay
      <4>3. \A v : AwaitsUp(f, p, s, v, 0) => Speaking(f, p, s, v, eap)
        BY <4>1, <4>2, <2>2 DEF Speaking
      <4>4. QED
        BY <3>2, <4>1, <4>3, <2>2 DEF OpenUp, Standing
    <3>3. QED
      BY <3>1, <3>2
  <2>5. QED
    BY <2>2, <2>3, <2>4 DEF Said
<1>6. CASE ~(i > FlightCount)
  <2>1. PICK chunks : chunks = Fragment(flight, PeerFragmentSize)
    OBVIOUS
  <2>2. PICK eap : eap = FirstFragment(id, flight, chunks)
    OBVIOUS
  <2>3. PICK rest : rest = Tail(chunks)
    OBVIOUS
  <2>4. PICK q : q = [p EXCEPT !.tx = rest]
    OBVIOUS
  <2>5. Transmit(st, Sending(st, q, m.state, eap))
    BY <2>1, <2>2, <2>3, <2>4, <1>1, <1>2, <1>6 DEF SendFlight
  <2>6. rest \in Seq(Seq(Of(st))) /\ eap \in Packet(Of(st))
    BY <2>1, <2>2, <2>3, <1>1, <1>3, ChunksType
  <2>7. eap.kind = "tls" /\ eap.id = id
    BY <2>2 DEF FirstFragment, Frame
  <2>8. q \in Peer(st) /\ q.tx = rest /\ q.rx = p.rx /\ q.got = p.got
    BY <2>4, <2>6 DEF Peer
  <2>9. Standing(f, q, s, talks, eap)
    <3>1. CASE Dead(s)
      BY <3>1 DEF Standing
    <3>2. CASE ~Dead(s)
      <4>1. /\ p.rx = <<>> /\ (UnderWay(p) \/ Through(p))
            /\ i = 2 * Len(p.got) + 1
            /\ OpenUp(f, p, s, talks, id, 0)
        BY <3>2, <1>1
      <4>2. UnderWay(p)
        <5>1. Len(p.got) \in Nat
          BY <1>4
        <5>2. \A n \in Nat : ~(2 * n + 1 > FlightCount) => 2 * n # FlightCount
          BY <1>3
        <5>3. ~(2 * Len(p.got) + 1 > FlightCount)
          BY <4>1, <1>6, Zenon
        <5>4. QED
          BY <5>1, <5>2, <5>3, <4>1, Zenon DEF Through
      <4>3. UpFlight(f, p) = flight /\ Len(flight) > 0
        BY <4>1, <4>2, <1>2, <1>4, FlightFacts
      <4>4. CutFrom(flight, 0, PeerFragmentSize) = chunks
        <5>1. SubSeq(flight, 0 + 1, Len(flight)) = flight
          BY <1>3, SubSeqFull
        <5>2. QED
          BY <4>3, <5>1, <2>1 DEF CutFrom
      <4>5. PICK b \in Nat :
              /\ rest = CutFrom(flight, b, PeerFragmentSize)
              /\ \A x, length : Piece(flight, 0, b, Frame(x, length, Len(chunks) > 1, Head(chunks)))
        <5>1. 0 \in Nat /\ 0 < Len(flight)
          BY <4>3
        <5>2. QED
          BY <5>1, <4>4, <1>3, <2>3, NextPiece
      <4>6. Piece(flight, 0, b, eap)
        BY <4>5, <2>2 DEF FirstFragment
      <4>7. QED
        BY <4>1, <4>2, <4>3, <4>5, <4>6, <2>7, <2>8, SpokenStands
    <3>3. QED
      BY <3>1, <3>2
  <2>10. QED
    BY <2>5, <2>6, <2>7, <2>8, <2>9 DEF Said
<1>7. QED
  BY <1>5, <1>6

(* The next fragment of a flight.                                          *)
LEMMA FragmentSent ==
  ASSUME NEW st \in Stations, NEW f, NEW p \in Peer(st), NEW s, NEW talks, NEW m,
         m.eap.id \in Identifier, Whole(Of(st), f, p), p.tx # <<>>,
         NEW q, q = [p EXCEPT !.tx = Tail(@)],
         NEW eap, eap = NextFragment(m.eap.id, p.tx),
         Transmit(st, Sending(st, q, m.state, eap)),
         NEW a,
         \/ Dead(s)
         \/ /\ p.rx = <<>> /\ UnderWay(p) /\ a \in Nat /\ a < Len(UpFlight(f, p))
            /\ p.tx = CutFrom(UpFlight(f, p), a, PeerFragmentSize)
            /\ OpenUp(f, p, s, talks, m.eap.id, a)
  PROVE  Said(st, f, s, talks, m, p.got)
<1>1. p.tx \in Seq(Seq(Of(st)))
  BY DEF Peer
<1>2. Tail(p.tx) \in Seq(Seq(Of(st))) /\ eap \in Packet(Of(st))
  BY <1>1, NextFragmentType
<1>3. eap.kind = "tls" /\ eap.id = m.eap.id
  BY DEF NextFragment, Frame
<1>4. q \in Peer(st) /\ q.tx = Tail(p.tx) /\ q.rx = p.rx /\ q.got = p.got
  BY <1>2 DEF Peer
<1>5. Standing(f, q, s, talks, eap)
  <2>1. CASE Dead(s)
    BY <2>1 DEF Standing
  <2>2. CASE ~Dead(s)
    <3>1. /\ p.rx = <<>> /\ UnderWay(p) /\ a \in Nat /\ a < Len(UpFlight(f, p))
          /\ p.tx = CutFrom(UpFlight(f, p), a, PeerFragmentSize)
          /\ OpenUp(f, p, s, talks, m.eap.id, a)
      BY <2>2
    <3>2. PICK up : up = UpFlight(f, p)
      OBVIOUS
    <3>3. PICK n \in Nat : n = a
      BY <3>1
    <3>4. PICK chunks : chunks = CutFrom(up, n, PeerFragmentSize)
      OBVIOUS
    <3>5. /\ chunks = p.tx /\ up \in Seq(Of(st)) /\ PeerFragmentSize \in Nat \ {0}
          /\ n < Len(up)
      BY <3>1, <3>2, <3>3, <3>4, TestbedAssumption DEF Whole
    <3>6. PICK b \in Nat :
            /\ n < b /\ Tail(chunks) = CutFrom(up, b, PeerFragmentSize)
            /\ \A id, length : Piece(up, n, b, Frame(id, length, Len(chunks) > 1, Head(chunks)))
      <4>1. PICK U : U = Of(st)
        OBVIOUS
      <4>2. PICK record \in Seq(U) : record = up
        BY <3>5, <4>1
      <4>3. PICK size \in Nat \ {0} : size = PeerFragmentSize
        BY <3>5
      <4>4. n < Len(record) /\ chunks = CutFrom(record, n, size)
        BY <3>4, <3>5, <4>2, <4>3
      <4>5. \E b \in Nat :
              /\ n < b /\ Tail(chunks) = CutFrom(record, b, size)
              /\ \A id, length :
                   Piece(record, n, b, Frame(id, length, Len(chunks) > 1, Head(chunks)))
        BY <4>4, NextPiece
      <4>6. QED
        BY <4>2, <4>3, <4>5
    <3>7. Piece(up, n, b, eap)
      BY <3>5, <3>6 DEF NextFragment
    <3>8. q.tx = CutFrom(up, b, PeerFragmentSize) /\ OpenUp(f, p, s, talks, eap.id, n)
      BY <3>1, <3>3, <3>5, <3>6, <1>3, <1>4
    <3>9. QED
      BY <3>1, <3>2, <3>7, <3>8, <1>4, SpokenStands
  <2>3. QED
    BY <2>1, <2>2
<1>6. QED
  BY <1>2, <1>3, <1>4, <1>5 DEF Said

(* The server's flight has been brought: the next is the station's.        *)
LEMMA FlightBrought ==
  ASSUME NEW U, NEW f, NEW p, NEW got, got \in Seq(Seq(U)), p.got \in Seq(Seq(U)),
         Len(got) = Len(p.got) + 1, UnderWay(p), Whole(U, f, p),
         NEW q, q.got = got, UnderWay(q) \/ Through(q), Whole(U, f, q),
         NEW s, NEW talks, NEW id, OpenDown(f, p, s, talks, id, Len(DownFlight(f, p)))
  PROVE  OpenUp(f, q, s, talks, id, 0)
<1>1. PICK down : down = DownFlight(f, p)
  OBVIOUS
<1>2. PICK up : up = UpFlight(f, q)
  OBVIOUS
<1>3. down \in Seq(U) /\ up \in Seq(U)
  BY <1>1, <1>2 DEF Whole
<1>4. \A k : CutFrom(down, Len(down), k) = <<>>
  <2>1. ~(Len(down) < Len(down))
    BY <1>3
  <2>2. QED
    BY <2>1 DEF CutFrom
<1>5. Upto(up, 0) = <<>>
  <2>1. 0 \in 0 .. Len(up) /\ 0 \in 0 .. 0
    BY <1>3
  <2>2. QED
    BY <2>1, <1>3, UptoParts
<1>6. ASSUME NEW v, AwaitsDown(f, p, s, v, Len(down)) PROVE AwaitsUp(f, q, s, v, 0)
  <2>1. Len(v.got) = Len(q.got) /\ v.rx = <<>> /\ v.tx = <<>>
    BY <1>1, <1>4, <1>6 DEF AwaitsDown
  <2>2. CASE Reassembling
    BY <2>1, <2>2, <1>1, <1>4, <1>6 DEF AwaitsDown, AwaitsUp, Gathers
  <2>3. CASE ~Reassembling
    BY <2>1, <2>3, <1>2, <1>5 DEF AwaitsUp
  <2>4. QED
    BY <2>2, <2>3
<1>7. QED
  BY <1>1, <1>6 DEF OpenDown, OpenUp

(* A fragment of the server's flight is taken in.                          *)
LEMMA DataTaken ==
  ASSUME Alphabet, script \in [Stations -> Scripts], FlightsCarryData, NEW st \in Stations,
         NEW f, f = Flights(st), NEW p \in Peer(st), p = peer[st], NEW s, NEW talks, NEW m,
         m.eap.id \in Identifier, UnderWay(p), p.tx = <<>>,
         NEW a, NEW b, Piece(DownFlight(f, p), a, b, m.eap), p.rx = Upto(DownFlight(f, p), a),
         OpenDown(f, p, s, talks, m.eap.id, b), AnswerData(st, m)
  PROVE  \/ Said(st, f, s, talks, m, p.got)
         \/ Said(st, f, s, talks, m, Append(p.got, DownFlight(f, p)))
<1>1. PICK down : down = DownFlight(f, p)
  OBVIOUS
<1>2. PICK record : record = p.rx \o m.eap.data
  OBVIOUS
<1>3. PICK got : got = Append(p.got, record)
  OBVIOUS
<1>4. PICK id : id = m.eap.id
  OBVIOUS
<1>5. p.got \in Seq(Seq(Of(st)))
  BY DEF Peer
<1>6. /\ down = Flight(st, 2 * Len(p.got) + 2) /\ down \in Seq(Of(st)) /\ Len(down) > 0
  BY <1>1, <1>5, FlightFacts
<1>7. a \in Nat /\ b \in Nat /\ a < b /\ b <= Len(down) /\ (m.eap.more <=> b < Len(down))
  BY <1>1 DEF Piece
<1>8. record = Upto(down, b)
  <2>1. b \in 0 .. Len(down) /\ a \in 0 .. b
    BY <1>7
  <2>2. Joins(Upto(down, a), SubSeq(down, a + 1, b), Upto(down, b))
    BY <2>1, <1>6, UptoParts
  <2>3. m.eap.data = SubSeq(down, a + 1, b) /\ p.rx = Upto(down, a)
    BY <1>1 DEF Piece
  <2>4. QED
    BY <2>2, <2>3, <1>2 DEF Joins
<1>9. record \in Seq(Of(st))
  <2>1. b \in 0 .. Len(down)
    BY <1>7
  <2>2. b \in 0 .. b
    BY <1>7
  <2>3. QED
    BY <2>1, <2>2, <1>6, <1>8, UptoParts
<1>10. got \in Seq(Seq(Of(st))) /\ Len(got) = Len(p.got) + 1 /\ Len(p.got) \in Nat
  BY <1>3, <1>5, <1>9
<1>11. CASE m.eap.more
  <2>1. PICK eap : eap = AckPacket(id)
    OBVIOUS
  <2>2. eap \in Packet(Of(st))
    BY <2>1, <1>4, AckPacketType
  <2>3. eap.kind = "tls" /\ eap.id = id /\ IsAck(eap)
    BY <2>1 DEF AckPacket, Frame, IsAck
  <2>4. PICK q : q = [p EXCEPT !.rx = record]
    OBVIOUS
  <2>5. q \in Peer(st) /\ q.tx = p.tx /\ q.rx = record /\ q.got = p.got
    BY <2>4, <1>9 DEF Peer
  <2>6. Transmit(st, Sending(st, q, m.state, eap))
    BY <2>1, <2>4, <1>2, <1>4, <1>11 DEF AnswerData
  <2>7. UnderWay(q) /\ DownFlight(f, q) = down
    BY <2>5, <1>1 DEF UnderWay, DownFlight
  <2>8. b \in Nat \ {0} /\ b < Len(down)
    BY <1>7, <1>11
  <2>9. \A v : AwaitsDown(f, p, s, v, b) => AwaitsDown(f, q, s, v, b)
    BY <2>5, <2>7, <1>1 DEF AwaitsDown
  <2>10. \A v : AwaitsDown(f, p, s, v, b) => Speaking(f, q, s, v, eap)
    BY <2>3, <2>5, <2>7, <2>8, <2>9, <1>8 DEF Speaking
  <2>11. Standing(f, q, s, talks, eap)
    BY <2>3, <2>10, <1>4 DEF OpenDown, Standing
  <2>12. QED
    BY <2>2, <2>3, <2>5, <2>6, <2>11 DEF Said
<1>12. CASE ~m.eap.more
  <2>1. b = Len(down)
    BY <1>6, <1>7, <1>12
  <2>2. record = down
    <3>1. 0 \in 0 .. Len(down) /\ 0 \in 0 .. 0
      BY <1>6
    <3>2. Upto(down, Len(down)) = down
      BY <3>1, <1>6, UptoParts
    <3>3. QED
      BY <3>2, <2>1, <1>8
  <2>3. record = Flight(st, 2 * Len(got))
    <3>1. 2 * Len(got) = 2 * Len(p.got) + 2
      BY <1>10
    <3>2. QED
      BY <3>1, <2>2, <1>6
  <2>4. PICK q : q = [p EXCEPT !.got = got, !.rx = <<>>]
    OBVIOUS
  <2>5. q \in Peer(st) /\ q.tx = <<>> /\ q.rx = <<>> /\ q.got = got
    <3>1. <<>> \in Seq(Of(st))
      OBVIOUS
    <3>2. q \in Peer(st)
      BY <3>1, <2>4, <1>10 DEF Peer
    <3>3. q.tx = p.tx /\ q.rx = <<>> /\ q.got = got
      BY <2>4 DEF Peer
    <3>4. QED
      BY <3>2, <3>3
  <2>6. PICK i : i = 2 * Len(got) + 1
    OBVIOUS
  <2>7. SendFlight(st, q, m, i)
    BY <2>3, <2>4, <2>6, <1>2, <1>3, <1>12 DEF AnswerData
  <2>8. i \in Nat \ {0} /\ i = 2 * Len(q.got) + 1
    BY <2>5, <2>6, <1>10
  <2>9. UnderWay(q) \/ Through(q)
    <3>1. PICK h \in Nat : FlightCount = 2 * h
      <4>1. FlightCount \in Nat /\ FlightCount % 2 = 0
        BY TestbedAssumption
      <4>2. FlightCount = 2 * (FlightCount \div 2) /\ FlightCount \div 2 \in Nat
        BY <4>1
      <4>3. QED
        BY <4>2
    <3>2. PICK n \in Nat : n = Len(p.got)
      BY <1>10
    <3>3. 2 * n < FlightCount
      BY <3>2 DEF UnderWay
    <3>4. 2 * (n + 1) < FlightCount \/ 2 * (n + 1) = FlightCount
      BY <3>1, <3>3
    <3>5. Len(q.got) = n + 1
      BY <3>2, <2>5, <1>10
    <3>6. QED
      BY <3>4, <3>5 DEF UnderWay, Through
  <2>10. Whole(Of(st), f, p) /\ Whole(Of(st), f, q)
    <3>1. q.got \in Seq(Seq(Of(st)))
      BY <2>5, <1>10
    <3>2. QED
      BY <3>1, <1>5, FlightFacts DEF Whole
  <2>11. OpenUp(f, q, s, talks, id, 0)
    BY <2>1, <2>5, <2>9, <2>10, <1>1, <1>4, <1>5, <1>10, FlightBrought
  <2>12. Said(st, f, s, talks, m, q.got)
    BY <2>5, <2>7, <2>8, <2>9, <2>11, <1>4, FlightSent
  <2>13. QED
    BY <2>2, <2>5, <2>12, <1>1, <1>3
<1>13. QED
  BY <1>11, <1>12

(* The station answers m; of the server's records it has received none     *)
(* more, or the whole next one.                                            *)
Reacts(st, f, p, s, talks, m) ==
  \/ Said(st, f, s, talks, m, p.got)
  \/ /\ UnderWay(p) /\ \E c \in DOMAIN talks : Len(talks[c].got) = Len(p.got) + 1
     /\ Said(st, f, s, talks, m, Append(p.got, DownFlight(f, p)))

LEMMA ChallengeTaken ==
  ASSUME Alphabet, script \in [Stations -> Scripts], FlightsCarryData, NEW st \in Stations,
         NEW f, f = Flights(st), NEW p \in Peer(st), p = peer[st], NEW s, NEW talks, NEW m,
         m.eap \in Packet(Of(st)), m.eap.id # p.id, Challenged(f, p, s, talks, m.eap),
         AnswerStart(st, m) \/ AnswerAck(st, m) \/ AnswerData(st, m)
  PROVE  Reacts(st, f, p, s, talks, m)
<1>1. PICK id : id = m.eap.id
  OBVIOUS
<1>2. id \in Identifier /\ p.got \in Seq(Seq(Of(st)))
  BY <1>1 DEF Peer, Packet
<1>3. Whole(Of(st), f, p)
  BY <1>2, FlightFacts DEF Whole
<1>4. CASE m.eap.data # <<>>
  <2>1. PICK a \in Nat, b \in Nat :
          /\ UnderWay(p) /\ p.tx = <<>>
          /\ \E c \in DOMAIN talks : Len(talks[c].got) = Len(p.got) + 1
          /\ Piece(DownFlight(f, p), a, b, m.eap) /\ p.rx = Upto(DownFlight(f, p), a)
          /\ OpenDown(f, p, s, talks, id, b)
    BY <1>1, <1>4 DEF Challenged, OpenDown
  <2>2. ~m.eap.start /\ ~IsAck(m.eap)
    BY <2>1, <1>4 DEF Piece, IsAck
  <2>3. AnswerData(st, m)
    BY <2>2 DEF AnswerStart, AnswerAck
  <2>4. QED
    BY <2>1, <2>3, <1>1, <1>2, DataTaken DEF Reacts
<1>5. CASE m.eap.data = <<>>
  <2>1. ~AnswerData(st, m)
    BY <1>5 DEF AnswerData
  <2>2. \A a, b : ~Piece(DownFlight(f, p), a, b, m.eap) \/ ~UnderWay(p)
    BY <1>3, <1>5, PieceData DEF Whole
  <2>3. \/ Dead(s)
        \/ \E a \in Nat : Bids(f, p, m.eap, a) /\ OpenUp(f, p, s, talks, id, a)
    BY <2>2, <1>1 DEF Challenged, OpenUp
  <2>4. CASE AnswerStart(st, m)
    <3>1. SendFlight(st, p, m, 1) /\ m.eap.start
      BY <2>4 DEF AnswerStart
    <3>2. ASSUME NEW a \in Nat, Bids(f, p, m.eap, a), OpenUp(f, p, s, talks, id, a)
          PROVE  /\ p.tx = <<>> /\ p.rx = <<>> /\ (UnderWay(p) \/ Through(p))
                 /\ 1 = 2 * Len(p.got) + 1 /\ OpenUp(f, p, s, talks, id, 0)
      <4>1. p.tx = <<>> /\ p.rx = <<>> /\ p.got = <<>> /\ a = 0
        BY <3>1, <3>2 DEF Bids, IsAck
      <4>2. 2 * Len(p.got) = 0 /\ 1 = 2 * Len(p.got) + 1
        BY <4>1
      <4>3. UnderWay(p) \/ Through(p)
        <5>1. 0 < FlightCount \/ 0 = FlightCount
          BY TestbedAssumption
        <5>2. QED
          BY <4>2, <5>1 DEF UnderWay, Through
      <4>4. QED
        BY <3>2, <4>1, <4>2, <4>3
    <3>3. \/ Dead(s)
          \/ /\ p.tx = <<>> /\ p.rx = <<>> /\ (UnderWay(p) \/ Through(p))
             /\ 1 = 2 * Len(p.got) + 1 /\ OpenUp(f, p, s, talks, m.eap.id, 0)
      BY <2>3, <3>2, <1>1
    <3>4. 1 \in Nat \ {0}
      OBVIOUS
    <3>5. QED
      BY <3>1, <3>3, <3>4, <1>1, <1>2, FlightSent DEF Reacts
  <2>5. CASE AnswerAck(st, m)
    <3>1. PICK q : q = [p EXCEPT !.tx = Tail(@)]
      OBVIOUS
    <3>2. PICK eap : eap = NextFragment(id, p.tx)
      OBVIOUS
    <3>3. p.tx # <<>> /\ IsAck(m.eap) /\ Transmit(st, Sending(st, q, m.state, eap))
      BY <2>5, <3>1, <3>2, <1>1 DEF AnswerAck
    <3>4. PICK a : \/ Dead(s)
                   \/ /\ p.rx = <<>> /\ UnderWay(p) /\ a \in Nat /\ a < Len(UpFlight(f, p))
                      /\ p.tx = CutFrom(UpFlight(f, p), a, PeerFragmentSize)
                      /\ OpenUp(f, p, s, talks, m.eap.id, a)
      BY <2>3, <3>3, <1>1 DEF Bids, IsAck
    <3>5. QED
      BY <3>1, <3>2, <3>3, <3>4, <1>1, <1>2, <1>3, FragmentSent DEF Reacts
  <2>6. QED
    BY <2>1, <2>4, <2>5
<1>6. QED
  BY <1>4, <1>5

(* How the station with reply m on its way takes it.                       *)
LEMMA ReplyTaken ==
  ASSUME Alphabet, TestbedInv, TunnelInv, FlightsCarryData, NEW st \in Stations,
         NEW m \in toAp, TakeReply(st, m)
  PROVE  LET f == Flights(st)
             p == peer[st]
             talks == Talks(st)
             s == Get(sessions, StateKey(m.state))
         IN  \/ UNCHANGED <<peer, inbox>>
             \/ /\ inbox' = inbox /\ p.status = "waiting"
                /\ \/ peer' = [peer EXCEPT ![st].status = "success"] /\ Through(p)
                   \/ peer' = [peer EXCEPT ![st].status = "failure"]
             \/ m.state \in Nat /\ Reacts(st, f, p, s, talks, m)
<1>1. PICK f : f = Flights(st)
  OBVIOUS
<1>2. PICK p : p = peer[st]
  OBVIOUS
<1>3. PICK talks : talks = Talks(st)
  OBVIOUS
<1>4. PICK s : s = Get(sessions, StateKey(m.state))
  OBVIOUS
<1>5. m.to[1] = st /\ m \in RepliesOf(st)
  BY DEF TakeReply, RepliesOf
<1>6. ReplyFine(f, p, s, talks, m)
  BY <1>1, <1>2, <1>3, <1>4, <1>5 DEF TunnelInv, Course
<1>7. p.status = "waiting" /\ Telling(f, p, s, talks, m.code, m.eap)
  BY <1>6 DEF ReplyFine
<1>8. CASE TakeVerdict(st, m)
  <2>1. CASE m.code = "accept"
    <3>1. m.eap # Nil /\ m.eap.id = p.id
      BY <1>2, <1>8, <2>1 DEF TakeVerdict
    <3>2. Through(p)
      BY <1>7, <2>1, <3>1 DEF Telling
    <3>3. peer' = [peer EXCEPT ![st].status = "success"] /\ inbox' = inbox
      BY <1>8, <2>1 DEF TakeVerdict
    <3>4. QED
      BY <1>2, <1>7, <3>2, <3>3
  <2>2. CASE m.code # "accept"
    <3>1. peer' = [peer EXCEPT ![st].status = "failure"] /\ inbox' = inbox
      BY <1>8, <2>2 DEF TakeVerdict
    <3>2. QED
      BY <1>2, <1>7, <3>1
  <2>3. QED
    BY <2>1, <2>2
<1>9. CASE Respond(st, m)
  <2>1. /\ m.code = "challenge" /\ m.eap # Nil
        /\ \/ AnswerAgain(st, m) \/ AnswerStart(st, m)
           \/ AnswerAck(st, m) \/ AnswerData(st, m)
    BY <1>9 DEF Respond
  <2>2. m.eap.id # p.id /\ Challenged(f, p, s, talks, m.eap)
    BY <1>7, <2>1 DEF Telling
  <2>3. m.state \in Nat
    BY <2>1 DEF TestbedInv, ProxyInv, TypeOK, ApReplyType, Owned, ChallengesQuote
  <2>4. m.eap \in Packet(Of(st))
    BY <1>5, <2>1 DEF TestbedInv, Owned, RepliesOwned
  <2>5. ~AnswerAgain(st, m)
    BY <1>2, <2>2 DEF AnswerAgain
  <2>6. p \in Peer(st) /\ script \in [Stations -> Scripts]
    BY <1>2 DEF TestbedInv, PeerTypeOK
  <2>7. AnswerStart(st, m) \/ AnswerAck(st, m) \/ AnswerData(st, m)
    BY <2>1, <2>5
  <2>8. Reacts(st, f, p, s, talks, m)
    BY <1>1, <1>2, <2>2, <2>4, <2>6, <2>7, ChallengeTaken
  <2>9. QED
    BY <1>1, <1>2, <1>3, <1>4, <2>3, <2>8
<1>10. QED
  BY <1>8, <1>9 DEF TakeReply

LEMMA SaidTunnel ==
  ASSUME Alphabet, TestbedInv, TunnelInv, NEW st \in Stations, Apartly(st), NEW m,
         m.state \in Nat, NEW got,
         Said(st, Flights(st), Get(sessions, StateKey(m.state)), Talks(st), m, got)
  PROVE  TunnelInv' /\ peer'[st].got = got /\ peer'[st].status = "waiting"
<1>1. PICK state : state = m.state
  OBVIOUS
<1>2. PICK q \in Peer(st), eap \in Packet(Of(st)) :
        /\ eap.kind = "tls" /\ q.got = got
        /\ Transmit(st, Sending(st, q, state, eap))
        /\ Standing(Flights(st), q, Get(sessions, StateKey(state)), Talks(st), eap)
  BY <1>1 DEF Said
<1>3. state \in Nat \cup {Nil} /\ state # Nil
  BY <1>1, NilAssumption
<1>4. Speaks(st, state, eap)
  BY <1>2, <1>3 DEF Speaks
<1>5. QED
  BY <1>2, <1>3, <1>4, SentTunnel

(* A reply was all there was for the station.                              *)
LEMMA ReplyApart ==
  ASSUME TunnelInv, NEW st \in Stations, NEW m \in toAp, TakeReply(st, m) PROVE Apartly(st)
<1>1. /\ m \in RepliesOf(st) /\ toAp' = toAp \ {m} /\ budget' = budget
      /\ sessions' = sessions /\ handler' = handler /\ upstream' = upstream
      /\ script' = script /\ server' = server
  BY DEF TakeReply, RepliesOf
<1>2. RequestsOf(st) = {} /\ ~Handles(st) /\ \A n \in RepliesOf(st) : n = m
  BY <1>1 DEF TunnelInv, Course, OneAtATime
<1>3. RepliesOf(st)' = {}
  BY <1>1, <1>2 DEF RepliesOf
<1>4. NoRepeats'
  BY <1>1 DEF TunnelInv, NoRepeats
<1>5. QED
  BY <1>1, <1>2, <1>3, <1>4 DEF Apartly

LEMMA TakeReplyTunnel ==
  ASSUME Alphabet, TestbedInv, TunnelInv, FlightsCarryData, NEW st \in Stations,
         NEW m \in toAp, TakeReply(st, m)
  PROVE  TunnelInv'
<1>1. Apartly(st)
  BY ReplyApart
<1>2. PICK f : f = Flights(st)
  OBVIOUS
<1>3. PICK p : p = peer[st]
  OBVIOUS
<1>4. PICK talks : talks = Talks(st)
  OBVIOUS
<1>5. PICK s : s = Get(sessions, StateKey(m.state))
  OBVIOUS
<1>6. DOMAIN peer = Stations
  BY DEF TestbedInv, PeerTypeOK
<1>7. CASE UNCHANGED <<peer, inbox>>
  <2>1. Apart' /\ \A b \in Stations : RequestsOf(b)' \subseteq RequestsOf(b)
    BY <1>7 DEF TunnelInv, Apart, RequestsOf, InFlight
  <2>2. QED
    BY <1>1, <1>7, <2>1, LossTunnel DEF Apartly
<1>8. ASSUME NEW status \in {"success", "failure"}, inbox' = inbox,
             peer' = [peer EXCEPT ![st].status = status]
      PROVE  TunnelInv'
  <2>1. Apart' /\ \A b : RequestsOf(b)' = RequestsOf(b)
    BY <1>8 DEF TunnelInv, Apart, RequestsOf, InFlight
  <2>2. peer'[st].status = status /\ \A b \in Stations : b # st => peer'[b] = peer[b]
    <3>1. p \in Peer(st)
      BY <1>3 DEF TestbedInv, PeerTypeOK
    <3>2. peer'[st] = [p EXCEPT !.status = status]
      BY <1>3, <1>6, <1>8
    <3>3. peer'[st].status = status
      BY <3>1, <3>2 DEF Peer
    <3>4. QED
      BY <3>3, <1>6, <1>8
  <2>3. RequestsOf(st)' = {} /\ RepliesOf(st)' = {} /\ ~Handles(st)'
    BY <1>1, <2>1 DEF Apartly, Handles
  <2>4. \A c, e \in DOMAIN Talks(st)' : c = e
    <3>1. Talks(st)' = Talks(st)
      BY <1>1 DEF Apartly, Talks
    <3>2. QED
      BY <3>1 DEF TunnelInv, Course
  <2>5. Course(st)'
    BY <2>2, <2>3, <2>4, CourseTaken
  <2>6. QED
    BY <1>1, <2>1, <2>2, <2>5, OthersKeep
<1>9. ASSUME m.state \in Nat, Reacts(st, f, p, s, talks, m) PROVE TunnelInv'
  BY <1>1, <1>2, <1>4, <1>5, <1>9, SaidTunnel DEF Reacts
<1>10. QED
  BY <1>2, <1>3, <1>4, <1>5, <1>7, <1>8, <1>9, ReplyTaken

LEMMA StartTunnel ==
  ASSUME Alphabet, TestbedInv, TunnelInv, NEW st \in Stations, Start(st)
  PROVE  TunnelInv' /\ peer'[st].got = <<>> /\ peer'[st].status = "waiting"
<1>1. /\ peer[st].status = "off" /\ Begin(st, NewPeer)
      /\ sessions' = sessions /\ handler' = handler /\ upstream' = upstream /\ toAp' = toAp
      /\ script' = script /\ server' = server /\ budget' = budget
  BY DEF Start, proxyVars
<1>2. Course(st)
  BY DEF TunnelInv
<1>3. DOMAIN Talks(st) = {}
  BY <1>1, <1>2 DEF Course
<1>4. RequestsOf(st) = {} /\ RepliesOf(st) = {} /\ ~Handles(st)
  <2>1. ~ \E d \in RequestsOf(st) : TRUE
    BY <1>1, <1>2 DEF Course, RequestFine, Requesting
  <2>2. ~ \E m \in RepliesOf(st) : TRUE
    BY <1>1, <1>2 DEF Course, ReplyFine
  <2>3. ~Handles(st)
    BY <1>1, <1>2 DEF Course, HandlerFine, Requesting
  <2>4. QED
    BY <2>1, <2>2, <2>3
<1>5. NoRepeats' /\ RepliesOf(st)' = {}
  BY <1>1, <1>4 DEF TunnelInv, NoRepeats, RepliesOf
<1>6. Apartly(st)
  BY <1>1, <1>4, <1>5 DEF Apartly
<1>7. PICK b : \E id \in FirstIds : b = Bare("other", id)
                /\ Transmit(st, Sending(st, NewPeer, Nil, [b EXCEPT !.data = <<<<st, 0, 0>>>>]))
  BY <1>1 DEF Begin
<1>8. PICK data : data = <<<<st, 0, 0>>>>
  OBVIOUS
<1>9. PICK eap : eap = [b EXCEPT !.data = data]
  OBVIOUS
<1>10. data \in Seq(Of(st)) /\ data # <<>> /\ data[1][1] = st
  BY <1>8 DEF Of
<1>11. eap \in Packet(Of(st)) /\ eap.kind = "other" /\ eap.data = data
  <2>1. PICK id \in FirstIds : b = Bare("other", id)
    BY <1>7
  <2>2. id \in Identifier
    BY TestbedAssumption
  <2>3. b \in Packet(Of(st)) /\ b.kind = "other"
    <3>1. <<>> \in Seq(Of(st))
      OBVIOUS
    <3>2. QED
      BY <2>1, <2>2, <3>1 DEF Bare, Packet, Kind
  <2>4. QED
    BY <1>9, <1>10, <2>3 DEF Packet
<1>12. Speaks(st, Nil, eap) /\ Transmit(st, Sending(st, NewPeer, Nil, eap))
  BY <1>7, <1>8, <1>9, <1>10, <1>11 DEF Speaks
<1>13. NewPeer \in Peer(st) /\ NewPeer.got = <<>> /\ NewPeer.tx = <<>> /\ NewPeer.rx = <<>>
  <2>1. <<>> \in Seq(Seq(Of(st))) /\ <<>> \in Seq(Of(st))
    OBVIOUS
  <2>2. NewPeer \in Peer(st)
    BY <2>1 DEF NewPeer, Peer
  <2>3. QED
    BY <2>2 DEF NewPeer
<1>14. Introduces(NewPeer, Talks(st), [state |-> Nil, eap |-> eap])
  BY <1>3, <1>10, <1>11, <1>13 DEF Introduces, IsIdentity
<1>15. Nil \in Nat \cup {Nil}
  OBVIOUS
<1>16. QED
  BY <1>6, <1>12, <1>13, <1>14, <1>15, SentTunnel

(* No station begins anew, and no access point repeats a request.          *)
LEMMA NothingRepeats ==
  ASSUME NoRepeats, NEW st PROVE ~Retry(st) /\ ~Retransmit(st)
BY DEF NoRepeats, Retry, Retransmit, Spend

LEMMA TunnelNext ==
  ASSUME Alphabet, FlightsCarryData, TestbedInv, TunnelInv, [Next]_vars PROVE TunnelInv'
<1>1. ASSUME NEW st \in Stations, PeerStep(st) PROVE TunnelInv'
  <2>1. ~Retry(st)
    BY NothingRepeats DEF TunnelInv
  <2>2. QED
    BY <1>1, <2>1, StartTunnel, TakeReplyTunnel DEF PeerStep
<1>2. CASE Fault
  <2>1. \A st \in Stations : ~Retransmit(st)
    BY NothingRepeats DEF TunnelInv
  <2>2. QED
    BY <1>2, <2>1, LossesTunnel, TimeOutTunnel DEF Fault
<1>3. CASE UNCHANGED vars
  <2>1. NoRepeats' /\ Apart' /\ \A st \in Stations : RequestsOf(st)' \subseteq RequestsOf(st)
    BY <1>3 DEF vars, TunnelInv, NoRepeats, Apart, RequestsOf, InFlight
  <2>2. QED
    BY <1>3, <2>1, LossTunnel DEF vars
<1>4. QED
  BY <1>1, <1>2, <1>3, ProxyStepTunnel, ServerStepTunnel DEF Next, System, Stop

LEMMA TunnelInit == ASSUME NothingRepeated, Init PROVE TunnelInv
<1>1. /\ sessions = <<>> /\ handler = Nil /\ toAp = {} /\ inbox = <<>> /\ server = <<>>
      /\ peer = [st \in Stations |-> NewPeer]
  BY DEF Init, ProxyInit
<1>2. NoRepeats
  BY DEF Init, NoRepeats, NothingRepeated
<1>3. DOMAIN inbox = {} /\ DOMAIN sessions = {} /\ DOMAIN server = {}
  BY <1>1
<1>4. ASSUME NEW st \in Stations PROVE Course(st)
  <2>1. DOMAIN Talks(st) = {} /\ RequestsOf(st) = {} /\ RepliesOf(st) = {} /\ ~Handles(st)
    BY <1>1, <1>3 DEF Talks, RequestsOf, InFlight, RepliesOf, Handles
  <2>2. peer[st] = NewPeer
    BY <1>1
  <2>3. QED
    BY <2>1, <2>2 DEF Course, OneAtATime
<1>5. QED
  BY <1>2, <1>3, <1>4 DEF TunnelInv, Apart

(* The stations stay on their courses.                                     *)
LEMMA TunnelInvariance ==
  ASSUME Alphabet, FlightsCarryData, NothingRepeated
  PROVE  Spec => [](TestbedInv /\ TunnelInv)
<1>1. Init => TestbedInv /\ TunnelInv
  BY TestbedInitInv, TunnelInit
<1>2. TestbedInv /\ TunnelInv /\ [Next]_vars => (TestbedInv /\ TunnelInv)'
  <2>1. SUFFICES ASSUME TestbedInv, TunnelInv, [Next]_vars PROVE TestbedInv' /\ TunnelInv'
    OBVIOUS
  <2>2. TestbedInv'
    BY <2>1, TestbedNextInv
  <2>3. TunnelInv'
    BY <2>1, TunnelNext
  <2>4. QED
    BY <2>2, <2>3
<1>3. QED
  BY <1>1, <1>2, PTL DEF Spec

LEMMA IdentifiersDown ==
  ASSUME TestbedInv, TunnelInv, NEW st \in Stations, NEW m \in toAp, Awaited(st, m), m.eap # Nil
  PROVE  IF m.code = "challenge" THEN m.eap.id # peer[st].id ELSE m.eap.id = peer[st].id
<1>1. peer[st].status = "waiting" /\ m.to = peer[st].request.authenticator
  BY DEF Awaited
<1>2. m \in RepliesOf(st)
  BY <1>1 DEF RepliesOf, TestbedInv, PeerTypeOK, OfStation
<1>3. Telling(Flights(st), peer[st], Get(sessions, StateKey(m.state)), Talks(st), m.code, m.eap)
  BY <1>2 DEF TunnelInv, Course, ReplyFine
<1>4. QED
  BY <1>3 DEF Telling

LEMMA IdentifiersUp ==
  ASSUME Alphabet, TestbedInv, TunnelInv, upstream # Nil, upstream.state # Nil
  PROVE  Continues(upstream)
<1>1. PICK st : st = handler.datagram.authenticator[1]
  OBVIOUS
<1>2. PICK s : s = sessions[handler.key]
  OBVIOUS
<1>3. PICK talks : talks = Talks(st)
  OBVIOUS
<1>4. handler # Nil
  BY DEF TestbedInv, ProxyInv, HandlerCoherent
<1>5. HandlerFine(Flights(st), peer[st], s, talks, handler, upstream.eap)
  BY <1>1, <1>2, <1>3, <1>4, Blocking
<1>6. upstream.state = s.radius_state /\ s.key = handler.key /\ Unbegun(s)
  BY <1>2, <1>4 DEF TestbedInv, ProxyInv, HandlerCoherent, TableCoherent, Owned, HandlerOwned,
                    SessionsOwned
<1>7. CASE handler.pc = "non_tls"
  <2>1. Introduces(peer[st], talks, handler.datagram) /\ handler.key = KeyOf(handler.datagram)
    BY <1>5, <1>7 DEF HandlerFine
  <2>2. handler.key[1] = "new"
    BY <2>1 DEF Introduces, KeyOf
  <2>3. QED
    BY <1>6, <2>2 DEF Unbegun
<1>8. ASSUME NEW c \in DOMAIN talks, Linked(s, c, talks[c]), upstream.eap.id = talks[c].id,
             upstream.eap.kind = "tls"
      PROVE  Continues(upstream)
  <2>1. c \in DOMAIN server /\ talks[c] = server[c]
    BY <1>3, <1>8, TalksFacts
  <2>2. upstream.state = <<c, server[c].step>> /\ server[c].verdict = Nil
    BY <1>6, <1>8, <2>1 DEF Linked
  <2>3. upstream.state[1] = c /\ upstream.state[2] = server[c].step
    BY <2>2
  <2>4. QED
    BY <1>8, <2>1, <2>2, <2>3 DEF Continues
<1>9. CASE handler.pc # "non_tls"
  BY <1>5, <1>6, <1>8, <1>9 DEF HandlerFine, Dead
<1>10. QED
  BY <1>7, <1>9

(* A Request the access point still waits for is new to its station, an    *)
(* EAP-Success or EAP-Failure answers the station's last Response, and     *)
(* whatever goes upstream in a conversation answers the server's last      *)
(* Request in it: on both legs, whatever packets one leg has and the other *)
(* has not, after losses, timeouts and restarts (handle_supplicant_eap's   *)
(* sync of down_next_id, _restamp_terminal, upstream_last_eap_req_id).     *)
(* As long as no request is repeated and no station begins again.          *)
THEOREM IdentifiersAlwaysMatch ==
  ASSUME Alphabet, FlightsCarryData, NothingRepeated
  PROVE  Spec => []IdentifiersMatch
<1>1. TestbedInv /\ TunnelInv => IdentifiersMatch
  <2>1. SUFFICES ASSUME TestbedInv, TunnelInv PROVE IdentifiersMatch
    OBVIOUS
  <2>2. \A st \in Stations : \A m \in toAp :
          Awaited(st, m) /\ m.eap # Nil =>
            IF m.code = "challenge" THEN m.eap.id # peer[st].id ELSE m.eap.id = peer[st].id
    BY <2>1, IdentifiersDown
  <2>3. upstream # Nil /\ upstream.state # Nil => Continues(upstream)
    BY <2>1, IdentifiersUp
  <2>4. QED
    BY <2>2, <2>3 DEF IdentifiersMatch
<1>2. QED
  BY <1>1, TunnelInvariance, PTL

-----------------------------------------------------------------------------
(* The tunnel.                                                             *)

(* What the server has received of the station's flights.                  *)
GotIn(conversations, st) ==
  LET mine == {c \in DOMAIN conversations : conversations[c].st = st}
  IN  IF mine = {} THEN <<>> ELSE conversations[Min(mine)].got

LEMMA GotInOne ==
  ASSUME NEW conversations, NEW st, NEW c \in Nat,
         {i \in DOMAIN conversations : conversations[i].st = st} = {c}
  PROVE  GotIn(conversations, st) = conversations[c].got
<1>1. PICK mine : mine = {c}
  OBVIOUS
<1>2. c <= c
  OBVIOUS
<1>3. Min(mine) = c
  BY <1>1, <1>2, Zenon DEF Min
<1>4. mine # {} /\ mine = {i \in DOMAIN conversations : conversations[i].st = st}
  BY <1>1
<1>5. QED
  BY <1>3, <1>4, Zenon DEF GotIn

LEMMA GotInNone ==
  ASSUME NEW conversations, NEW st,
         {i \in DOMAIN conversations : conversations[i].st = st} = {}
  PROVE  GotIn(conversations, st) = <<>>
BY Zenon DEF GotIn

(* What a station's one conversation, or none, leaves at the server.       *)
LEMMA ServersGot ==
  ASSUME ServerTypeOK, NEW st, OnlyOneTalk(st)
  PROVE  /\ DOMAIN Talks(st) = {} => GotIn(server, st) = <<>>
         /\ \A c \in DOMAIN Talks(st) : GotIn(server, st) = server[c].got
<1>1. PICK mine : mine = DOMAIN Talks(st)
  OBVIOUS
<1>2. mine = {i \in DOMAIN server : server[i].st = st}
  BY <1>1 DEF Talks
<1>3. mine = {} => GotIn(server, st) = <<>>
  BY <1>2, GotInNone
<1>4. ASSUME NEW c \in mine PROVE GotIn(server, st) = server[c].got
  <2>1. mine = {c}
    BY <1>1, <1>4 DEF OnlyOneTalk
  <2>2. c \in Nat
    BY <1>2, <1>4 DEF ServerTypeOK
  <2>3. QED
    BY <1>2, <2>1, <2>2, GotInOne
<1>5. QED
  BY <1>1, <1>3, <1>4

LEMMA ServersGotNext ==
  ASSUME ServerTypeOK', NEW st, OnlyOneTalk(st)'
  PROVE  /\ DOMAIN Talks(st)' = {} => GotIn(server', st) = <<>>
         /\ \A c \in DOMAIN Talks(st)' : GotIn(server', st) = server'[c].got
<1>1. PICK mine : mine = DOMAIN Talks(st)'
  OBVIOUS
<1>2. mine = {i \in DOMAIN server' : server'[i].st = st}
  BY <1>1 DEF Talks
<1>3. mine = {} => GotIn(server', st) = <<>>
  BY <1>2, GotInNone
<1>4. ASSUME NEW c \in mine PROVE GotIn(server', st) = server'[c].got
  <2>1. mine = {c}
    BY <1>1, <1>4 DEF OnlyOneTalk
  <2>2. c \in Nat
    BY <1>2, <1>4 DEF ServerTypeOK
  <2>3. QED
    BY <1>2, <2>1, <2>2, GotInOne
<1>5. QED
  BY <1>1, <1>3, <1>4

(* A conversation proceeds: the server has none of the station's flights   *)
(* more than before, or the whole next one.                                *)
Proceeds(st, f, p, s, c, v, q, h) ==
  /\ Talking(st, f, p, c, v, q) /\ Minds(f, p, s, v, h, q.eap)
  /\ h.pc = "passthrough" <=> ~Reassembling
  /\ server' = Proceed(c, q).server
HasMore(c, v, f, p) ==
  /\ UnderWay(p) /\ Len(v.got) = Len(p.got)
  /\ server'[c].got = Append(v.got, UpFlight(f, p))

LEMMA ProceedGot ==
  ASSUME Alphabet, TestbedInv, FlightsCarryData, NEW st \in Stations, NEW f, NEW p, NEW s,
         NEW c, NEW v, NEW q, NEW h, Proceeds(st, f, p, s, c, v, q, h)
  PROVE  server'[c].got = v.got \/ HasMore(c, v, f, p)
<1> USE DEF Proceeds, HasMore
<1>1. ASSUME NEW a, NEW b, UnderWay(p), Piece(UpFlight(f, p), a, b, q.eap),
             v.rx = Upto(UpFlight(f, p), a), Len(v.got) = Len(p.got)
      PROVE  server'[c].got = v.got \/ server'[c].got = Append(v.got, UpFlight(f, p))
  <2>1. PICK up : up = UpFlight(f, p)
    OBVIOUS
  <2>2. PICK down : down = DownFlight(f, p)
    OBVIOUS
  <2>3. PICK r : r = Proceed(c, q).reply
    OBVIOUS
  <2>4. PICK x : x = server'[c]
    OBVIOUS
  <2>5. MovesUp(v, x, r, up, b) \/ MovesRound(v, x, r, up, down, b)
    BY <1>1, <2>1, <2>2, <2>3, <2>4, PieceMoves
  <2>6. x.got = v.got \/ x.got = Append(v.got, up)
    BY <2>5 DEF MovesUp, MovesRound
  <2>7. QED
    BY <2>1, <2>4, <2>6
<1>2. ASSUME UnderWay(p), IsAck(q.eap), NEW a \in Nat \ {0}, a < Len(DownFlight(f, p)),
             NEW k \in Nat \ {0}, v.tx = CutFrom(DownFlight(f, p), a, k)
      PROVE  server'[c].got = v.got
  <2>1. a \in Nat
    OBVIOUS
  <2>2. QED
    BY <1>2, <2>1, AckMoves DEF MovesDown
<1>3. ASSUME Through(p), IsAck(q.eap), v.tx = <<>>, Len(v.got) = Len(p.got)
      PROVE  server'[c].got = v.got
  <2>1. server' = Verdicts(c, v, "accept", v.id).server
    BY <1>3, LastAckVerdict DEF Talking
  <2>2. c \in DOMAIN server /\ v \in Conversation(st)
    BY ConversationType DEF Talking, TestbedInv
  <2>3. server'[c] = [v EXCEPT !.verdict = "accept"]
    BY <2>1, <2>2 DEF Verdicts
  <2>4. QED
    BY <2>2, <2>3 DEF Conversation
<1>4. CASE ~Reassembling
  <2>1. Speaking(f, p, s, v, q.eap)
    BY <1>4 DEF Minds
  <2>2. \A a : AwaitsUp(f, p, s, v, a) =>
          v.rx = Upto(UpFlight(f, p), a) /\ Len(v.got) = Len(p.got) /\ v.tx = <<>>
    BY <1>4 DEF AwaitsUp
  <2>3. \A a : AwaitsDown(f, p, s, v, a) =>
          \E k \in Nat \ {0} : v.tx = CutFrom(DownFlight(f, p), a, k)
    BY <1>4 DEF AwaitsDown
  <2>4. CASE /\ UnderWay(p)
             /\ \E a, b \in Nat : /\ Piece(UpFlight(f, p), a, b, q.eap)
                                  /\ AwaitsUp(f, p, s, v, a)
    BY <2>4, <2>2, <1>1
  <2>5. CASE /\ UnderWay(p) /\ IsAck(q.eap)
             /\ \E a \in Nat \ {0} : a < Len(DownFlight(f, p)) /\ AwaitsDown(f, p, s, v, a)
    BY <2>5, <2>3, <1>2
  <2>6. CASE Through(p) /\ IsAck(q.eap) /\ AwaitsUp(f, p, s, v, 0)
    BY <2>6, <2>2, <1>3
  <2>7. QED
    BY <2>1, <2>4, <2>5, <2>6 DEF Speaking
<1>5. CASE Reassembling
  <2>1. CASE Forwarding(f, p, s, v, q.eap, h.rest)
    BY <2>1, <1>1, <1>3 DEF Forwarding
  <2>2. CASE Draining(f, p, s, v, q.eap)
    BY <2>2, <1>2 DEF Draining
  <2>3. QED
    BY <1>5, <2>1, <2>2 DEF Minds
<1>6. QED
  BY <1>4, <1>5

LEMMA GotKept ==
  ASSUME ServerTypeOK, ServerTypeOK', NEW st, OnlyOneTalk(st), Talks(st)' = Talks(st)
  PROVE  GotIn(server', st) = GotIn(server, st)
<1>1. OnlyOneTalk(st)'
  BY DEF OnlyOneTalk
<1>2. CASE DOMAIN Talks(st) = {}
  BY <1>1, <1>2, ServersGot, ServersGotNext
<1>3. ASSUME NEW c \in DOMAIN Talks(st) PROVE GotIn(server', st) = GotIn(server, st)
  <2>1. GotIn(server, st) = server[c].got
    BY <1>3, ServersGot
  <2>2. GotIn(server', st) = server'[c].got
    BY <1>1, <1>3, ServersGotNext
  <2>3. Talks(st)[c] = server[c] /\ Talks(st)'[c] = server'[c]
    BY <1>3 DEF Talks
  <2>4. QED
    BY <2>1, <2>2, <2>3
<1>4. QED
  BY <1>2, <1>3

(* The server has received the station's next flight, and all of it.       *)
CarriesUp(st, p) ==
  /\ UnderWay(p) /\ Len(GotIn(server, st)) = Len(p.got)
  /\ GotIn(server', st) = Append(GotIn(server, st), UpFlight(Flights(st), p))

LEMMA OutcomeGot ==
  ASSUME Alphabet, TestbedInv, TestbedInv', TunnelInv, FlightsCarryData, handler # Nil,
         NEW st, st = handler.datagram.authenticator[1], NEW o \in Outcomes(upstream),
         server' = o.server
  PROVE  /\ \A b \in Stations : b # st => GotIn(server', b) = GotIn(server, b)
         /\ GotIn(server', st) = GotIn(server, st) \/ CarriesUp(st, peer[st])
<1>1. PICK talks : talks = Talks(st)
  OBVIOUS
<1>2. PICK s : s = sessions[handler.key]
  OBVIOUS
<1>3. PICK f : f = Flights(st)
  OBVIOUS
<1>4. PICK p : p = peer[st]
  OBVIOUS
<1>5. PICK q : q = upstream
  OBVIOUS
<1>6. /\ st \in Stations /\ OnlyOneTalk(st)
      /\ HandlerFine(f, p, s, talks, handler, q.eap)
  BY <1>1, <1>2, <1>3, <1>4, <1>5, Blocking
<1>7. /\ OnlyOneTalk(st)' /\ \A b : b # st => Talks(b)' = Talks(b)
      /\ DOMAIN talks \subseteq DOMAIN Talks(st)'
  BY <1>1, <1>2, <1>3, <1>4, <1>5, <1>6, OutcomeTalks
<1>8. ServerTypeOK /\ ServerTypeOK'
  BY DEF TestbedInv
<1>9. ASSUME NEW b \in Stations, b # st PROVE GotIn(server', b) = GotIn(server, b)
  <2>1. OnlyOneTalk(b)
    BY DEF TunnelInv, Course, OnlyOneTalk
  <2>2. QED
    BY <2>1, <1>7, <1>8, <1>9, GotKept
<1>10. ASSUME NEW c \in DOMAIN talks
       PROVE  /\ GotIn(server, st) = talks[c].got /\ GotIn(server', st) = server'[c].got
              /\ c \in DOMAIN server /\ talks[c] = server[c] /\ server[c].st = st
  <2>1. c \in DOMAIN server /\ talks[c] = server[c] /\ server[c].st = st
    BY <1>1, <1>10, TalksFacts
  <2>2. GotIn(server, st) = server[c].got
    BY <1>1, <1>6, <1>8, <1>10, ServersGot
  <2>3. c \in DOMAIN Talks(st)'
    BY <1>7, <1>10
  <2>4. GotIn(server', st) = server'[c].got
    BY <2>3, <1>7, <1>8, ServersGotNext
  <2>5. QED
    BY <2>1, <2>2, <2>4
<1>11. ASSUME Introduces(p, talks, handler.datagram), q.eap = handler.datagram.eap,
              o = Converse(q)
       PROVE  GotIn(server', st) = GotIn(server, st)
  <2>1. DOMAIN talks = {} /\ IsIdentity(q.eap)
    BY <1>11 DEF Introduces
  <2>2. q.eap.data[1][1] = st /\ q.eap.id \in Identifier
    BY <2>1, <1>5 DEF TestbedInv, ProxyInv, TypeOK, HandlerCoherent, Owned, HandlerOwned, Packet
  <2>3. PICK x : x = server'[Len(server) + 1]
    OBVIOUS
  <2>4. PICK r : r = Converse(q).reply
    OBVIOUS
  <2>5. server' = Converse(q).server
    BY <1>11
  <2>6. Begins(x, r)
    BY <2>2, <2>3, <2>4, <2>5, <1>6, <1>8, ConverseTalks
  <2>7. Len(server) + 1 \in DOMAIN Talks(st)'
    BY <2>2, <2>5, <1>6, <1>8, ConverseTalks
  <2>8. GotIn(server', st) = <<>>
    <3>1. GotIn(server', st) = x.got
      BY <2>3, <2>7, <1>7, <1>8, ServersGotNext
    <3>2. QED
      BY <3>1, <2>6 DEF Begins
  <2>9. GotIn(server, st) = <<>>
    BY <2>1, <1>1, <1>6, <1>8, ServersGot
  <2>10. QED
    BY <2>8, <2>9
<1>12. o = NoSuchConversation(q) => GotIn(server', st) = GotIn(server, st)
  BY DEF NoSuchConversation
<1>13. ASSUME NEW c \in DOMAIN talks, o = Verdicts(c, talks[c], "reject", talks[c].id)
       PROVE  GotIn(server', st) = GotIn(server, st)
  <2>1. PICK v : v = talks[c]
    OBVIOUS
  <2>2. v \in Conversation(st) /\ c \in DOMAIN server
    BY <2>1, <1>8, <1>10, <1>13, ConversationType
  <2>3. server' = [server EXCEPT ![c] = [v EXCEPT !.verdict = "reject"]]
    BY <2>1, <1>13 DEF Verdicts
  <2>4. server'[c] = [v EXCEPT !.verdict = "reject"]
    BY <2>2, <2>3
  <2>5. server'[c].got = v.got
    BY <2>2, <2>4 DEF Conversation
  <2>6. QED
    BY <2>1, <2>5, <1>10, <1>13
<1>14. ASSUME NEW c \in DOMAIN talks, Linked(s, c, talks[c]), q.eap.id = talks[c].id,
              Minds(f, p, s, talks[c], handler, q.eap), o = Proceed(c, q),
              handler.pc # "non_tls"
       PROVE  GotIn(server', st) = GotIn(server, st) \/ CarriesUp(st, p)
  <2>1. PICK v : v = talks[c]
    OBVIOUS
  <2>2. Talking(st, f, p, c, v, q)
    <3>1. q.attrs \in Attributes
      BY <1>5 DEF TestbedInv, ProxyInv, TypeOK, HandlerCoherent, UpstreamType
    <3>2. v.verdict = Nil /\ v.id \in Identifier
      BY <2>1, <1>14 DEF Linked
    <3>3. QED
      BY <3>1, <3>2, <2>1, <1>3, <1>4, <1>10, <1>14 DEF Talking
  <2>3. PICK h : h = handler
    OBVIOUS
  <2>4. Proceeds(st, f, p, s, c, v, q, h)
    BY <2>1, <2>2, <2>3, <1>6, <1>14 DEF HandlerFine, Proceeds
  <2>5. server'[c].got = v.got \/ HasMore(c, v, f, p)
    BY <2>4, <1>6, ProceedGot
  <2>6. GotIn(server, st) = v.got /\ GotIn(server', st) = server'[c].got
    BY <2>1, <1>10, <1>14
  <2>7. QED
    BY <2>5, <2>6, <1>3 DEF CarriesUp, HasMore
<1>15. \/ /\ Introduces(p, talks, handler.datagram)
          /\ q.eap = handler.datagram.eap /\ o = Converse(q)
       \/ o = NoSuchConversation(q)
       \/ /\ handler.pc # "non_tls"
          /\ \E c \in DOMAIN talks :
               /\ Linked(s, c, talks[c]) /\ q.eap.id = talks[c].id
               /\ Minds(f, p, s, talks[c], handler, q.eap)
               /\ \/ o = Proceed(c, q)
                  \/ o = Verdicts(c, talks[c], "reject", talks[c].id)
  BY <1>1, <1>2, <1>5, <1>6, HandlersOutcome
<1>16. GotIn(server', st) = GotIn(server, st) \/ CarriesUp(st, p)
  BY <1>11, <1>12, <1>13, <1>14, <1>15
<1>17. QED
  BY <1>4, <1>9, <1>16

(* What the tunnel is taken to be.                                         *)
TunnelFlights == [st \in Stations |-> [i \in 1 .. FlightCount |-> Flight(st, i)]]
AtPeer == [st \in Stations |-> peer[st].got]
VerdictOf(p) == IF p.status \in {"success", "failure"} THEN p.status ELSE "none"
AtVerdict == [st \in Stations |-> VerdictOf(peer[st])]

Unmoved == UNCHANGED <<TunnelFlights, AtServer, AtPeer, AtVerdict>>

LEMMA AtServerGot == AtServer = [st \in Stations |-> GotIn(server, st)]
BY DEF AtServer, GotIn

LEMMA AtServerGotNext == AtServer' = [st \in Stations |-> GotIn(server', st)]
BY DEF AtServer, GotIn

LEMMA FlightsThere == ASSUME script' = script PROVE TunnelFlights' = TunnelFlights
BY DEF TunnelFlights, Flight

LEMMA UnmovedTunnel == ASSUME Unmoved PROVE UNCHANGED Tunnel!tunnelVars
BY DEF Unmoved, TunnelFlights, AtPeer, AtVerdict, VerdictOf, Tunnel!tunnelVars

(* There is a flight to come each way as long as the handshake is not over. *)
LEMMA FlightsToCome ==
  ASSUME Alphabet, TestbedInv, FlightsCarryData, NEW st \in Stations, NEW p, p = peer[st],
         UnderWay(p)
  PROVE  /\ UpFlight(Flights(st), p) = TunnelFlights[st][2 * Len(p.got) + 1]
         /\ DownFlight(Flights(st), p) = TunnelFlights[st][2 * Len(p.got) + 2]
<1>1. p.got \in Seq(Seq(Of(st))) /\ script \in [Stations -> Scripts]
  BY DEF TestbedInv, PeerTypeOK, Peer
<1>2. PICK n \in Nat : n = Len(p.got)
  BY <1>1
<1>3. PICK h \in Nat : FlightCount = 2 * h
  <2>1. FlightCount \in Nat /\ FlightCount % 2 = 0
    BY TestbedAssumption
  <2>2. FlightCount = 2 * (FlightCount \div 2) /\ FlightCount \div 2 \in Nat
    BY <2>1
  <2>3. QED
    BY <2>2
<1>4. 2 * n + 1 \in 1 .. FlightCount /\ 2 * n + 2 \in 1 .. FlightCount
  <2>1. 2 * n < FlightCount
    BY <1>2 DEF UnderWay
  <2>2. QED
    BY <2>1, <1>3
<1>5. /\ TunnelFlights[st][2 * n + 1] = Flight(st, 2 * n + 1)
      /\ TunnelFlights[st][2 * n + 2] = Flight(st, 2 * n + 2)
  BY <1>4 DEF TunnelFlights
<1>6. /\ UpFlight(Flights(st), p) = Flight(st, 2 * Len(p.got) + 1)
      /\ DownFlight(Flights(st), p) = Flight(st, 2 * Len(p.got) + 2)
  BY <1>1, FlightFacts
<1>7. QED
  BY <1>2, <1>5, <1>6

(* What the server's turn is to the tunnel.                                *)
LEMMA HeardTunnel ==
  ASSUME Alphabet, TestbedInv, TestbedInv', TunnelInv, FlightsCarryData, handler # Nil,
         NEW o \in Outcomes(upstream), server' = o.server, script' = script, peer' = peer
  PROVE  Unmoved \/ \E st \in Stations : Tunnel!CarryUp(st)
<1>1. PICK st : st = handler.datagram.authenticator[1]
  OBVIOUS
<1>2. st \in Stations
  BY <1>1, Blocking
<1>3. PICK p : p = peer[st]
  OBVIOUS
<1>4. /\ \A b \in Stations : b # st => GotIn(server', b) = GotIn(server, b)
      /\ GotIn(server', st) = GotIn(server, st) \/ CarriesUp(st, p)
  BY <1>1, <1>3, OutcomeGot
<1>5. TunnelFlights' = TunnelFlights /\ AtPeer' = AtPeer /\ AtVerdict' = AtVerdict
  BY FlightsThere DEF AtPeer, AtVerdict, VerdictOf
<1>6. PICK now : now = [b \in Stations |-> GotIn(server, b)]
  OBVIOUS
<1>7. PICK next : next = [b \in Stations |-> GotIn(server', b)]
  OBVIOUS
<1>8. AtServer = now /\ AtServer' = next
  BY <1>6, <1>7, AtServerGot, AtServerGotNext
<1>9. CASE GotIn(server', st) = GotIn(server, st)
  <2>1. now = next
    BY <1>4, <1>6, <1>7, <1>9
  <2>2. QED
    BY <2>1, <1>5, <1>8 DEF Unmoved
<1>10. CASE CarriesUp(st, p)
  <2>1. /\ UnderWay(p) /\ Len(now[st]) = Len(p.got)
        /\ next[st] = Append(now[st], UpFlight(Flights(st), p))
    BY <1>2, <1>6, <1>7, <1>10 DEF CarriesUp
  <2>2. UpFlight(Flights(st), p) = TunnelFlights[st][2 * Len(p.got) + 1]
    BY <2>1, <1>2, <1>3, FlightsToCome
  <2>3. next = [now EXCEPT ![st] = Append(@, TunnelFlights[st][2 * Len(now[st]) + 1])]
    BY <2>1, <2>2, <1>2, <1>4, <1>6, <1>7
  <2>4. Len(now[st]) = Len(AtPeer[st]) /\ 2 * Len(now[st]) < FlightCount
    BY <2>1, <1>2, <1>3 DEF AtPeer, UnderWay
  <2>5. Tunnel!CarryUp(st)
    BY <2>3, <2>4, <1>5, <1>8 DEF Tunnel!CarryUp, TunnelFlights, AtPeer, AtVerdict, VerdictOf
  <2>6. QED
    BY <2>5, <1>2
<1>11. QED
  BY <1>4, <1>9, <1>10

(* A step that leaves the stations and the server alone.                   *)
LEMMA ElsewhereTunnel ==
  ASSUME script' = script, peer' = peer, server' = server PROVE Unmoved
<1>1. TunnelFlights' = TunnelFlights /\ AtPeer' = AtPeer /\ AtVerdict' = AtVerdict
  BY FlightsThere DEF AtPeer, AtVerdict, VerdictOf
<1>2. AtServer' = AtServer
  BY DEF AtServer
<1>3. QED
  BY <1>1, <1>2 DEF Unmoved

(* What a step of station st is to the tunnel, q being what it becomes.    *)
LEMMA PeerTunnel ==
  ASSUME Alphabet, TestbedInv, FlightsCarryData, NEW st \in Stations, script' = script,
         server' = server, NEW q, peer' = [peer EXCEPT ![st] = q]
  PROVE  /\ q.got = peer[st].got /\ VerdictOf(q) = VerdictOf(peer[st]) => Unmoved
         /\ /\ UnderWay(peer[st]) /\ Len(peer[st].got) < Len(GotIn(server, st))
            /\ q.got = Append(peer[st].got, DownFlight(Flights(st), peer[st]))
            /\ VerdictOf(q) = VerdictOf(peer[st])
            => Tunnel!CarryDown(st)
         /\ /\ q.got = peer[st].got /\ VerdictOf(peer[st]) = "none"
            /\ VerdictOf(q) = "success" /\ Through(peer[st])
            => Tunnel!Admit(st)
         /\ /\ q.got = peer[st].got /\ VerdictOf(peer[st]) = "none"
            /\ VerdictOf(q) = "failure"
            => Tunnel!Refuse(st)
<1>1. PICK p : p = peer[st]
  OBVIOUS
<1>2. DOMAIN peer = Stations
  BY DEF TestbedInv, PeerTypeOK
<1>3. peer'[st] = q /\ \A b \in Stations : b # st => peer'[b] = peer[b]
  BY <1>2
<1>4. TunnelFlights' = TunnelFlights /\ AtServer' = AtServer
  BY FlightsThere DEF AtServer
<1>5. AtPeer' = [AtPeer EXCEPT ![st] = q.got]
  <2>1. PICK next : next = [b \in Stations |-> peer'[b].got]
    OBVIOUS
  <2>2. PICK now : now = [b \in Stations |-> peer[b].got]
    OBVIOUS
  <2>3. next = [now EXCEPT ![st] = q.got]
    BY <2>1, <2>2, <1>3
  <2>4. AtPeer' = next /\ AtPeer = now
    BY <2>1, <2>2 DEF AtPeer
  <2>5. QED
    BY <2>3, <2>4
<1>6. AtVerdict' = [AtVerdict EXCEPT ![st] = VerdictOf(q)]
  <2>1. PICK next : next = [b \in Stations |-> VerdictOf(peer'[b])]
    OBVIOUS
  <2>2. PICK now : now = [b \in Stations |-> VerdictOf(peer[b])]
    OBVIOUS
  <2>3. next = [now EXCEPT ![st] = VerdictOf(q)]
    BY <2>1, <2>2, <1>3
  <2>4. AtVerdict' = next /\ AtVerdict = now
    BY <2>1, <2>2 DEF AtVerdict, VerdictOf
  <2>5. QED
    BY <2>3, <2>4
<1>7. AtPeer[st] = p.got /\ AtVerdict[st] = VerdictOf(p)
  BY <1>1 DEF AtPeer, AtVerdict
<1>8. /\ q.got = p.got => AtPeer' = AtPeer
      /\ VerdictOf(q) = VerdictOf(p) => AtVerdict' = AtVerdict
  BY <1>5, <1>6, <1>7 DEF AtPeer, AtVerdict
<1>9. ASSUME q.got = p.got, VerdictOf(q) = VerdictOf(p) PROVE Unmoved
  BY <1>4, <1>8, <1>9 DEF Unmoved
<1>10. ASSUME UnderWay(p), Len(p.got) < Len(GotIn(server, st)),
              q.got = Append(p.got, DownFlight(Flights(st), p)), VerdictOf(q) = VerdictOf(p)
       PROVE  Tunnel!CarryDown(st)
  <2>1. AtPeer' = [AtPeer EXCEPT ![st] = Append(@, TunnelFlights[st][2 * Len(AtPeer[st]) + 2])]
    <3>1. DownFlight(Flights(st), p) = TunnelFlights[st][2 * Len(p.got) + 2]
      BY <1>1, <1>10, FlightsToCome
    <3>2. QED
      BY <3>1, <1>5, <1>7, <1>10
  <2>2. Len(AtPeer[st]) < Len(AtServer[st])
    BY <1>7, <1>10, AtServerGot
  <2>3. AtVerdict' = AtVerdict
    BY <1>8, <1>10
  <2>4. QED
    BY <2>1, <2>2, <2>3, <1>4
       DEF Tunnel!CarryDown, TunnelFlights, AtPeer, AtVerdict, VerdictOf
<1>11. ASSUME q.got = p.got, VerdictOf(p) = "none", VerdictOf(q) = "success", Through(p)
       PROVE  Tunnel!Admit(st)
  <2>1. /\ AtVerdict' = [AtVerdict EXCEPT ![st] = "success"] /\ AtVerdict[st] = "none"
        /\ 2 * Len(AtPeer[st]) = FlightCount /\ AtPeer' = AtPeer
    BY <1>6, <1>7, <1>8, <1>11 DEF Through
  <2>2. QED
    BY <2>1, <1>4 DEF Tunnel!Admit, TunnelFlights, AtPeer, AtVerdict, VerdictOf
<1>12. ASSUME q.got = p.got, VerdictOf(p) = "none", VerdictOf(q) = "failure"
       PROVE  Tunnel!Refuse(st)
  <2>1. /\ AtVerdict' = [AtVerdict EXCEPT ![st] = "failure"] /\ AtVerdict[st] = "none"
        /\ AtPeer' = AtPeer
    BY <1>6, <1>7, <1>8, <1>12
  <2>2. QED
    BY <2>1, <1>4 DEF Tunnel!Refuse, TunnelFlights, AtPeer, AtVerdict, VerdictOf
<1>13. QED
  BY <1>1, <1>9, <1>10, <1>11, <1>12

(* Every step of the system is one of the tunnel, or none.                 *)
LEMMA StartImplements ==
  ASSUME Alphabet, TestbedInv, TunnelInv, FlightsCarryData, NEW st \in Stations, Start(st)
  PROVE  Unmoved
<1>1. PICK q : peer' = [peer EXCEPT ![st] = q]
  BY DEF Start, Begin, Transmit
<1>2. script' = script /\ server' = server /\ peer[st].status = "off"
  BY DEF Start
<1>3. peer'[st] = q
  BY <1>1 DEF TestbedInv, PeerTypeOK
<1>4. q.got = <<>> /\ q.status = "waiting"
  BY <1>3, StartTunnel
<1>5. peer[st] = NewPeer
  BY <1>2 DEF TunnelInv, Course
<1>6. q.got = peer[st].got /\ VerdictOf(q) = VerdictOf(peer[st])
  BY <1>2, <1>4, <1>5 DEF VerdictOf, NewPeer
<1>7. QED
  BY <1>1, <1>2, <1>6, PeerTunnel

LEMMA TakeReplyImplements ==
  ASSUME Alphabet, TestbedInv, TunnelInv, FlightsCarryData, NEW st \in Stations,
         NEW m \in toAp, TakeReply(st, m)
  PROVE  Unmoved \/ Tunnel!CarryDown(st) \/ Tunnel!Admit(st) \/ Tunnel!Refuse(st)
<1>1. PICK f : f = Flights(st)
  OBVIOUS
<1>2. PICK p : p = peer[st]
  OBVIOUS
<1>3. PICK talks : talks = Talks(st)
  OBVIOUS
<1>4. PICK s : s = Get(sessions, StateKey(m.state))
  OBVIOUS
<1>5. /\ script' = script /\ server' = server /\ DOMAIN peer = Stations /\ p \in Peer(st)
      /\ ServerTypeOK
  BY <1>2 DEF TakeReply, TestbedInv, PeerTypeOK
<1>6. CASE UNCHANGED <<peer, inbox>>
  BY <1>5, <1>6, ElsewhereTunnel
<1>7. ASSUME NEW status \in {"success", "failure"}, p.status = "waiting",
             peer' = [peer EXCEPT ![st].status = status], status = "success" => Through(p)
      PROVE  Tunnel!Admit(st) \/ Tunnel!Refuse(st)
  <2>1. PICK q : q = [p EXCEPT !.status = status]
    OBVIOUS
  <2>2. q.got = p.got /\ q.status = status
    BY <2>1, <1>5 DEF Peer
  <2>3. VerdictOf(q) = status /\ VerdictOf(p) = "none"
    BY <2>2, <1>7 DEF VerdictOf
  <2>4. peer' = [peer EXCEPT ![st] = q]
    BY <2>1, <1>2, <1>7
  <2>5. CASE status = "success"
    <3>1. Through(p)
      BY <2>5, <1>7
    <3>2. QED
      BY <3>1, <2>2, <2>3, <2>4, <2>5, <1>2, <1>5, PeerTunnel
  <2>6. CASE status = "failure"
    BY <2>2, <2>3, <2>4, <2>6, <1>2, <1>5, PeerTunnel
  <2>7. QED
    BY <2>5, <2>6
<1>8. ASSUME m.state \in Nat, NEW got, Said(st, f, s, talks, m, got)
      PROVE  \E q : /\ peer' = [peer EXCEPT ![st] = q] /\ q.got = got
                    /\ VerdictOf(q) = "none" /\ VerdictOf(p) = "none"
  <2>1. PICK q : peer' = [peer EXCEPT ![st] = q]
    BY <1>8 DEF Said, Transmit
  <2>2. peer'[st] = q
    BY <2>1, <1>5
  <2>3. Apartly(st)
    BY ReplyApart
  <2>4. peer'[st].got = got /\ peer'[st].status = "waiting"
    BY <2>3, <1>1, <1>3, <1>4, <1>8, SaidTunnel
  <2>5. p.status = "waiting"
    <3>1. m \in RepliesOf(st)
      BY DEF TakeReply, RepliesOf
    <3>2. QED
      BY <3>1, <1>2 DEF TunnelInv, Course, ReplyFine
  <2>6. VerdictOf(q) = "none" /\ VerdictOf(p) = "none"
    BY <2>2, <2>4, <2>5 DEF VerdictOf
  <2>7. QED
    BY <2>1, <2>2, <2>4, <2>6
<1>9. ASSUME m.state \in Nat, Said(st, f, s, talks, m, p.got) PROVE Unmoved
  <2>1. PICK q : /\ peer' = [peer EXCEPT ![st] = q] /\ q.got = p.got
                 /\ VerdictOf(q) = "none" /\ VerdictOf(p) = "none"
    BY <1>8, <1>9
  <2>2. QED
    BY <2>1, <1>2, <1>5, PeerTunnel
<1>10. ASSUME m.state \in Nat, Said(st, f, s, talks, m, Append(p.got, DownFlight(f, p))),
              UnderWay(p), NEW c \in DOMAIN talks, Len(talks[c].got) = Len(p.got) + 1
       PROVE  Tunnel!CarryDown(st)
  <2>1. PICK q : /\ peer' = [peer EXCEPT ![st] = q]
                 /\ q.got = Append(p.got, DownFlight(f, p))
                 /\ VerdictOf(q) = "none" /\ VerdictOf(p) = "none"
    BY <1>8, <1>10
  <2>2. OnlyOneTalk(st)
    BY DEF TunnelInv, Course, OnlyOneTalk
  <2>3. GotIn(server, st) = talks[c].got
    BY <2>2, <1>3, <1>5, <1>10, ServersGot, TalksFacts
  <2>4. Len(p.got) \in Nat
    BY <1>5 DEF Peer
  <2>5. Len(p.got) < Len(GotIn(server, st))
    BY <2>3, <2>4, <1>10
  <2>6. QED
    BY <2>1, <2>5, <1>1, <1>2, <1>5, <1>10, PeerTunnel
<1>11. CASE m.state \in Nat /\ Reacts(st, f, p, s, talks, m)
  BY <1>9, <1>10, <1>11 DEF Reacts
<1>12. CASE /\ inbox' = inbox /\ p.status = "waiting"
            /\ \/ peer' = [peer EXCEPT ![st].status = "success"] /\ Through(p)
               \/ peer' = [peer EXCEPT ![st].status = "failure"]
  BY <1>7, <1>12
<1>13. QED
  BY <1>1, <1>2, <1>3, <1>4, <1>6, <1>11, <1>12, ReplyTaken

LEMMA NextImplements ==
  ASSUME Alphabet, TestbedInv, TestbedInv', TunnelInv, FlightsCarryData, [Next]_vars
  PROVE  [Tunnel!Next]_Tunnel!tunnelVars
<1>1. ASSUME NEW st \in Stations, PeerStep(st) PROVE Unmoved \/ Tunnel!Next
  <2>1. ~Retry(st)
    BY NothingRepeats DEF TunnelInv
  <2>2. QED
    BY <1>1, <2>1, StartImplements, TakeReplyImplements DEF PeerStep, Tunnel!Next
<1>2. CASE ServerStep
  <2>1. PICK o \in Outcomes(upstream) : server' = o.server /\ Answer(o.reply)
    BY <1>2 DEF ServerStep
  <2>2. handler # Nil /\ script' = script /\ peer' = peer
    BY <1>2, <2>1 DEF ServerStep, Answer
  <2>3. QED
    BY <2>1, <2>2, HeardTunnel, UnmovedTunnel DEF Tunnel!Next
<1>3. CASE TimeOut
  <2>1. /\ handler # Nil /\ script' = script /\ peer' = peer
        /\ server' = server \/ \E o \in Outcomes(upstream) : server' = o.server
    BY <1>3 DEF TimeOut, UpstreamTimeout
  <2>2. CASE server' = server
    BY <2>1, <2>2, ElsewhereTunnel, UnmovedTunnel
  <2>3. ASSUME NEW o \in Outcomes(upstream), server' = o.server
        PROVE  Unmoved \/ Tunnel!Next
    BY <2>1, <2>3, HeardTunnel DEF Tunnel!Next
  <2>4. QED
    BY <2>1, <2>2, <2>3, UnmovedTunnel
<1>4. CASE ProxyStep \/ LoseDatagram \/ LoseReply \/ RestartProxy \/ UNCHANGED vars
  <2>1. script' = script /\ peer' = peer /\ server' = server
    BY <1>4 DEF ProxyStep, LoseDatagram, LoseReply, RestartProxy, vars
  <2>2. QED
    BY <2>1, ElsewhereTunnel, UnmovedTunnel
<1>5. \A st \in Stations : ~Retransmit(st)
  BY NothingRepeats DEF TunnelInv
<1>6. QED
  BY <1>1, <1>2, <1>3, <1>4, <1>5, UnmovedTunnel DEF Next, System, Fault, Stop

LEMMA InitImplements == ASSUME Init PROVE Tunnel!Init
<1>1. server = <<>> /\ peer = [st \in Stations |-> NewPeer]
  BY DEF Init
<1>2. FlightCount \in Nat
  BY TestbedAssumption
<1>3. \A st \in Stations : Len(TunnelFlights[st]) = FlightCount
  BY <1>2 DEF TunnelFlights
<1>4. AtServer = [st \in Stations |-> <<>>]
  <2>1. \A st : {c \in DOMAIN server : server[c].st = st} = {}
    BY <1>1
  <2>2. \A st : GotIn(server, st) = <<>>
    BY <2>1, GotInNone
  <2>3. QED
    BY <2>2, AtServerGot
<1>5. AtPeer = [st \in Stations |-> <<>>] /\ AtVerdict = [st \in Stations |-> "none"]
  BY <1>1 DEF AtPeer, AtVerdict, VerdictOf, NewPeer
<1>6. QED
  BY <1>3, <1>4, <1>5 DEF Tunnel!Init, TunnelFlights, AtPeer, AtVerdict, VerdictOf

(* The whole path implements the tunnel: what the server is given of a     *)
(* station's handshake, and the station of the server's, is at every       *)
(* moment the flights sent, whole, unaltered and in turn, and a station is *)
(* let in only after the last of them, whatever sizes the two legs and     *)
(* their ends cut them into, in both modes, and after losses, timeouts,    *)
(* rejections and restarts (split_into_fragments, ingest, drain).  As long *)
(* as no request is repeated and no station begins again.                  *)
THEOREM TunnelImplemented ==
  ASSUME Alphabet, FlightsCarryData, NothingRepeated
  PROVE  Spec => TunnelSpec
<1>1. Init => Tunnel!Init
  BY InitImplements
<1>2. /\ TestbedInv /\ TunnelInv /\ (TestbedInv /\ TunnelInv)' /\ [Next]_vars
      => [Tunnel!Next]_Tunnel!tunnelVars
  BY NextImplements
<1>3. QED
  BY <1>1, <1>2, TunnelInvariance, PTL DEF Spec, TunnelSpec, Tunnel!Spec
=============================================================================
