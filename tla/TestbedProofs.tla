--------------------------- MODULE TestbedProofs ---------------------------
(***************************************************************************)
(* Proofs about the whole path (Testbed), for any number of stations,      *)
(* handshakes of any shape and any budget of faults, from the lemmas about *)
(* the proxy in OpenProxyProofs.                                           *)
(***************************************************************************)
EXTENDS Testbed, OpenProxyProofs

(* What the testbed's packets are made of.                                 *)
Alphabet ==
  /\ Unit = Stations \X Nat \X Nat
  /\ Address = {"ap"} /\ Station = Stations /\ Authenticator = Stations \X Nat
  /\ ServerState = Nat \X Nat /\ AttrValue = Nat \ {0}

(* The units of the handshake of st, of which a station and the            *)
(* conversations with it are to hold nothing else.                         *)
Of(st) == {st} \X Nat \X Nat

Peer(st) ==
  [status : {"off", "waiting", "success", "failure"}, request : Datagram \cup {Nil},
   rounds : Nat, id : Identifier \cup {Nil},
   tx : Seq(Seq(Of(st))), rx : Seq(Of(st)), got : Seq(Seq(Of(st)))]

Conversation(st) ==
  [st : {st}, id : Identifier \cup {Nil}, step : Nat,
   tx : Seq(Seq(Of(st))), rx : Seq(Of(st)), got : Seq(Seq(Of(st))),
   verdict : Verdict \cup {Nil}]

Conversations == UNION {Conversation(st) : st \in Stations}

(* What station st may send, quoting state: without a State only its       *)
(* Identity, which names it.                                               *)
Speaks(st, state, eap) ==
  /\ eap \in Packet(Of(st))
  /\ state = Nil => eap.kind = "other"
  /\ eap.kind = "other" => eap.data # <<>> /\ eap.data[1][1] = st

OfStation(d, st) ==
  d \in Datagram /\ d.authenticator[1] = st /\ Speaks(st, d.state, d.eap)

InFlight == {inbox[i] : i \in DOMAIN inbox}

PeerTypeOK ==
  /\ script \in [Stations -> Scripts]
  /\ DOMAIN peer = Stations /\ \A st \in Stations : peer[st] \in Peer(st)
  /\ \A st \in Stations : peer[st].status = "waiting" => OfStation(peer[st].request, st)
  /\ inbox \in Seq(Datagram)
  /\ \A d \in InFlight : OfStation(d, d.authenticator[1])

ServerTypeOK == server \in Seq(Conversations)

LEMMA OfUnits ==
  ASSUME Alphabet, NEW st \in Stations PROVE Of(st) \in SUBSET Unit
BY DEF Alphabet, Of

LEMMA BareType ==
  ASSUME NEW U, NEW kind \in Kind, NEW id \in Identifier PROVE Bare(kind, id) \in Packet(U)
<1>1. <<>> \in Seq(U)
  OBVIOUS
<1>2. QED
  BY <1>1 DEF Bare, Packet

LEMMA ConversationType ==
  ASSUME ServerTypeOK, NEW c \in DOMAIN server
  PROVE  server[c].st \in Stations /\ server[c] \in Conversation(server[c].st)
<1>1. PICK st \in Stations : server[c] \in Conversation(st)
  BY DEF ServerTypeOK, Conversations
<1>2. QED
  BY <1>1 DEF Conversation

-----------------------------------------------------------------------------
(* Sequences of datagrams.                                                 *)

LEMMA InFlightTail ==
  ASSUME inbox \in Seq(Datagram), inbox # <<>>, inbox' = Tail(inbox)
  PROVE  inbox' \in Seq(Datagram) /\ InFlight' \subseteq InFlight /\ Head(inbox) \in InFlight
<1>1. inbox' \in Seq(Datagram) /\ Len(inbox') = Len(inbox) - 1 /\ Len(inbox) \in Nat \ {0}
  OBVIOUS
<1>2. \A i \in 1 .. Len(inbox') : inbox'[i] = inbox[i + 1] /\ i + 1 \in 1 .. Len(inbox)
  BY <1>1
<1>3. InFlight' \subseteq InFlight
  BY <1>1, <1>2 DEF InFlight
<1>4. Head(inbox) = inbox[1] /\ 1 \in DOMAIN inbox
  BY <1>1
<1>5. QED
  BY <1>1, <1>3, <1>4 DEF InFlight

LEMMA InFlightAppend ==
  ASSUME inbox \in Seq(Datagram), NEW d \in Datagram, inbox' = Append(inbox, d)
  PROVE  inbox' \in Seq(Datagram) /\ InFlight' = InFlight \cup {d}
<1>1. /\ inbox' \in Seq(Datagram) /\ DOMAIN inbox' = DOMAIN inbox \cup {Len(inbox) + 1}
      /\ \A i \in DOMAIN inbox : inbox'[i] = inbox[i] /\ i # Len(inbox) + 1
      /\ inbox'[Len(inbox) + 1] = d
  OBVIOUS
<1>2. QED
  BY <1>1 DEF InFlight

-----------------------------------------------------------------------------
(* The stations.                                                           *)

LEMMA FlightType ==
  ASSUME Alphabet, script \in [Stations -> Scripts],
         NEW st \in Stations, NEW i \in Nat \ {0}
  PROVE  Flight(st, i) \in Seq(Of(st))
<1>1. CASE i > FlightCount
  BY <1>1 DEF Flight
<1>2. CASE i <= FlightCount
  <2>1. script[st] \in Seq(Nat) /\ Len(script[st]) = FlightCount /\ FlightCount \in Nat
    BY TestbedAssumption
  <2>2. script[st][i] \in Nat
    BY <2>1, <1>2
  <2> DEFINE n == script[st][i]
             f == [j \in 1 .. n |-> <<st, i, j>>]
  <2>3. f \in [1 .. n -> Of(st)]
    BY DEF Of
  <2>4. f \in Seq(Of(st))
    BY <2>2, <2>3, SeqDef
  <2>5. QED
    BY <1>2, <2>1, <2>4 DEF Flight
<1>3. QED
  BY <1>1, <1>2, TestbedAssumption

LEMMA ChunksType ==
  ASSUME NEW U, NEW flight \in Seq(U), NEW size \in Nat \ {0}, NEW id \in Identifier
  PROVE  /\ Tail(Fragment(flight, size)) \in Seq(Seq(U))
         /\ FirstFragment(id, flight, Fragment(flight, size)) \in Packet(U)
<1> DEFINE chunks == Fragment(flight, size)
<1>1. chunks \in Seq(Seq(U)) /\ chunks # <<>>
  BY FragmentType
<1> HIDE DEF chunks
<1>2. /\ Head(chunks) \in Seq(U) /\ Tail(chunks) \in Seq(Seq(U))
      /\ (Len(chunks) > 1) \in BOOLEAN /\ Len(flight) \in Nat
  BY <1>1
<1> DEFINE length == IF Len(chunks) > 1 THEN Len(flight) ELSE Nil
<1>3. length \in Nat \cup {Nil}
  BY <1>2
<1> HIDE DEF length
<1>4. Frame(id, length, Len(chunks) > 1, Head(chunks)) \in Packet(U)
  BY <1>2, <1>3, FrameType
<1>5. FirstFragment(id, flight, chunks) \in Packet(U)
  BY <1>4 DEF FirstFragment, length
<1>6. QED
  BY <1>2, <1>5 DEF chunks

LEMMA NextFragmentType ==
  ASSUME NEW U, NEW chunks \in Seq(Seq(U)), chunks # <<>>, NEW id \in Identifier
  PROVE  Tail(chunks) \in Seq(Seq(U)) /\ NextFragment(id, chunks) \in Packet(U)
<1>1. /\ Head(chunks) \in Seq(U) /\ Tail(chunks) \in Seq(Seq(U))
      /\ (Len(chunks) > 1) \in BOOLEAN /\ Nil \in Nat \cup {Nil}
  OBVIOUS
<1>2. QED
  BY <1>1, FrameType DEF NextFragment

(* An Access-Request made by a station is well formed.                     *)
LEMMA SendingType ==
  ASSUME Alphabet, NEW st \in Stations, NEW p \in Peer(st), NEW state \in Nat \cup {Nil},
         NEW eap, Speaks(st, state, eap)
  PROVE  /\ Sending(st, p, state, eap) \in Peer(st)
         /\ OfStation(Sending(st, p, state, eap).request, st)
         /\ Sending(st, p, state, eap).request.state = state
<1> DEFINE d == [from |-> "ap", calling |-> IF CallingSent THEN st ELSE Nil,
                 state |-> state,
                 authenticator |-> <<st, p.rounds + 1>>,
                 attrs |-> [a \in {"Framed-MTU"} |-> ApMtu],
                 eap |-> eap]
<1>1. p.rounds + 1 \in Nat /\ eap.id \in Identifier /\ eap \in Packet(Unit)
  BY OfUnits, Widens DEF Peer, Packet, Speaks
<1>2. [a \in {"Framed-MTU"} |-> ApMtu] \in Attributes
  <2>1. [a \in {"Framed-MTU"} |-> ApMtu] \in [{"Framed-MTU"} -> AttrValue]
    BY TestbedAssumption DEF Alphabet
  <2>2. {"Framed-MTU"} \in SUBSET {"Framed-MTU", "NAS-IP-Address"}
    OBVIOUS
  <2>3. QED
    BY <2>1, <2>2 DEF Attributes
<1>3. d \in Datagram
  BY <1>1, <1>2 DEF Datagram, Alphabet
<1>4. d.authenticator[1] = st /\ d.state = state /\ d.eap = eap
  OBVIOUS
<1> DEFINE rounds == p.rounds + 1
           id == eap.id
           q == [p EXCEPT !.status = "waiting", !.rounds = rounds, !.id = id, !.request = d]
<1>5. Sending(st, p, state, eap) = q
  BY DEF Sending, Peer
<1>6. rounds \in Nat /\ id \in Identifier
  BY <1>1
<1> HIDE DEF d, rounds, id
<1>7. q \in Peer(st)
  BY <1>3, <1>6 DEF Peer
<1>8. q.request = d
  BY DEF Peer
<1> HIDE DEF q
<1>9. QED
  BY <1>3, <1>4, <1>5, <1>7, <1>8 DEF OfStation

(* The ways a step of station st can end: it answers quoting a State, or   *)
(* it stops waiting.                                                       *)
Answers(st, state) ==
  \E p \in Peer(st) : \E eap :
    Speaks(st, state, eap) /\ Transmit(st, Sending(st, p, state, eap))

Settles(st) ==
  \E p \in Peer(st) :
    /\ p.status \in {"success", "failure"}
    /\ peer' = [peer EXCEPT ![st] = p]
    /\ UNCHANGED inbox

LEMMA SettlesType ==
  ASSUME PeerTypeOK, NEW st \in Stations, Settles(st), script' = script
  PROVE  PeerTypeOK'
<1>1. PICK p \in Peer(st) : /\ p.status \in {"success", "failure"}
                            /\ peer' = [peer EXCEPT ![st] = p]
                            /\ inbox' = inbox
  BY DEF Settles
<1>2. InFlight' = InFlight
  BY <1>1 DEF InFlight
<1>3. QED
  BY <1>1, <1>2 DEF PeerTypeOK

LEMMA AnswersType ==
  ASSUME Alphabet, PeerTypeOK, NEW st \in Stations, NEW state \in Nat \cup {Nil},
         Answers(st, state), script' = script
  PROVE  /\ PeerTypeOK'
         /\ \E d : /\ OfStation(d, st) /\ d.state = state /\ InFlight' = InFlight \cup {d}
                  /\ \A u \in Stations : IF u = st THEN peer'[u].request = d
                                         ELSE peer'[u] = peer[u]
<1>1. PICK p \in Peer(st) : \E eap :
        Speaks(st, state, eap) /\ Transmit(st, Sending(st, p, state, eap))
  BY DEF Answers
<1>2. PICK eap : Speaks(st, state, eap) /\ Transmit(st, Sending(st, p, state, eap))
  BY <1>1
<1> DEFINE q == Sending(st, p, state, eap)
<1>3. q \in Peer(st) /\ OfStation(q.request, st) /\ q.request.state = state
  BY <1>2, SendingType
<1>4. peer' = [peer EXCEPT ![st] = q] /\ inbox' = Append(inbox, q.request)
  BY <1>2 DEF Transmit
<1> HIDE DEF q
<1>5. inbox' \in Seq(Datagram) /\ InFlight' = InFlight \cup {q.request}
  BY <1>3, <1>4, InFlightAppend DEF PeerTypeOK, OfStation
<1>6. \A u \in Stations : IF u = st THEN peer'[u] = q ELSE peer'[u] = peer[u]
  BY <1>4 DEF PeerTypeOK
<1>7. DOMAIN peer' = Stations /\ \A u \in Stations : peer'[u] \in Peer(u)
  BY <1>3, <1>4 DEF PeerTypeOK
<1>8. q.request.authenticator[1] = st
  BY <1>3 DEF OfStation
<1>9. PeerTypeOK'
  BY <1>3, <1>5, <1>6, <1>7, <1>8 DEF PeerTypeOK
<1>10. QED
  BY <1>3, <1>5, <1>6, <1>9

(* A reply to a station leads to an answer that quotes its State.          *)
LEMMA TakeReplyShape ==
  ASSUME Alphabet, PeerTypeOK, toAp \subseteq ApReplyType,
         \A m \in toAp : m.code = "challenge" => m.state # Nil,
         \A m \in toAp : m.eap # Nil => m.eap \in Packet(Of(m.to[1])),
         NEW st \in Stations, NEW m \in toAp, TakeReply(st, m)
  PROVE  /\ m.to[1] = st
         /\ \/ m.state # Nil /\ Answers(st, m.state)
            \/ Settles(st)
            \/ UNCHANGED <<peer, inbox>>
<1> DEFINE p == peer[st]
<1>1. p \in Peer(st) /\ m \in ApReplyType
  BY DEF PeerTypeOK
<1>2. /\ p.tx \in Seq(Seq(Of(st))) /\ p.rx \in Seq(Of(st)) /\ p.got \in Seq(Seq(Of(st)))
      /\ p.id \in Identifier \cup {Nil}
  BY <1>1 DEF Peer
<1>3. m.to[1] = st
  BY DEF TakeReply
<1>4. CASE Awaited(st, m) /\ TakeVerdict(st, m)
  <2> DEFINE status == IF m.code = "accept" THEN "success" ELSE "failure"
             q == [p EXCEPT !.status = status]
  <2>1. q \in Peer(st) /\ q.status \in {"success", "failure"}
    BY <1>1 DEF Peer
  <2>2. peer' = [peer EXCEPT ![st] = q] /\ inbox' = inbox
    BY <1>4 DEF TakeVerdict, PeerTypeOK
  <2>3. QED
    BY <1>3, <2>1, <2>2 DEF Settles
<1>5. ASSUME Awaited(st, m), Respond(st, m)
      PROVE  (m.state # Nil /\ Answers(st, m.state)) \/ Settles(st)
  <2>1. /\ m.code = "challenge" /\ m.eap # Nil /\ m.eap.kind = "tls" /\ m.state # Nil
    BY <1>5 DEF Respond
  <2>2. /\ m.eap \in Packet(Of(st)) /\ m.state \in Nat
        /\ m.eap.id \in Identifier /\ m.eap.data \in Seq(Of(st))
    BY <1>1, <1>3, <2>1 DEF ApReplyType, Packet
  <2>3. \A eap \in Packet(Of(st)) : eap.kind = "tls" => Speaks(st, m.state, eap)
    BY <2>1 DEF Speaks
  <2>4. ASSUME NEW q \in Peer(st), NEW eap \in Packet(Of(st)), eap.kind = "tls",
               Transmit(st, Sending(st, q, m.state, eap))
        PROVE  Answers(st, m.state)
    BY <2>3, <2>4 DEF Answers
  <2>5. ASSUME NEW q \in Peer(st), NEW i \in Nat \ {0}, SendFlight(st, q, m, i)
        PROVE  Answers(st, m.state)
    <3>1. CASE i > FlightCount
      <4>1. Transmit(st, Sending(st, q, m.state, AckPacket(m.eap.id)))
        BY <2>5, <3>1 DEF SendFlight
      <4>2. AckPacket(m.eap.id) \in Packet(Of(st)) /\ AckPacket(m.eap.id).kind = "tls"
        BY <2>2, AckPacketType DEF AckPacket, Frame
      <4>3. QED
        BY <4>1, <4>2, <2>4
    <3>2. CASE ~(i > FlightCount)
      <4> DEFINE flight == Flight(st, i)
                 chunks == Fragment(flight, PeerFragmentSize)
                 eap == FirstFragment(m.eap.id, flight, chunks)
                 u == [q EXCEPT !.tx = Tail(chunks)]
      <4>1. Transmit(st, Sending(st, u, m.state, eap))
        BY <2>5, <3>2 DEF SendFlight
      <4>2. flight \in Seq(Of(st)) /\ PeerFragmentSize \in Nat \ {0}
        BY FlightType, TestbedAssumption DEF PeerTypeOK
      <4> HIDE DEF flight
      <4>3. Tail(chunks) \in Seq(Seq(Of(st))) /\ eap \in Packet(Of(st))
        BY <4>2, <2>2, ChunksType
      <4>4. eap.kind = "tls"
        BY DEF FirstFragment, Frame
      <4>5. u \in Peer(st)
        BY <4>3 DEF Peer
      <4> HIDE DEF u, eap
      <4>6. QED
        BY <4>1, <4>3, <4>4, <4>5, <2>4
    <3>3. QED
      BY <3>1, <3>2
  <2>6. CASE AnswerAgain(st, m)
    <3> DEFINE eap == p.request.eap
    <3>1. OfStation(p.request, st)
      BY <1>5 DEF Awaited, PeerTypeOK
    <3>2. eap \in Packet(Of(st)) /\ Speaks(st, m.state, eap)
      BY <3>1, <2>1 DEF OfStation, Datagram, Speaks
    <3>3. Transmit(st, Sending(st, p, m.state, eap))
      BY <2>6 DEF AnswerAgain
    <3>4. QED
      BY <3>2, <3>3, <1>1, <2>1 DEF Answers
  <2>7. CASE AnswerStart(st, m)
    BY <2>7, <2>5, <2>1, <1>1 DEF AnswerStart
  <2>8. CASE AnswerAck(st, m)
    <3> DEFINE u == [p EXCEPT !.tx = Tail(p.tx)]
               eap == NextFragment(m.eap.id, p.tx)
    <3>1. p.tx # <<>> /\ Transmit(st, Sending(st, u, m.state, eap))
      BY <2>8, <1>1 DEF AnswerAck, Peer
    <3>2. Tail(p.tx) \in Seq(Seq(Of(st))) /\ eap \in Packet(Of(st))
      BY <3>1, <1>2, <2>2, NextFragmentType
    <3>3. eap.kind = "tls"
      BY DEF NextFragment, Frame
    <3>4. u \in Peer(st)
      BY <3>2, <1>1 DEF Peer
    <3> HIDE DEF u, eap
    <3>5. QED
      BY <3>1, <3>2, <3>3, <3>4, <2>4, <2>1
  <2>9. CASE AnswerData(st, m)
    <3> DEFINE record == p.rx \o m.eap.data
               got == Append(p.got, record)
    <3>1. record \in Seq(Of(st)) /\ got \in Seq(Seq(Of(st))) /\ Len(got) \in Nat \ {0}
      BY <1>2, <2>2
    <3>2. \/ Transmit(st, Sending(st, [p EXCEPT !.rx = record], m.state, AckPacket(m.eap.id)))
          \/ /\ peer' = [peer EXCEPT ![st] = [p EXCEPT !.got = got, !.status = "failure"]]
             /\ UNCHANGED inbox
          \/ SendFlight(st, [p EXCEPT !.got = got, !.rx = <<>>], m, 2 * Len(got) + 1)
      BY <2>9 DEF AnswerData
    <3> HIDE DEF record, got
    <3>3. /\ [p EXCEPT !.rx = record] \in Peer(st)
          /\ [p EXCEPT !.got = got, !.status = "failure"] \in Peer(st)
          /\ [p EXCEPT !.got = got, !.rx = <<>>] \in Peer(st)
      <4>1. <<>> \in Seq(Of(st))
        OBVIOUS
      <4> HIDE DEF p
      <4>2. QED
        BY <4>1, <1>1, <3>1 DEF Peer
    <3>4. [p EXCEPT !.got = got, !.status = "failure"].status = "failure"
      BY <1>1 DEF Peer
    <3>5. 2 * Len(got) + 1 \in Nat \ {0}
      BY <3>1
    <3>6. AckPacket(m.eap.id) \in Packet(Of(st)) /\ AckPacket(m.eap.id).kind = "tls"
      BY <2>2, AckPacketType DEF AckPacket, Frame
    <3>7. QED
      BY <3>2, <3>3, <3>4, <3>5, <3>6, <2>4, <2>5, <2>1 DEF Settles
  <2>10. QED
    BY <1>5, <2>6, <2>7, <2>8, <2>9 DEF Respond
<1>6. QED
  BY <1>3, <1>4, <1>5 DEF TakeReply

-----------------------------------------------------------------------------
(* The server.                                                             *)

(* State belongs to a conversation with st; st has been accepted.          *)
Conversing(conversations, state, st) ==
  state # Nil => state[1] \in DOMAIN conversations /\ conversations[state[1]].st = st

Admitted(conversations, st) ==
  \E c \in DOMAIN conversations :
    conversations[c].st = st /\ conversations[c].verdict = "accept"

(* Conversations stay whose they are, and an acceptance is final.          *)
Grows(before, after) ==
  /\ after \in Seq(Conversations)
  /\ \A c \in DOMAIN before :
       /\ c \in DOMAIN after /\ after[c].st = before[c].st
       /\ before[c].verdict = "accept" => after[c].verdict = "accept"

LEMMA GrowsKeeps ==
  ASSUME NEW before, NEW after, Grows(before, after), NEW st
  PROVE  /\ Admitted(before, st) => Admitted(after, st)
         /\ \A state : Conversing(before, state, st) => Conversing(after, state, st)
BY DEF Grows, Admitted, Conversing

(* What outcome o of request q means to station st, which asks: outside a  *)
(* conversation it brings no data.                                         *)
Fits(o, q, st) ==
  /\ o.reply \in ServerReply /\ (o.reply.code = "accept" => o.reply.keyed)
  /\ o.reply.eap \in Packet(IF q.state = Nil THEN {} ELSE Of(st))
  /\ Grows(server, o.server)
  /\ Conversing(o.server, o.reply.state, st)
  /\ o.reply.code = "accept" => Admitted(o.server, st) /\ q.state # Nil
  /\ o.reply.code \in Verdict => o.reply.state = Nil

LEMMA ChallengeFits ==
  ASSUME Alphabet, ServerTypeOK, NEW q, NEW st \in Stations,
         NEW c \in 1 .. Len(server) + 1, NEW v \in Conversation(st),
         c \in DOMAIN server => server[c].st = st /\ server[c].verdict = Nil,
         NEW eap \in Packet(IF q.state = Nil THEN {} ELSE Of(st))
  PROVE  Fits(Challenge(c, v, eap), q, st)
<1> DEFINE n == Len(server)
           w == [v EXCEPT !.id = eap.id, !.step = v.step + 1]
           after == [i \in 1 .. n \cup {c} |-> IF i = c THEN w ELSE server[i]]
           reply == [code |-> "challenge", eap |-> eap, state |-> <<c, v.step + 1>>,
                     keyed |-> FALSE]
<1>1. n \in Nat /\ DOMAIN server = 1 .. n /\ \A i \in 1 .. n : server[i] \in Conversations
  BY DEF ServerTypeOK
<1>2. eap \in Packet(Of(st)) /\ eap \in Packet(Unit)
  BY OfUnits, Widens, Widens
<1>3. w \in Conversation(st) /\ w.st = st /\ w \in Conversations
  <2> DEFINE id == eap.id
             step == v.step + 1
  <2>1. id \in Identifier /\ step \in Nat
    BY <1>2 DEF Packet, Conversation
  <2> HIDE DEF id, step
  <2>2. [v EXCEPT !.id = id, !.step = step] \in Conversation(st)
    BY <2>1 DEF Conversation
  <2>3. [v EXCEPT !.id = id, !.step = step].st = st
    BY DEF Conversation
  <2>4. QED
    BY <2>2, <2>3 DEF id, step, Conversations
<1>4. Challenge(c, v, eap).server = after /\ Challenge(c, v, eap).reply = reply
  BY DEF Challenge, Conversation
<1> HIDE DEF w
<1>5. PICK m \in Nat : 1 .. n \cup {c} = 1 .. m
  <2>1. CASE c <= n
    BY <1>1, <2>1
  <2>2. CASE ~(c <= n)
    <3>1. 1 .. n \cup {c} = 1 .. n + 1
      BY <1>1, <2>2
    <3>2. QED
      BY <1>1, <3>1
  <2>3. QED
    BY <2>1, <2>2
<1>6. after \in [1 .. m -> Conversations]
  BY <1>1, <1>3, <1>5
<1>7. /\ \A i \in 1 .. n : i # c => after[i] = server[i]
      /\ after[c] = w
  BY <1>1
<1> HIDE DEF after
<1>8. after \in Seq(Conversations) /\ DOMAIN after = 1 .. n \cup {c}
  BY <1>5, <1>6, SeqDef
<1>9. Grows(server, after)
  BY <1>1, <1>3, <1>7, <1>8, NoneAssumption DEF Grows, Verdict
<1>10. reply \in ServerReply /\ reply.state = <<c, v.step + 1>> /\ reply.code = "challenge"
      /\ reply.eap = eap
  BY <1>1, <1>2 DEF ServerReply, Alphabet, Conversation
<1> HIDE DEF reply
<1>11. Conversing(after, reply.state, st)
  BY <1>3, <1>7, <1>8, <1>10 DEF Conversing
<1>12. QED
  BY <1>4, <1>9, <1>10, <1>11 DEF Fits, Verdict

LEMMA VerdictFits ==
  ASSUME ServerTypeOK, NEW q, q.state # Nil, NEW st \in Stations,
         NEW c \in DOMAIN server, NEW v \in Conversation(st),
         server[c].st = st, server[c].verdict = Nil,
         NEW code \in Verdict, NEW id \in Identifier
  PROVE  Fits(Verdicts(c, v, code, id), q, st)
<1> DEFINE w == [v EXCEPT !.verdict = code]
           after == [server EXCEPT ![c] = w]
           eap == Bare(IF code = "accept" THEN "success" ELSE "failure", id)
           reply == [code |-> code, state |-> Nil, keyed |-> code = "accept", eap |-> eap]
<1>1. w \in Conversations /\ w.st = st /\ w.verdict = code
  BY DEF Conversation, Conversations
<1>2. Verdicts(c, v, code, id).server = after /\ Verdicts(c, v, code, id).reply = reply
  BY DEF Verdicts
<1> HIDE DEF w
<1>3. after \in Seq(Conversations) /\ DOMAIN after = DOMAIN server /\ after[c] = w
  BY <1>1 DEF ServerTypeOK
<1>4. \A i \in DOMAIN server : i # c => after[i] = server[i]
  BY DEF ServerTypeOK
<1> HIDE DEF after
<1>5. Grows(server, after)
  BY <1>1, <1>3, <1>4, NoneAssumption DEF Grows, Verdict
<1>6. eap \in Packet(Unit) /\ eap \in Packet(Of(st))
  BY BareType DEF Kind
<1> HIDE DEF eap
<1>7. /\ reply \in ServerReply /\ reply.state = Nil /\ reply.code = code
      /\ reply.code = "accept" => reply.keyed
      /\ reply.eap \in Packet(Of(st))
  BY <1>6 DEF ServerReply
<1> HIDE DEF reply
<1>8. code = "accept" => Admitted(after, st)
  BY <1>1, <1>3 DEF Admitted
<1>9. QED
  BY <1>2, <1>5, <1>7, <1>8 DEF Fits, Conversing

LEMMA ServerLimitType ==
  ASSUME Alphabet, NEW attrs \in Attributes PROVE ServerLimit(attrs) \in Nat \ {0}
<1>1. "Framed-MTU" \in DOMAIN attrs => attrs["Framed-MTU"] \in Nat \ {0}
  BY DEF Attributes, Alphabet
<1>2. QED
  BY <1>1, TestbedAssumption DEF ServerLimit, Smaller

(* The two kinds of answer in conversation c with st.                      *)
Continued(o, c, st) ==
  \E w \in Conversation(st), eap \in Packet(Of(st)) : o = Challenge(c, w, eap)
Ended(o, c, st, id) ==
  \E w \in Conversation(st), code \in Verdict : o = Verdicts(c, w, code, id)

(* The next packet of a conversation with st.                              *)
LEMMA ProceedShape ==
  ASSUME Alphabet, script \in [Stations -> Scripts], ServerTypeOK,
         NEW st \in Stations, NEW q \in UpstreamType, q.state # Nil,
         NEW c \in DOMAIN server, server[c].st = st, server[c].verdict = Nil,
         q.eap.id = server[c].id, q.eap \in Packet(Of(st))
  PROVE  Continued(Proceed(c, q), c, st) \/ Ended(Proceed(c, q), c, st, server[c].id)
<1> DEFINE v == server[c]
           id == NextId(v.id)
           record == v.rx \o q.eap.data
           got == Append(v.got, record)
           flight == Flight(v.st, 2 * Len(got))
           chunks == Fragment(flight, ServerLimit(q.attrs))
<1>1. v \in Conversation(st) /\ c \in 1 .. Len(server) + 1
  BY ConversationType DEF ServerTypeOK
<1>2. q.eap \in Packet(Of(st)) /\ q.attrs \in Attributes
  BY DEF UpstreamType
<1>3. v.id \in Identifier /\ q.eap.data \in Seq(Of(st))
  BY <1>2 DEF Packet
<1>4. id \in Identifier
  BY <1>3, NextIdType
<1>5. /\ v.rx \in Seq(Of(st)) /\ v.tx \in Seq(Seq(Of(st))) /\ v.got \in Seq(Seq(Of(st)))
      /\ v.st = st /\ v.verdict = Nil
  BY <1>1 DEF Conversation
<1>6. record \in Seq(Of(st)) /\ got \in Seq(Seq(Of(st))) /\ Len(got) \in Nat \ {0}
  BY <1>3, <1>5
<1>7. flight \in Seq(Of(st))
  <2> HIDE DEF got
  <2>1. 2 * Len(got) \in Nat \ {0}
    BY <1>6
  <2>2. QED
    BY <2>1, <1>5, FlightType
<1>8. /\ Tail(chunks) \in Seq(Seq(Of(st)))
      /\ FirstFragment(id, flight, chunks) \in Packet(Of(st))
  <2> HIDE DEF flight, id
  <2>1. QED
    BY <1>2, <1>4, <1>7, ServerLimitType, ChunksType
<1>9. \/ v.tx # <<>> /\ Proceed(c, q) = Challenge(c, [v EXCEPT !.tx = Tail(@)], NextFragment(id, v.tx))
      \/ \E code \in Verdict : Proceed(c, q) = Verdicts(c, v, code, v.id)
      \/ Proceed(c, q) = Challenge(c, [v EXCEPT !.rx = record], AckPacket(id))
      \/ Proceed(c, q) = Verdicts(c, [v EXCEPT !.got = got], "reject", v.id)
      \/ Proceed(c, q) = Challenge(c, [v EXCEPT !.got = got, !.rx = <<>>, !.tx = Tail(chunks)],
                                   FirstFragment(id, flight, chunks))
  BY DEF Proceed, Verdict
<1> HIDE DEF v, id, record, got, flight, chunks
<1>10. v.id = server[c].id
  BY DEF v
<1>11. ASSUME NEW w \in Conversation(st), NEW eap \in Packet(Of(st)),
              Proceed(c, q) = Challenge(c, w, eap)
       PROVE  Continued(Proceed(c, q), c, st)
  BY <1>11 DEF Continued
<1>12. CASE v.tx # <<>> /\ Proceed(c, q) = Challenge(c, [v EXCEPT !.tx = Tail(@)], NextFragment(id, v.tx))
  <2> DEFINE w == [v EXCEPT !.tx = Tail(v.tx)]
             eap == NextFragment(id, v.tx)
  <2>1. Tail(v.tx) \in Seq(Seq(Of(st))) /\ eap \in Packet(Of(st))
    BY <1>4, <1>5, <1>12, NextFragmentType
  <2>2. w \in Conversation(st)
    BY <1>1, <1>5, <2>1 DEF Conversation
  <2>3. Proceed(c, q) = Challenge(c, w, eap)
    BY <1>1, <1>12 DEF Conversation
  <2> HIDE DEF w, eap
  <2>4. QED
    BY <1>11, <2>1, <2>2, <2>3
<1>13. ASSUME NEW code \in Verdict, Proceed(c, q) = Verdicts(c, v, code, v.id)
       PROVE  Ended(Proceed(c, q), c, st, server[c].id)
  BY <1>1, <1>10, <1>13 DEF Ended
<1>14. CASE Proceed(c, q) = Challenge(c, [v EXCEPT !.rx = record], AckPacket(id))
  <2>1. [v EXCEPT !.rx = record] \in Conversation(st)
    BY <1>1, <1>5, <1>6 DEF Conversation
  <2>2. AckPacket(id) \in Packet(Of(st))
    BY <1>4, AckPacketType
  <2>3. QED
    BY <1>11, <1>14, <2>1, <2>2
<1>15. CASE Proceed(c, q) = Verdicts(c, [v EXCEPT !.got = got], "reject", v.id)
  <2>1. [v EXCEPT !.got = got] \in Conversation(st)
    BY <1>1, <1>5, <1>6 DEF Conversation
  <2>2. "reject" \in Verdict
    BY DEF Verdict
  <2>3. QED
    BY <1>10, <1>15, <2>1, <2>2 DEF Ended
<1>16. CASE Proceed(c, q) = Challenge(c, [v EXCEPT !.got = got, !.rx = <<>>, !.tx = Tail(chunks)],
                                      FirstFragment(id, flight, chunks))
  <2> DEFINE tx == Tail(chunks)
             w == [v EXCEPT !.got = got, !.rx = <<>>, !.tx = tx]
             eap == FirstFragment(id, flight, chunks)
  <2>1. tx \in Seq(Seq(Of(st))) /\ eap \in Packet(Of(st)) /\ <<>> \in Seq(Of(st))
    BY <1>8
  <2>2. Proceed(c, q) = Challenge(c, w, eap)
    BY <1>16
  <2> HIDE DEF tx
  <2>3. w \in Conversation(st)
    BY <1>1, <1>5, <1>6, <2>1 DEF Conversation
  <2> HIDE DEF w, eap
  <2>4. QED
    BY <1>11, <2>1, <2>2, <2>3
<1>17. QED
  BY <1>9, <1>12, <1>13, <1>14, <1>15, <1>16

LEMMA ProceedFits ==
  ASSUME Alphabet, script \in [Stations -> Scripts], ServerTypeOK,
         NEW st \in Stations, NEW q \in UpstreamType, q.state # Nil,
         NEW c \in DOMAIN server, server[c].st = st, server[c].verdict = Nil,
         q.eap.id = server[c].id, q.eap \in Packet(Of(st))
  PROVE  Fits(Proceed(c, q), q, st)
<1>1. c \in 1 .. Len(server) + 1 /\ q.eap.id \in Identifier
  BY DEF ServerTypeOK, Packet
<1>2. CASE Continued(Proceed(c, q), c, st)
  BY <1>1, <1>2, ChallengeFits DEF Continued
<1>3. CASE Ended(Proceed(c, q), c, st, server[c].id)
  BY <1>1, <1>3, VerdictFits DEF Ended
<1>4. QED
  BY <1>2, <1>3, ProceedShape

(* Whatever comes of a request that st makes in a conversation of its own, *)
(* or with its Identity, is its own.                                       *)
LEMMA OutcomeFits ==
  ASSUME Alphabet, script \in [Stations -> Scripts], ServerTypeOK,
         NEW st \in Stations, NEW q \in UpstreamType, Conversing(server, q.state, st),
         q.eap \in Packet(Of(st)), IsIdentity(q.eap) => q.eap.data[1][1] = st,
         NEW o \in Outcomes(q)
  PROVE  Fits(o, q, st)
<1>1. q.eap \in Packet(Unit) /\ q.eap.id \in Identifier
  BY DEF UpstreamType, Packet
<1>2. CASE o = Converse(q) /\ q.state = Nil /\ IsIdentity(q.eap)
  <2> DEFINE v == [st |-> st, id |-> Nil, step |-> 0, tx |-> <<>>, rx |-> <<>>,
                   got |-> <<>>, verdict |-> Nil]
             id == NextId(q.eap.id)
             eap == [Bare("tls", id) EXCEPT !.start = TRUE]
  <2>1. id \in Identifier
    BY <1>1, NextIdType
  <2>2. eap \in Packet({})
    <3> DEFINE b == Bare("tls", id)
    <3> HIDE DEF id
    <3>1. b \in Packet({})
      BY <2>1, BareType DEF Kind
    <3> HIDE DEF b
    <3>2. [b EXCEPT !.start = TRUE] \in Packet({})
      BY <3>1 DEF Packet
    <3>3. QED
      BY <3>2 DEF b
  <2>3. o = Challenge(Len(server) + 1, v, eap)
    BY <1>2 DEF Converse
  <2>4. v \in Conversation(st)
    <3>1. <<>> \in Seq(Of(st)) /\ <<>> \in Seq(Seq(Of(st)))
      OBVIOUS
    <3>2. QED
      BY <3>1 DEF Conversation
  <2>5. Len(server) + 1 \in 1 .. Len(server) + 1 /\ Len(server) + 1 \notin DOMAIN server
    BY DEF ServerTypeOK
  <2> HIDE DEF v, eap
  <2>6. QED
    BY <1>2, <2>2, <2>3, <2>4, <2>5, ChallengeFits
<1>3. CASE o = NoSuchConversation(q)
  <2>1. /\ o.reply = [code |-> "reject", state |-> Nil, keyed |-> FALSE,
                      eap |-> Bare("failure", q.eap.id)]
        /\ o.server = server
    BY <1>3 DEF NoSuchConversation
  <2>2. /\ Bare("failure", q.eap.id) \in Packet(Unit)
        /\ \A U : Bare("failure", q.eap.id) \in Packet(U)
    BY <1>1, BareType DEF Kind
  <2>3. QED
    BY <2>1, <2>2 DEF Fits, Grows, Conversing, ServerReply, Verdict, ServerTypeOK
<1>4. ASSUME Continues(q), \/ o = Proceed(q.state[1], q)
                          \/ o = Verdicts(q.state[1], server[q.state[1]], "reject",
                                         server[q.state[1]].id)
      PROVE  Fits(o, q, st)
  <2> DEFINE c == q.state[1]
  <2>1. /\ q.state # Nil /\ c \in DOMAIN server
        /\ server[c].verdict = Nil /\ q.eap.id = server[c].id /\ server[c].st = st
    BY <1>4 DEF Continues, Conversing
  <2>2. server[c] \in Conversation(st) /\ server[c].id \in Identifier \cup {Nil}
        /\ "reject" \in Verdict
    BY <2>1, ConversationType DEF Conversation, Verdict
  <2>3. CASE o = Proceed(c, q)
    BY <2>1, <2>3, ProceedFits
  <2>4. CASE o = Verdicts(c, server[c], "reject", server[c].id)
    BY <1>1, <2>1, <2>2, <2>4, VerdictFits
  <2>5. QED
    BY <1>4, <2>3, <2>4
<1>5. QED
  BY <1>2, <1>3, <1>4 DEF Outcomes
-----------------------------------------------------------------------------
(* Whose is what.  The invariant that makes the testbed's statements hold: *)
(* everything the proxy keeps, and everything on its way, is one station's *)
(* and leads to no other station's conversation.                           *)

(* What the data at key k of st's may be made of: under a synthetic key,   *)
(* which two stations may share, there is none.                            *)
Scope(k, st) == IF k[1] = "new" THEN {} ELSE Of(st)

(* Session s is for a request of st, in st's conversation if in any, has   *)
(* been accepted only if st has, and carries no data but st's.             *)
OwnedBy(s, st, conversations) ==
  /\ s.last_ap_authenticator # Nil /\ s.last_ap_authenticator[1] = st
  /\ Conversing(conversations, s.radius_state, st)
  /\ s.result = "accept" => Admitted(conversations, st)
  /\ Carries(s, Scope(s.key, st))

(* Nor is there anything else to share under a synthetic key.              *)
Unbegun(s) == s.key[1] = "new" => s.radius_state = Nil /\ s.result # "accept"

SessionsOwned ==
  \A k \in DOMAIN sessions :
    Unbegun(sessions[k]) /\ \E st \in Stations : OwnedBy(sessions[k], st, server)

(* The State n is known to st: it is in a reply to it, a request of its    *)
(* own, or the key of a session that is its own.                           *)
Quoting(n, st) ==
  \/ \E m \in toAp : m.state = n /\ m.to[1] = st
  \/ \E d \in InFlight : d.state = n /\ d.authenticator[1] = st
  \/ peer[st].status = "waiting" /\ peer[st].request.state = n
  \/ /\ StateKey(n) \in DOMAIN sessions
     /\ sessions[StateKey(n)].last_ap_authenticator[1] = st

StatesUnshared ==
  \A n \in Nat, a \in Stations :
    Quoting(n, a) => n < minted /\ \A b \in Stations : Quoting(n, b) => b = a

ChallengesQuote == \A m \in toAp : m.code = "challenge" => m.state # Nil

HandlerOwned ==
  LET st == handler.datagram.authenticator[1] IN
  handler # Nil =>
    /\ upstream.state = sessions[handler.key].radius_state
    /\ handler.pc # "non_tls" => handler.key[1] # "new"
    /\ upstream.eap \in Packet(Of(st))
    /\ IsIdentity(upstream.eap) => upstream.eap.data[1][1] = st
    /\ handler.rest \in Seq(Seq(Scope(handler.key, st)))

Admits == \A m \in toAp : m.code = "accept" => Admitted(server, m.to[1])

RepliesOwned == \A m \in toAp : m.eap # Nil => m.eap \in Packet(Of(m.to[1]))

Owned ==
  /\ SessionsOwned /\ StatesUnshared /\ HandlerOwned
  /\ ChallengesQuote /\ Admits /\ RepliesOwned

TestbedInv == ProxyInv /\ PeerTypeOK /\ ServerTypeOK /\ Owned

(* What a step of the proxy does not touch, or only lets grow.             *)
Around ==
  Grows(server, server') /\ peer' = peer /\ InFlight' \subseteq InFlight

(* The table after the handler has filed session t, of station st.         *)
Files(t) ==
  \A k \in DOMAIN sessions' :
    \/ k = t.key /\ sessions'[k] = t
    \/ k \in DOMAIN sessions /\ sessions'[k] = sessions[k]

(* st knows the State n, or is the first to be told it.                    *)
Learns(n, st) == Quoting(n, st) \/ (n = minted /\ minted' = minted + 1)

LEMMA KeyKinds ==
  /\ \A n : StateKey(n)[1] = "st"
  /\ \A n, m : StateKey(n) = StateKey(m) => n = m
BY DEF StateKey

LEMMA OwnedByGrows ==
  ASSUME NEW before, NEW after, Grows(before, after), NEW s, NEW st,
         OwnedBy(s, st, before)
  PROVE  OwnedBy(s, st, after)
BY GrowsKeeps DEF OwnedBy

LEMMA FilesOwned ==
  ASSUME SessionsOwned, Around, NEW t, NEW st \in Stations, Files(t),
         OwnedBy(t, st, server'), Unbegun(t)
  PROVE  SessionsOwned'
<1>1. ASSUME NEW k \in DOMAIN sessions'
      PROVE  Unbegun(sessions'[k]) /\ \E a \in Stations : OwnedBy(sessions'[k], a, server')
  <2>1. CASE sessions'[k] = t
    BY <2>1
  <2>2. CASE k \in DOMAIN sessions /\ sessions'[k] = sessions[k]
    <3>1. PICK a \in Stations : OwnedBy(sessions[k], a, server)
      BY <2>2 DEF SessionsOwned
    <3>2. OwnedBy(sessions[k], a, server')
      BY <3>1, OwnedByGrows DEF Around
    <3>3. QED
      BY <2>2, <3>2 DEF SessionsOwned
  <2>3. QED
    BY <2>1, <2>2 DEF Files
<1>2. QED
  BY <1>1 DEF SessionsOwned

(* Nobody comes to know a State that another knows.                        *)
LEMMA FilesUnshared ==
  ASSUME StatesUnshared, minted \in Nat, minted' \in Nat, minted' >= minted, Around,
         NEW t, NEW st \in Stations, Files(t), t.last_ap_authenticator[1] = st,
         \A n \in Nat : t.key = StateKey(n) => Learns(n, st),
         \A m \in toAp' : \/ m \in toAp
                          \/ m.to[1] = st /\ (m.state \in Nat => Learns(m.state, st))
  PROVE  StatesUnshared'
<1>1. ASSUME NEW n \in Nat, NEW a \in Stations, Quoting(n, a)'
      PROVE  Quoting(n, a) \/ (a = st /\ Learns(n, st))
  <2>1. CASE \E m \in toAp' : m.state = n /\ m.to[1] = a
    BY <2>1 DEF Quoting
  <2>2. CASE \E d \in InFlight' : d.state = n /\ d.authenticator[1] = a
    BY <2>2 DEF Quoting, Around
  <2>3. CASE peer'[a].status = "waiting" /\ peer'[a].request.state = n
    BY <2>3 DEF Quoting, Around
  <2>4. CASE /\ StateKey(n) \in DOMAIN sessions'
             /\ sessions'[StateKey(n)].last_ap_authenticator[1] = a
    BY <2>4 DEF Quoting, Files
  <2>5. QED
    BY <1>1, <2>1, <2>2, <2>3, <2>4 DEF Quoting
<1>2. ASSUME NEW n \in Nat, NEW a \in Stations, Quoting(n, a)',
             NEW b \in Stations, Quoting(n, b)'
      PROVE  n < minted' /\ b = a
  <2>1. \A c \in Stations : Quoting(n, c) => n < minted /\ n # minted
    BY DEF StatesUnshared
  <2>2. \A c, e \in Stations : Quoting(n, c) /\ Quoting(n, e) => c = e
    BY DEF StatesUnshared
  <2>3. Quoting(n, a) \/ (a = st /\ Learns(n, st))
    BY <1>1, <1>2
  <2>4. Quoting(n, b) \/ (b = st /\ Learns(n, st))
    BY <1>1, <1>2
  <2>5. QED
    BY <2>1, <2>2, <2>3, <2>4 DEF Learns
<1>3. QED
  BY <1>2 DEF StatesUnshared

LEMMA AdmitsGrows ==
  ASSUME Admits, Around,
         \A m \in toAp' : m \in toAp \/ (m.code = "accept" => Admitted(server', m.to[1]))
  PROVE  Admits'
<1>1. \A a : Admitted(server, a) => Admitted(server', a)
  BY GrowsKeeps DEF Around
<1>2. QED
  BY <1>1 DEF Admits
-----------------------------------------------------------------------------
(* The ways a handler leaves off (OpenProxyProofs) keep everything owned.  *)

(* Session s, found by the handler of d, is for its station st.            *)
Ready(s, d, st) ==
  /\ d \in Datagram /\ d.authenticator[1] = st
  /\ s.last_ap_authenticator = d.authenticator
  /\ OwnedBy(s, st, server')
  /\ \A n \in Nat : s.key = StateKey(n) => Quoting(n, st)

LEMMA AlikeReady ==
  ASSUME NEW t, NEW s, NEW d, NEW st, Alike(t, s, Scope(s.key, st)), Ready(s, d, st)
  PROVE  Ready(t, d, st) /\ (Unbegun(s) => Unbegun(t))
BY DEF Alike, SamePlace, Ready, OwnedBy, Unbegun

(* Filing the session where it was found.                                  *)
LEMMA PutOwned ==
  ASSUME TestbedInv, Around, NEW s, NEW d, NEW st \in Stations, Ready(s, d, st),
         Unbegun(s), sessions' = Put(sessions, s), minted' = minted, toAp' = toAp
  PROVE  /\ SessionsOwned' /\ StatesUnshared'
         /\ ChallengesQuote' /\ Admits' /\ RepliesOwned'
<1>1. Files(s)
  BY DEF Files, Put
<1>2. SessionsOwned'
  BY <1>1, FilesOwned DEF TestbedInv, Owned, Ready
<1>3. StatesUnshared'
  <2>1. minted \in Nat /\ StatesUnshared
    BY DEF TestbedInv, Owned, ProxyInv, TypeOK
  <2>2. \A n \in Nat : s.key = StateKey(n) => Learns(n, st)
    BY DEF Ready, Learns
  <2>3. s.last_ap_authenticator[1] = st
    BY DEF Ready
  <2>4. minted' >= minted /\ minted' \in Nat
    BY <2>1
  <2>5. QED
    BY <1>1, <2>1, <2>2, <2>3, <2>4, FilesUnshared
<1>4. ChallengesQuote' /\ Admits' /\ RepliesOwned'
  BY AdmitsGrows DEF TestbedInv, Owned, ChallengesQuote, RepliesOwned
<1>5. QED
  BY <1>2, <1>3, <1>4

LEMMA RaiseOwned ==
  ASSUME TestbedInv, Around, NEW s, NEW d, NEW st \in Stations, Ready(s, d, st),
         Unbegun(s), Raise(s)
  PROVE  Owned'
<1>1. /\ SessionsOwned' /\ StatesUnshared'
      /\ ChallengesQuote' /\ Admits' /\ RepliesOwned'
  BY PutOwned DEF Raise
<1>2. HandlerOwned'
  BY DEF Raise, HandlerOwned
<1>3. QED
  BY <1>1, <1>2 DEF Owned

LEMMA AskOwned ==
  ASSUME TestbedInv, Around, NEW s, NEW d, NEW st \in Stations, Ready(s, d, st),
         Unbegun(s), s \in SessionType,
         NEW pc, NEW eap \in Packet(Of(st)), NEW rest \in Seq(Seq(Scope(s.key, st))),
         Ask(d, s, pc, eap, rest), pc # "non_tls" => s.key[1] # "new",
         IsIdentity(eap) => eap.data[1][1] = st
  PROVE  Owned'
<1> DEFINE t == [s EXCEPT !.upstream_round_trips = @ + 1]
<1>1. Alike(t, s, Scope(s.key, st))
  BY DEF Alike, SamePlace, SessionType, Carries, Ready, OwnedBy
<1>2. sessions' = Put(sessions, t) /\ minted' = minted /\ toAp' = toAp
  BY DEF Ask
<1>3. /\ handler' = [pc |-> pc, key |-> s.key, datagram |-> d, rest |-> rest]
      /\ upstream'.state = s.radius_state /\ upstream'.eap = eap
  BY DEF Ask
<1> HIDE DEF t
<1>4. Ready(t, d, st) /\ Unbegun(t)
  BY <1>1, AlikeReady
<1>5. /\ SessionsOwned' /\ StatesUnshared'
      /\ ChallengesQuote' /\ Admits' /\ RepliesOwned'
  BY <1>2, <1>4, PutOwned
<1>6. HandlerOwned'
  <2>1. sessions'[s.key].radius_state = s.radius_state
    BY <1>1, <1>2 DEF Put, Alike, SamePlace
  <2>2. /\ handler'.key = s.key /\ handler'.pc = pc
        /\ handler'.datagram.authenticator[1] = st /\ handler'.rest = rest
    BY <1>3 DEF Ready
  <2>3. QED
    BY <1>3, <2>1, <2>2 DEF HandlerOwned
<1>7. QED
  BY <1>5, <1>6 DEF Owned

(* A challenge puts the session where its State leads, if it is not there  *)
(* yet; a verdict leaves it where it was.                                  *)
LEMMA ReplyOwned ==
  ASSUME TestbedInv, Around, NEW s, Kept(s), NEW d, NEW st \in Stations, Ready(s, d, st),
         NEW code \in {"challenge"} \cup Verdict, code # "challenge" => Unbegun(s),
         code = "accept" => Admitted(server', st),
         NEW eap \in Packet(Of(st)) \cup {Nil}, Reply(d, s, code, eap)
  PROVE  Owned'
<1> DEFINE mints == code = "challenge" /\ s.downstream_state = Nil
           t == IF mints
                  THEN [s EXCEPT !.downstream_state = minted, !.key = StateKey(minted)]
                  ELSE s
           kept == Rekey(sessions, s.key, t)
           packet == [to |-> d.authenticator,
                      code |-> code,
                      state |-> IF code = "challenge" THEN t.downstream_state ELSE Nil,
                      keys |-> IF code = "accept" THEN s.keys ELSE Nil,
                      eap |-> eap]
<1>1. minted \in Nat /\ s \in SessionType
  BY DEF TestbedInv, ProxyInv, TypeOK, Kept, KeptBelow
<1>2. minted' = IF mints THEN minted + 1 ELSE minted
  BY DEF Reply
<1>3. /\ t.radius_state = s.radius_state /\ t.result = s.result
      /\ t.last_ap_authenticator = s.last_ap_authenticator
      /\ mints => t.key = StateKey(minted) /\ t.downstream_state = minted
      /\ ~mints => t = s
  BY <1>1 DEF SessionType
<1>4. /\ handler' = Nil
      /\ toAp' \subseteq toAp \cup {packet}
      /\ sessions' = kept \/ sessions' = Drop(kept, t.key)
  BY DEF Reply, Report
<1>5. s.downstream_state # Nil => s.key = StateKey(s.downstream_state) /\ s.downstream_state \in Nat
  BY <1>1 DEF Kept, KeptBelow, SessionType
<1>6. /\ packet.to[1] = st /\ packet.code = code /\ packet.eap = eap
      /\ packet.state = IF code = "challenge" THEN t.downstream_state ELSE Nil
  BY DEF Ready
<1> HIDE DEF t, packet
<1>7. Files(t)
  <2>1. ASSUME NEW k \in DOMAIN kept
        PROVE  \/ k = t.key /\ kept[k] = t
               \/ k \in DOMAIN sessions /\ kept[k] = sessions[k]
    BY DEF Rekey, Put, Drop
  <2> HIDE DEF kept
  <2>2. CASE sessions' = kept
    BY <2>1, <2>2 DEF Files
  <2>3. CASE sessions' = Drop(kept, t.key)
    BY <2>1, <2>3 DEF Files, Drop
  <2>4. QED
    BY <1>4, <2>2, <2>3
<1>8. OwnedBy(t, st, server') /\ t.last_ap_authenticator[1] = st
  <2>1. Scope(s.key, st) \in SUBSET Of(st) /\ (mints => Scope(t.key, st) = Of(st))
    BY <1>3, KeyKinds DEF Scope
  <2>2. Carries(s, Scope(s.key, st)) /\ Carries(s, Of(st))
    BY <2>1, Widens DEF Ready, OwnedBy
  <2>3. \A U : Carries(s, U) => Carries(t, U)
    BY <1>1 DEF Carries, SessionType, t
  <2>4. Carries(t, Scope(t.key, st))
    BY <1>3, <2>1, <2>2, <2>3
  <2>5. QED
    BY <1>3, <2>4 DEF Ready, OwnedBy
<1>9. Unbegun(t)
  <2>1. CASE mints
    BY <2>1, <1>3, KeyKinds DEF Unbegun
  <2>2. CASE code # "challenge"
    BY <2>2, <1>3
  <2>3. CASE code = "challenge" /\ s.downstream_state # Nil
    BY <2>3, <1>3, <1>5, KeyKinds DEF Unbegun
  <2>4. QED
    BY <2>1, <2>2, <2>3
<1>10. SessionsOwned'
  BY <1>7, <1>8, <1>9, FilesOwned DEF TestbedInv, Owned
<1>11. /\ \A n \in Nat : t.key = StateKey(n) => Learns(n, st)
       /\ code = "challenge" => t.downstream_state \in Nat /\ Learns(t.downstream_state, st)
  <2>1. CASE mints
    BY <2>1, <1>1, <1>2, <1>3, KeyKinds DEF Learns
  <2>2. CASE ~mints
    BY <2>2, <1>3, <1>5 DEF Learns, Ready
  <2>3. QED
    BY <2>1, <2>2
<1>12. \A m \in toAp' : \/ m \in toAp
                        \/ m.to[1] = st /\ (m.state \in Nat => Learns(m.state, st))
  <2>1. packet.state \in Nat => Learns(packet.state, st)
    BY <1>6, <1>11, NilAssumption
  <2>2. QED
    BY <1>4, <1>6, <2>1
<1>13. StatesUnshared'
  <2>1. minted' \in Nat /\ minted' >= minted
    BY <1>1, <1>2
  <2>2. StatesUnshared
    BY DEF TestbedInv, Owned
  <2>3. QED
    BY <1>1, <1>7, <1>8, <1>11, <1>12, <2>1, <2>2, FilesUnshared
<1>14. ChallengesQuote'
  <2>1. packet.code = "challenge" => packet.state # Nil
    BY <1>6, <1>11, NilAssumption
  <2>2. QED
    BY <1>4, <2>1 DEF ChallengesQuote, TestbedInv, Owned
<1>15. Admits'
  <2>1. \A m \in toAp' : m \in toAp \/ (m.code = "accept" => Admitted(server', m.to[1]))
    BY <1>4, <1>6
  <2>2. QED
    BY <2>1, AdmitsGrows DEF TestbedInv, Owned
<1>16. HandlerOwned'
  BY <1>4 DEF HandlerOwned
<1>17. RepliesOwned'
  BY <1>4, <1>6 DEF RepliesOwned, TestbedInv, Owned
<1>18. QED
  BY <1>10, <1>13, <1>14, <1>15, <1>16, <1>17 DEF Owned

LEMMA EndOwned ==
  ASSUME TestbedInv, Around, NEW s, NEW d, NEW st \in Stations, Ready(s, d, st),
         NEW U, U = Scope(s.key, st),
         \/ Unbegun(s) /\ Fails(d, s, U)
         \/ s.key[1] # "new" /\ Asks(d, s, U)
         \/ Challenges(d, s, U)
         \/ \E code \in Verdict :
              /\ code = "accept" => Admitted(server', st)
              /\ s.key[1] = "new" => s.radius_state = Nil /\ code # "accept"
              /\ Concludes(d, s, code, U)
  PROVE  Owned'
<1>1. Packet(U) \subseteq Packet(Of(st))
  BY Widens DEF Scope
<1>2. CASE Unbegun(s) /\ Fails(d, s, U)
  <2>1. PICK t : Alike(t, s, U) /\ Raise(t)
    BY <1>2 DEF Fails
  <2>2. QED
    BY <1>2, <2>1, AlikeReady, RaiseOwned
<1>3. CASE s.key[1] # "new" /\ Asks(d, s, U)
  <2>1. PICK t : \E pc \in {"forward", "drain", "passthrough"},
                    eap \in Packet(U), rest \in Seq(Seq(U)) :
          Current(t, d) /\ Alike(t, s, U) /\ eap.kind = "tls" /\ Ask(d, t, pc, eap, rest)
    BY <1>3 DEF Asks
  <2>2. PICK pc \in {"forward", "drain", "passthrough"},
             eap \in Packet(U), rest \in Seq(Seq(U)) :
          Current(t, d) /\ Alike(t, s, U) /\ eap.kind = "tls" /\ Ask(d, t, pc, eap, rest)
    BY <2>1
  <2>3. t \in SessionType /\ t.key = s.key /\ Ready(t, d, st)
    BY <2>2, CurrentType, AlikeReady DEF Alike, SamePlace
  <2>4. Unbegun(t) /\ t.key[1] # "new"
    BY <1>3, <2>3 DEF Unbegun
  <2>5. ~IsIdentity(eap)
    BY <2>2 DEF IsIdentity
  <2>6. QED
    BY <1>1, <2>2, <2>3, <2>4, <2>5, AskOwned
<1>4. CASE Challenges(d, s, U)
  <2>1. PICK t : \E eap \in Packet(U) \cup {Nil} :
          Current(t, d) /\ Alike(t, s, U) /\ Reply(d, t, "challenge", eap)
    BY <1>4 DEF Challenges
  <2>2. Ready(t, d, st) /\ Kept(t)
    BY <2>1, AlikeReady DEF Current
  <2>3. QED
    BY <1>1, <2>1, <2>2, ReplyOwned
<1>5. ASSUME NEW code \in Verdict, code = "accept" => Admitted(server', st),
             s.key[1] = "new" => s.radius_state = Nil /\ code # "accept",
             Concludes(d, s, code, U)
      PROVE  Owned'
  <2>1. PICK t : \E eap \in Packet(U) \cup {Nil} :
          /\ Kept(t) /\ SamePlace(t, s) /\ t.result = code /\ Carries(t, U)
          /\ Reply(d, t, code, eap)
    BY <1>5 DEF Concludes
  <2>2. Ready(t, d, st) /\ Unbegun(t)
    BY <1>5, <2>1 DEF SamePlace, Ready, OwnedBy, Unbegun
  <2>3. QED
    BY <1>5, <1>1, <2>1, <2>2, ReplyOwned
<1>6. QED
  BY <1>2, <1>3, <1>4, <1>5

LEMMA NewCarries == ASSUME NEW k, NEW U PROVE Carries(NewSession(k), U)
<1>1. <<>> \in Seq(U) /\ <<>> \in Seq(Seq(U))
  OBVIOUS
<1>2. EmptyReassembler \in Reassembler(U)
  BY <1>1 DEF EmptyReassembler, Reassembler
<1>3. [accept |-> Nil, reject |-> Nil] \in [Verdict -> Packet(U) \cup {Nil}]
  BY DEF Verdict
<1>4. QED
  BY <1>1, <1>2, <1>3 DEF NewSession, Carries

(* A datagram finds a session of its own station, or nobody's.             *)
LEMMA OpenedReady ==
  ASSUME Alphabet, TestbedInv, NEW d \in InFlight, NEW st \in Stations,
         d.authenticator[1] = st, server' = server
  PROVE  /\ Ready(Opened(d), d, st) /\ Unbegun(Opened(d))
         /\ d.state # Nil => Opened(d).key[1] # "new"
<1> DEFINE k == KeyOf(d)
           s == Get(sessions, k)
           o == Opened(d)
<1>1. OfStation(d, st) /\ d \in Datagram
  BY DEF TestbedInv, PeerTypeOK, OfStation
<1>2. /\ d.state = Nil => k[1] = "new"
      /\ d.state # Nil => k = StateKey(d.state) /\ d.state \in Nat
  BY <1>1 DEF KeyOf, Datagram
<1>3. s \in SessionType /\ s.key = k
  <2>1. CASE k \in DOMAIN sessions
    BY <2>1 DEF Get, TestbedInv, ProxyInv, TypeOK, TableCoherent
  <2>2. CASE k \notin DOMAIN sessions
    BY <2>2, <1>1, KeyOfType, NewSessionKept DEF Get, Kept, KeptBelow
  <2>3. QED
    BY <2>1, <2>2
<1>4. /\ o.key = k /\ o.radius_state = s.radius_state /\ o.result = s.result
      /\ o.last_ap_authenticator = d.authenticator
      /\ \A U : Carries(s, U) => Carries(o, U)
  <2>1. o = [s EXCEPT !.last_ap_authenticator = d.authenticator,
                      !.ap_attrs = IF DOMAIN @ = {} THEN d.attrs ELSE @]
    BY DEF Opened
  <2> HIDE DEF o, s, k
  <2>2. QED
    BY <2>1, <1>3 DEF SessionType, Carries
<1>5. Unbegun(s) /\ Conversing(server, s.radius_state, st)
      /\ (s.result = "accept" => Admitted(server, st)) /\ Carries(s, Scope(k, st))
  <2>1. CASE k \notin DOMAIN sessions
    <3>1. s.radius_state = Nil /\ s.result = Nil
      BY <2>1 DEF Get, NewSession
    <3>2. Nil # "accept"
      BY NoneAssumption DEF Verdict
    <3>3. QED
      BY <2>1, <3>1, <3>2, NewCarries DEF Get, Unbegun, Conversing
  <2>2. CASE k \in DOMAIN sessions
    <3>1. s = sessions[k]
      BY <2>2 DEF Get
    <3>2. Unbegun(s) /\ \E a \in Stations : OwnedBy(s, a, server)
      BY <2>2, <3>1 DEF TestbedInv, Owned, SessionsOwned
    <3>3. PICK a \in Stations : OwnedBy(s, a, server)
      BY <3>2
    <3>4. CASE d.state = Nil
      BY <3>2, <3>3, <3>4, <1>2, <1>3 DEF Unbegun, Conversing, OwnedBy, Scope
    <3>5. CASE d.state # Nil
      <4>1. Quoting(d.state, a)
        BY <2>2, <3>1, <3>3, <3>5, <1>2 DEF Quoting, OwnedBy
      <4>2. Quoting(d.state, st)
        BY DEF Quoting
      <4>3. a = st
        BY <3>5, <1>2, <4>1, <4>2 DEF TestbedInv, Owned, StatesUnshared
      <4>4. QED
        BY <3>2, <3>3, <4>3, <1>3 DEF OwnedBy
    <3>6. QED
      BY <3>4, <3>5
  <2>3. QED
    BY <2>1, <2>2
<1>6. \A n \in Nat : k = StateKey(n) => Quoting(n, st)
  <2>1. ASSUME NEW n \in Nat, k = StateKey(n)
        PROVE  d.state = n
    BY <1>2, <2>1, KeyKinds
  <2>2. QED
    BY <2>1 DEF Quoting
<1>7. d.authenticator # Nil
  BY <1>1, NoneAssumption DEF Datagram
<1> HIDE DEF k, s, o
<1>8. Ready(o, d, st)
  BY <1>1, <1>3, <1>4, <1>5, <1>6, <1>7 DEF Ready, OwnedBy
<1>9. Unbegun(o)
  BY <1>3, <1>4, <1>5 DEF Unbegun
<1>10. d.state # Nil => o.key[1] # "new"
  BY <1>2, <1>4, KeyKinds
<1>11. QED
  BY <1>8, <1>9, <1>10 DEF o

LEMMA ReceiveOwned ==
  ASSUME Alphabet, TestbedInv, Around, NEW d \in InFlight, server' = server, Receive(d)
  PROVE  Owned'
<1> DEFINE st == d.authenticator[1]
           s == Opened(d)
<1>1. OfStation(d, st) /\ d \in Datagram
  BY DEF TestbedInv, PeerTypeOK, OfStation
<1>2. st \in Stations
  BY <1>1 DEF Datagram, Alphabet
<1>3. /\ Ready(s, d, st) /\ Unbegun(s)
      /\ d.state # Nil => s.key[1] # "new"
  BY <1>2, OpenedReady
<1>4. s \in SessionType
  BY <1>1, OpenedCurrent, CurrentType DEF TestbedInv
<1>5. IsTls(d) => s.key[1] # "new"
  BY <1>1, <1>3 DEF OfStation, Speaks, IsTls
<1>6. s.result \in Verdict => /\ s.result = "accept" => Admitted(server', st)
                              /\ s.key[1] = "new" => s.radius_state = Nil /\ s.result # "accept"
  BY <1>3 DEF Ready, OwnedBy, Unbegun
<1> DEFINE U == Of(st)
<1>7. U \in SUBSET Unit /\ Carries(s, U) /\ d.eap \in Packet(U)
      /\ (IsTls(d) => U = Scope(s.key, st))
  <2>1. Carries(s, Scope(s.key, st)) /\ Scope(s.key, st) \in SUBSET U
    BY <1>3 DEF Ready, OwnedBy, Scope
  <2>2. QED
    BY <1>1, <1>2, <1>5, <2>1, OfUnits, Widens DEF OfStation, Speaks, Scope
<1>8. IsIdentity(d.eap) => d.eap.data[1][1] = st
  BY <1>1 DEF IsIdentity, OfStation, Speaks
<1>9. <<>> \in Seq(Seq(Scope(s.key, st)))
  OBVIOUS
<1>10. \/ ~IsTls(d) /\ Raise(s)
       \/ ~IsTls(d) /\ Ask(d, s, "non_tls", d.eap, <<>>)
       \/ IsTls(d) /\ (Fails(d, s, U) \/ Asks(d, s, U) \/ Challenges(d, s, U))
       \/ IsTls(d) /\ s.result \in Verdict /\ Concludes(d, s, s.result, U)
  BY <1>1, <1>7, ReceiveShape DEF TestbedInv
<1> HIDE DEF s, st, U
<1>11. CASE ~IsTls(d) /\ Raise(s)
  BY <1>2, <1>3, <1>11, RaiseOwned
<1>12. CASE Ask(d, s, "non_tls", d.eap, <<>>)
  BY <1>2, <1>3, <1>4, <1>7, <1>8, <1>9, <1>12, AskOwned DEF U
<1>13. CASE IsTls(d) /\ (Fails(d, s, U) \/ Asks(d, s, U) \/ Challenges(d, s, U))
  BY <1>2, <1>3, <1>5, <1>7, <1>13, EndOwned
<1>14. CASE IsTls(d) /\ s.result \in Verdict /\ Concludes(d, s, s.result, U)
  BY <1>2, <1>3, <1>6, <1>7, <1>14, EndOwned
<1>15. QED
  BY <1>10, <1>11, <1>12, <1>13, <1>14

(* What the server answers belongs to the station it is asked for.         *)
LEMMA UpstreamOwned ==
  ASSUME Alphabet, TestbedInv, handler # Nil, NEW o \in Outcomes(upstream)
  PROVE  /\ handler.datagram.authenticator[1] \in Stations
         /\ Fits(o, upstream, handler.datagram.authenticator[1])
<1> DEFINE st == handler.datagram.authenticator[1]
           s == sessions[handler.key]
<1>1. handler.datagram \in Datagram /\ upstream \in UpstreamType
  BY DEF TestbedInv, ProxyInv, TypeOK, HandlerCoherent, HandlerType
<1>2. st \in Stations
  BY <1>1 DEF Datagram, Alphabet
<1>3. /\ handler.key \in DOMAIN sessions
      /\ s.last_ap_authenticator = handler.datagram.authenticator
  BY DEF TestbedInv, ProxyInv, HandlerCoherent
<1>4. Conversing(server, s.radius_state, st)
  BY <1>3 DEF TestbedInv, Owned, SessionsOwned, OwnedBy
<1>5. Conversing(server, upstream.state, st)
      /\ (IsIdentity(upstream.eap) => upstream.eap.data[1][1] = st)
      /\ upstream.eap \in Packet(Of(st))
  BY <1>4 DEF TestbedInv, Owned, HandlerOwned
<1> HIDE DEF st
<1>6. QED
  BY <1>1, <1>2, <1>5, OutcomeFits DEF TestbedInv, PeerTypeOK, st

LEMMA AnswerOwned ==
  ASSUME Alphabet, TestbedInv, InFlight' = InFlight, peer' = peer,
         NEW o \in Outcomes(upstream), server' = o.server, Answer(o.reply)
  PROVE  Owned'
<1> DEFINE d == handler.datagram
           st == d.authenticator[1]
           found == sessions[handler.key]
           r == o.reply
           s == Blocked(r)
<1>1. handler # Nil
  BY DEF Answer
<1>2. st \in Stations /\ Fits(o, upstream, st)
  BY <1>1, UpstreamOwned
<1>3. /\ r \in ServerReply /\ (r.code = "accept" => r.keyed)
      /\ Grows(server, server') /\ Conversing(server', r.state, st)
      /\ r.code = "accept" => Admitted(server', st) /\ upstream.state # Nil
      /\ r.code \in Verdict => r.state = Nil
      /\ r.eap \in Packet(IF upstream.state = Nil THEN {} ELSE Of(st))
  BY <1>2 DEF Fits
<1>4. /\ handler.key \in DOMAIN sessions /\ d \in Datagram
      /\ found.last_ap_authenticator = d.authenticator
      /\ found.key = handler.key /\ found \in SessionType
  BY <1>1 DEF TestbedInv, ProxyInv, TypeOK, HandlerCoherent, HandlerType, TableCoherent
<1>5. /\ s.key = handler.key /\ s.radius_state = r.state
      /\ s.last_ap_authenticator = d.authenticator /\ s.result = found.result
      /\ \A V : Carries(found, V) => Carries(s, V)
  <2> HIDE DEF r
  <2>1. s = Learned(found, r)
    BY DEF Blocked
  <2> HIDE DEF found, d
  <2>2. QED
    BY <2>1, <1>4 DEF Learned, SessionType, Carries
<1>6. OwnedBy(found, st, server) /\ Unbegun(found)
  BY <1>4 DEF TestbedInv, Owned, SessionsOwned, OwnedBy
<1>7. Around
  BY <1>3 DEF Around
<1>8. Ready(s, d, st)
  <2>1. OwnedBy(s, st, server')
    BY <1>3, <1>5, <1>6, <1>4, GrowsKeeps DEF OwnedBy
  <2>2. ASSUME NEW n \in Nat, s.key = StateKey(n)
        PROVE  Quoting(n, st)
    BY <2>2, <1>4, <1>5 DEF Quoting
  <2>3. QED
    BY <2>1, <2>2, <1>4, <1>5 DEF Ready
<1>9. handler.pc # "non_tls" => s.key[1] # "new" /\ Unbegun(s)
  BY <1>1, <1>5 DEF TestbedInv, Owned, HandlerOwned, Unbegun
<1>10. r.code \in Verdict =>
         /\ r.code = "accept" => Admitted(server', st)
         /\ s.key[1] = "new" => s.radius_state = Nil /\ r.code # "accept"
  <2>1. upstream.state = found.radius_state
    BY <1>1 DEF TestbedInv, Owned, HandlerOwned
  <2>2. s.key[1] = "new" => found.radius_state = Nil
    BY <1>4, <1>5, <1>6 DEF Unbegun
  <2>3. QED
    BY <2>1, <2>2, <1>3, <1>5
<1> DEFINE U == Scope(s.key, st)
<1>11. /\ U \in SUBSET Unit /\ Carries(s, U) /\ handler.rest \in Seq(Seq(U))
       /\ r.eap \in Packet(U) \cup {Nil}
  <2>1. U \in SUBSET Of(st) /\ Of(st) \in SUBSET Unit
    BY <1>2, OfUnits DEF Scope
  <2>2. s.key[1] = "new" => upstream.state = Nil
    BY <1>1, <1>4, <1>5, <1>6 DEF TestbedInv, Owned, HandlerOwned, Unbegun
  <2>3. Packet({}) \subseteq Packet(Of(st))
    BY Widens
  <2>4. r.eap \in Packet(U)
    BY <1>3, <2>2, <2>3 DEF Scope
  <2>5. handler.rest \in Seq(Seq(U))
    BY <1>1, <1>5 DEF TestbedInv, Owned, HandlerOwned
  <2>6. QED
    BY <1>8, <2>1, <2>4, <2>5 DEF Ready, OwnedBy
<1>12. \/ handler.pc # "non_tls" /\ Fails(d, s, U)
       \/ handler.pc # "non_tls" /\ Asks(d, s, U)
       \/ r.code = "challenge" /\ Challenges(d, s, U)
       \/ r.code \in Verdict /\ Concludes(d, s, r.code, U)
  BY <1>3, <1>11, AnswerShape DEF TestbedInv
<1> HIDE DEF d, st, r, s
<1>13. QED
  BY <1>2, <1>7, <1>8, <1>9, <1>10, <1>12, EndOwned

-----------------------------------------------------------------------------
(* The steps of the testbed.                                               *)

LEMMA ProxyStepInv == ASSUME Alphabet, TestbedInv, ProxyStep PROVE TestbedInv'
<1> DEFINE d == Head(inbox)
<1>1. /\ inbox # <<>> /\ Receive(d) /\ inbox' = Tail(inbox)
      /\ script' = script /\ peer' = peer /\ server' = server
  BY DEF ProxyStep
<1>2. inbox' \in Seq(Datagram) /\ InFlight' \subseteq InFlight /\ d \in InFlight
  BY <1>1, InFlightTail DEF TestbedInv, PeerTypeOK
<1>3. d \in Datagram
  BY <1>2 DEF TestbedInv, PeerTypeOK, OfStation
<1> HIDE DEF d
<1>4. Around
  BY <1>1, <1>2 DEF Around, Grows, TestbedInv, ServerTypeOK
<1>5. Owned'
  BY <1>1, <1>2, <1>4, ReceiveOwned
<1>6. ProxyInv'
  BY <1>1, <1>3, ReceiveStep DEF TestbedInv
<1>7. PeerTypeOK' /\ ServerTypeOK'
  BY <1>1, <1>2 DEF TestbedInv, PeerTypeOK, ServerTypeOK
<1>8. QED
  BY <1>5, <1>6, <1>7 DEF TestbedInv

LEMMA ServerStepInv == ASSUME Alphabet, TestbedInv, ServerStep PROVE TestbedInv'
<1>1. PICK o \in Outcomes(upstream) : server' = o.server /\ Answer(o.reply)
  BY DEF ServerStep
<1>2. script' = script /\ peer' = peer /\ inbox' = inbox
  BY DEF ServerStep
<1>3. InFlight' = InFlight
  BY <1>2 DEF InFlight
<1>4. handler # Nil
  BY <1>1 DEF Answer
<1>5. /\ o.reply \in ServerReply /\ (o.reply.code = "accept" => o.reply.keyed)
      /\ server' \in Seq(Conversations)
  BY <1>1, <1>4, UpstreamOwned DEF Fits, Grows
<1>6. Owned'
  BY <1>1, <1>2, <1>3, AnswerOwned
<1>7. ProxyInv'
  BY <1>1, <1>5, AnswerStep DEF TestbedInv
<1>8. PeerTypeOK' /\ ServerTypeOK'
  BY <1>2, <1>3, <1>5 DEF TestbedInv, PeerTypeOK, ServerTypeOK
<1>9. QED
  BY <1>6, <1>7, <1>8 DEF TestbedInv

(* Steps around the proxy: replies leave, and nobody knows a State he did  *)
(* not know before.                                                        *)
LEMMA OutsideStep ==
  ASSUME TestbedInv, PeerTypeOK', server' = server,
         UNCHANGED <<sessions, handler, upstream, minted, reports>>,
         toAp' = toAp \/ \E m \in toAp : toAp' = toAp \ {m},
         \A n \in Nat, a \in Stations : Quoting(n, a)' => Quoting(n, a)
  PROVE  TestbedInv'
<1>1. toAp' \subseteq toAp
  OBVIOUS
<1>2. ProxyInv'
  BY NextInv DEF TestbedInv, OpenNext, Leave, proxyVars
<1>3. StatesUnshared'
  BY DEF TestbedInv, Owned, StatesUnshared
<1>4. SessionsOwned' /\ ChallengesQuote' /\ HandlerOwned' /\ Admits' /\ RepliesOwned'
  BY <1>1 DEF TestbedInv, Owned, SessionsOwned, ChallengesQuote, HandlerOwned, Admits,
              RepliesOwned
<1>5. ServerTypeOK'
  BY DEF TestbedInv, ServerTypeOK
<1>6. QED
  BY <1>2, <1>3, <1>4, <1>5 DEF TestbedInv, Owned

(* ... a station answering, with a State it knows.                         *)
LEMMA AnswersStep ==
  ASSUME Alphabet, TestbedInv, NEW st \in Stations, NEW state \in Nat \cup {Nil},
         Answers(st, state), state # Nil => Quoting(state, st),
         script' = script, server' = server,
         UNCHANGED <<sessions, handler, upstream, minted, reports>>,
         toAp' = toAp \/ \E m \in toAp : toAp' = toAp \ {m}
  PROVE  TestbedInv'
<1>1. PeerTypeOK'
      /\ \E d : /\ OfStation(d, st) /\ d.state = state /\ InFlight' = InFlight \cup {d}
               /\ \A u \in Stations : IF u = st THEN peer'[u].request = d
                                      ELSE peer'[u] = peer[u]
  BY AnswersType DEF TestbedInv
<1>2. PICK d : /\ OfStation(d, st) /\ d.state = state /\ InFlight' = InFlight \cup {d}
               /\ \A u \in Stations : IF u = st THEN peer'[u].request = d
                                      ELSE peer'[u] = peer[u]
  BY <1>1
<1>3. ASSUME NEW n \in Nat, NEW a \in Stations, Quoting(n, a)'
      PROVE  Quoting(n, a)
  <2>1. d.state = n => Quoting(n, st)
    BY <1>2, NilAssumption
  <2>2. CASE \E m \in toAp' : m.state = n /\ m.to[1] = a
    BY <2>2 DEF Quoting
  <2>3. CASE \E e \in InFlight' : e.state = n /\ e.authenticator[1] = a
    <3>1. PICK e \in InFlight' : e.state = n /\ e.authenticator[1] = a
      BY <2>3
    <3>2. CASE e = d
      BY <3>1, <3>2, <2>1, <1>2 DEF OfStation
    <3>3. CASE e \in InFlight
      BY <3>1, <3>3 DEF Quoting
    <3>4. QED
      BY <3>2, <3>3, <1>2
  <2>4. CASE peer'[a].status = "waiting" /\ peer'[a].request.state = n
    <3>1. CASE a = st
      BY <3>1, <2>1, <2>4, <1>2
    <3>2. CASE a # st
      BY <3>2, <2>4, <1>2 DEF Quoting
    <3>3. QED
      BY <3>1, <3>2
  <2>5. CASE /\ StateKey(n) \in DOMAIN sessions'
             /\ sessions'[StateKey(n)].last_ap_authenticator[1] = a
    BY <2>5 DEF Quoting
  <2>6. QED
    BY <1>3, <2>2, <2>3, <2>4, <2>5 DEF Quoting
<1>4. QED
  BY <1>1, <1>3, OutsideStep
(* A station that begins, or begins anew, answers with its Identity.       *)
LEMMA BeginAnswers ==
  ASSUME Alphabet, PeerTypeOK, NEW st \in Stations, Start(st) \/ Retry(st)
  PROVE  Answers(st, Nil)
<1>1. ASSUME NEW p \in Peer(st), Begin(st, p)
      PROVE  Answers(st, Nil)
  <2>1. PICK id \in FirstIds :
          Transmit(st, Sending(st, p, Nil,
                               [Bare("other", id) EXCEPT !.data = <<<<st, 0, 0>>>>]))
    BY <1>1 DEF Begin
  <2> DEFINE b == Bare("other", id)
             data == <<<<st, 0, 0>>>>
             eap == [b EXCEPT !.data = data]
  <2>2. id \in Identifier
    BY TestbedAssumption
  <2>3. <<>> \in Seq(Of(st))
    OBVIOUS
  <2>4. data \in Seq(Of(st)) /\ data # <<>> /\ data[1][1] = st
    BY DEF Of
  <2>5. b \in Packet(Of(st)) /\ b.kind = "other"
    BY <2>2, <2>3 DEF Bare, Packet, Kind
  <2> HIDE DEF b, data
  <2>6. eap \in Packet(Of(st)) /\ eap.kind = "other" /\ eap.data = data
    BY <2>4, <2>5 DEF Packet
  <2>7. Transmit(st, Sending(st, p, Nil, eap))
    BY <2>1 DEF b, data
  <2> HIDE DEF eap
  <2>8. Speaks(st, Nil, eap)
    BY <2>4, <2>6 DEF Speaks
  <2>9. QED
    BY <2>6, <2>7, <2>8 DEF Answers
<1>2. CASE Start(st)
  <2>1. NewPeer \in Peer(st)
    <3>1. <<>> \in Seq(Seq(Of(st))) /\ <<>> \in Seq(Of(st))
      OBVIOUS
    <3>2. QED
      BY <3>1 DEF NewPeer, Peer
  <2>2. Answers(st, Nil)
    BY <1>1, <1>2, <2>1 DEF Start
  <2>3. QED
    BY <2>2
<1>3. CASE Retry(st)
  <2> DEFINE n == peer[st].rounds
             p == [NewPeer EXCEPT !.rounds = n]
  <2>1. n \in Nat
    BY DEF PeerTypeOK, Peer
  <2>2. Begin(st, p)
    BY <1>3 DEF Retry
  <2> HIDE DEF n
  <2>3. p \in Peer(st)
    <3>1. <<>> \in Seq(Seq(Of(st))) /\ <<>> \in Seq(Of(st))
      OBVIOUS
    <3>2. QED
      BY <2>1, <3>1 DEF NewPeer, Peer
  <2>4. QED
    BY <1>1, <2>2, <2>3
<1>4. QED
  BY <1>2, <1>3

LEMMA PeerStepInv ==
  ASSUME Alphabet, TestbedInv, NEW st \in Stations, PeerStep(st) PROVE TestbedInv'
<1>1. CASE Start(st) \/ Retry(st)
  <2>1. Answers(st, Nil)
    BY <1>1, BeginAnswers DEF TestbedInv
  <2>2. QED
    BY <1>1, <2>1, AnswersStep DEF Start, Retry, proxyVars
<1>2. ASSUME NEW m \in toAp, TakeReply(st, m)
      PROVE  TestbedInv'
  <2>1. /\ toAp' = toAp \ {m} /\ script' = script /\ server' = server
        /\ UNCHANGED <<sessions, handler, upstream, minted, reports>>
    BY <1>2 DEF TakeReply
  <2>2. /\ m.to[1] = st
        /\ \/ m.state # Nil /\ Answers(st, m.state)
           \/ Settles(st)
           \/ UNCHANGED <<peer, inbox>>
    BY <1>2, TakeReplyShape DEF TestbedInv, Owned, ChallengesQuote, RepliesOwned, ProxyInv, TypeOK
  <2>3. CASE m.state # Nil /\ Answers(st, m.state)
    <3>1. m.state \in Nat
      BY <2>3 DEF TestbedInv, ProxyInv, TypeOK, ApReplyType
    <3>2. Quoting(m.state, st)
      BY <2>2 DEF Quoting
    <3>3. QED
      BY <2>1, <2>3, <3>1, <3>2, AnswersStep
  <2>4. CASE Settles(st)
    <3>1. PeerTypeOK'
      BY <2>1, <2>4, SettlesType DEF TestbedInv
    <3>2. PICK p \in Peer(st) : /\ p.status \in {"success", "failure"}
                                /\ peer' = [peer EXCEPT ![st] = p]
                                /\ inbox' = inbox
      BY <2>4 DEF Settles
    <3>3. \A a \in Stations : peer'[a].status = "waiting" => peer'[a] = peer[a]
      BY <3>2 DEF TestbedInv, PeerTypeOK
    <3>4. InFlight' = InFlight
      BY <3>2 DEF InFlight
    <3>5. \A n \in Nat, a \in Stations : Quoting(n, a)' => Quoting(n, a)
      BY <2>1, <3>3, <3>4 DEF Quoting
    <3>6. QED
      BY <2>1, <3>1, <3>5, OutsideStep
  <2>5. CASE UNCHANGED <<peer, inbox>>
    <3>1. InFlight' = InFlight
      BY <2>5 DEF InFlight
    <3>2. PeerTypeOK'
      BY <2>1, <2>5, <3>1 DEF TestbedInv, PeerTypeOK
    <3>3. \A n \in Nat, a \in Stations : Quoting(n, a)' => Quoting(n, a)
      BY <2>1, <2>5, <3>1 DEF Quoting
    <3>4. QED
      BY <2>1, <3>2, <3>3, OutsideStep
  <2>6. QED
    BY <2>2, <2>3, <2>4, <2>5
<1>3. QED
  BY <1>1, <1>2 DEF PeerStep

LEMMA FaultInv == ASSUME Alphabet, TestbedInv, Fault PROVE TestbedInv'
<1>1. CASE LoseDatagram
  <2>1. inbox # <<>> /\ inbox' = Tail(inbox) /\ UNCHANGED <<proxyVars, script, peer, server>>
    BY <1>1 DEF LoseDatagram
  <2>2. inbox' \in Seq(Datagram) /\ InFlight' \subseteq InFlight
    BY <2>1, InFlightTail DEF TestbedInv, PeerTypeOK
  <2>3. PeerTypeOK'
    BY <2>1, <2>2 DEF TestbedInv, PeerTypeOK
  <2>4. \A n \in Nat, a \in Stations : Quoting(n, a)' => Quoting(n, a)
    BY <2>1, <2>2 DEF Quoting, proxyVars
  <2>5. QED
    BY <2>1, <2>3, <2>4, OutsideStep DEF proxyVars
<1>2. CASE LoseReply
  <2>1. /\ \E m \in toAp : toAp' = toAp \ {m}
        /\ UNCHANGED <<sessions, handler, upstream, minted, reports, script, peer, inbox, server>>
    BY <1>2 DEF LoseReply
  <2>2. InFlight' = InFlight
    BY <2>1 DEF InFlight
  <2>3. PeerTypeOK'
    BY <2>1, <2>2 DEF TestbedInv, PeerTypeOK
  <2>4. \A n \in Nat, a \in Stations : Quoting(n, a)' => Quoting(n, a)
    BY <2>1, <2>2 DEF Quoting
  <2>5. QED
    BY <2>1, <2>3, <2>4, OutsideStep
<1>3. ASSUME NEW st \in Stations, Retransmit(st)
      PROVE  TestbedInv'
  <2> DEFINE d == peer[st].request
  <2>1. /\ peer[st].status = "waiting" /\ inbox' = Append(inbox, d)
        /\ UNCHANGED <<proxyVars, script, peer, server>>
    BY <1>3 DEF Retransmit
  <2>2. OfStation(d, st)
    BY <2>1 DEF TestbedInv, PeerTypeOK
  <2>3. inbox' \in Seq(Datagram) /\ InFlight' = InFlight \cup {d}
    BY <2>1, <2>2, InFlightAppend DEF TestbedInv, PeerTypeOK, OfStation
  <2>4. PeerTypeOK'
    BY <2>1, <2>2, <2>3 DEF TestbedInv, PeerTypeOK, OfStation
  <2>5. \A n \in Nat : d.state = n => Quoting(n, st)
    BY <2>1 DEF Quoting
  <2>6. d.authenticator[1] = st
    BY <2>2 DEF OfStation
  <2> HIDE DEF d
  <2>7. \A n \in Nat, a \in Stations : Quoting(n, a)' => Quoting(n, a)
    BY <2>1, <2>3, <2>5, <2>6 DEF Quoting, proxyVars
  <2>8. QED
    BY <2>1, <2>4, <2>7, OutsideStep DEF proxyVars
<1>4. CASE TimeOut
  <2> DEFINE s == sessions[handler.key]
             d == handler.datagram
             st == d.authenticator[1]
  <2>1. /\ handler # Nil /\ Raise(s) /\ UpstreamTimeout
        /\ UNCHANGED <<script, peer, inbox>>
        /\ server' = server \/ \E o \in Outcomes(upstream) : server' = o.server
    BY <1>4 DEF TimeOut, UpstreamTimeout
  <2>2. Grows(server, server')
    <3>1. CASE server' = server
      BY <3>1 DEF Grows, TestbedInv, ServerTypeOK
    <3>2. CASE \E o \in Outcomes(upstream) : server' = o.server
      BY <2>1, <3>2, UpstreamOwned DEF Fits
    <3>3. QED
      BY <2>1, <3>1, <3>2
  <2>3. InFlight' = InFlight /\ Around
    BY <2>1, <2>2 DEF InFlight, Around
  <2>4. /\ handler.key \in DOMAIN sessions /\ d \in Datagram
        /\ s.last_ap_authenticator = d.authenticator /\ s.key = handler.key
    BY <2>1 DEF TestbedInv, ProxyInv, TypeOK, HandlerCoherent, HandlerType, TableCoherent
  <2>5. st \in Stations
    BY <2>4 DEF Datagram, Alphabet
  <2>6. Unbegun(s) /\ OwnedBy(s, st, server)
    BY <2>4 DEF TestbedInv, Owned, SessionsOwned, OwnedBy
  <2>7. Ready(s, d, st)
    <3>1. OwnedBy(s, st, server')
      BY <2>2, <2>6, OwnedByGrows
    <3>2. ASSUME NEW n \in Nat, s.key = StateKey(n)
          PROVE  Quoting(n, st)
      BY <3>2, <2>4 DEF Quoting
    <3>3. QED
      BY <3>1, <3>2, <2>4 DEF Ready
  <2> HIDE DEF s, d, st
  <2>8. Owned'
    BY <2>1, <2>3, <2>5, <2>6, <2>7, RaiseOwned
  <2>9. ProxyInv'
    BY <2>1, NextInv DEF TestbedInv, OpenNext
  <2>10. PeerTypeOK' /\ ServerTypeOK'
    BY <2>1, <2>2, <2>3 DEF TestbedInv, PeerTypeOK, ServerTypeOK, Grows
  <2>11. QED
    BY <2>8, <2>9, <2>10 DEF TestbedInv
<1>5. CASE RestartProxy
  <2>1. Restart /\ UNCHANGED <<script, peer, inbox, server>>
    BY <1>5 DEF RestartProxy
  <2>2. DOMAIN sessions' = {} /\ handler' = Nil /\ toAp' = toAp /\ minted' = minted
    BY <2>1 DEF Restart
  <2>3. InFlight' = InFlight
    BY <2>1 DEF InFlight
  <2>4. \A n \in Nat, a \in Stations : Quoting(n, a)' => Quoting(n, a)
    BY <2>1, <2>2, <2>3 DEF Quoting
  <2>5. Owned'
    BY <2>1, <2>2, <2>4
    DEF TestbedInv, Owned, SessionsOwned, StatesUnshared, ChallengesQuote, HandlerOwned,
        Admits, RepliesOwned
  <2>6. ProxyInv'
    BY <2>1, NextInv DEF TestbedInv, OpenNext
  <2>7. PeerTypeOK' /\ ServerTypeOK'
    BY <2>1, <2>3 DEF TestbedInv, PeerTypeOK, ServerTypeOK
  <2>8. QED
    BY <2>5, <2>6, <2>7 DEF TestbedInv
<1>6. QED
  BY <1>1, <1>2, <1>3, <1>4, <1>5 DEF Fault

LEMMA TestbedInitInv == ASSUME Init PROVE TestbedInv
<1>1. ProxyInv
  BY InitInv DEF Init
<1>2. /\ inbox = <<>> /\ server = <<>> /\ toAp = {} /\ sessions = <<>> /\ handler = Nil
      /\ script \in [Stations -> Scripts] /\ peer = [st \in Stations |-> NewPeer]
  BY DEF Init, ProxyInit
<1>3. <<>> \in Seq(Datagram) /\ <<>> \in Seq(Conversations)
      /\ \A st \in Stations : <<>> \in Seq(Seq(Of(st))) /\ <<>> \in Seq(Of(st))
  OBVIOUS
<1>4. InFlight = {} /\ DOMAIN sessions = {}
  BY <1>2 DEF InFlight
<1>5. (\A st \in Stations : NewPeer \in Peer(st)) /\ NewPeer.status = "off"
  BY <1>3 DEF NewPeer, Peer
<1>6. PeerTypeOK /\ ServerTypeOK
  BY <1>2, <1>3, <1>4, <1>5 DEF PeerTypeOK, ServerTypeOK
<1>7. \A n \in Nat, a \in Stations : ~Quoting(n, a)
  BY <1>2, <1>4, <1>5 DEF Quoting
<1>8. Owned
  BY <1>2, <1>4, <1>7
  DEF Owned, SessionsOwned, StatesUnshared, ChallengesQuote, HandlerOwned, Admits,
      RepliesOwned
<1>9. QED
  BY <1>1, <1>6, <1>8 DEF TestbedInv

LEMMA TestbedNextInv == ASSUME Alphabet, TestbedInv, [Next]_vars PROVE TestbedInv'
<1>1. CASE System
  BY <1>1, ProxyStepInv, ServerStepInv, PeerStepInv DEF System
<1>2. CASE Fault
  BY <1>2, FaultInv
<1>3. CASE UNCHANGED vars
  <2>1. /\ UNCHANGED <<sessions, handler, upstream, toAp, minted, reports>>
        /\ UNCHANGED <<script, peer, inbox, server>>
    BY <1>3 DEF vars
  <2>2. InFlight' = InFlight
    BY <2>1 DEF InFlight
  <2>3. PeerTypeOK'
    BY <2>1, <2>2 DEF TestbedInv, PeerTypeOK
  <2>4. \A n \in Nat, a \in Stations : Quoting(n, a)' => Quoting(n, a)
    BY <2>1, <2>2 DEF Quoting
  <2>5. QED
    BY <2>1, <2>3, <2>4, OutsideStep
<1>4. QED
  BY <1>1, <1>2, <1>3 DEF Next, Stop

(* The proxy's invariant, with the ownership of everything it keeps and    *)
(* everything on its way, holds with any number of stations, under any     *)
(* loss, repetition, timeout and restart, and when sends and reports fail. *)
THEOREM TestbedInvariance == ASSUME Alphabet PROVE Spec => []TestbedInv
<1>1. Init => TestbedInv
  BY TestbedInitInv
<1>2. TestbedInv /\ [Next]_vars => TestbedInv'
  BY TestbedNextInv
<1>3. QED
  BY <1>1, <1>2, PTL DEF Spec

(* No Access-Accept ever reaches a station the server has not accepted in  *)
(* a conversation of that station's own: not after a retransmission, a     *)
(* restart, or a synthetic key that two stations shared                    *)
(* (_lookup_session(), rekey()).                                           *)
THEOREM AdmissionIsHonest == ASSUME Alphabet PROVE Spec => []AdmissionHonest
<1>1. TestbedInv => AdmissionHonest
  <2>1. ASSUME TestbedInv, NEW m \in toAp, m.code = "accept"
        PROVE  \E v \in Range(server) : v.st = m.to[1] /\ v.verdict = "accept"
    <3>1. PICK c \in DOMAIN server : server[c].st = m.to[1] /\ server[c].verdict = "accept"
      BY <2>1 DEF TestbedInv, Owned, Admits, Admitted
    <3>2. server[c] \in Range(server)
      BY DEF Range
    <3>3. QED
      BY <3>1, <3>2
  <2>2. QED
    BY <2>1 DEF AdmissionHonest
<1>2. QED
  BY <1>1, TestbedInvariance, PTL

(* No unit of one station's handshake is ever handed to another station,   *)
(* or to the server in another's conversation, whatever is lost, repeated  *)
(* or cut short, and even where two stations share a synthetic key         *)
(* (_lookup_session(), rekey()).                                           *)
THEOREM StationsAreSeparate == ASSUME Alphabet PROVE Spec => []StationsSeparate
<1>1. TestbedInv => StationsSeparate
  <2>1. ASSUME NEW st \in Stations, NEW records \in Seq(Seq(Of(st)))
        PROVE  \A i \in DOMAIN records : \A u \in Range(records[i]) : u[1] = st
    <3>1. ASSUME NEW i \in DOMAIN records, NEW u \in Range(records[i])
          PROVE  u[1] = st
      <4>1. records[i] \in Seq(Of(st))
        OBVIOUS
      <4>2. u \in Of(st)
        BY <4>1 DEF Range
      <4>3. QED
        BY <4>2 DEF Of
    <3>2. QED
      BY <3>1
  <2>2. ASSUME TestbedInv
        PROVE  /\ \A st \in Stations : peer[st].got \in Seq(Seq(Of(st)))
               /\ \A v \in Range(server) : v.st \in Stations /\ v.got \in Seq(Seq(Of(v.st)))
    <3>1. \A st \in Stations : peer[st].got \in Seq(Seq(Of(st)))
      BY <2>2 DEF TestbedInv, PeerTypeOK, Peer
    <3>2. ASSUME NEW v \in Range(server)
          PROVE  v.st \in Stations /\ v.got \in Seq(Seq(Of(v.st)))
      <4>1. PICK c \in DOMAIN server : v = server[c]
        BY DEF Range
      <4>2. v.st \in Stations /\ v \in Conversation(v.st)
        BY <2>2, <4>1, ConversationType DEF TestbedInv
      <4>3. QED
        BY <4>2 DEF Conversation
    <3>3. QED
      BY <3>1, <3>2
  <2>3. QED
    BY <2>1, <2>2 DEF StationsSeparate
<1>2. QED
  BY <1>1, TestbedInvariance, PTL

(* Unless sends fail, every Access-Accept carries keys its station can     *)
(* decrypt (last_ap_authenticator, "the same encrypted bytes decrypt       *)
(* cleanly at the AP").                                                    *)
THEOREM KeysAreBound ==
  ASSUME Alphabet, ~IoMayFail PROVE Spec => []KeysBound
<1>1. TestbedInv => KeysBound
  BY DEF TestbedInv, ProxyInv, KeysUsable, KeysBound
<1>2. QED
  BY <1>1, TestbedInvariance, PTL
=============================================================================
