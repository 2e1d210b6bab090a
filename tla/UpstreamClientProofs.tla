------------------------ MODULE UpstreamClientProofs ------------------------
(***************************************************************************)
(* The upstream client keeps its promise for every number of Identifiers,  *)
(* retries and authenticators, whatever the network loses and repeats.     *)
(***************************************************************************)
EXTENDS UpstreamClient, Integers, TLAPS

USE RetriesAssumption, NilAssumption, LifetimeAssumption

(* Two draws less than a round of the counter apart differ in Identifier.  *)
LEMMA ModDistance ==
  ASSUME NEW P \in Nat \ {0}, NEW a \in Nat, NEW b \in Nat,
         a <= b, b < a + P, a % P = b % P
  PROVE  a = b
<1> DEFINE qa == a \div P
           qb == b \div P
<1>1. /\ qa \in Int /\ qb \in Int
      /\ a = P * qa + (a % P) /\ b = P * qb + (b % P)
      /\ a % P \in 0 .. P - 1
  OBVIOUS
<1> HIDE DEF qa, qb
<1>2. CASE qb <= qa
  <2>1. P * qb <= P * qa
    BY <1>1, <1>2
  <2>2. QED
    BY <1>1, <2>1
<1>3. CASE qb >= qa + 1
  <2>1. P * qb >= P * (qa + 1)
    BY <1>1, <1>3
  <2>2. P * (qa + 1) = P * qa + P
    BY <1>1
  <2>3. QED
    BY <1>1, <2>1, <2>2
<1>4. QED
  BY <1>1, <1>2, <1>3

LEMMA IdOfType ==
  ASSUME NEW n \in Nat
  PROVE  IdOf(n) \in Nat
BY DEF IdOf

(* Recent packets with one Identifier are of one call.                     *)
LEMMA RecentUnique ==
  ASSUME drawn \in Nat,
         NEW p \in Packet, p.n < drawn, drawn <= p.n + Lifetime, p.id = IdOf(p.n),
         NEW q \in Packet, q.n < drawn, drawn <= q.n + Lifetime, q.id = IdOf(q.n),
         p.id = q.id
  PROVE  p.n = q.n
<1>1. p.n \in Nat /\ q.n \in Nat /\ p.n % PacketIds = q.n % PacketIds
  BY DEF Packet, IdOf
<1>2. p.n < q.n + PacketIds /\ q.n < p.n + PacketIds
  BY <1>1
<1>3. CASE p.n <= q.n
  BY <1>1, <1>2, <1>3, ModDistance, LifetimeAssumption
<1>4. CASE q.n <= p.n
  BY <1>1, <1>2, <1>4, ModDistance, LifetimeAssumption
<1>5. QED
  BY <1>1, <1>3, <1>4

(* and that are signed alike are one packet.                               *)
LEMMA MatchUnique ==
  ASSUME drawn \in Nat,
         NEW p \in Packet, p.n < drawn, drawn <= p.n + Lifetime, p.id = IdOf(p.n),
         NEW q \in Packet, q.n < drawn, drawn <= q.n + Lifetime, q.id = IdOf(q.n),
         Matches(p, q)
  PROVE  p = q
<1>1. p.n = q.n /\ p.id = q.id /\ p.authenticator = q.authenticator
  BY RecentUnique DEF Matches
<1>2. QED
  BY <1>1 DEF Packet

-----------------------------------------------------------------------------
LEMMA InitInv == Init => ClientInv
BY DEF Init, ClientInv, TypeOK, Outstanding, Recent, Answered, About

LEMMA DatagramInv == ClientInv /\ Datagram => ClientInv'
<1> SUFFICES ASSUME ClientInv, Datagram
             PROVE  ClientInv'
  OBVIOUS
<1> USE DEF Datagram, ClientInv, Draw, history, Alive
<1>1. TypeOK'
  BY DEF TypeOK
<1>2. Outstanding'
  BY DEF Outstanding, TypeOK
<1>3. /\ About' \subseteq About
      /\ \A p \in About' : drawn' <= p.n + Lifetime
  BY DEF About
<1>4. Recent'
  BY <1>3 DEF Recent
<1>5. Answered'
  <2>1. \A p \in About' : p \in remembered => p \in remembered'
    BY <1>3
  <2>2. QED
    BY <1>3, <2>1 DEF Answered
<1>6. QED
  BY <1>1, <1>2, <1>4, <1>5

LEMMA CallInv == ClientInv /\ Call => ClientInv'
<1> SUFFICES ASSUME ClientInv, Call
             PROVE  ClientInv'
  OBVIOUS
<1> DEFINE p == PacketOf(drawn)
<1> USE DEF ClientInv
<1>1. p \in Packet /\ p.n = drawn /\ p.id = IdOf(drawn) /\ drawn \in Nat
  BY IdOfType DEF Call, PacketOf, Packet, TypeOK
<1>2. /\ call = Nil /\ authenticator # Nil
      /\ call' = [packet |-> p, attempts |-> 1]
      /\ requests' = Alive(requests) \cup {p}
      /\ replies' = Alive(replies) /\ remembered' = Alive(remembered)
      /\ drawn' = drawn + 1 /\ asked' = asked \cup {drawn}
      /\ UNCHANGED <<authenticator, processed, outcome>>
  BY DEF Call, Draw
<1>3. drawn \notin asked
  BY <1>1 DEF Outstanding
<1> HIDE DEF p
<1>4. call'.packet = p /\ call' # Nil
      /\ call' \in Request
  <2>1. call' \in Request
    BY <1>1, <1>2, RetriesAssumption DEF Request
  <2>2. QED
    BY <1>2, <2>1, NilCallAssumption
<1>5. TypeOK'
  BY <1>1, <1>2, <1>4 DEF TypeOK, Alive
<1>6. Outstanding'
  BY <1>1, <1>2, <1>3, <1>4 DEF Outstanding, TypeOK
<1>7. /\ About' \subseteq About \cup {p}
      /\ \A x \in About' : x = p \/ drawn' <= x.n + Lifetime
  BY <1>2, <1>4 DEF About, Alive
<1>8. drawn' <= p.n + Lifetime /\ p.n \in asked' /\ asked \subseteq asked'
  BY <1>1, <1>2, LifetimeAssumption
<1>9. \A x \in About : x.n # p.n
  BY <1>1, <1>3 DEF Recent
<1>10. Recent'
  BY <1>1, <1>7, <1>8, <1>9 DEF Recent
<1>11. Answered'
  <2>1. \A x \in About' : x \in remembered => x \in remembered'
    <3>1. \A x \in About' : drawn' <= x.n + Lifetime
      BY <1>7, <1>8
    <3>2. QED
      BY <1>2, <3>1 DEF Alive
  <2>2. p.n \notin processed
    BY <1>1, <1>3 DEF Answered
  <2>3. \A x \in replies' \cup remembered' : x \in replies \cup remembered
    BY <1>2 DEF Alive
  <2>4. QED
    BY <1>2, <1>7, <1>8, <2>1, <2>2, <2>3 DEF Answered
<1>12. QED
  BY <1>5, <1>6, <1>10, <1>11

LEMMA ResendInv == ClientInv /\ Resend => ClientInv'
<1> SUFFICES ASSUME ClientInv, Resend
             PROVE  ClientInv'
  OBVIOUS
<1> USE DEF ClientInv
<1>1. /\ call # Nil /\ call.attempts < Retries
      /\ call' = [call EXCEPT !.attempts = @ + 1]
      /\ requests' = requests \cup {call.packet}
      /\ UNCHANGED <<drawn, authenticator, replies, remembered, asked, processed, outcome>>
  BY DEF Resend, history
<1>2. call \in Request
  BY <1>1 DEF TypeOK
<1>3. call' \in Request /\ call'.packet = call.packet
  BY <1>1, <1>2, RetriesAssumption DEF Request
<1>4. call' # Nil
  BY <1>3, NilCallAssumption
<1>5. call.packet \in Packet
  BY <1>2 DEF Request
<1>6. TypeOK'
  BY <1>1, <1>2, <1>3, <1>5 DEF TypeOK
<1>7. Outstanding'
  BY <1>1, <1>3, <1>4 DEF Outstanding
<1>8. About' = About
  BY <1>1, <1>3, <1>4 DEF About
<1>9. Recent' /\ Answered'
  BY <1>1, <1>8 DEF Recent, Answered
<1>10. QED
  BY <1>6, <1>7, <1>9

LEMMA EndInv ==
  ASSUME ClientInv, call # Nil, NEW result \in Nat \cup {Nil}, End(result),
         authenticator' \in {authenticator, Nil}
  PROVE  ClientInv'
<1> USE DEF ClientInv
<1>1. /\ DOMAIN outcome' = DOMAIN outcome \cup {call.packet.n}
      /\ \A n \in DOMAIN outcome' : outcome'[n] = result \/ (n \in DOMAIN outcome /\ outcome'[n] = outcome[n])
      /\ call' = Nil
      /\ UNCHANGED <<drawn, requests, replies, remembered, asked, processed>>
  BY DEF End, wire
<1>2. TypeOK'
  BY <1>1 DEF TypeOK
<1>3. Outstanding'
  BY <1>1 DEF Outstanding
<1>4. About' \subseteq About
  BY <1>1 DEF About
<1>5. Recent' /\ Answered'
  BY <1>1, <1>4 DEF Recent, Answered
<1>6. QED
  BY <1>2, <1>3, <1>5

(* What the server does with a request.                                    *)
LEMMA ServeStep ==
  ASSUME ClientInv, Serve
  PROVE  /\ UNCHANGED <<drawn, authenticator, call, requests, asked, outcome>>
         /\ \E q \in requests :
              /\ replies' = replies \cup {q}
              /\ \/ q \in remembered /\ UNCHANGED <<remembered, processed>>
                 \/ /\ q.n \in asked \ processed
                    /\ remembered' = remembered \cup {q}
                    /\ processed' = processed \cup {q.n}
<1>1. PICK q \in requests :
        /\ \/ \E m \in remembered :
                /\ Matches(m, q)
                /\ replies' = replies \cup {m}
                /\ UNCHANGED <<remembered, processed>>
           \/ /\ ~\E m \in remembered : Matches(m, q)
              /\ replies' = replies \cup {q}
              /\ remembered' = remembered \cup {q}
              /\ processed' = processed \cup {q.n}
        /\ UNCHANGED <<drawn, authenticator, call, requests, asked, outcome>>
  BY DEF Serve
<1>2. q \in Packet /\ q \in About
  BY DEF ClientInv, TypeOK, About
<1>3. CASE \E m \in remembered :
             /\ Matches(m, q)
             /\ replies' = replies \cup {m}
             /\ UNCHANGED <<remembered, processed>>
  <2>1. PICK m \in remembered :
          /\ Matches(m, q)
          /\ replies' = replies \cup {m}
          /\ UNCHANGED <<remembered, processed>>
    BY <1>3
  <2>2. m \in Packet /\ m \in About
    BY DEF ClientInv, TypeOK, About
  <2>3. m = q
    BY <1>2, <2>1, <2>2, MatchUnique DEF ClientInv, TypeOK, Recent, Outstanding
  <2>4. QED
    BY <1>1, <2>1, <2>3
<1>4. CASE /\ ~\E m \in remembered : Matches(m, q)
           /\ replies' = replies \cup {q}
           /\ remembered' = remembered \cup {q}
           /\ processed' = processed \cup {q.n}
  <2>1. q \notin remembered
    BY <1>4 DEF Matches
  <2>2. q.n \in asked \ processed
    BY <1>2, <2>1 DEF ClientInv, Recent, Answered
  <2>3. QED
    BY <1>1, <1>4, <2>2
<1>5. QED
  BY <1>1, <1>3, <1>4

LEMMA ServeInv == ClientInv /\ Serve => ClientInv'
<1> SUFFICES ASSUME ClientInv, Serve
             PROVE  ClientInv'
  OBVIOUS
<1>1. UNCHANGED <<drawn, authenticator, call, requests, asked, outcome>>
  BY ServeStep
<1>2. PICK q \in requests :
        /\ replies' = replies \cup {q}
        /\ \/ q \in remembered /\ UNCHANGED <<remembered, processed>>
           \/ /\ q.n \in asked \ processed
              /\ remembered' = remembered \cup {q}
              /\ processed' = processed \cup {q.n}
  BY ServeStep
<1> USE DEF ClientInv
<1>3. q \in Packet /\ q.n \in Nat
  BY DEF TypeOK, Packet
<1>4. TypeOK'
  BY <1>1, <1>2, <1>3 DEF TypeOK
<1>5. Outstanding'
  BY <1>1 DEF Outstanding
<1>6. About' = About
  BY <1>1, <1>2 DEF About
<1>7. Recent'
  BY <1>1, <1>6 DEF Recent
<1>8. Answered'
  <2>1. q \in About
    BY DEF About
  <2>2. processed' \subseteq asked'
    BY <1>1, <1>2 DEF Answered
  <2>3. \A p \in replies' \cup remembered' : p.n \in processed'
    BY <1>2 DEF Answered
  <2>4. \A p \in About' : p.n \in processed' => p \in remembered'
    BY <1>2, <1>6, <2>1 DEF Answered, Recent
  <2>5. QED
    BY <2>2, <2>3, <2>4 DEF Answered
<1>9. QED
  BY <1>4, <1>5, <1>7, <1>8

LEMMA LoseInv == ClientInv /\ Lose => ClientInv'
<1> SUFFICES ASSUME ClientInv, Lose
             PROVE  ClientInv'
  OBVIOUS
<1> USE DEF ClientInv
<1>1. /\ requests' \subseteq requests /\ replies' \subseteq replies
      /\ UNCHANGED <<drawn, authenticator, call, remembered, asked, processed, outcome>>
  BY DEF Lose, history
<1>2. TypeOK' /\ Outstanding'
  BY <1>1 DEF TypeOK, Outstanding
<1>3. About' \subseteq About
  BY <1>1 DEF About
<1>4. Recent' /\ Answered'
  BY <1>1, <1>3 DEF Recent, Answered
<1>5. QED
  BY <1>2, <1>4

(* The reply a call takes is its own.                                      *)
LEMMA ReceiveOwn ==
  ASSUME ClientInv, Receive
  PROVE  /\ call # Nil
         /\ call.packet.n \in processed
         /\ End(call.packet.n)
         /\ UNCHANGED authenticator
<1>1. PICK r \in replies : Matches(r, call.packet) /\ End(r.n)
  BY DEF Receive
<1>2. call # Nil /\ UNCHANGED authenticator
  BY DEF Receive
<1>3. r \in Packet /\ r \in About /\ call.packet \in Packet /\ call.packet \in About
  BY <1>2 DEF ClientInv, TypeOK, About, Request
<1>4. r = call.packet
  BY <1>1, <1>3, MatchUnique DEF ClientInv, TypeOK, Recent, Outstanding
<1>5. QED
  BY <1>1, <1>2, <1>4 DEF ClientInv, Answered

LEMMA NextInv == ClientInv /\ [Next]_clientVars => ClientInv'
<1> SUFFICES ASSUME ClientInv, [Next]_clientVars
             PROVE  ClientInv'
  OBVIOUS
<1>1. CASE GiveUp
  <2>1. call # Nil /\ End(Nil) /\ authenticator' \in {authenticator, Nil}
    BY <1>1 DEF GiveUp
  <2>2. QED
    BY <2>1, EndInv
<1>2. CASE Receive
  <2>1. call # Nil /\ call.packet.n \in Nat /\ End(call.packet.n) /\ UNCHANGED authenticator
    BY <1>2, ReceiveOwn DEF ClientInv, TypeOK
  <2>2. QED
    BY <2>1, EndInv
<1>3. CASE UNCHANGED clientVars
  BY <1>3 DEF clientVars, wire, history, ClientInv, TypeOK, Outstanding, Recent, Answered, About
<1>4. QED
  BY <1>1, <1>2, <1>3, DatagramInv, CallInv, ResendInv, ServeInv, LoseInv DEF Next

(* ClientInv is an invariant: it is inductive.                             *)
THEOREM ClientInvariance == Spec => []ClientInv
BY InitInv, NextInv, PTL DEF Spec

(* The state of the client is well typed, and no request is sent more than *)
(* Retries times.                                                          *)
THEOREM ClientTypeCorrect == Spec => []TypeOK
<1>1. ClientInv => TypeOK
  BY DEF ClientInv
<1>2. QED
  BY <1>1, ClientInvariance, PTL

-----------------------------------------------------------------------------
(* Every step of the client is a step of RequestReply or stutters.         *)
LEMMA StepRefines ==
  ASSUME ClientInv, [Next]_clientVars
  PROVE  [Calls!Next]_(Calls!callVars)
<1> USE DEF Calls!callVars, history
<1>1. CASE Datagram
  BY <1>1 DEF Datagram
<1>2. CASE Call
  <2>1. /\ asked' = asked \cup {drawn} /\ drawn \in Nat /\ drawn \notin asked
        /\ asked = DOMAIN outcome /\ UNCHANGED <<processed, outcome>>
    BY <1>2 DEF Call, ClientInv, TypeOK, Outstanding
  <2>2. Calls!Ask
    BY <2>1 DEF Calls!Ask
  <2>3. QED
    BY <2>2 DEF Calls!Next
<1>3. CASE Resend
  BY <1>3 DEF Resend
<1>4. CASE GiveUp
  <2>1. /\ call.packet.n \in asked \ DOMAIN outcome
        /\ outcome' = [x \in DOMAIN outcome \cup {call.packet.n} |->
                         IF x = call.packet.n THEN Nil ELSE outcome[x]]
        /\ UNCHANGED <<asked, processed>>
    BY <1>4 DEF GiveUp, End, ClientInv, Outstanding
  <2>2. Calls!GiveUp
    BY <2>1 DEF Calls!GiveUp, Calls!End
  <2>3. QED
    BY <2>2 DEF Calls!Next
<1>5. CASE Receive
  <2>1. call # Nil /\ call.packet.n \in processed /\ End(call.packet.n)
    BY <1>5, ReceiveOwn
  <2>2. /\ call.packet.n \in asked \ DOMAIN outcome
        /\ outcome' = [x \in DOMAIN outcome \cup {call.packet.n} |->
                         IF x = call.packet.n THEN call.packet.n ELSE outcome[x]]
        /\ UNCHANGED <<asked, processed>>
    BY <2>1 DEF End, ClientInv, Outstanding
  <2>3. Calls!End(call.packet.n)
    BY <2>1, <2>2 DEF Calls!End
  <2>4. QED
    BY <2>1, <2>3 DEF Calls!Next, Calls!Return
<1>6. CASE Serve
  <2>1. UNCHANGED <<asked, outcome>>
        /\ (UNCHANGED processed \/ \E c \in asked \ processed : processed' = processed \cup {c})
    BY <1>6, ServeStep
  <2>2. QED
    BY <2>1 DEF Calls!Next, Calls!Process
<1>7. CASE Lose
  BY <1>7 DEF Lose
<1>8. CASE UNCHANGED clientVars
  BY <1>8 DEF clientVars
<1>9. QED
  BY <1>1, <1>2, <1>3, <1>4, <1>5, <1>6, <1>7, <1>8 DEF Next

(* The client implements RequestReply: calls are answered one at a time,   *)
(* each with its own answer, and no retry makes the server act twice.      *)
THEOREM ClientIsRequestReply == Spec => RequestReplySpec
<1>1. Init => Calls!Init
  BY DEF Init, Calls!Init
<1>2. QED
  BY <1>1, StepRefines, ClientInvariance, PTL DEF Spec, RequestReplySpec, Calls!Spec
=============================================================================
