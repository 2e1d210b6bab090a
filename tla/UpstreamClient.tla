--------------------------- MODULE UpstreamClient ---------------------------
(***************************************************************************)
(* One upstream request seen from inside: SendPacket() of                  *)
(* src/proxy/upstream_radius.py sends the same datagram up to Retries      *)
(* times, polls for a reply that verifies, and raises Timeout.  The        *)
(* network loses, repeats and delays, so replies and retries of earlier    *)
(* requests may still be about, and the requests of one handler all carry  *)
(* the authenticator of the datagram being answered: a reply is told from  *)
(* the reply to another request by its Identifier alone, which pyrad draws *)
(* from a counter of one octet that the whole process shares.              *)
(***************************************************************************)
EXTENDS Naturals

CONSTANTS Nil,
          Authenticators,   \* Request Authenticators of the access point
          PacketIds,        \* the Identifiers there are: 256
          Retries,          \* Client.retries
          Lifetime          \* draws after which nothing is left of a request

ASSUME RetriesAssumption == Retries \in Nat \ {0}
ASSUME NilAssumption == Nil \notin Nat /\ Nil \notin Authenticators

(* A datagram, and the server's memory of a request, last shorter than it  *)
(* takes the counter to come round: an assumption on the networks and the  *)
(* server, and on the rate of requests.                                    *)
ASSUME LifetimeAssumption ==
  /\ PacketIds \in Nat \ {0} /\ Lifetime \in Nat \ {0}
  /\ Lifetime <= PacketIds

VARIABLES drawn,           \* Identifiers drawn so far
          authenticator,   \* that of the datagram in hand, or Nil
          call,            \* the request SendPacket() is busy with, or Nil
          requests,        \* requests on their way to the server
          replies,         \* its replies on their way back
          remembered,      \* requests it will take for repeats
          asked, processed, outcome   \* the calls' history, as in RequestReply

wire == <<requests, replies, remembered>>
history == <<asked, processed, outcome>>
clientVars == <<drawn, authenticator, call, wire, history>>

-----------------------------------------------------------------------------
(* Mutant of IdOf: the counter does not move.                              *)
IdOfNone(n) == 0

(* The Identifier of the n-th draw: pyrad's counter.                       *)
IdOf(n) == n % PacketIds

(* The n-th draw made a request; a reply is to a request, and verifies if  *)
(* it has the Identifier and is signed with the authenticator of pkt       *)
(* (VerifyReply()).                                                        *)
PacketOf(n) == [n |-> n, id |-> IdOf(n), authenticator |-> authenticator]

Packet == [n : Nat, id : Nat, authenticator : Authenticators]
Request == [packet : Packet, attempts : 1 .. Retries]

ASSUME NilCallAssumption == Nil \notin Request

Matches(p, q) == p.id = q.id /\ p.authenticator = q.authenticator

(* An Identifier is drawn, and what has outlived its time is gone.         *)
Alive(S) == {p \in S : drawn' <= p.n + Lifetime}

Draw ==
  /\ drawn' = drawn + 1
  /\ replies' = Alive(replies)
  /\ remembered' = Alive(remembered)

-----------------------------------------------------------------------------
Init ==
  /\ drawn = 0
  /\ authenticator = Nil
  /\ call = Nil
  /\ requests = {} /\ replies = {} /\ remembered = {}
  /\ asked = {} /\ processed = {} /\ outcome = <<>>

(* The access point sends something.  Decoding it makes a packet object,   *)
(* which draws an Identifier; its authenticator is mirrored from now on.   *)
Datagram ==
  /\ call = Nil
  /\ authenticator' \in Authenticators
  /\ Draw
  /\ requests' = Alive(requests)
  /\ UNCHANGED <<call, history>>

(* send_eap(): a fresh request, sent for the first time.                   *)
Call ==
  /\ call = Nil
  /\ authenticator # Nil
  /\ LET p == PacketOf(drawn) IN
     /\ call' = [packet |-> p, attempts |-> 1]
     /\ Draw
     /\ requests' = Alive(requests) \cup {p}
  /\ asked' = asked \cup {drawn}
  /\ UNCHANGED <<authenticator, processed, outcome>>

(* Mutants of Resend: one attempt more; attempts not counted.              *)
ResendOnceMore ==
  /\ call # Nil
  /\ call.attempts <= Retries
  /\ call' = [call EXCEPT !.attempts = @ + 1]
  /\ requests' = requests \cup {call.packet}
  /\ UNCHANGED <<drawn, authenticator, replies, remembered, history>>
ResendForever ==
  /\ call # Nil
  /\ requests' = requests \cup {call.packet}
  /\ UNCHANGED <<drawn, authenticator, call, replies, remembered, history>>

(* No reply that verifies within the timeout: the datagram is sent again.  *)
Resend ==
  /\ call # Nil
  /\ call.attempts < Retries
  /\ call' = [call EXCEPT !.attempts = @ + 1]
  /\ requests' = requests \cup {call.packet}
  /\ UNCHANGED <<drawn, authenticator, replies, remembered, history>>

(* The call under way ends with result.                                    *)
End(result) ==
  /\ call' = Nil
  /\ outcome' = [n \in DOMAIN outcome \cup {call.packet.n} |->
                   IF n = call.packet.n THEN result ELSE outcome[n]]
  /\ UNCHANGED <<drawn, wire, asked, processed>>

(* The last attempt has had its time: Timeout unwinds the handler, and the *)
(* datagram in hand is done with.                                          *)
GiveUp ==
  /\ call # Nil
  /\ call.attempts = Retries
  /\ End(Nil)
  /\ authenticator' = Nil

(* A reply that verifies.  One that does not is dropped and the poll goes  *)
(* on; the network keeps the reply, to deliver it again.                   *)
Receive ==
  /\ call # Nil
  /\ \E r \in replies : Matches(r, call.packet) /\ End(r.n)
  /\ UNCHANGED authenticator

-----------------------------------------------------------------------------
(* The server: a request like one it remembers is answered as that one was *)
(* (RFC 5080), any other is processed.                                     *)
Serve ==
  \E q \in requests :
    /\ \/ \E m \in remembered :
            /\ Matches(m, q)
            /\ replies' = replies \cup {m}
            /\ UNCHANGED <<remembered, processed>>
       \/ /\ ~\E m \in remembered : Matches(m, q)
          /\ replies' = replies \cup {q}
          /\ remembered' = remembered \cup {q}
          /\ processed' = processed \cup {q.n}
    /\ UNCHANGED <<drawn, authenticator, call, requests, asked, outcome>>

Lose ==
  /\ \/ \E q \in requests : requests' = requests \ {q} /\ UNCHANGED replies
     \/ \E r \in replies : replies' = replies \ {r} /\ UNCHANGED requests
  /\ UNCHANGED <<drawn, authenticator, call, remembered, history>>

Next == Datagram \/ Call \/ Resend \/ GiveUp \/ Receive \/ Serve \/ Lose

Spec == Init /\ [][Next]_clientVars

(* The clock of the poll loop runs: each attempt ends.                     *)
FairSpec == Spec /\ WF_clientVars(Resend \/ GiveUp)

-----------------------------------------------------------------------------
(* No request is sent more often than Retries says (TypeOK's bound on      *)
(* attempts, the loop of _SendPacket()).                                   *)
TypeOK ==
  /\ drawn \in Nat
  /\ authenticator \in Authenticators \cup {Nil}
  /\ call \in Request \cup {Nil}
  /\ requests \subseteq Packet /\ replies \subseteq Packet /\ remembered \subseteq Packet
  /\ asked \subseteq Nat /\ processed \subseteq Nat
  /\ \A n \in DOMAIN outcome : outcome[n] \in Nat \cup {Nil}

(* A call gets the answer to itself and to no other, though several share  *)
(* an authenticator and late replies to earlier ones are about, and its    *)
(* retries make the server act on it once (session.py on distinct requests *)
(* of a session, _SendPacket(), send_eap()'s mirrored authenticator).      *)
Calls == INSTANCE RequestReply WITH Timeout <- Nil
RequestReplySpec == Calls!Spec

(* A call ends, whatever the network and the server do (_SendPacket()'s    *)
(* loops).                                                                 *)
CallEnds == call # Nil ~> call = Nil

-----------------------------------------------------------------------------
(* The inductive strengthening: the call under way is the last draw and    *)
(* the only one without an outcome;                                        *)
Outstanding ==
  /\ \A n \in asked : n < drawn
  /\ call = Nil => asked = DOMAIN outcome
  /\ call # Nil =>
       /\ authenticator # Nil
       /\ drawn = call.packet.n + 1
       /\ call.packet.n \notin DOMAIN outcome
       /\ asked = DOMAIN outcome \cup {call.packet.n}

(* every packet about is the one packet of a recent call;                  *)
About ==
  requests \cup replies \cup remembered \cup (IF call = Nil THEN {} ELSE {call.packet})

Recent ==
  /\ \A p \in About : p.n \in asked /\ drawn <= p.n + Lifetime /\ p.id = IdOf(p.n)
  /\ \A p, q \in About : p.n = q.n => p = q

(* and the server remembers what it has processed as long as any of it is  *)
(* about.                                                                  *)
Answered ==
  /\ processed \subseteq asked
  /\ \A p \in replies \cup remembered : p.n \in processed
  /\ \A p \in About : p.n \in processed => p \in remembered

ClientInv == TypeOK /\ Outstanding /\ Recent /\ Answered
=============================================================================
