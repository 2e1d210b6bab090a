----------------------------- MODULE TlsTunnel -----------------------------
(***************************************************************************)
(* What the proxy promises, without packets, Identifiers, sessions or      *)
(* fragments: an opaque tunnel.  The flights of a TLS handshake, odd ones  *)
(* from the station and even ones from the server, arrive whole, unaltered *)
(* and in turn, and a station is let in only after the last of them.       *)
(***************************************************************************)
EXTENDS Integers, Sequences

CONSTANTS Stations,
          FlightCount      \* flights of a handshake, an even number

VARIABLES flights,    \* the handshake each station is to have
          atServer,   \* the flights of each station the server has received
          atPeer,     \* the server flights each station has received
          verdict     \* "none", "success" or "failure" at each station

tunnelVars == <<flights, atServer, atPeer, verdict>>

Init ==
  /\ \A st \in Stations : Len(flights[st]) = FlightCount
  /\ atServer = [st \in Stations |-> <<>>]
  /\ atPeer = [st \in Stations |-> <<>>]
  /\ verdict = [st \in Stations |-> "none"]

CarryUp(st) ==
  LET n == Len(atServer[st]) IN
  /\ n = Len(atPeer[st])
  /\ 2 * n < FlightCount
  /\ atServer' = [atServer EXCEPT ![st] = Append(@, flights[st][2 * n + 1])]
  /\ UNCHANGED <<flights, atPeer, verdict>>

CarryDown(st) ==
  LET n == Len(atPeer[st]) IN
  /\ n < Len(atServer[st])
  /\ atPeer' = [atPeer EXCEPT ![st] = Append(@, flights[st][2 * n + 2])]
  /\ UNCHANGED <<flights, atServer, verdict>>

Admit(st) ==
  /\ verdict[st] = "none"
  /\ 2 * Len(atPeer[st]) = FlightCount
  /\ verdict' = [verdict EXCEPT ![st] = "success"]
  /\ UNCHANGED <<flights, atServer, atPeer>>

Refuse(st) ==
  /\ verdict[st] = "none"
  /\ verdict' = [verdict EXCEPT ![st] = "failure"]
  /\ UNCHANGED <<flights, atServer, atPeer>>

Next == \E st \in Stations : CarryUp(st) \/ CarryDown(st) \/ Admit(st) \/ Refuse(st)

Spec == Init /\ [][Next]_tunnelVars
=============================================================================
