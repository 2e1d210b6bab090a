--------------------------- MODULE RecordChannel ---------------------------
(***************************************************************************)
(* What one direction of the proxy promises of TLS records: each record an *)
(* endpoint sends is delivered to the other, whole, unaltered, in order    *)
(* and once, and the next is not sent before.                              *)
(***************************************************************************)
EXTENDS Sequences

CONSTANT Records

VARIABLES sent,        \* the records sent so far
          delivered    \* the records delivered so far

channelVars == <<sent, delivered>>

Init == sent = <<>> /\ delivered = <<>>

Send ==
  /\ sent = delivered
  /\ \E r \in Records : sent' = Append(sent, r)
  /\ UNCHANGED delivered

Deliver ==
  /\ sent # delivered
  /\ delivered' = sent
  /\ UNCHANGED sent

Next == Send \/ Deliver

Spec == Init /\ [][Next]_channelVars
=============================================================================
