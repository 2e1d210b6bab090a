-------------------------- MODULE MCUpstreamClient --------------------------
(* UpstreamClient with few Identifiers, so that they come round.           *)
EXTENDS UpstreamClient

CONSTANT MaxDrawn   \* Identifiers drawn

(* The bound: the number of draws.                                         *)
MCSpec == Init /\ [][Next /\ drawn' <= MaxDrawn]_clientVars
          /\ WF_clientVars(Resend \/ GiveUp)
=============================================================================
