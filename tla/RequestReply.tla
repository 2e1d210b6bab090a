---------------------------- MODULE RequestReply ----------------------------
(***************************************************************************)
(* What the upstream client promises its caller: calls are made one at a   *)
(* time, the server acts on each at most once, perhaps after the caller    *)
(* has given up, and a call that returns has the answer to itself.         *)
(***************************************************************************)
EXTENDS Naturals

CONSTANT Timeout       \* the outcome of a call that was given up

VARIABLES asked,       \* the calls made
          processed,   \* those the server has acted on
          outcome      \* for each call that has ended, the call it was given
                       \* the answer to, or Timeout

callVars == <<asked, processed, outcome>>

Init == asked = {} /\ processed = {} /\ outcome = <<>>

Ask ==
  /\ asked = DOMAIN outcome
  /\ \E c \in asked' \ asked : c \in Nat /\ asked' = asked \cup {c}
  /\ UNCHANGED <<processed, outcome>>

Process ==
  /\ \E c \in asked \ processed : processed' = processed \cup {c}
  /\ UNCHANGED <<asked, outcome>>

(* The call under way ends with result r.                                  *)
End(r) ==
  /\ \E c \in asked \ DOMAIN outcome :
       /\ r \in {c} \cap processed \/ r = Timeout
       /\ outcome' = [x \in DOMAIN outcome \cup {c} |-> IF x = c THEN r ELSE outcome[x]]
  /\ UNCHANGED <<asked, processed>>

Return == \E r \in processed : End(r)
GiveUp == End(Timeout)

Next == Ask \/ Process \/ Return \/ GiveUp

Spec == Init /\ [][Next]_callVars
=============================================================================
