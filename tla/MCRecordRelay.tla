--------------------------- MODULE MCRecordRelay ---------------------------
(* RecordRelay with records of all lengths up to MaxLength: the units of   *)
(* the two records there are, "a" and "b", are all different.              *)
EXTENDS RecordRelay

CONSTANTS MaxLength,   \* units of a record
          MaxRecords   \* records sent

MCUnit == {"a", "b"} \X (1 .. MaxLength)
MCRecords == {[j \in 1 .. n |-> <<name, j>>] : name \in {"a", "b"}, n \in 1 .. MaxLength}

(* The bound: the number of records.                                       *)
MCNext == Next /\ (phase = "idle" => Len(delivered) < MaxRecords)
MCSpec == Init /\ [][MCNext]_relayVars
          /\ WF_relayVars(Gather \/ Complete \/ Refuse \/ RelayChunk)
=============================================================================
