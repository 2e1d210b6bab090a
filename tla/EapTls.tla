------------------------------- MODULE EapTls -------------------------------
(***************************************************************************)
(* The EAP-TLS framing core of src/proxy/eap_tls.py: packets, the          *)
(* reassembler of one direction, and the fragmentation of a TLS record.    *)
(* TLS data is a sequence of opaque units; the code never looks inside it  *)
(* and neither does anything below.                                        *)
(***************************************************************************)
EXTENDS Integers, Sequences

CONSTANTS Nil,             \* Python's None
          MaxMessageLen    \* Reassembler.max_message_len, in units

ASSUME NilAssumption == Nil \notin Int
ASSUME MaxMessageLenAssumption == MaxMessageLen \in Nat

-----------------------------------------------------------------------------
(* Identifiers are one octet: every increment in the code is masked with   *)
(* 0xFF.                                                                   *)

IdSpace == 256
Identifier == 0 .. IdSpace - 1
(* Mutant of NextId: the mask forgotten.                                   *)
NextIdUnmasked(i) == i + 1

NextId(i) == (i + 1) % IdSpace

-----------------------------------------------------------------------------
(* One EAP packet, as far as the proxy can tell packets apart.  kind is    *)
(* "tls" for a well-framed EAP-TLS Request or Response, "other" for any    *)
(* other EAP type (Identity and the like), "malformed" for type 13 with    *)
(* framing that parse() raises on, and "success" / "failure" for the two   *)
(* packets that carry no type at all.  length is the TLS Message Length,   *)
(* or Nil when the L bit is clear.                                         *)

Kind == {"tls", "other", "malformed", "success", "failure"}

Packet(Unit) ==
  [kind : Kind, id : Identifier, length : Nat \cup {Nil},
   more : BOOLEAN, start : BOOLEAN, data : Seq(Unit)]

Frame(id, length, more, data) ==
  [kind |-> "tls", id |-> id, length |-> length,
   more |-> more, start |-> FALSE, data |-> data]

AckPacket(id) == Frame(id, Nil, FALSE, <<>>)

IsAck(p) == p.length = Nil /\ ~p.more /\ ~p.start /\ p.data = <<>>

-----------------------------------------------------------------------------
(* Reassembler.  The expected length is checked when it is declared and    *)
(* never acted on again ("We trust the M-bit"), so it is not kept.         *)

Reassembler(Unit) ==
  [state : {"idle", "in_progress", "complete"}, buffer : Seq(Unit)]

(* Mutant of EmptyReassembler: no buffer until the first fragment.         *)
EmptyReassemblerBare == [state |-> "idle", buffer |-> Nil]

EmptyReassembler == [state |-> "idle", buffer |-> <<>>]

(* Mutant of StartsRecord: COMPLETE does not start afresh.                 *)
StartsFirstRecord(r) == r.state = "idle"

StartsRecord(r) == r.state # "in_progress"

(* The buffer once the data of p has been appended, a new record starting  *)
(* from scratch.                                                           *)
Appended(r, p) == (IF StartsRecord(r) THEN <<>> ELSE r.buffer) \o p.data

(* Mutant of DeclaresTooMuch: the limit itself refused.                    *)
DeclaresAsMuch(r, p) ==
  StartsRecord(r) /\ p.length # Nil /\ p.length >= MaxMessageLen

DeclaresTooMuch(r, p) ==
  StartsRecord(r) /\ p.length # Nil /\ p.length > MaxMessageLen

(* ingest(): "more" where the code returns None, "done" where it returns   *)
(* the record, "error" where it raises EapTlsError.  The length is checked *)
(* AFTER the data has been appended, and the state is left as it is.       *)
Ingest(r, p) ==
  LET Result(verdict, state, buffer) ==
        [verdict |-> verdict, reasm |-> [state |-> state, buffer |-> buffer]]
      buffer == Appended(r, p)
  IN  IF IsAck(p)
        THEN [verdict |-> "more", reasm |-> r]
      ELSE IF DeclaresTooMuch(r, p)
        THEN Result("error", "idle", <<>>)
      ELSE IF Len(buffer) > MaxMessageLen
        THEN Result("error", "in_progress", buffer)
      ELSE IF p.more
        THEN Result("more", "in_progress", buffer)
      ELSE Result("done", "complete", buffer)

-----------------------------------------------------------------------------
(* fragment(): chunks of at most size units, an empty record giving one    *)
(* empty chunk.                                                            *)

Smaller(a, b) == IF a < b THEN a ELSE b

(* Mutant of ChunkCount: a chunk too many when the size divides the record.*)
ChunkCountOver(len, size) == len \div size + 1

ChunkCount(len, size) == IF len = 0 THEN 1 ELSE (len + size - 1) \div size

Fragment(record, size) ==
  [i \in 1 .. ChunkCount(Len(record), size) |->
     SubSeq(record, (i - 1) * size + 1, Smaller(i * size, Len(record)))]
=============================================================================
