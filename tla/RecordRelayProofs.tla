-------------------------- MODULE RecordRelayProofs -------------------------
(***************************************************************************)
(* Proofs about one direction of the data path: for every record, limit    *)
(* and fragment size, and however the sender cuts its records, RecordRelay *)
(* implements RecordChannel.                                               *)
(***************************************************************************)
EXTENDS RecordRelay, EapTlsProofs

USE NilAssumption, MaxMessageLenAssumption, SizeAssumption

-----------------------------------------------------------------------------
(* A record that may be sent has at least one unit.                        *)
LEMMA RecordLength ==
  ASSUME NEW r \in Records
  PROVE  r \in Seq(Unit) \ {<<>>} /\ Len(r) \in Nat \ {0}
<1>1. r \in Seq(Unit) \ {<<>>}
  BY RecordsAssumption
<1>2. QED
  BY <1>1, EmptySeq

(* The next piece of the record put behind the pieces that are in.         *)
LEMMA PieceAppended ==
  ASSUME RelayInv, phase = "gathering",
         NEW n \in 1 .. Len(record) - cut,
         NEW length \in {Nil} \cup (IF cut = 0 THEN {Len(record)} ELSE {})
  PROVE  /\ Appended(reasm, Incoming(n, length)) = SubSeq(record, 1, cut + n)
         /\ Len(SubSeq(record, 1, cut + n)) = cut + n
         /\ ~IsAck(Incoming(n, length))
<1>1. record \in Seq(Unit) /\ Len(record) \in Nat \ {0} /\ cut \in Nat /\ cut < Len(record)
  BY RecordLength DEF RelayInv, Gathered, TypeOK
<1>2. \A i \in cut + 1 .. cut + n : record[i] \in Unit
  BY <1>1, ElementOfSeq
<1>3. /\ SubSeq(record, cut + 1, cut + n) \in Seq(Unit)
      /\ Len(SubSeq(record, cut + 1, cut + n)) = n
  BY <1>1, <1>2, SubSeqProperties
<1>4. \A i \in 1 .. cut + n : record[i] \in Unit
  BY <1>1, ElementOfSeq
<1>5. Len(SubSeq(record, 1, cut + n)) = cut + n
  BY <1>1, <1>4, SubSeqProperties
<1>6. SubSeq(record, cut + 1, cut + n) # <<>>
  <2> DEFINE piece == SubSeq(record, cut + 1, cut + n)
  <2> HIDE DEF piece
  <2>1. Len(piece) = n /\ n # 0 /\ Len(<<>>) = 0
    BY <1>3 DEF piece
  <2>2. piece # <<>>
    BY <2>1
  <2>3. QED
    BY <2>2 DEF piece
<1>7. Incoming(n, length).data = SubSeq(record, cut + 1, cut + n)
  BY DEF Incoming, Frame
<1>8. Appended(reasm, Incoming(n, length)) = SubSeq(record, 1, cut + n)
  <2>1. CASE cut = 0
    <3>1. StartsRecord(reasm)
      BY <2>1 DEF RelayInv, Gathered
    <3>2. <<>> \o SubSeq(record, cut + 1, cut + n) = SubSeq(record, cut + 1, cut + n)
      BY <1>3, ConcatEmptySeq
    <3>3. cut + 1 = 1
      BY <2>1
    <3>4. QED
      BY <3>1, <3>2, <3>3, <1>7 DEF Appended
  <2>2. CASE cut > 0
    <3>1. reasm.state = "in_progress" /\ reasm.buffer = SubSeq(record, 1, cut)
      BY <2>2 DEF RelayInv, Gathered
    <3>2. SubSeq(record, 1, cut) \o SubSeq(record, cut + 1, cut + n) = SubSeq(record, 1, cut + n)
      <4>1. /\ 1 \in 1 .. Len(record) + 1 /\ cut \in 1 - 1 .. Len(record)
            /\ cut + n \in cut .. Len(record)
        BY <1>1
      <4>2. QED
        BY <4>1, <1>1, ConcatAdjacentSubSeq
    <3>3. QED
      BY <3>1, <3>2, <1>7 DEF Appended, StartsRecord
  <2>3. QED
    BY <2>1, <2>2, <1>1
<1>9. QED
  BY <1>5, <1>6, <1>7, <1>8 DEF IsAck

LEMMA IngestVerdict ==
  ASSUME NEW r, NEW p PROVE Ingest(r, p).verdict \in {"more", "done", "error"}
BY DEF Ingest

(* What ingest() makes of the next piece.                                  *)
LEMMA PieceIngested ==
  ASSUME RelayInv, phase = "gathering",
         NEW n \in 1 .. Len(record) - cut,
         NEW length \in {Nil} \cup (IF cut = 0 THEN {Len(record)} ELSE {})
  PROVE  LET in == Ingest(reasm, Incoming(n, length)) IN
         /\ in.verdict = "more" =>
              /\ cut + n < Len(record)
              /\ in.reasm = [state |-> "in_progress", buffer |-> SubSeq(record, 1, cut + n)]
         /\ in.verdict = "done" =>
              /\ cut + n = Len(record)
              /\ Len(record) <= MaxMessageLen
              /\ in.reasm = [state |-> "complete", buffer |-> record]
         /\ in.verdict = "error" =>
              /\ Len(record) > MaxMessageLen
              /\ in.reasm \in Reassembler(Unit)
<1> DEFINE p == Incoming(n, length)
           buffer == SubSeq(record, 1, cut + n)
<1>1. record \in Seq(Unit) /\ Len(record) \in Nat \ {0} /\ cut \in Nat /\ cut < Len(record)
  BY RecordLength DEF RelayInv, Gathered, TypeOK
<1>2. Appended(reasm, p) = buffer /\ Len(buffer) = cut + n /\ ~IsAck(p)
  BY PieceAppended
<1>3. p.more = (cut + n < Len(record)) /\ p.length = length
  BY DEF Incoming, Frame
<1>4. buffer \in Seq(Unit)
  <2>1. \A i \in 1 .. cut + n : record[i] \in Unit
    BY <1>1, ElementOfSeq
  <2>2. QED
    BY <2>1, <1>1, SubSeqProperties
<1>5. cut + n = Len(record) => buffer = record
  BY <1>1, SubSeqFull
<1>6. DeclaresTooMuch(reasm, p) => Len(record) > MaxMessageLen
  BY <1>1, <1>3 DEF DeclaresTooMuch
<1> HIDE DEF p, buffer
<1>7. CASE DeclaresTooMuch(reasm, p)
  <2>1. Ingest(reasm, p)
          = [verdict |-> "error", reasm |-> [state |-> "idle", buffer |-> <<>>]]
    BY <1>2, <1>7 DEF Ingest
  <2>2. [state |-> "idle", buffer |-> <<>>] \in Reassembler(Unit)
    BY DEF Reassembler
  <2>3. QED
    BY <2>1, <2>2, <1>6, <1>7 DEF p
<1>8. CASE ~DeclaresTooMuch(reasm, p) /\ cut + n > MaxMessageLen
  <2>1. Ingest(reasm, p)
          = [verdict |-> "error", reasm |-> [state |-> "in_progress", buffer |-> buffer]]
    BY <1>2, <1>8 DEF Ingest
  <2>2. [state |-> "in_progress", buffer |-> buffer] \in Reassembler(Unit)
    BY <1>4 DEF Reassembler
  <2>3. Len(record) > MaxMessageLen
    BY <1>1, <1>8
  <2>4. QED
    BY <2>1, <2>2, <2>3 DEF p
<1>9. CASE ~DeclaresTooMuch(reasm, p) /\ ~(cut + n > MaxMessageLen) /\ cut + n < Len(record)
  <2>1. Ingest(reasm, p)
          = [verdict |-> "more", reasm |-> [state |-> "in_progress", buffer |-> buffer]]
    BY <1>2, <1>3, <1>9 DEF Ingest
  <2>2. QED
    BY <2>1, <1>9 DEF p, buffer
<1>10. CASE ~DeclaresTooMuch(reasm, p) /\ ~(cut + n > MaxMessageLen) /\ ~(cut + n < Len(record))
  <2>1. Ingest(reasm, p)
          = [verdict |-> "done", reasm |-> [state |-> "complete", buffer |-> buffer]]
    BY <1>2, <1>3, <1>10 DEF Ingest
  <2>2. cut + n = Len(record) /\ Len(record) <= MaxMessageLen
    BY <1>1, <1>10
  <2>3. QED
    BY <2>1, <2>2, <1>5 DEF p
<1>11. QED
  BY <1>7, <1>8, <1>9, <1>10

-----------------------------------------------------------------------------
(* What goes out in one chunk: the next units of the record, at least one  *)
(* and at most Size of them.                                               *)
LEMMA ChunkSent ==
  ASSUME RelayInv, phase = "relaying"
  PROVE  LET left == Len(record) - Len(rx)
             n == Smaller(Size, left)
         IN  /\ n \in 1 .. left
             /\ outbox \in Seq(Seq(Unit)) /\ outbox # <<>>
             /\ rx \o Head(outbox) = SubSeq(record, 1, Len(rx) + n)
             /\ Len(SubSeq(record, 1, Len(rx) + n)) = Len(rx) + n
             /\ Len(outbox) > 1 <=> Size < left
             /\ Size < left =>
                  Tail(outbox)
                    = Fragment(SubSeq(record, Len(rx) + Size + 1, Len(record)), Size)
             /\ ~(Size < left) => Tail(outbox) = <<>> /\ n = left
<1> DEFINE left == Len(record) - Len(rx)
           n == Smaller(Size, left)
           rest == SubSeq(record, Len(rx) + 1, Len(record))
<1>1. /\ record \in Seq(Unit) /\ Len(record) \in Nat /\ Len(rx) \in Nat
      /\ Len(rx) < Len(record) /\ rx = SubSeq(record, 1, Len(rx))
      /\ outbox = Fragment(rest, Size)
  BY DEF RelayInv, Relayed, TypeOK
<1>2. left \in Nat \ {0} /\ n \in 1 .. left
  BY <1>1 DEF Smaller
<1>3. /\ rest \in Seq(Unit) /\ Len(rest) = left
  <2>1. \A i \in Len(rx) + 1 .. Len(record) : record[i] \in Unit
    BY <1>1, ElementOfSeq
  <2>2. QED
    BY <2>1, <1>1, SubSeqProperties
<1>4. rest \in Seq(Unit) \ {<<>>}
  <2> HIDE DEF rest
  <2>1. rest # <<>>
    BY <1>2, <1>3, EmptySeq
  <2>2. QED
    BY <2>1, <1>3
<1>5. /\ outbox \in Seq(Seq(Unit)) /\ Len(outbox) = ChunkCount(left, Size)
      /\ ChunkCount(left, Size) \in Nat \ {0}
  BY <1>1, <1>2, <1>3, <1>4, FragmentChunks, ChunkCountBounds
<1>6. Head(outbox) = SubSeq(rest, 1, n) /\ (Len(outbox) > 1 <=> Size < left)
  <2>1. /\ Head(Fragment(rest, Size)) = SubSeq(rest, 1, Smaller(Size, Len(rest)))
        /\ Len(Fragment(rest, Size)) > 1 <=> Len(rest) > Size
    <3> HIDE DEF rest
    <3>1. QED
      BY <1>4, FragmentHead
  <2>2. QED
    BY <2>1, <1>1, <1>2, <1>3
<1>7. SubSeq(rest, 1, n) = SubSeq(record, Len(rx) + 1, Len(rx) + n)
  <2>1. Len(rx) \in 0 .. Len(record) /\ n \in 0 .. Len(record) - Len(rx) /\ 0 \in 0 .. n
    BY <1>1, <1>2
  <2>2. SubSeq(rest, 0 + 1, n) = SubSeq(record, Len(rx) + 0 + 1, Len(rx) + n)
    BY <2>1, <1>1, SubSeqOfSuffix
  <2>3. 0 + 1 = 1 /\ Len(rx) + 0 + 1 = Len(rx) + 1
    BY <1>1
  <2>4. QED
    BY <2>2, <2>3
<1>8. rx \o Head(outbox) = SubSeq(record, 1, Len(rx) + n)
  <2>1. /\ 1 \in 1 .. Len(record) + 1 /\ Len(rx) \in 1 - 1 .. Len(record)
        /\ Len(rx) + n \in Len(rx) .. Len(record)
    BY <1>1, <1>2
  <2>2. SubSeq(record, 1, Len(rx)) \o SubSeq(record, Len(rx) + 1, Len(rx) + n)
          = SubSeq(record, 1, Len(rx) + n)
    BY <2>1, <1>1, ConcatAdjacentSubSeq
  <2>3. QED
    BY <2>2, <1>1, <1>6, <1>7
<1>9. Len(SubSeq(record, 1, Len(rx) + n)) = Len(rx) + n
  <2>1. \A i \in 1 .. Len(rx) + n : record[i] \in Unit
    BY <1>1, <1>2, ElementOfSeq
  <2>2. QED
    BY <2>1, <1>1, <1>2, SubSeqProperties
<1>10. ASSUME Size < left
       PROVE  Tail(outbox) = Fragment(SubSeq(record, Len(rx) + Size + 1, Len(record)), Size)
  <2>1. Tail(outbox) = Fragment(SubSeq(rest, Size + 1, left), Size)
    BY <1>1, <1>3, <1>4, <1>10, FragmentTail
  <2>2. Len(rx) \in 0 .. Len(record) /\ left \in 0 .. Len(record) - Len(rx) /\ Size \in 0 .. left
    BY <1>1, <1>2, <1>10
  <2>3. SubSeq(rest, Size + 1, left) = SubSeq(record, Len(rx) + Size + 1, Len(rx) + left)
    BY <2>2, <1>1, SubSeqOfSuffix
  <2>4. Len(rx) + left = Len(record)
    BY <1>1
  <2>5. QED
    BY <2>1, <2>3, <2>4
<1>11. ASSUME ~(Size < left) PROVE Tail(outbox) = <<>> /\ n = left
  <2>1. Len(outbox) = 1
    BY <1>5, <1>6, <1>11
  <2>2. Tail(outbox) \in Seq(Seq(Unit)) /\ Len(Tail(outbox)) = 0
    BY <2>1, <1>5, HeadTailProperties, EmptySeq
  <2>3. Tail(outbox) = <<>>
    BY <2>2, EmptySeq
  <2>4. n = left
    BY <1>2, <1>11 DEF Smaller
  <2>5. QED
    BY <2>3, <2>4
<1>12. outbox # <<>>
  BY <1>5, EmptySeq
<1>13. QED
  BY <1>2, <1>5, <1>6, <1>8, <1>9, <1>10, <1>11, <1>12

-----------------------------------------------------------------------------
(* The inductive invariant.                                                *)

LEMMA RelayInitInv == ASSUME Init PROVE RelayInv
BY EmptySeq DEF Init, RelayInv, TypeOK, Gathered, Relayed, AtRest, RefusalExact,
  EmptyReassembler, Reassembler, StartsRecord

LEMMA TakeStep ==
  ASSUME RelayInv, phase = "gathering", NEW verdict, Take(verdict)
  PROVE  /\ reasm' \in Reassembler(Unit)
         /\ cut' \in Nat
         /\ verdict = "more" =>
              /\ cut' > 0 /\ cut' < Len(record)
              /\ reasm' = [state |-> "in_progress", buffer |-> SubSeq(record, 1, cut')]
         /\ verdict = "done" =>
              /\ Len(record) <= MaxMessageLen
              /\ reasm' = [state |-> "complete", buffer |-> record]
         /\ verdict = "error" => Len(record) > MaxMessageLen
<1>1. record \in Seq(Unit) /\ Len(record) \in Nat \ {0} /\ cut \in Nat /\ cut < Len(record)
  BY RecordLength DEF RelayInv, Gathered, TypeOK
<1>2. PICK n \in 1 .. Len(record) - cut :
        \E length \in {Nil} \cup (IF cut = 0 THEN {Len(record)} ELSE {}) :
          LET in == Ingest(reasm, Incoming(n, length)) IN
          /\ in.verdict = verdict
          /\ reasm' = in.reasm
          /\ cut' = cut + n
  BY DEF Take
<1>3. PICK length \in {Nil} \cup (IF cut = 0 THEN {Len(record)} ELSE {}) :
        LET in == Ingest(reasm, Incoming(n, length)) IN
        /\ in.verdict = verdict
        /\ reasm' = in.reasm
        /\ cut' = cut + n
  BY <1>2
<1> DEFINE in == Ingest(reasm, Incoming(n, length))
<1>4. /\ in.verdict = "more" =>
           /\ cut + n < Len(record)
           /\ in.reasm = [state |-> "in_progress", buffer |-> SubSeq(record, 1, cut + n)]
      /\ in.verdict = "done" =>
           /\ cut + n = Len(record)
           /\ Len(record) <= MaxMessageLen
           /\ in.reasm = [state |-> "complete", buffer |-> record]
      /\ in.verdict = "error" =>
           /\ Len(record) > MaxMessageLen
           /\ in.reasm \in Reassembler(Unit)
      /\ in.verdict \in {"more", "done", "error"}
  BY PieceIngested, IngestVerdict
<1>5. in.verdict = verdict /\ reasm' = in.reasm /\ cut' = cut + n
  BY <1>3
<1> HIDE DEF in
<1>6. \A i \in 1 .. cut + n : record[i] \in Unit
  BY <1>1, ElementOfSeq
<1>7. SubSeq(record, 1, cut + n) \in Seq(Unit)
  BY <1>1, <1>6, SubSeqProperties
<1>8. in.reasm \in Reassembler(Unit)
  <2>1. CASE in.verdict = "more"
    <3>1. [state |-> "in_progress", buffer |-> SubSeq(record, 1, cut + n)] \in Reassembler(Unit)
      BY <1>7 DEF Reassembler
    <3>2. QED
      BY <3>1, <2>1, <1>4
  <2>2. CASE in.verdict = "done"
    <3>1. [state |-> "complete", buffer |-> record] \in Reassembler(Unit)
      BY <1>1 DEF Reassembler
    <3>2. QED
      BY <3>1, <2>2, <1>4
  <2>3. QED
    BY <2>1, <2>2, <1>4
<1>9. cut' \in Nat /\ cut' > 0
  BY <1>1, <1>5
<1>10. QED
  BY <1>4, <1>5, <1>8, <1>9

LEMMA BeginStep == ASSUME RelayInv, Begin PROVE RelayInv'
<1>1. /\ phase = "idle" /\ record' \in Records /\ cut' = 0 /\ phase' = "gathering"
      /\ reasm' = reasm /\ outbox' = outbox /\ rx' = rx /\ delivered' = delivered
  BY DEF Begin
<1>2. record' \in Seq(Unit) /\ Len(record') \in Nat \ {0}
  BY <1>1, RecordLength
<1>3. TypeOK'
  BY <1>1, <1>2 DEF RelayInv, TypeOK
<1>4. Gathered'
  BY <1>1, <1>2 DEF RelayInv, Gathered, AtRest, StartsRecord
<1>5. Relayed' /\ AtRest' /\ RefusalExact'
  BY <1>1 DEF RelayInv, Relayed, AtRest, RefusalExact
<1>6. QED
  BY <1>3, <1>4, <1>5 DEF RelayInv

LEMMA GatherStep == ASSUME RelayInv, Gather PROVE RelayInv'
<1>1. /\ phase = "gathering" /\ Take("more") /\ phase' = phase /\ record' = record
      /\ outbox' = outbox /\ rx' = rx /\ delivered' = delivered
  BY DEF Gather
<1>2. /\ reasm' \in Reassembler(Unit) /\ cut' \in Nat /\ cut' > 0 /\ cut' < Len(record)
      /\ reasm' = [state |-> "in_progress", buffer |-> SubSeq(record, 1, cut')]
  BY <1>1, TakeStep
<1>3. TypeOK'
  BY <1>1, <1>2 DEF RelayInv, TypeOK
<1>4. Gathered'
  BY <1>1, <1>2 DEF RelayInv, Gathered
<1>5. Relayed' /\ AtRest' /\ RefusalExact'
  BY <1>1 DEF RelayInv, Relayed, AtRest, RefusalExact
<1>6. QED
  BY <1>3, <1>4, <1>5 DEF RelayInv

LEMMA CompleteStep == ASSUME RelayInv, Complete PROVE RelayInv'
<1>1. /\ phase = "gathering" /\ Take("done") /\ outbox' = Fragment(reasm'.buffer, Size)
      /\ phase' = "relaying" /\ record' = record /\ rx' = rx /\ delivered' = delivered
  BY DEF Complete
<1>2. /\ reasm' \in Reassembler(Unit) /\ cut' \in Nat /\ Len(record) <= MaxMessageLen
      /\ reasm' = [state |-> "complete", buffer |-> record]
  BY <1>1, TakeStep
<1>3. /\ record \in Seq(Unit) \ {<<>>} /\ Len(record) \in Nat \ {0} /\ rx = <<>>
  BY <1>1, RecordLength DEF RelayInv, Gathered, AtRest
<1>4. outbox' = Fragment(record, Size)
  BY <1>1, <1>2
<1>5. outbox' \in Seq(Seq(Unit))
  BY <1>3, <1>4, FragmentChunks
<1>6. TypeOK'
  BY <1>1, <1>2, <1>5 DEF RelayInv, TypeOK
<1>7. Relayed'
  <2>1. SubSeq(record, 1, 0) = <<>> /\ SubSeq(record, 1, Len(record)) = record
    BY <1>3, SubSeqEmpty, SubSeqFull
  <2>2. Len(rx) = 0 /\ Len(rx) + 1 = 1
    BY <1>3, EmptySeq
  <2>3. rx = SubSeq(record, 1, Len(rx)) /\ SubSeq(record, Len(rx) + 1, Len(record)) = record
    BY <2>1, <2>2, <1>3
  <2>4. Len(rx) < Len(record)
    BY <2>2, <1>3
  <2>5. QED
    BY <2>3, <2>4, <1>1, <1>4 DEF Relayed
<1>8. Gathered' /\ AtRest' /\ RefusalExact'
  BY <1>1, <1>2 DEF Gathered, AtRest, RefusalExact, StartsRecord
<1>9. QED
  BY <1>6, <1>7, <1>8 DEF RelayInv

LEMMA RefuseStep == ASSUME RelayInv, Refuse PROVE RelayInv'
<1>1. /\ phase = "gathering" /\ Take("error") /\ phase' = "failed" /\ record' = record
      /\ outbox' = outbox /\ rx' = rx /\ delivered' = delivered
  BY DEF Refuse
<1>2. reasm' \in Reassembler(Unit) /\ cut' \in Nat /\ Len(record) > MaxMessageLen
  BY <1>1, TakeStep
<1>3. TypeOK'
  BY <1>1, <1>2 DEF RelayInv, TypeOK
<1>4. Gathered' /\ Relayed' /\ AtRest' /\ RefusalExact'
  BY <1>1, <1>2 DEF RelayInv, Gathered, Relayed, AtRest, RefusalExact
<1>5. QED
  BY <1>3, <1>4 DEF RelayInv

(* The two ways a chunk goes out: with the M bit, or as the last, which    *)
(* completes the very record that was sent.                                *)
LEMMA RelayChunkCases ==
  ASSUME RelayInv, RelayChunk
  PROVE  /\ phase = "relaying"
         /\ record' = record /\ cut' = cut /\ reasm' = reasm
         /\ outbox' \in Seq(Seq(Unit)) /\ outbox' = Tail(outbox)
         /\ \/ /\ Size < Len(record) - Len(rx)
               /\ rx' = SubSeq(record, 1, Len(rx) + Size) /\ Len(rx') = Len(rx) + Size
               /\ outbox' = Fragment(SubSeq(record, Len(rx) + Size + 1, Len(record)), Size)
               /\ phase' = phase /\ delivered' = delivered
            \/ /\ ~(Size < Len(record) - Len(rx))
               /\ outbox' = <<>> /\ rx' = <<>>
               /\ phase' = "idle" /\ delivered' = Append(delivered, record)
<1> DEFINE left == Len(record) - Len(rx)
           n == Smaller(Size, left)
<1>1. /\ phase = "relaying" /\ outbox' = Tail(outbox)
      /\ record' = record /\ cut' = cut /\ reasm' = reasm
      /\ IF Outgoing.more
           THEN rx' = rx \o Outgoing.data /\ phase' = phase /\ delivered' = delivered
           ELSE /\ delivered' = Append(delivered, rx \o Outgoing.data)
                /\ rx' = <<>> /\ phase' = "idle"
  BY DEF RelayChunk
<1>2. /\ n \in 1 .. left
      /\ outbox \in Seq(Seq(Unit)) /\ outbox # <<>>
      /\ rx \o Head(outbox) = SubSeq(record, 1, Len(rx) + n)
      /\ Len(SubSeq(record, 1, Len(rx) + n)) = Len(rx) + n
      /\ Len(outbox) > 1 <=> Size < left
      /\ Size < left =>
           Tail(outbox) = Fragment(SubSeq(record, Len(rx) + Size + 1, Len(record)), Size)
      /\ ~(Size < left) => Tail(outbox) = <<>> /\ n = left
  BY <1>1, ChunkSent
<1>3. Outgoing.more = (Len(outbox) > 1) /\ Outgoing.data = Head(outbox)
  BY DEF Outgoing, Frame
<1>4. Tail(outbox) \in Seq(Seq(Unit))
  BY <1>2, HeadTailProperties
<1>5. record \in Seq(Unit) /\ Len(record) \in Nat /\ Len(rx) \in Nat
  BY DEF RelayInv, TypeOK
<1>6. CASE Size < left
  <2>1. n = Size
    BY <1>6, <1>5 DEF Smaller
  <2>2. Outgoing.more
    BY <1>2, <1>3, <1>6
  <2> HIDE DEF left, n
  <2>3. rx' = SubSeq(record, 1, Len(rx) + Size) /\ phase' = phase /\ delivered' = delivered
    BY <2>1, <2>2, <1>1, <1>2, <1>3
  <2>4. Len(rx') = Len(rx) + Size
    BY <2>1, <2>3, <1>2
  <2>5. QED
    BY <2>3, <2>4, <1>1, <1>2, <1>4, <1>6 DEF left
<1>7. CASE ~(Size < left)
  <2>1. ~Outgoing.more
    BY <1>2, <1>3, <1>7
  <2>2. SubSeq(record, 1, Len(record)) = record /\ Len(rx) + left = Len(record)
    BY <1>5, SubSeqFull
  <2> HIDE DEF left, n
  <2>3. rx \o Outgoing.data = record
    BY <2>2, <1>2, <1>3, <1>7
  <2>4. QED
    BY <2>1, <2>3, <1>1, <1>2, <1>4, <1>7 DEF left
<1>8. QED
  BY <1>6, <1>7

LEMMA RelayChunkStep == ASSUME RelayInv, RelayChunk PROVE RelayInv'
<1>1. /\ phase = "relaying"
      /\ record' = record /\ cut' = cut /\ reasm' = reasm /\ outbox' \in Seq(Seq(Unit))
      /\ record \in Seq(Unit) /\ Len(record) \in Nat /\ Len(rx) \in Nat
      /\ delivered \in Seq(Seq(Unit)) /\ StartsRecord(reasm) /\ Len(record) <= MaxMessageLen
  BY RelayChunkCases DEF RelayInv, TypeOK, AtRest, RefusalExact
<1>2. CASE /\ Size < Len(record) - Len(rx)
           /\ rx' = SubSeq(record, 1, Len(rx) + Size) /\ Len(rx') = Len(rx) + Size
           /\ outbox' = Fragment(SubSeq(record, Len(rx) + Size + 1, Len(record)), Size)
           /\ phase' = phase /\ delivered' = delivered
  <2>1. rx' \in Seq(Unit)
    <3>1. \A i \in 1 .. Len(rx) + Size : record[i] \in Unit
      BY <1>1, <1>2, ElementOfSeq
    <3>2. QED
      BY <3>1, <1>1, <1>2, SubSeqProperties
  <2>2. TypeOK'
    BY <2>1, <1>1, <1>2 DEF RelayInv, TypeOK
  <2>3. Relayed'
    BY <1>1, <1>2 DEF Relayed
  <2>4. Gathered' /\ AtRest' /\ RefusalExact'
    BY <1>1, <1>2 DEF Gathered, AtRest, RefusalExact
  <2>5. QED
    BY <2>2, <2>3, <2>4 DEF RelayInv
<1>3. CASE /\ outbox' = <<>> /\ rx' = <<>>
           /\ phase' = "idle" /\ delivered' = Append(delivered, record)
  <2>1. <<>> \in Seq(Unit) /\ Append(delivered, record) \in Seq(Seq(Unit))
    BY <1>1, EmptySeq, AppendProperties
  <2>2. TypeOK'
    BY <2>1, <1>1, <1>3 DEF RelayInv, TypeOK
  <2>3. Gathered' /\ Relayed' /\ AtRest' /\ RefusalExact'
    BY <1>1, <1>3 DEF Gathered, Relayed, AtRest, RefusalExact, StartsRecord
  <2>4. QED
    BY <2>2, <2>3 DEF RelayInv
<1>4. QED
  BY <1>2, <1>3, RelayChunkCases

LEMMA RelayNextInv == ASSUME RelayInv, [Next]_relayVars PROVE RelayInv'
<1>1. CASE UNCHANGED relayVars
  BY <1>1 DEF relayVars, RelayInv, TypeOK, Gathered, Relayed, AtRest, RefusalExact
<1>2. QED
  BY <1>1, BeginStep, GatherStep, CompleteStep, RefuseStep, RelayChunkStep DEF Next

(* RelayInv is inductive.                                                  *)
THEOREM RelayInvariance == Spec => []RelayInv
<1>1. Init => RelayInv
  BY RelayInitInv
<1>2. RelayInv /\ [Next]_relayVars => RelayInv'
  BY RelayNextInv
<1>3. QED
  BY <1>1, <1>2, PTL DEF Spec

(* The state of a direction stays well typed.                              *)
THEOREM RelayTypeCorrect == Spec => []TypeOK
<1>1. RelayInv => TypeOK
  BY DEF RelayInv
<1>2. QED
  BY <1>1, RelayInvariance, PTL

(* fragment() never makes a chunk over the budget of its leg, nor an empty *)
(* one, which the endpoint would take for an ACK.                          *)
THEOREM ChunksAlwaysData == Spec => []ChunksAreData
<1>1. ASSUME RelayInv PROVE ChunksAreData
  <2>1. CASE phase # "relaying"
    <3>1. outbox = <<>>
      BY <2>1, <1>1 DEF RelayInv, AtRest
    <3>2. QED
      BY <3>1 DEF ChunksAreData
  <2>2. CASE phase = "relaying"
    <3> DEFINE rest == SubSeq(record, Len(rx) + 1, Len(record))
    <3>1. /\ record \in Seq(Unit) /\ Len(record) \in Nat /\ Len(rx) \in Nat
          /\ Len(rx) < Len(record) /\ outbox = Fragment(rest, Size)
      BY <2>2, <1>1 DEF RelayInv, Relayed, TypeOK
    <3>2. \A i \in Len(rx) + 1 .. Len(record) : record[i] \in Unit
      BY <3>1, ElementOfSeq
    <3>3. rest \in Seq(Unit) /\ Len(rest) # 0
      BY <3>1, <3>2, SubSeqProperties
    <3> HIDE DEF rest
    <3>4. rest \in Seq(Unit) \ {<<>>}
      BY <3>3, EmptySeq
    <3>5. \A i \in DOMAIN outbox : Len(outbox[i]) \in 1 .. Size
      BY <3>1, <3>4, FragmentChunks
    <3>6. QED
      BY <3>5 DEF ChunksAreData
  <2>3. QED
    BY <2>1, <2>2
<1>2. QED
  BY <1>1, RelayInvariance, PTL

(* ingest() raises for records over max_message_len, and for no others.    *)
THEOREM RefusalIsExact == Spec => []RefusalExact
<1>1. RelayInv => RefusalExact
  BY DEF RelayInv
<1>2. QED
  BY <1>1, RelayInvariance, PTL

-----------------------------------------------------------------------------
(* Whatever the sizes fragments have on the way in and on the way out,     *)
(* records arrive whole, unaltered, in order and once.                     *)
THEOREM RelayIsChannel == Spec => ChannelSpec
<1>1. Init => Channel!Init
  BY DEF Init, Channel!Init
<1>2. ASSUME RelayInv, [Next]_relayVars
      PROVE  [Channel!Next]_(Channel!channelVars)
  <2> DEFINE sent == IF phase = "idle" THEN delivered ELSE Append(delivered, record)
  <2>0. delivered \in Seq(Seq(Unit)) /\ record \in Seq(Unit)
    BY <1>2 DEF RelayInv, TypeOK
  <2>1. CASE Begin
    <3>1. sent = delivered /\ sent' = Append(sent, record') /\ record' \in Records
          /\ delivered' = delivered
      BY <2>1 DEF Begin
    <3>2. Channel!Send
      BY <3>1 DEF Channel!Send
    <3>3. QED
      BY <3>2 DEF Channel!Next
  <2>2. CASE Gather \/ Complete \/ Refuse
    <3>1. sent' = sent /\ delivered' = delivered
      BY <2>2 DEF Gather, Complete, Refuse
    <3>2. QED
      BY <3>1 DEF Channel!channelVars
  <2>3. CASE RelayChunk
    <3>1. CASE phase' = phase /\ delivered' = delivered
      <4>1. sent' = sent
        BY <3>1, <2>3 DEF RelayChunk
      <4>2. QED
        BY <4>1, <3>1 DEF Channel!channelVars
    <3>2. CASE phase' = "idle" /\ delivered' = Append(delivered, record)
      <4>1. phase = "relaying"
        BY <2>3 DEF RelayChunk
      <4>2. sent' = sent /\ delivered' = sent
        BY <3>2, <4>1
      <4>3. sent # delivered
        <5>1. Len(Append(delivered, record)) = Len(delivered) + 1 /\ Len(delivered) \in Nat
          BY <2>0, AppendProperties
        <5>2. Append(delivered, record) # delivered
          BY <5>1
        <5>3. QED
          BY <5>2, <4>1
      <4>4. Channel!Deliver
        BY <4>2, <4>3 DEF Channel!Deliver
      <4>5. QED
        BY <4>4 DEF Channel!Next
    <3>3. QED
      BY <3>1, <3>2, <2>3, <1>2, RelayChunkCases
  <2>4. CASE UNCHANGED relayVars
    BY <2>4 DEF relayVars, Channel!channelVars
  <2>5. QED
    BY <2>1, <2>2, <2>3, <2>4, <1>2 DEF Next
<1>3. QED
  BY <1>1, <1>2, RelayInvariance, PTL DEF Spec, ChannelSpec, Channel!Spec
=============================================================================
