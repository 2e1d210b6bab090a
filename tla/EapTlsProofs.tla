---------------------------- MODULE EapTlsProofs ----------------------------
(***************************************************************************)
(* Facts about the framing core that hold for every record and every       *)
(* fragment size.                                                          *)
(***************************************************************************)
EXTENDS EapTls, SequenceTheorems, TLAPS

(* A quotient is determined by the interval its dividend lies in.          *)
LEMMA QuotientUnique ==
  ASSUME NEW a \in Nat, NEW k \in Nat \ {0}, NEW q \in Nat,
         q * k <= a, a < q * k + k
  PROVE  a \div k = q
OBVIOUS

LEMMA QuotientBounds ==
  ASSUME NEW a \in Nat, NEW k \in Nat \ {0}
  PROVE  /\ a \div k \in Nat
         /\ (a \div k) * k <= a
         /\ a < (a \div k) * k + k
OBVIOUS

(* The number of chunks is the least that holds the record.                *)
LEMMA ChunkCountBounds ==
  ASSUME NEW len \in Nat \ {0}, NEW size \in Nat \ {0}
  PROVE  LET n == ChunkCount(len, size) IN
         /\ n \in Nat \ {0}
         /\ (n - 1) * size < len
         /\ len <= n * size
<1> DEFINE n == ChunkCount(len, size)
<1>1. n = (len + size - 1) \div size /\ len + size - 1 \in Nat
  BY DEF ChunkCount
<1>2. n \in Nat /\ n * size <= len + size - 1 /\ len + size - 1 < n * size + size
  BY <1>1, QuotientBounds
<1> HIDE DEF n
<1>3. (n - 1) * size = n * size - size /\ n * size \in Nat
  BY <1>2
<1>4. n # 0
  BY <1>2, <1>3
<1>5. QED
  BY <1>2, <1>3, <1>4 DEF n

(* A record that fits one packet is one chunk.                             *)
LEMMA ChunkCountOne ==
  ASSUME NEW len \in Nat \ {0}, NEW size \in Nat \ {0}, len <= size
  PROVE  ChunkCount(len, size) = 1
<1>1. (len + size - 1) \div size = 1
  <2>1. len + size - 1 \in Nat /\ 1 \in Nat /\ 1 * size <= len + size - 1
        /\ len + size - 1 < 1 * size + size
    OBVIOUS
  <2>2. QED
    BY <2>1, QuotientUnique
<1>2. QED
  BY <1>1 DEF ChunkCount

(* Each chunk taken off a longer one leaves one chunk less.                *)
LEMMA ChunkCountLess ==
  ASSUME NEW len \in Nat \ {0}, NEW size \in Nat \ {0}, size < len
  PROVE  ChunkCount(len - size, size) = ChunkCount(len, size) - 1
<1> DEFINE n == ChunkCount(len, size)
<1>1. len - size \in Nat \ {0} /\ len - size + size - 1 = len - 1 /\ len - 1 \in Nat
  OBVIOUS
<1>2. n \in Nat \ {0} /\ (n - 1) * size < len /\ len <= n * size
  BY ChunkCountBounds
<1> HIDE DEF n
<1>3. n - 1 \in Nat /\ n * size = (n - 1) * size + size /\ (n - 1) * size \in Nat
  BY <1>2
<1>4. (n - 1) * size <= len - 1 /\ len - 1 < (n - 1) * size + size
  BY <1>2, <1>3
<1>5. (len - 1) \div size = n - 1
  BY <1>1, <1>3, <1>4, QuotientUnique
<1>6. QED
  BY <1>1, <1>5 DEF ChunkCount, n

-----------------------------------------------------------------------------
(* A piece of what is left of a sequence after its first k elements.       *)
LEMMA SubSeqOfSuffix ==
  ASSUME NEW S, NEW s \in Seq(S), NEW k \in 0 .. Len(s),
         NEW n \in 0 .. Len(s) - k, NEW m \in 0 .. n
  PROVE  SubSeq(SubSeq(s, k + 1, Len(s)), m + 1, n) = SubSeq(s, k + m + 1, k + n)
<1> DEFINE rest == SubSeq(s, k + 1, Len(s))
<1>1. /\ rest \in Seq(S) /\ Len(rest) = Len(s) - k
      /\ \A i \in 1 .. Len(s) - k : rest[i] = s[k + i]
  <2>1. \A i \in k + 1 .. Len(s) : s[i] \in S
    BY ElementOfSeq
  <2>2. QED
    BY <2>1, SubSeqProperties
<1> HIDE DEF rest
<1>2. /\ SubSeq(rest, m + 1, n) \in Seq(S) /\ Len(SubSeq(rest, m + 1, n)) = n - m
      /\ \A i \in 1 .. n - m : SubSeq(rest, m + 1, n)[i] = rest[m + i]
  <2>1. \A i \in m + 1 .. n : rest[i] \in S
    BY <1>1, ElementOfSeq
  <2>2. QED
    BY <2>1, <1>1, SubSeqProperties
<1>3. /\ SubSeq(s, k + m + 1, k + n) \in Seq(S) /\ Len(SubSeq(s, k + m + 1, k + n)) = n - m
      /\ \A i \in 1 .. n - m : SubSeq(s, k + m + 1, k + n)[i] = s[k + m + i]
  <2>1. \A i \in k + m + 1 .. k + n : s[i] \in S
    BY ElementOfSeq
  <2>2. QED
    BY <2>1, SubSeqProperties
<1>4. \A i \in 1 .. n - m : SubSeq(rest, m + 1, n)[i] = SubSeq(s, k + m + 1, k + n)[i]
  <2>1. \A i \in 1 .. n - m : m + i \in 1 .. Len(s) - k /\ k + (m + i) = k + m + i
    OBVIOUS
  <2>2. QED
    BY <2>1, <1>1, <1>2, <1>3
<1>5. SubSeq(rest, m + 1, n) = SubSeq(s, k + m + 1, k + n)
  BY <1>2, <1>3, <1>4, SeqEqual
<1>6. QED
  BY <1>5 DEF rest

(* The bounds of chunk i, and the record between them.                     *)
LEMMA ChunkBounds ==
  ASSUME NEW len \in Nat \ {0}, NEW size \in Nat \ {0}, NEW i \in 1 .. ChunkCount(len, size)
  PROVE  /\ (i - 1) * size \in Nat
         /\ (i - 1) * size < len
         /\ Smaller(i * size, len) \in 1 .. len
         /\ Smaller(i * size, len) - (i - 1) * size \in 1 .. size
<1> DEFINE n == ChunkCount(len, size)
<1>1. n \in Nat \ {0} /\ (n - 1) * size < len /\ len <= n * size
  BY ChunkCountBounds
<1> HIDE DEF n
<1>2. i \in 1 .. n
  BY DEF n
<1>3. i - 1 \in Nat /\ (i - 1) * size \in Nat /\ i * size = (i - 1) * size + size
  BY <1>1, <1>2
<1>4. (i - 1) * size <= (n - 1) * size
  <2>1. PICK d \in Nat : n - 1 = (i - 1) + d
    <3>1. n - i \in Nat /\ n - 1 = (i - 1) + (n - i)
      BY <1>1, <1>2
    <3>2. QED
      BY <3>1
  <2>2. (n - 1) * size = (i - 1) * size + d * size /\ d * size \in Nat
    BY <2>1, <1>3
  <2>3. QED
    BY <2>2, <1>3
<1>5. (i - 1) * size < len
  BY <1>1, <1>3, <1>4
<1>6. QED
  BY <1>3, <1>5 DEF Smaller

(* fragment() loses no packet's budget and makes no empty chunk, which     *)
(* would be an ACK: whatever the record and the size, every chunk has      *)
(* between one unit and size units.                                        *)
THEOREM FragmentChunks ==
  ASSUME NEW S, NEW record \in Seq(S) \ {<<>>}, NEW size \in Nat \ {0}
  PROVE  /\ Fragment(record, size) \in Seq(Seq(S))
         /\ Len(Fragment(record, size)) = ChunkCount(Len(record), size)
         /\ \A i \in DOMAIN Fragment(record, size) :
              Len(Fragment(record, size)[i]) \in 1 .. size
<1> DEFINE n == ChunkCount(Len(record), size)
           chunk(i) == SubSeq(record, (i - 1) * size + 1, Smaller(i * size, Len(record)))
<1>1. Len(record) \in Nat \ {0}
  BY EmptySeq
<1>2. n \in Nat
  BY <1>1, ChunkCountBounds
<1>3. ASSUME NEW i \in 1 .. n
      PROVE  chunk(i) \in Seq(S) /\ Len(chunk(i)) \in 1 .. size
  <2>1. /\ (i - 1) * size \in Nat /\ (i - 1) * size < Len(record)
        /\ Smaller(i * size, Len(record)) \in 1 .. Len(record)
        /\ Smaller(i * size, Len(record)) - (i - 1) * size \in 1 .. size
    BY <1>1, ChunkBounds
  <2> DEFINE first == (i - 1) * size
             last == Smaller(i * size, Len(record))
  <2> HIDE DEF first, last
  <2>2. first \in Nat /\ last \in 1 .. Len(record) /\ last - first \in 1 .. size
    BY <2>1 DEF first, last
  <2>3. \A j \in first + 1 .. last : record[j] \in S
    BY <2>2, ElementOfSeq
  <2>4. SubSeq(record, first + 1, last) \in Seq(S)
        /\ Len(SubSeq(record, first + 1, last)) = last - first
    BY <2>2, <2>3, SubSeqProperties
  <2>5. QED
    BY <2>2, <2>4 DEF first, last
<1>4. Fragment(record, size) = [i \in 1 .. n |-> chunk(i)]
  BY DEF Fragment
<1> HIDE DEF n, chunk
<1>5. Fragment(record, size) \in [1 .. n -> Seq(S)]
  BY <1>3, <1>4
<1>6. Fragment(record, size) \in Seq(Seq(S)) /\ Len(Fragment(record, size)) = n
  BY <1>5, <1>2, SeqDef, LenProperties
<1>7. QED
  BY <1>3, <1>4, <1>6 DEF n

(* The head of the queue is the head of the record, and the M bit, set     *)
(* while the queue has more than one chunk, says whether that is all.      *)
LEMMA FragmentHead ==
  ASSUME NEW S, NEW record \in Seq(S) \ {<<>>}, NEW size \in Nat \ {0}
  PROVE  /\ Head(Fragment(record, size)) = SubSeq(record, 1, Smaller(size, Len(record)))
         /\ Len(Fragment(record, size)) > 1 <=> Len(record) > size
<1>1. Len(record) \in Nat \ {0}
  BY EmptySeq
<1>2. Fragment(record, size) \in Seq(Seq(S))
      /\ Len(Fragment(record, size)) = ChunkCount(Len(record), size)
  BY FragmentChunks
<1>3. ChunkCount(Len(record), size) \in Nat \ {0}
  BY <1>1, ChunkCountBounds
<1>4. Fragment(record, size)[1] = SubSeq(record, 1, Smaller(size, Len(record)))
  <2>1. (1 - 1) * size + 1 = 1 /\ 1 * size = size /\ 1 \in 1 .. ChunkCount(Len(record), size)
    BY <1>3
  <2>2. QED
    BY <2>1 DEF Fragment
<1>5. ChunkCount(Len(record), size) > 1 <=> Len(record) > size
  <2>1. CASE Len(record) <= size
    BY <2>1, <1>1, ChunkCountOne
  <2>2. CASE Len(record) > size
    <3>1. Len(record) - size \in Nat \ {0}
      BY <2>2, <1>1
    <3>2. ChunkCount(Len(record) - size, size) \in Nat \ {0}
      BY <3>1, ChunkCountBounds
    <3>3. QED
      BY <2>2, <3>2, <1>1, <1>3, ChunkCountLess
  <2>3. QED
    BY <2>1, <2>2, <1>1
<1>6. QED
  BY <1>2, <1>3, <1>4, <1>5

(* ... and the rest of the queue is the rest of the record, cut up.        *)
LEMMA FragmentTail ==
  ASSUME NEW S, NEW record \in Seq(S) \ {<<>>}, NEW size \in Nat \ {0}, size < Len(record)
  PROVE  Tail(Fragment(record, size)) = Fragment(SubSeq(record, size + 1, Len(record)), size)
<1> DEFINE rest == SubSeq(record, size + 1, Len(record))
           n == ChunkCount(Len(record), size)
           chunks == Fragment(record, size)
<1>1. Len(record) \in Nat \ {0}
  BY EmptySeq
<1>2. \A j \in size + 1 .. Len(record) : record[j] \in S
  BY <1>1, ElementOfSeq
<1>3. rest \in Seq(S) /\ Len(rest) = Len(record) - size /\ Len(rest) \in Nat \ {0}
  BY <1>1, <1>2, SubSeqProperties
<1>4. n \in Nat \ {0} /\ ChunkCount(Len(rest), size) = n - 1
  BY <1>1, <1>3, ChunkCountBounds, ChunkCountLess
<1>5. chunks \in Seq(Seq(S)) /\ Len(chunks) = n /\ chunks # <<>>
  BY <1>4, FragmentChunks
<1>6. /\ Tail(chunks) \in Seq(Seq(S)) /\ Len(Tail(chunks)) = n - 1
      /\ \A i \in 1 .. n - 1 : Tail(chunks)[i] = chunks[i + 1]
  <2> HIDE DEF chunks, n
  <2>1. QED
    BY <1>5, HeadTailProperties
<1>7. ASSUME NEW i \in 1 .. n - 1
      PROVE  chunks[i + 1] = Fragment(rest, size)[i]
  <2> DEFINE first == (i - 1) * size
             last == Smaller(i * size, Len(rest))
  <2>1. i \in 1 .. ChunkCount(Len(rest), size) /\ i + 1 \in 1 .. n
    BY <1>4
  <2>2. first \in Nat /\ first < Len(rest) /\ last \in 1 .. Len(rest) /\ first < last
    BY <2>1, <1>3, ChunkBounds
  <2>3. (i + 1 - 1) * size + 1 = size + first + 1
    <3>1. i * size = first + size
      BY <1>4
    <3>2. QED
      BY <3>1, <2>2, <1>4
  <2>4. Smaller((i + 1) * size, Len(record)) = size + last
    <3>1. (i + 1) * size = size + i * size /\ i * size \in Int
      BY <1>4
    <3>2. QED
      BY <3>1, <1>1, <1>3 DEF Smaller
  <2>5. chunks[i + 1] = SubSeq(record, size + first + 1, size + last)
    <3>1. \A j \in 1 .. n :
            chunks[j] = SubSeq(record, (j - 1) * size + 1, Smaller(j * size, Len(record)))
      BY DEF Fragment
    <3>2. QED
      BY <3>1, <2>1, <2>3, <2>4
  <2>6. Fragment(rest, size)[i] = SubSeq(rest, first + 1, last)
    BY <2>1 DEF Fragment
  <2> HIDE DEF first, last
  <2>7. SubSeq(rest, first + 1, last) = SubSeq(record, size + first + 1, size + last)
    <3>1. size \in 0 .. Len(record) /\ first \in 0 .. last
          /\ last \in 0 .. Len(record) - size
      BY <1>1, <1>3, <2>2
    <3>2. QED
      BY <3>1, SubSeqOfSuffix
  <2>8. QED
    BY <2>5, <2>6, <2>7
<1>8. Fragment(rest, size) \in Seq(Seq(S)) /\ Len(Fragment(rest, size)) = n - 1
  <2>1. rest \in Seq(S) \ {<<>>}
    <3> HIDE DEF rest
    <3>1. QED
      BY <1>3, EmptySeq
  <2>2. QED
    BY <2>1, <1>4, FragmentChunks
<1>9. QED
  <2> HIDE DEF chunks, rest, n
  <2>1. Tail(chunks) = Fragment(rest, size)
    BY <1>4, <1>6, <1>7, <1>8, SeqEqual
  <2>2. QED
    BY <2>1 DEF chunks, rest
=============================================================================
