----------------------------- MODULE WireProofs -----------------------------
(***************************************************************************)
(* The wire, for every byte alphabet, queue limit, packet size, budget and *)
(* size of a socket.  First the daemon's queue by itself: it keeps its     *)
(* storage within its limit and implements the bounded FIFO.  Then the     *)
(* connection: where it was cut and wherever it broke, the packets handed  *)
(* out are the first of those queued, whole and in order.                  *)
(***************************************************************************)
EXTENDS Wire, SequenceTheorems, WellFoundedInduction, TLAPS

-----------------------------------------------------------------------------
(* The queue. *)

(* The inductive invariant is the conjunction of the two invariants: the   *)
(* bound of the next state needs the mark to be inside the buffer.         *)
QueueInv == QueueTypeOK /\ StorageBound

(* A chunk is a sequence of bytes. *)
LEMMA ChunkIsSeq == ASSUME NEW chunk \in Chunk PROVE chunk \in Seq(Byte)
  BY QueueAssumption DEF Chunk

(* What Pending is: a sequence of bytes of length len(), whose elements    *)
(* are the buffer's, shifted by the mark.                                  *)
LEMMA PendingShape ==
  ASSUME QueueTypeOK
  PROVE  /\ Pending \in Seq(Byte)
         /\ Len(Pending) = Len(bytes) - sent
         /\ \A i \in 1..Len(Pending) : Pending[i] = bytes[sent + i]
  BY DEF Pending, QueueTypeOK

(* The bytes a flush writes, likewise. *)
LEMMA WrittenShape ==
  ASSUME QueueTypeOK, NEW n \in 0..QueueLen
  PROVE  LET w == SubSeq(bytes, sent + 1, sent + n)
         IN  /\ w \in Seq(Byte)
             /\ Len(w) = n
             /\ \A i \in 1..n : w[i] = bytes[sent + i]
  BY DEF QueueTypeOK, QueueLen

(* A suffix that starts inside s of s followed by t ends with all of t. *)
LEMMA SuffixOfConcat ==
  ASSUME NEW S, NEW s \in Seq(S), NEW t \in Seq(S), NEW m \in 0..Len(s)
  PROVE  SubSeq(s \o t, m + 1, Len(s) + Len(t)) = SubSeq(s, m + 1, Len(s)) \o t
  <1> DEFINE left == SubSeq(s \o t, m + 1, Len(s) + Len(t))
             tail == SubSeq(s, m + 1, Len(s))
  <1>1. /\ s \o t \in Seq(S)
        /\ Len(s \o t) = Len(s) + Len(t)
        /\ \A i \in 1..Len(s) + Len(t) :
             (s \o t)[i] = IF i <= Len(s) THEN s[i] ELSE t[i - Len(s)]
    BY ConcatProperties
  <1>2. /\ left \in Seq(S)
        /\ Len(left) = Len(s) + Len(t) - m
        /\ \A i \in 1..Len(left) : left[i] = (s \o t)[m + i]
    BY <1>1
  <1>3. /\ tail \in Seq(S)
        /\ Len(tail) = Len(s) - m
        /\ \A i \in 1..Len(tail) : tail[i] = s[m + i]
    OBVIOUS
  <1>4. /\ tail \o t \in Seq(S)
        /\ Len(tail \o t) = Len(tail) + Len(t)
        /\ \A i \in 1..Len(tail) + Len(t) :
             (tail \o t)[i] = IF i <= Len(tail) THEN tail[i] ELSE t[i - Len(tail)]
    BY <1>3, ConcatProperties
  <1> HIDE DEF left, tail
  <1>5. ASSUME NEW i \in 1..Len(left) PROVE left[i] = (tail \o t)[i]
    <2>1. left[i] = IF m + i <= Len(s) THEN s[m + i] ELSE t[m + i - Len(s)]
      BY <1>1, <1>2, <1>5
    <2>2. (tail \o t)[i] = IF i <= Len(s) - m THEN tail[i] ELSE t[i - (Len(s) - m)]
      BY <1>2, <1>3, <1>4, <1>5
    <2>3. CASE m + i <= Len(s)
      BY <2>1, <2>2, <2>3, <1>3, <1>5
    <2>4. CASE ~(m + i <= Len(s))
      <3>1. m + i - Len(s) = i - (Len(s) - m)
        BY <1>5
      <3> QED BY <2>1, <2>2, <2>4, <3>1, <1>5
    <2> QED BY <2>3, <2>4
  <1>6. left = tail \o t
    <2>1. Len(left) = Len(tail \o t)
      BY <1>2, <1>3, <1>4
    <2> QED BY <2>1, <1>2, <1>4, <1>5, SeqEqual
  <1> QED BY <1>6 DEF left, tail

(* Extending keeps the mark inside a buffer that stays within the limit. *)
LEMMA ExtendInv ==
  ASSUME QueueInv, NEW chunk \in Seq(Byte), Len(chunk) <= Remaining, Extend(chunk)
  PROVE  /\ bytes' \in Seq(Byte)
         /\ sent' \in 0..Len(bytes')
         /\ Len(bytes') <= Limit
  <1>1. CASE CompactionDue(chunk)
    <2>1. bytes' = Pending \o chunk /\ sent' = 0
      BY <1>1 DEF Extend
    <2>2. Pending \in Seq(Byte) /\ Len(Pending) = Len(bytes) - sent
      BY PendingShape DEF QueueInv
    <2> QED BY <2>1, <2>2, QueueAssumption DEF Remaining, QueueLen, QueueInv, QueueTypeOK
  <1>2. CASE ~CompactionDue(chunk)
    <2>1. bytes' = bytes \o chunk /\ sent' = sent
      BY <1>2 DEF Extend
    <2>2. Len(bytes) + Len(chunk) <= Limit
      BY <1>2, QueueAssumption
      DEF CompactionDue, Remaining, QueueLen, QueueInv, QueueTypeOK, StorageBound
    <2> QED BY <2>1, <2>2, QueueAssumption DEF QueueInv, QueueTypeOK
  <1> QED BY <1>1, <1>2

(* Extending appends the chunk to what is pending, compacted or not. *)
LEMMA ExtendPending ==
  ASSUME QueueInv, NEW chunk \in Seq(Byte), Len(chunk) <= Remaining, Extend(chunk)
  PROVE  Pending' = Pending \o chunk
  <1>1. CASE CompactionDue(chunk)
    <2>1. bytes' = Pending \o chunk /\ sent' = 0
      BY <1>1 DEF Extend
    <2>2. Pending \in Seq(Byte)
      BY PendingShape DEF QueueInv
    <2>3. Pending \o chunk \in Seq(Byte)
      BY <2>2
    <2>4. Pending' = SubSeq(Pending \o chunk, 1, Len(Pending \o chunk))
      BY <2>1 DEF Pending
    <2> QED BY <2>3, <2>4, SubSeqFull
  <1>2. CASE ~CompactionDue(chunk)
    <2>1. bytes' = bytes \o chunk /\ sent' = sent
      BY <1>2 DEF Extend
    <2>2. Pending' = SubSeq(bytes \o chunk, sent + 1, Len(bytes) + Len(chunk))
      BY <2>1 DEF Pending, QueueInv, QueueTypeOK
    <2> QED BY <2>2, SuffixOfConcat DEF Pending, QueueInv, QueueTypeOK
  <1> QED BY <1>1, <1>2

(* QueueInit establishes the invariant and every operation preserves it. *)
LEMMA QueueInductive ==
  /\ QueueInit => QueueInv
  /\ QueueInv /\ [QueueNext]_queueVars => QueueInv'
  <1>1. QueueInit => QueueInv
    BY ChunkIsSeq DEF QueueInit, QueueInv, QueueTypeOK, StorageBound
  <1>2. ASSUME QueueInv, [QueueNext]_queueVars PROVE QueueInv'
    <2>1. CASE \E chunk \in Chunk : AppendChunk(chunk)
      <3>1. PICK chunk \in Chunk : AppendChunk(chunk)
        BY <2>1
      <3> QED BY <1>2, <3>1, ChunkIsSeq, ExtendInv
              DEF AppendChunk, QueueInv, QueueTypeOK, StorageBound
    <2>2. CASE \E chunk \in Chunk : AppendOwned(chunk)
      <3>1. PICK chunk \in Chunk : AppendOwned(chunk)
        BY <2>2
      <3>2. CASE QueueLen = 0
        BY <1>2, <3>1, <3>2, ChunkIsSeq, QueueAssumption
        DEF AppendOwned, QueueInv, QueueTypeOK, StorageBound, Remaining
      <3>3. CASE QueueLen # 0
        BY <1>2, <3>1, <3>3, ChunkIsSeq, ExtendInv
        DEF AppendOwned, QueueInv, QueueTypeOK, StorageBound
      <3> QED BY <3>2, <3>3
    <2>3. CASE \E chunk \in Chunk : RefuseChunk(chunk)
      BY <1>2, <2>3 DEF RefuseChunk, QueueInv, QueueTypeOK, StorageBound
    <2>4. CASE Flush
      <3>1. PICK n \in 0..FlushGoal : FlushOk(n) \/ FlushErr(n)
        BY <2>4 DEF Flush
      <3>2. n \in 0..QueueLen
        BY <1>2, <3>1, QueueAssumption DEF FlushGoal, QueueLen, QueueInv, QueueTypeOK
      <3>3. SubSeq(bytes, sent + 1, sent + n) \in Seq(Byte)
        BY <1>2, <3>2, WrittenShape DEF QueueInv
      <3>4. took' \in Seq(Byte) /\ wrote' \in Seq(Byte)
        <4>1. took' = << >> /\ wrote' = SubSeq(bytes, sent + 1, sent + n)
          BY <3>1, Zenon DEF FlushOk, FlushErr
        <4> QED BY <3>3, <4>1
      <3>5. /\ sent \in Nat /\ sent <= Len(bytes) /\ Len(bytes) \in Nat
            /\ n \in Nat /\ sent + n <= Len(bytes)
            /\ bytes \in Seq(Byte) /\ Len(bytes) <= Limit
        BY <1>2, <3>2 DEF QueueLen, QueueInv, QueueTypeOK, StorageBound
      <3>6. CASE bytes' = bytes /\ sent' = sent + n
        BY <3>4, <3>5, <3>6 DEF QueueInv, QueueTypeOK, StorageBound
      <3>7. CASE bytes' = << >> /\ sent' = 0
        BY <3>4, <3>7, QueueAssumption DEF QueueInv, QueueTypeOK, StorageBound
      <3> QED BY <3>1, <3>6, <3>7 DEF FlushOk, FlushErr
    <2>5. CASE UNCHANGED queueVars
      BY <1>2, <2>5 DEF queueVars, QueueInv, QueueTypeOK, StorageBound
    <2> QED BY <1>2, <2>1, <2>2, <2>3, <2>4, <2>5 DEF QueueNext
  <1> QED BY <1>1, <1>2

(* Queue::len, remaining and the tail test of append never underflow: the  *)
(* mark stays inside the buffer in every reachable state.                  *)
THEOREM QueueTypeCorrect == QueueSpec => []QueueTypeOK
  BY QueueInductive, PTL DEF QueueSpec, QueueInv

(* The buffer, written prefix included, never outgrows the queue's limit:  *)
(* deferring compaction does not cost storage.                             *)
THEOREM QueueStorageBounded == QueueSpec => []StorageBound
  BY QueueInductive, PTL DEF QueueSpec, QueueInv

(* Every write of a flush takes exactly the oldest pending bytes off. *)
LEMMA FlushDelivers ==
  ASSUME QueueInv, NEW n \in 0..QueueLen,
         wrote' = SubSeq(bytes, sent + 1, sent + n),
         \/ bytes' = bytes /\ sent' = sent + n
         \/ sent + n = Len(bytes) /\ bytes' = << >> /\ sent' = 0
  PROVE  Pending = wrote' \o Pending'
  <1>1. CASE bytes' = bytes /\ sent' = sent + n
    <2>1. Pending' = SubSeq(bytes, sent + n + 1, Len(bytes))
      BY <1>1 DEF Pending
    <2>2. /\ bytes \in Seq(Byte) /\ sent + 1 \in 1..Len(bytes) + 1
          /\ sent + n \in (sent + 1) - 1..Len(bytes)
          /\ Len(bytes) \in sent + n..Len(bytes)
      BY DEF QueueLen, QueueInv, QueueTypeOK
    <2>3. SubSeq(bytes, sent + 1, sent + n) \o SubSeq(bytes, sent + n + 1, Len(bytes))
            = SubSeq(bytes, sent + 1, Len(bytes))
      BY <2>2, ConcatAdjacentSubSeq
    <2> QED BY <2>1, <2>3 DEF Pending
  <1>2. CASE sent + n = Len(bytes) /\ bytes' = << >> /\ sent' = 0
    <2>1. Pending' = << >>
      BY <1>2 DEF Pending
    <2>2. wrote' = Pending
      BY <1>2 DEF Pending
    <2>3. Pending \in Seq(Byte)
      BY PendingShape DEF QueueInv
    <2> QED BY <2>1, <2>2, <2>3, ConcatEmptySeq
  <1> QED BY <1>1, <1>2

(* Every operation of the queue is a step of the bounded FIFO. *)
LEMMA QueueStepIsFifoStep ==
  ASSUME QueueInv, QueueInv', [QueueNext]_queueVars
  PROVE  [Fifo!FifoNext]_(Fifo!fifoVars)
  <1> USE DEF Fifo!FifoNext, Fifo!Accept, Fifo!Deliver
  <1>0. /\ Len(Pending') <= Limit
        /\ Pending \in Seq(Byte)
    <2>1. Len(Pending') = Len(bytes') - sent'
      BY DEF Pending, QueueInv, QueueTypeOK
    <2> QED BY <2>1, PendingShape, QueueAssumption DEF QueueInv, QueueTypeOK, StorageBound
  <1>1. CASE \E chunk \in Chunk : AppendChunk(chunk)
    <2>1. PICK chunk \in Chunk : AppendChunk(chunk)
      BY <1>1
    <2>2. Pending' = Pending \o chunk
      BY <2>1, ChunkIsSeq, ExtendPending DEF AppendChunk
    <2> QED BY <1>0, <2>1, <2>2, ChunkIsSeq DEF AppendChunk
  <1>2. CASE \E chunk \in Chunk : AppendOwned(chunk)
    <2>1. PICK chunk \in Chunk : AppendOwned(chunk)
      BY <1>2
    <2>2. chunk \in Seq(Byte)
      BY ChunkIsSeq
    <2>3. CASE QueueLen = 0
      <3>1. Pending = << >>
        BY <2>3, PendingShape, EmptySeq DEF QueueLen, QueueInv, QueueTypeOK
      <3>2. Pending' = chunk
        BY <2>1, <2>2, <2>3 DEF AppendOwned, Pending
      <3> QED BY <1>0, <2>1, <2>2, <3>1, <3>2 DEF AppendOwned
    <2>4. CASE QueueLen # 0
      <3>1. Pending' = Pending \o chunk
        BY <2>1, <2>2, <2>4, ExtendPending DEF AppendOwned
      <3> QED BY <1>0, <2>1, <2>2, <3>1 DEF AppendOwned
    <2> QED BY <2>3, <2>4
  <1>3. CASE \E chunk \in Chunk : RefuseChunk(chunk)
    <2>1. Pending' = Pending /\ wrote' = << >> /\ took' = << >>
      BY <1>3 DEF RefuseChunk, Pending
    <2> QED BY <1>0, <2>1
  <1>4. CASE Flush
    <2>1. PICK n \in 0..FlushGoal : FlushOk(n) \/ FlushErr(n)
      BY <1>4 DEF Flush
    <2>2. n \in 0..QueueLen
      BY <2>1, QueueAssumption DEF FlushGoal, QueueLen, QueueInv, QueueTypeOK
    <2>3. Pending = wrote' \o Pending'
      BY <2>1, <2>2, FlushDelivers DEF FlushOk, FlushErr
    <2>4. took' = << >> /\ wrote' \in Seq(Byte)
      BY <2>1 DEF FlushOk, FlushErr, QueueInv, QueueTypeOK
    <2> QED BY <2>3, <2>4
  <1>5. CASE UNCHANGED queueVars
    BY <1>5 DEF queueVars, Fifo!fifoVars, Pending
  <1> QED BY <1>1, <1>2, <1>3, <1>4, <1>5 DEF QueueNext

(* The deferred-compaction buffer implements the bounded FIFO.             *)
THEOREM QueueRefinesFifo == QueueSpec => ImplementsFifo
  <1>1. QueueInit => Fifo!FifoInit
    <2>1. SUFFICES ASSUME QueueInit PROVE Fifo!FifoInit
      OBVIOUS
    <2>2. QueueInv
      BY <2>1, QueueInductive
    <2> QED BY <2>1, <2>2, PendingShape, QueueAssumption
            DEF QueueInit, QueueInv, Fifo!FifoInit
  <1>2. QueueSpec => []QueueInv
    BY QueueInductive, PTL DEF QueueSpec
  <1> QED BY <1>1, <1>2, QueueStepIsFifoStep, PTL
          DEF QueueSpec, ImplementsFifo, Fifo!FifoSpec

-----------------------------------------------------------------------------
(* Sequences. *)

(* A set of numbers that is not empty has a least one.                     *)
LEMMA LeastExists ==
    ASSUME NEW T, T \subseteq Nat, T # {}
    PROVE  \E n \in T : \A m \in T : n <= m
<1> DEFINE less == OpToRel(<, Nat)
<1>1. IsWellFoundedOn(less, Nat)
  BY NatLessThanWellFounded
<1>2. \A x, y \in Nat : x < y => <<x, y>> \in less
  BY DEF OpToRel
<1> HIDE DEF less
<1>3. PICK n \in T : \A m \in T : ~(<<m, n>> \in less)
  BY <1>1, WFMin
<1>4. \A m \in T : m \in Nat /\ n \in Nat /\ ~(m < n)
  BY <1>2, <1>3
<1> QED BY <1>4

(* A sequence is its first n elements and the others.                      *)
LEMMA Cut ==
    ASSUME NEW S, NEW s \in Seq(S), NEW n \in 0..Len(s)
    PROVE  LET front == SubSeq(s, 1, n)
               back == SubSeq(s, n + 1, Len(s))
           IN /\ front \in Seq(S) /\ back \in Seq(S)
              /\ Len(front) = n /\ Len(back) = Len(s) - n
              /\ s = front \o back
<1>1. Len(s) \in Nat /\ n \in Nat /\ n <= Len(s)
  BY LenProperties
<1>2. 1 \in 1..Len(s) + 1 /\ n \in 1 - 1..Len(s) /\ Len(s) \in n..Len(s)
  BY <1>1
<1>3. SubSeq(s, 1, n) \o SubSeq(s, n + 1, Len(s)) = SubSeq(s, 1, Len(s))
  BY <1>2, ConcatAdjacentSubSeq
<1>4. SubSeq(s, 1, Len(s)) = s
  BY SubSeqFull
<1>5. /\ SubSeq(s, 1, n) \in Seq(S) /\ SubSeq(s, n + 1, Len(s)) \in Seq(S)
      /\ Len(SubSeq(s, 1, n)) = n /\ Len(SubSeq(s, n + 1, Len(s))) = Len(s) - n
  BY <1>1
<1> QED BY <1>3, <1>4, <1>5

LEMMA Associative ==
    ASSUME NEW S, NEW s, NEW t, NEW u, s \in Seq(S), t \in Seq(S), u \in Seq(S)
    PROVE  (s \o t) \o u = s \o (t \o u)
BY ConcatAssociative

LEMMA CancelLeft ==
    ASSUME NEW S, NEW s, NEW t, NEW u, s \in Seq(S), t \in Seq(S), u \in Seq(S),
           s \o t = s \o u
    PROVE  t = u
<1>1. /\ Len(s) \in Nat /\ Len(t) \in Nat /\ Len(u) \in Nat
      /\ Len(s \o t) = Len(s) + Len(t) /\ Len(s \o u) = Len(s) + Len(u)
      /\ \A i \in 1..Len(s) + Len(t) : (s \o t)[i] = IF i <= Len(s) THEN s[i] ELSE t[i - Len(s)]
      /\ \A i \in 1..Len(s) + Len(u) : (s \o u)[i] = IF i <= Len(s) THEN s[i] ELSE u[i - Len(s)]
  BY ConcatProperties, LenProperties
<1>2. Len(t) = Len(u)
  BY <1>1
<1>3. ASSUME NEW i \in 1..Len(t) PROVE t[i] = u[i]
  <2>1. /\ Len(s) + i \in 1..Len(s) + Len(t) /\ ~(Len(s) + i <= Len(s))
        /\ (Len(s) + i) - Len(s) = i
    BY <1>1
  <2> QED BY <1>1, <1>2, <2>1
<1> QED BY <1>2, <1>3, SeqEqual

(* The same of bytes. *)
LEMMA BytesAssociate == \A s, t, u \in Seq(Byte) : (s \o t) \o u = s \o (t \o u)
BY ConcatAssociative

(* What one part gives the next one takes.                                 *)
Shifted(l, a, b, c) == (l \o (a \o b)) \o c = (l \o a) \o (b \o c)

LEMMA Shift ==
    ASSUME NEW l, NEW a, NEW b, NEW c,
           l \in Seq(Byte), a \in Seq(Byte), b \in Seq(Byte), c \in Seq(Byte)
    PROVE  Shifted(l, a, b, c)
<1>1. a \o b \in Seq(Byte) /\ b \o c \in Seq(Byte)
  BY ConcatProperties
<1>2. (l \o a) \o (b \o c) = l \o (a \o (b \o c))
  BY <1>1, BytesAssociate
<1>3. a \o (b \o c) = (a \o b) \o c
  BY BytesAssociate
<1>4. l \o ((a \o b) \o c) = (l \o (a \o b)) \o c
  BY <1>1, BytesAssociate
<1> QED BY <1>2, <1>3, <1>4 DEF Shifted

LEMMA ConcatAppend ==
    ASSUME NEW S, NEW s \in Seq(S), NEW t \in Seq(S), NEW e \in S
    PROVE  s \o Append(t, e) = Append(s \o t, e)
<1>1. Append(t, e) = t \o <<e>> /\ <<e>> \in Seq(S) /\ s \o t \in Seq(S)
  BY AppendIsConcat, ConcatProperties
<1>2. Append(s \o t, e) = (s \o t) \o <<e>>
  BY <1>1, AppendIsConcat
<1> QED BY <1>1, <1>2, ConcatAssociative

-----------------------------------------------------------------------------
(* Packets one after the other. *)

(* FlattenSeq of the first n of them. *)
IsFlat(f, ps, n) ==
    f = [i \in 1..n |-> IF i = 1 THEN ps[i] ELSE f[i - 1] \o ps[i]]

LEMMA FlatUnique ==
    ASSUME NEW ps, NEW f, NEW g, NEW n \in Nat \ {0},
           IsFlat(f, ps, n), IsFlat(g, ps, n)
    PROVE  f[n] = g[n]
<1> DEFINE T == {k \in 1..n : f[k] # g[k]}
<1>1. T \subseteq Nat
  OBVIOUS
<1>2. \A k \in 1..n :
        /\ f[k] = IF k = 1 THEN ps[k] ELSE f[k - 1] \o ps[k]
        /\ g[k] = IF k = 1 THEN ps[k] ELSE g[k - 1] \o ps[k]
  BY DEF IsFlat
<1>3. CASE T = {}
  BY <1>3
<1>4. CASE T # {}
  <2> HIDE DEF T
  <2>1. PICK k \in T : \A m \in T : k <= m
    BY <1>1, <1>4, LeastExists
  <2>2. k \in 1..n /\ f[k] # g[k] /\ \A m \in 1..n : f[m] # g[m] => k <= m
    BY <2>1 DEF T
  <2>3. k # 1
    BY <1>2, <2>2
  <2>4. k - 1 \in 1..n /\ ~(k <= k - 1)
    BY <2>2, <2>3
  <2>5. f[k - 1] = g[k - 1]
    BY <2>2, <2>4
  <2> QED BY <1>2, <2>2, <2>3, <2>5
<1> QED BY <1>3, <1>4

LEMMA FlatExtends ==
    ASSUME NEW ps, NEW f, NEW n \in Nat \ {0}, IsFlat(f, ps, n)
    PROVE  \E g : IsFlat(g, ps, n + 1) /\ g[n + 1] = f[n] \o ps[n + 1]
<1> DEFINE g == [k \in 1..(n + 1) |-> IF k = n + 1 THEN f[n] \o ps[n + 1] ELSE f[k]]
<1>1. \A k \in 1..n : f[k] = IF k = 1 THEN ps[k] ELSE f[k - 1] \o ps[k]
  BY DEF IsFlat
<1>2. /\ g[n + 1] = f[n] \o ps[n + 1]
      /\ \A k \in 1..n : g[k] = f[k]
  <2>1. n + 1 \in 1..(n + 1) /\ \A k \in 1..n : k \in 1..(n + 1) /\ k # n + 1
    OBVIOUS
  <2> QED BY <2>1, Zenon
<1>3. ASSUME NEW k \in 1..(n + 1)
      PROVE  g[k] = IF k = 1 THEN ps[k] ELSE g[k - 1] \o ps[k]
  <2>1. CASE k = n + 1
    <3>1. k - 1 = n /\ k # 1 /\ n \in 1..n
      BY <2>1
    <3> QED BY <1>2, <2>1, <3>1
  <2>2. CASE k # n + 1
    <3>1. k \in 1..n /\ (k # 1 => k - 1 \in 1..n)
      BY <2>2
    <3> QED BY <1>1, <1>2, <3>1
  <2> QED BY <2>1, <2>2
<1>4. g = [k \in 1..(n + 1) |-> g[k]]
  OBVIOUS
<1> HIDE DEF g
<1>5. IsFlat(g, ps, n + 1)
  BY <1>3, <1>4 DEF IsFlat
<1> QED BY <1>2, <1>5

LEMMA FlatExists ==
    ASSUME NEW ps, NEW n \in Nat \ {0}
    PROVE  \E f : IsFlat(f, ps, n)
<1> DEFINE T == {k \in Nat \ {0} : ~\E f : IsFlat(f, ps, k)}
<1> SUFFICES ASSUME T # {} PROVE FALSE
  OBVIOUS
<1>1. T \subseteq Nat
  OBVIOUS
<1> HIDE DEF T
<1>2. PICK k \in T : \A m \in T : k <= m
  BY <1>1, LeastExists
<1>3. k \in Nat \ {0} /\ ~(\E f : IsFlat(f, ps, k))
  BY <1>2 DEF T
<1>4. IsFlat([j \in 1..1 |-> ps[1]], ps, 1)
  BY DEF IsFlat
<1>5. k # 1
  BY <1>3, <1>4
<1>6. k - 1 \in Nat \ {0} /\ ~(k <= k - 1) /\ (k - 1) + 1 = k
  BY <1>3, <1>5
<1>7. k - 1 \notin T
  BY <1>2, <1>6
<1>8. PICK f : IsFlat(f, ps, k - 1)
  BY <1>6, <1>7 DEF T
<1>9. \E g : IsFlat(g, ps, (k - 1) + 1)
  BY <1>6, <1>8, FlatExtends
<1> QED BY <1>3, <1>6, <1>9

LEMMA FlatIs ==
    ASSUME NEW ps, Len(ps) \in Nat \ {0}, NEW f, IsFlat(f, ps, Len(ps))
    PROVE  Flat(ps) = f[Len(ps)]
<1> DEFINE g == CHOOSE h : h = [i \in 1..Len(ps) |->
                                  IF i = 1 THEN ps[i] ELSE h[i - 1] \o ps[i]]
<1>1. \E h : h = [i \in 1..Len(ps) |-> IF i = 1 THEN ps[i] ELSE h[i - 1] \o ps[i]]
  BY DEF IsFlat
<1>2. g = [i \in 1..Len(ps) |-> IF i = 1 THEN ps[i] ELSE g[i - 1] \o ps[i]]
  BY <1>1
<1>3. Flat(ps) = g[Len(ps)]
  BY DEF Flat, FlattenSeq
<1> HIDE DEF g
<1>4. IsFlat(g, ps, Len(ps))
  BY <1>2 DEF IsFlat
<1> QED BY <1>3, <1>4, FlatUnique

LEMMA FlatNothing == Flat(<<>>) = <<>>
BY DEF Flat, FlattenSeq

(* One packet more is its bytes more. *)
LEMMA FlatAppend ==
    ASSUME NEW S, NEW ps \in Seq(Seq(S)), NEW p \in Seq(S)
    PROVE  Flat(Append(ps, p)) = Flat(ps) \o p
<1> DEFINE qs == Append(ps, p)
           n == Len(ps)
<1>1. /\ n \in Nat /\ Len(qs) = n + 1 /\ qs[n + 1] = p /\ n + 1 \in Nat \ {0}
      /\ \A i \in 1..n : qs[i] = ps[i]
  OBVIOUS
<1> HIDE DEF qs
<1>2. CASE n = 0
  <2>1. ps = <<>>
    BY <1>2
  <2> DEFINE f == [j \in 1..1 |-> p]
  <2>2. IsFlat(f, qs, 1) /\ f[1] = p
    BY <1>1, <1>2 DEF IsFlat
  <2> HIDE DEF f
  <2>3. Len(qs) = 1 /\ 1 \in Nat \ {0}
    BY <1>1, <1>2
  <2>4. Flat(qs) = f[1]
    BY <2>2, <2>3, FlatIs
  <2> QED BY <2>1, <2>2, <2>4, FlatNothing, ConcatEmptySeq DEF qs
<1>3. CASE n # 0
  <2>1. PICK f : IsFlat(f, ps, n)
    BY <1>1, <1>3, FlatExists
  <2>2. Flat(ps) = f[n]
    BY <1>1, <1>3, <2>1, FlatIs
  <2>3. IsFlat(f, qs, n)
    <3>1. \A i \in 1..n : (IF i = 1 THEN ps[i] ELSE f[i - 1] \o ps[i])
                          = (IF i = 1 THEN qs[i] ELSE f[i - 1] \o qs[i])
      BY <1>1
    <3> QED BY <2>1, <3>1 DEF IsFlat
  <2>4. PICK g : IsFlat(g, qs, n + 1) /\ g[n + 1] = f[n] \o qs[n + 1]
    BY <1>1, <1>3, <2>3, FlatExtends
  <2>5. Flat(qs) = g[n + 1]
    BY <1>1, <2>4, FlatIs
  <2> QED BY <1>1, <2>2, <2>4, <2>5 DEF qs
<1> QED BY <1>2, <1>3

(* All but the last, and the last.                                         *)
LEMMA LastOne ==
    ASSUME NEW S, NEW s \in Seq(S), s # <<>>
    PROVE  LET front == SubSeq(s, 1, Len(s) - 1) IN
           /\ front \in Seq(S) /\ Len(front) = Len(s) - 1
           /\ s[Len(s)] \in S /\ s = Append(front, s[Len(s)])
<1>1. Len(s) \in Nat \ {0}
  BY EmptySeq
<1> DEFINE front == SubSeq(s, 1, Len(s) - 1)
<1>2. /\ front \in Seq(S) /\ Len(front) = Len(s) - 1
      /\ \A i \in 1..Len(s) - 1 : front[i] = s[i]
  <2>1. Len(s) - 1 \in Nat /\ \A i \in 1..Len(s) - 1 : s[i] \in S
    BY <1>1
  <2>2. /\ front \in Seq(S)
        /\ Len(front) = IF 1 <= Len(s) - 1 THEN (Len(s) - 1) - 1 + 1 ELSE 0
        /\ \A i \in 1..(Len(s) - 1) - 1 + 1 : front[i] = s[1 + i - 1]
    BY <2>1, SubSeqProperties
  <2> DEFINE n == Len(s)
  <2>3. n \in Nat \ {0}
    BY <1>1
  <2> HIDE DEF front, n
  <2>4. /\ (n - 1) - 1 + 1 = n - 1
        /\ (IF 1 <= n - 1 THEN (n - 1) - 1 + 1 ELSE 0) = n - 1
        /\ \A i \in 1..n - 1 : 1 + i - 1 = i
    BY <2>3
  <2> QED BY <2>2, <2>4 DEF n
<1>3. s[Len(s)] \in S
  BY <1>1
<1> HIDE DEF front
<1>4. Append(front, s[Len(s)]) = s
  <2>1. /\ Append(front, s[Len(s)]) \in Seq(S)
        /\ Len(Append(front, s[Len(s)])) = Len(s)
        /\ \A i \in 1..Len(s) : Append(front, s[Len(s)])[i] = s[i]
    BY <1>1, <1>2, <1>3, AppendProperties
  <2> QED BY <2>1, SeqEqual
<1> QED BY <1>2, <1>3, <1>4 DEF front

LEMMA FlatIsSeq ==
    ASSUME NEW S, NEW ps \in Seq(Seq(S))
    PROVE  Flat(ps) \in Seq(S)
<1> DEFINE T == {k \in Nat : \E qs \in Seq(Seq(S)) : Len(qs) = k /\ Flat(qs) \notin Seq(S)}
<1>1. CASE T = {}
  BY <1>1, LenProperties
<1>2. CASE T # {}
  <2>1. T \subseteq Nat
    OBVIOUS
  <2> HIDE DEF T
  <2>2. PICK k \in T : \A m \in T : k <= m
    BY <1>2, <2>1, LeastExists
  <2>3. PICK qs \in Seq(Seq(S)) : k \in Nat /\ Len(qs) = k /\ Flat(qs) \notin Seq(S)
    BY <2>2 DEF T
  <2>4. qs # <<>>
    BY <2>3, FlatNothing, EmptySeq
  <2> DEFINE front == SubSeq(qs, 1, Len(qs) - 1)
             last == qs[Len(qs)]
  <2>5. front \in Seq(Seq(S)) /\ Len(front) = k - 1 /\ last \in Seq(S) /\ qs = Append(front, last)
    BY <2>3, <2>4, LastOne
  <2> HIDE DEF front, last
  <2>6. k - 1 \in Nat /\ ~(k <= k - 1)
    BY <2>3, <2>5, LenProperties
  <2>7. k - 1 \notin T
    BY <2>2, <2>6
  <2>8. Flat(front) \in Seq(S)
    BY <2>5, <2>6, <2>7 DEF T
  <2>9. Flat(qs) = Flat(front) \o last
    BY <2>5, FlatAppend
  <2> QED BY <2>3, <2>5, <2>8, <2>9, ConcatProperties
<1> QED BY <1>1, <1>2

(* Packets and further packets are their bytes and further bytes.          *)
LEMMA FlatConcat ==
    ASSUME NEW S, NEW ps \in Seq(Seq(S)), NEW qs \in Seq(Seq(S))
    PROVE  Flat(ps \o qs) = Flat(ps) \o Flat(qs)
<1> DEFINE T == {k \in Nat : \E rs \in Seq(Seq(S)) :
                    Len(rs) = k /\ Flat(ps \o rs) # Flat(ps) \o Flat(rs)}
<1>1. CASE T = {}
  BY <1>1, LenProperties
<1>2. CASE T # {}
  <2>1. T \subseteq Nat
    OBVIOUS
  <2> HIDE DEF T
  <2>2. PICK k \in T : \A m \in T : k <= m
    BY <1>2, <2>1, LeastExists
  <2>3. PICK rs \in Seq(Seq(S)) :
          k \in Nat /\ Len(rs) = k /\ Flat(ps \o rs) # Flat(ps) \o Flat(rs)
    BY <2>2 DEF T
  <2>4. Flat(ps) \in Seq(S)
    BY FlatIsSeq
  <2>5. rs # <<>>
    BY <2>3, <2>4, FlatNothing, ConcatEmptySeq
  <2> DEFINE front == SubSeq(rs, 1, Len(rs) - 1)
             last == rs[Len(rs)]
  <2>6. front \in Seq(Seq(S)) /\ Len(front) = k - 1 /\ last \in Seq(S) /\ rs = Append(front, last)
    BY <2>3, <2>5, LastOne
  <2> HIDE DEF front, last
  <2>7. k - 1 \in Nat /\ ~(k <= k - 1)
    BY <2>3, <2>6, LenProperties
  <2>8. k - 1 \notin T
    BY <2>2, <2>7
  <2>9. Flat(ps \o front) = Flat(ps) \o Flat(front)
    BY <2>6, <2>7, <2>8 DEF T
  <2>10. ps \o rs = Append(ps \o front, last)
    BY <2>6, ConcatAppend
  <2>11. Flat(ps \o rs) = Flat(ps \o front) \o last
    BY <2>6, <2>10, FlatAppend, ConcatProperties
  <2>12. Flat(rs) = Flat(front) \o last
    BY <2>6, FlatAppend
  <2>13. (Flat(ps) \o Flat(front)) \o last = Flat(ps) \o (Flat(front) \o last)
    <3>1. Flat(front) \in Seq(S)
      BY <2>6, FlatIsSeq
    <3> QED BY <2>4, <2>6, <3>1, Associative
  <2> QED BY <2>3, <2>9, <2>11, <2>12, <2>13
<1> QED BY <1>1, <1>2

-----------------------------------------------------------------------------
(* Packets say where they end. *)

Packet(v) ==
    {p \in Seq(Byte) : /\ p[1] = v /\ p[2] \in 0..MaxPayload
                       /\ Len(p) = Header + p[2]}

LEMMA PacketShape ==
    ASSUME NEW v, NEW p \in Packet(v)
    PROVE  /\ p \in Seq(Byte) /\ p[1] = v /\ p[2] \in Nat
           /\ Len(p) = Header + p[2] /\ Len(p) >= Header
BY WireAssumption DEF Packet, Header

LEMMA PacketsAreBytes ==
    ASSUME NEW v, NEW ps \in Seq(Packet(v))
    PROVE  ps \in Seq(Seq(Byte)) /\ Flat(ps) \in Seq(Byte)
<1>1. Packet(v) \subseteq Seq(Byte)
  BY DEF Packet
<1>2. ps \in Seq(Seq(Byte))
  BY <1>1, SeqMonotonic
<1> QED BY <1>2, FlatIsSeq

(* Bytes that begin with a packet, read from the front: as many bytes as   *)
(* the header announces are the packet.                                     *)
Announced(x) == Len(x) >= Header /\ Len(x) = Header + x[2]

LEMMA FirstPacket ==
    ASSUME NEW v, NEW p, NEW z, NEW x, NEW y,
           p \in Packet(v), z \in Seq(Byte), x \in Seq(Byte), y \in Seq(Byte),
           x \o y = p \o z, Announced(x)
    PROVE  x = p
<1>1. p \in Seq(Byte) /\ p[1] = v /\ p[2] \in Nat /\ Len(p) = 2 + p[2]
  BY PacketShape DEF Header
<1>2. /\ Len(x) \in Nat /\ Len(y) \in Nat /\ Len(z) \in Nat /\ Len(x) >= 2
      /\ Len(x) = 2 + x[2]
  BY LenProperties DEF Announced, Header
<1>3. /\ \A i \in 1..Len(x) + Len(y) : (x \o y)[i] = IF i <= Len(x) THEN x[i] ELSE y[i - Len(x)]
      /\ \A i \in 1..Len(p) + Len(z) : (p \o z)[i] = IF i <= Len(p) THEN p[i] ELSE z[i - Len(p)]
      /\ Len(x \o y) = Len(x) + Len(y) /\ Len(p \o z) = Len(p) + Len(z)
  BY <1>1, ConcatProperties
<1>4. \A i \in Nat : (1 <= i /\ i <= Len(x) /\ i <= Len(p)) => x[i] = p[i]
  BY <1>1, <1>2, <1>3
<1>5. x[2] = p[2]
  BY <1>1, <1>2, <1>4
<1>6. Len(x) = Len(p) /\ \A i \in 1..Len(x) : x[i] = p[i]
  BY <1>1, <1>2, <1>4, <1>5
<1> QED BY <1>1, <1>6, SeqEqual

(* A first packet comes before the others.                                  *)
LEMMA HeadOne ==
    ASSUME NEW S, NEW r \in Seq(S), r # <<>>
    PROVE  \E p \in S, rest \in Seq(S) : r = <<p>> \o rest
<1>1. Len(r) \in Nat \ {0}
  BY EmptySeq
<1>2. 1 \in 0..Len(r) /\ 1 \in 1..Len(r)
  BY <1>1
<1> DEFINE front == SubSeq(r, 1, 1)
           back == SubSeq(r, 2, Len(r))
<1>3. front \in Seq(S) /\ back \in Seq(S) /\ Len(front) = 1 /\ r = front \o back
  BY <1>2, Cut
<1> HIDE DEF front, back
<1>4. front[1] \in S
  <2>1. 1 \in 1..Len(front)
    BY <1>3
  <2> QED BY <1>3, <2>1, ElementOfSeq
<1>5. front = <<front[1]>>
  <2>1. /\ <<front[1]>> \in Seq(S) /\ Len(<<front[1]>>) = 1
        /\ <<front[1]>>[1] = front[1]
    BY <1>4
  <2> QED BY <1>3, <2>1, SeqEqual
<1> QED BY <1>3, <1>4, <1>5

LEMMA FlatFirst ==
    ASSUME NEW S, NEW p \in Seq(S), NEW rest \in Seq(Seq(S))
    PROVE  Flat(<<p>> \o rest) = p \o Flat(rest)
<1>1. <<p>> \in Seq(Seq(S))
  OBVIOUS
<1>2. Flat(<<p>>) = p
  <2>1. Append(<<>>, p) = <<p>> /\ <<>> \in Seq(Seq(S))
    OBVIOUS
  <2>2. Flat(Append(<<>>, p)) = Flat(<<>>) \o p
    BY <2>1, FlatAppend
  <2> QED BY <2>1, <2>2, FlatNothing, ConcatEmptySeq
<1> QED BY <1>1, <1>2, FlatConcat

-----------------------------------------------------------------------------
(* The decoder. *)

(* A packet in hand that lacks something. *)
Part(h) == h \in Seq(Byte) /\ (Len(h) < Header \/ Len(h) < Header + h[2])

(* A decoder with h in hand, input still to take and out to hand out,      *)
(* between the packets g handed out earlier and the bytes z that it has not *)
(* been given, has not departed from the packets q.                         *)
Steady(g, q, v, h, input, out, bad, z) ==
    /\ h \in Seq(Byte) /\ input \in Seq(Byte) /\ out \in Seq(Packet(v))
    /\ \E r \in Seq(Packet(v)) : q = (g \o out) \o r
    /\ out # <<>> => v = Version
    /\ ~bad => Part(h) /\ Flat(g \o out) \o (h \o (input \o z)) = Flat(q)

InStep(g, q, v, d, z) ==
    \E h, input, out : \E bad \in BOOLEAN :
        /\ d = [held |-> h, input |-> input, out |-> out, bad |-> bad]
        /\ Steady(g, q, v, h, input, out, bad, z)

LEMMA InStepOf ==
    ASSUME NEW g, NEW q, NEW v, NEW z, NEW h, NEW input, NEW out, NEW bad \in BOOLEAN,
           Steady(g, q, v, h, input, out, bad, z)
    PROVE  InStep(g, q, v, [held |-> h, input |-> input, out |-> out, bad |-> bad], z)
BY Zenon DEF InStep

(* What a round takes from the input.                                       *)
LEMMA PushTakes ==
    ASSUME NEW h, Part(h), NEW input \in Seq(Byte), input # <<>>
    PROVE  LET n == Least(Lacks(h), Len(input))
               front == SubSeq(input, 1, n)
               rest == SubSeq(input, n + 1, Len(input))
               more == h \o front
           IN /\ front \in Seq(Byte) /\ rest \in Seq(Byte) /\ more \in Seq(Byte)
              /\ input = front \o rest
              /\ Len(rest) < Len(input)
              /\ Len(more) >= Header => Len(more) <= Header + more[2]
<1> DEFINE n == Least(Lacks(h), Len(input))
           front == SubSeq(input, 1, n)
           rest == SubSeq(input, n + 1, Len(input))
           more == h \o front
<1>1. /\ h \in Seq(Byte) /\ Len(h) \in Nat /\ Len(input) \in Nat \ {0}
      /\ \A i \in 1..Len(h) : h[i] \in Nat
  BY WireAssumption, EmptySeq, LenProperties DEF Part
<1>2. /\ Lacks(h) \in Nat \ {0}
      /\ Len(h) < Header => Lacks(h) = Header - Len(h)
      /\ Len(h) >= Header => h[2] \in Nat /\ Lacks(h) = Header + h[2] - Len(h)
  <2>1. CASE Len(h) < Header
    <3>1. Lacks(h) = Header - Len(h)
      BY <2>1 DEF Lacks
    <3>2. ~(Len(h) >= Header) /\ Header - Len(h) \in Nat \ {0}
      BY <1>1, <2>1 DEF Header
    <3> QED BY <3>1, <3>2
  <2>2. CASE Len(h) >= Header
    <3>1. h[2] \in Nat /\ ~(Len(h) < Header)
      BY <1>1, <2>2 DEF Header
    <3>2. Len(h) < Header + h[2]
      BY <3>1 DEF Part
    <3> QED BY <1>1, <2>2, <3>1, <3>2 DEF Lacks, Header
  <2> QED BY <1>1, <2>1, <2>2 DEF Header
<1>3. n \in 0..Len(input) /\ n >= 1 /\ n <= Lacks(h)
  BY <1>1, <1>2 DEF Least
<1> HIDE DEF n
<1>4. /\ front \in Seq(Byte) /\ rest \in Seq(Byte) /\ input = front \o rest
      /\ Len(front) = n /\ Len(rest) = Len(input) - n
  BY <1>3, Cut
<1> HIDE DEF front, rest
<1>5. /\ more \in Seq(Byte) /\ Len(more) = Len(h) + n
      /\ \A i \in 1..Len(h) + n : more[i] = IF i <= Len(h) THEN h[i] ELSE front[i - Len(h)]
  BY <1>1, <1>4, ConcatProperties
<1> HIDE DEF more
<1>6. ASSUME Len(more) >= Header PROVE Len(more) <= Header + more[2]
  <2>1. more[2] \in Nat
    <3>1. 2 \in 1..Len(more)
      BY <1>1, <1>3, <1>5, <1>6 DEF Header
    <3> QED BY <1>5, <3>1, ElementOfSeq, WireAssumption
  <2>2. CASE Len(h) < Header
    BY <1>1, <1>2, <1>3, <1>5, <2>1, <2>2 DEF Header
  <2>3. CASE Len(h) >= Header
    <3>1. more[2] = h[2]
      BY <1>1, <1>3, <1>5, <2>3 DEF Header
    <3> QED BY <1>1, <1>2, <1>3, <1>5, <2>3, <3>1 DEF Header
  <2> QED BY <1>1, <2>2, <2>3 DEF Header
<1>7. Len(rest) < Len(input)
  BY <1>1, <1>3, <1>4
<1> QED BY <1>4, <1>5, <1>6, <1>7 DEF n, front, rest, more

(* A round that completes a packet completes the next one of q.             *)
Completing(v, g, out, r, q, more, y) ==
    /\ g \in Seq(Packet(v)) /\ out \in Seq(Packet(v)) /\ r \in Seq(Packet(v))
    /\ q = (g \o out) \o r
    /\ more \in Seq(Byte) /\ y \in Seq(Byte) /\ Announced(more)
    /\ Flat(g \o out) \o (more \o y) = Flat(q)

Completion(v, g, out, q, more, y) ==
    /\ more[1] = v
    /\ Append(out, more) \in Seq(Packet(v))
    /\ \E s \in Seq(Packet(v)) : q = (g \o Append(out, more)) \o s
    /\ Flat(g \o Append(out, more)) \o y = Flat(q)

LEMMA Completed ==
    ASSUME NEW v, NEW g, NEW out, NEW r, NEW q, NEW more, NEW y,
           Completing(v, g, out, r, q, more, y)
    PROVE  Completion(v, g, out, q, more, y)
<1> USE DEF Completing
<1> DEFINE P == Packet(v)
           go == g \o out
<1>1. go \in Seq(P)
  BY ConcatProperties
<1> HIDE DEF go
<1>2. /\ go \in Seq(Seq(Byte)) /\ Flat(go) \in Seq(Byte)
      /\ r \in Seq(Seq(Byte)) /\ Flat(r) \in Seq(Byte)
  BY <1>1, PacketsAreBytes
<1>3. more \o y \in Seq(Byte) /\ Len(more \o y) = Len(more) + Len(y)
  BY ConcatProperties
<1>4. Flat(q) = Flat(go) \o Flat(r)
  <2>1. q = go \o r
    BY DEF go
  <2> QED BY <1>2, <2>1, FlatConcat
<1>5. more \o y = Flat(r)
  <2>1. Flat(go) \o (more \o y) = Flat(go) \o Flat(r)
    BY <1>4 DEF go
  <2> QED BY <1>2, <1>3, <2>1, CancelLeft
<1>6. r # <<>>
  <2>1. Len(more) \in Nat /\ Len(y) \in Nat
    BY LenProperties
  <2>2. Len(more \o y) # 0
    BY <1>3, <2>1 DEF Announced, Header
  <2> QED BY <1>5, <2>2, FlatNothing, EmptySeq
<1>7. PICK p \in P, s \in Seq(P) : r = <<p>> \o s
  <2>1. r \in Seq(P)
    OBVIOUS
  <2> HIDE DEF P
  <2> QED BY ONLY <1>6, <2>1, HeadOne
<1>8. p \in Seq(Byte) /\ s \in Seq(Seq(Byte)) /\ Flat(s) \in Seq(Byte)
  BY PacketShape, PacketsAreBytes
<1>9. more \o y = p \o Flat(s)
  <2>1. Flat(<<p>> \o s) = p \o Flat(s)
    BY <1>8, FlatFirst
  <2> QED BY <1>5, <1>7, <2>1
<1>10. more = p /\ more[1] = v
  <2>1. /\ p \in Packet(v) /\ Flat(s) \in Seq(Byte) /\ more \in Seq(Byte)
        /\ y \in Seq(Byte) /\ Announced(more)
    BY <1>8
  <2>2. more = p
    BY ONLY <1>9, <2>1, FirstPacket
  <2> QED BY <2>1, <2>2, PacketShape
<1>11. Append(out, more) \in Seq(P)
  BY <1>10, AppendProperties
<1>12. g \o Append(out, more) = Append(go, more)
  <2>1. g \in Seq(P) /\ out \in Seq(P) /\ more \in P
    BY <1>10
  <2> HIDE DEF P
  <2> QED BY <2>1, ConcatAppend DEF go
<1>13. q = (g \o Append(out, more)) \o s
  <2>0. more \in P
    BY <1>10
  <2> HIDE DEF P
  <2>1. Append(go, more) = go \o <<more>> /\ <<more>> \in Seq(P)
    BY <1>1, <2>0, AppendIsConcat
  <2>2. (go \o <<more>>) \o s = go \o (<<more>> \o s)
    BY <1>1, <2>1, Associative
  <2>3. q = go \o r
    BY DEF go
  <2> QED BY <1>7, <1>10, <1>12, <2>1, <2>2, <2>3
<1>14. Flat(g \o Append(out, more)) \o y = Flat(q)
  <2>1. Flat(Append(go, more)) = Flat(go) \o more
    BY <1>2, FlatAppend
  <2>2. (Flat(go) \o more) \o y = Flat(go) \o (more \o y)
    <3>1. Flat(go) \in Seq(Byte) /\ more \in Seq(Byte) /\ y \in Seq(Byte)
      BY <1>2
    <3> QED BY ONLY <3>1, Associative
  <2>3. Flat(q) = Flat(go) \o (more \o y)
    BY DEF go
  <2> QED BY <1>12, <2>1, <2>2, <2>3
<1> QED BY <1>10, <1>11, <1>13, <1>14 DEF Completion

(* What a round of push does keeps in step.                                *)
LEMMA RoundKeeps ==
    ASSUME NEW v, NEW g \in Seq(Packet(v)), NEW q, NEW z \in Seq(Byte),
           NEW h, NEW input, NEW out, input # <<>>,
           Steady(g, q, v, h, input, out, FALSE, z)
    PROVE  LET n == Least(Lacks(h), Len(input))
               more == h \o SubSeq(input, 1, n)
               rest == SubSeq(input, n + 1, Len(input))
           IN /\ Steady(g, q, v, more, input, out, TRUE, z)
              /\ ~Bad(more) /\ Len(more) >= Header /\ Lacks(more) = 0
                 => Steady(g, q, v, <<>>, rest, Append(out, more), FALSE, z)
              /\ ~Bad(more) /\ ~(Len(more) >= Header /\ Lacks(more) = 0)
                 => Steady(g, q, v, more, rest, out, FALSE, z)
              /\ Len(rest) < Len(input)
<1> DEFINE n == Least(Lacks(h), Len(input))
           front == SubSeq(input, 1, n)
           rest == SubSeq(input, n + 1, Len(input))
           more == h \o front
           y == rest \o z
<1>1. /\ h \in Seq(Byte) /\ input \in Seq(Byte) /\ out \in Seq(Packet(v))
      /\ out # <<>> => v = Version
      /\ Part(h)
      /\ Flat(g \o out) \o (h \o (input \o z)) = Flat(q)
  BY DEF Steady
<1>2. PICK r \in Seq(Packet(v)) : q = (g \o out) \o r
  BY DEF Steady
<1>3. /\ front \in Seq(Byte) /\ rest \in Seq(Byte) /\ more \in Seq(Byte)
      /\ input = front \o rest
      /\ Len(rest) < Len(input)
      /\ Len(more) >= Header => Len(more) <= Header + more[2]
  BY <1>1, PushTakes
<1> HIDE DEF n, front, rest, more
<1>5. y \in Seq(Byte)
  BY <1>3, ConcatProperties
<1> HIDE DEF y
<1>6. h \o (input \o z) = more \o y
  <2>1. (front \o rest) \o z = front \o (rest \o z)
    <3>1. front \in Seq(Byte) /\ rest \in Seq(Byte) /\ z \in Seq(Byte)
      BY <1>3
    <3> QED BY ONLY <3>1, Associative
  <2>2. (h \o front) \o y = h \o (front \o y)
    <3>1. h \in Seq(Byte) /\ front \in Seq(Byte) /\ y \in Seq(Byte)
      BY <1>1, <1>3, <1>5
    <3> QED BY ONLY <3>1, Associative
  <2> QED BY <1>3, <2>1, <2>2 DEF more, y
<1>7. Steady(g, q, v, more, input, out, TRUE, z)
  BY <1>1, <1>2, <1>3 DEF Steady
<1>8. ASSUME Len(more) >= Header
      PROVE  /\ Len(more) \in Nat /\ more[2] \in Nat
             /\ Lacks(more) = Header + more[2] - Len(more)
  <2>1. Len(more) \in Nat /\ 2 \in 1..Len(more)
    BY <1>3, <1>8, LenProperties DEF Header
  <2>2. more[2] \in Nat
    BY <1>3, <2>1, ElementOfSeq, WireAssumption
  <2>3. ~(Len(more) < Header)
    BY <1>8, <2>1 DEF Header
  <2> QED BY <2>1, <2>2, <2>3 DEF Lacks
<1>9. ASSUME ~Bad(more), Len(more) >= Header, Lacks(more) = 0
      PROVE  Steady(g, q, v, <<>>, rest, Append(out, more), FALSE, z)
  <2>1. Announced(more)
    BY <1>8, <1>9 DEF Announced, Header
  <2>2. /\ g \in Seq(Packet(v)) /\ out \in Seq(Packet(v)) /\ r \in Seq(Packet(v))
        /\ more \in Seq(Byte) /\ y \in Seq(Byte)
        /\ Flat(g \o out) \o (more \o y) = Flat(q)
    BY <1>1, <1>3, <1>5, <1>6
  <2>3. /\ more[1] = v /\ Append(out, more) \in Seq(Packet(v))
        /\ \E s \in Seq(Packet(v)) : q = (g \o Append(out, more)) \o s
        /\ Flat(g \o Append(out, more)) \o y = Flat(q)
    <3>1. Completing(v, g, out, r, q, more, y)
      BY <1>2, <2>1, <2>2 DEF Completing
    <3>2. Completion(v, g, out, q, more, y)
      BY ONLY <3>1, Completed
    <3> QED BY <3>2 DEF Completion
  <2>4. v = Version
    BY <1>9, <2>3 DEF Bad
  <2>5. Part(<<>>) /\ <<>> \in Seq(Byte)
    BY DEF Part, Header
  <2>6. <<>> \o y = y
    BY <1>5, ConcatEmptySeq
  <2> QED BY <1>3, <2>3, <2>4, <2>5, <2>6 DEF Steady, y
<1>10. ASSUME ~Bad(more), ~(Len(more) >= Header /\ Lacks(more) = 0)
       PROVE  Steady(g, q, v, more, rest, out, FALSE, z)
  <2>1. Part(more)
    <3>1. Len(more) \in Nat
      BY <1>3, LenProperties
    <3>2. CASE Len(more) < Header
      BY <1>3, <3>2 DEF Part
    <3>3. CASE Len(more) >= Header
      <4>1. Lacks(more) # 0
        BY <1>10, <3>3
      <4> QED BY <1>3, <1>8, <3>3, <4>1 DEF Part, Header
    <3> QED BY <3>1, <3>2, <3>3 DEF Header
  <2>2. Flat(g \o out) \o (more \o (rest \o z)) = Flat(q)
    BY <1>1, <1>6 DEF y
  <2> QED BY <1>1, <1>2, <1>3, <2>1, <2>2 DEF Steady
<1> QED BY <1>3, <1>7, <1>9, <1>10 DEF n, front, rest, more

(* A round of push keeps in step, and takes something.                      *)
LEMMA PushKeeps ==
    ASSUME NEW v, NEW g \in Seq(Packet(v)), NEW q, NEW d, NEW z \in Seq(Byte),
           InStep(g, q, v, d, z), ~d.bad, d.input # <<>>
    PROVE  /\ InStep(g, q, v, Push(d), z)
           /\ Push(d).bad \/ Len(Push(d).input) < Len(d.input)
<1>1. PICK h, input, out : \E bad \in BOOLEAN :
        /\ d = [held |-> h, input |-> input, out |-> out, bad |-> bad]
        /\ Steady(g, q, v, h, input, out, bad, z)
  BY DEF InStep
<1>2. /\ d = [held |-> h, input |-> input, out |-> out, bad |-> FALSE]
      /\ Steady(g, q, v, h, input, out, FALSE, z) /\ input # <<>>
  <2>1. PICK bad \in BOOLEAN :
          /\ d = [held |-> h, input |-> input, out |-> out, bad |-> bad]
          /\ Steady(g, q, v, h, input, out, bad, z)
    BY <1>1
  <2>2. d.bad = bad /\ d.input = input
    BY <2>1
  <2>3. bad = FALSE
    BY <2>2, Zenon
  <2> QED BY <2>1, <2>2, <2>3
<1> DEFINE n == Least(Lacks(h), Len(input))
           more == h \o SubSeq(input, 1, n)
           rest == SubSeq(input, n + 1, Len(input))
<1>3. /\ Steady(g, q, v, more, input, out, TRUE, z)
      /\ ~Bad(more) /\ Len(more) >= Header /\ Lacks(more) = 0
         => Steady(g, q, v, <<>>, rest, Append(out, more), FALSE, z)
      /\ ~Bad(more) /\ ~(Len(more) >= Header /\ Lacks(more) = 0)
         => Steady(g, q, v, more, rest, out, FALSE, z)
      /\ Len(rest) < Len(input)
  BY <1>2, RoundKeeps
<1>4. Push(d) = IF Bad(more) THEN [held |-> more, input |-> input, out |-> out, bad |-> TRUE]
                ELSE IF Len(more) >= Header /\ Lacks(more) = 0
                THEN [held |-> <<>>, input |-> rest, out |-> Append(out, more), bad |-> FALSE]
                ELSE [held |-> more, input |-> rest, out |-> out, bad |-> FALSE]
  <2>1. d.held = h /\ d.input = input /\ d.out = out
    BY <1>2
  <2>2. Push(d) = IF Bad(more) THEN [d EXCEPT !.bad = TRUE, !.held = more]
                  ELSE IF Len(more) >= Header /\ Lacks(more) = 0
                  THEN [d EXCEPT !.held = <<>>, !.input = rest, !.out = Append(@, more)]
                  ELSE [d EXCEPT !.held = more, !.input = rest]
    BY ONLY <2>1 DEF Push
  <2> HIDE DEF more, rest
  <2> QED BY <1>2, <2>2
<1> HIDE DEF n, more, rest
<1>5. CASE Bad(more)
  <2>1. Push(d) = [held |-> more, input |-> input, out |-> out, bad |-> TRUE]
    BY <1>4, <1>5
  <2>2. InStep(g, q, v, [held |-> more, input |-> input, out |-> out, bad |-> TRUE], z)
    BY <1>3, InStepOf
  <2> QED BY <2>1, <2>2
<1>6. CASE ~Bad(more) /\ Len(more) >= Header /\ Lacks(more) = 0
  <2>1. Push(d) = [held |-> <<>>, input |-> rest, out |-> Append(out, more), bad |-> FALSE]
    BY <1>4, <1>6
  <2>2. InStep(g, q, v, [held |-> <<>>, input |-> rest, out |-> Append(out, more),
                         bad |-> FALSE], z)
    BY <1>3, <1>6, InStepOf
  <2>3. Len(Push(d).input) < Len(d.input)
    BY <1>2, <1>3, <2>1
  <2> QED BY <2>1, <2>2, <2>3
<1>7. CASE ~Bad(more) /\ ~(Len(more) >= Header /\ Lacks(more) = 0)
  <2>1. Push(d) = [held |-> more, input |-> rest, out |-> out, bad |-> FALSE]
    BY <1>4, <1>7, Zenon
  <2>2. InStep(g, q, v, [held |-> more, input |-> rest, out |-> out, bad |-> FALSE], z)
    BY <1>3, <1>7, InStepOf
  <2>3. Len(Push(d).input) < Len(d.input)
    BY <1>2, <1>3, <2>1
  <2> QED BY <2>1, <2>2, <2>3
<1> QED BY <1>5, <1>6, <1>7

(* The rounds of push over what a read delivered.                           *)
Start(input) == [held |-> held, input |-> input, out |-> <<>>, bad |-> FALSE]
Round(d) == IF d.bad \/ d.input = <<>> THEN d ELSE Push(d)
IsDecoding(f, input, n) ==
    f = [k \in 0..n |-> IF k = 0 THEN Start(input) ELSE Round(f[k - 1])]

LEMMA DecodingExtends ==
    ASSUME NEW input, NEW f, NEW n \in Nat, IsDecoding(f, input, n)
    PROVE  \E g : IsDecoding(g, input, n + 1)
<1> DEFINE g == [k \in 0..(n + 1) |-> IF k = n + 1 THEN Round(f[n]) ELSE f[k]]
<1>1. \A k \in 0..n : f[k] = IF k = 0 THEN Start(input) ELSE Round(f[k - 1])
  BY DEF IsDecoding
<1>2. /\ g[n + 1] = Round(f[n])
      /\ \A k \in 0..n : g[k] = f[k]
  <2>1. n + 1 \in 0..(n + 1) /\ \A k \in 0..n : k \in 0..(n + 1) /\ k # n + 1
    OBVIOUS
  <2> QED BY <2>1, Zenon
<1>3. ASSUME NEW k \in 0..(n + 1)
      PROVE  g[k] = IF k = 0 THEN Start(input) ELSE Round(g[k - 1])
  <2>1. CASE k = n + 1
    <3>1. k - 1 = n /\ k # 0 /\ n \in 0..n
      BY <2>1
    <3> QED BY <1>2, <2>1, <3>1
  <2>2. CASE k # n + 1
    <3>1. k \in 0..n /\ (k # 0 => k - 1 \in 0..n)
      BY <2>2
    <3> QED BY <1>1, <1>2, <3>1
  <2> QED BY <2>1, <2>2
<1>4. g = [k \in 0..(n + 1) |-> g[k]]
  OBVIOUS
<1> HIDE DEF g
<1>5. IsDecoding(g, input, n + 1)
  BY <1>3, <1>4 DEF IsDecoding
<1> QED BY <1>5

LEMMA DecodingExists ==
    ASSUME NEW input, NEW n \in Nat
    PROVE  \E f : IsDecoding(f, input, n)
<1> DEFINE T == {k \in Nat : ~\E f : IsDecoding(f, input, k)}
<1> SUFFICES ASSUME T # {} PROVE FALSE
  OBVIOUS
<1>1. T \subseteq Nat
  OBVIOUS
<1> HIDE DEF T
<1>2. PICK k \in T : \A m \in T : k <= m
  BY <1>1, LeastExists
<1>3. k \in Nat /\ ~(\E f : IsDecoding(f, input, k))
  BY <1>2 DEF T
<1>4. IsDecoding([j \in 0..0 |-> Start(input)], input, 0)
  BY DEF IsDecoding
<1>5. k # 0
  BY <1>3, <1>4
<1>6. k - 1 \in Nat /\ ~(k <= k - 1) /\ (k - 1) + 1 = k
  BY <1>3, <1>5
<1>7. k - 1 \notin T
  BY <1>2, <1>6
<1>8. PICK f : IsDecoding(f, input, k - 1)
  BY <1>6, <1>7 DEF T
<1>9. \E g : IsDecoding(g, input, (k - 1) + 1)
  BY <1>6, <1>8, DecodingExtends
<1> QED BY <1>3, <1>6, <1>9

LEMMA DecodedIs ==
    ASSUME NEW input, Len(input) \in Nat
    PROVE  \E f : IsDecoding(f, input, Len(input)) /\ Decoded(input) = f[Len(input)]
<1> DEFINE n == Len(input)
           g == CHOOSE f : f = [k \in 0..Len(input) |->
                    IF k = 0 THEN [held |-> held, input |-> input, out |-> <<>>, bad |-> FALSE]
                    ELSE LET d == f[k - 1] IN IF d.bad \/ d.input = <<>> THEN d ELSE Push(d)]
<1>1. \E f : f = [k \in 0..Len(input) |->
                    IF k = 0 THEN [held |-> held, input |-> input, out |-> <<>>, bad |-> FALSE]
                    ELSE LET d == f[k - 1] IN IF d.bad \/ d.input = <<>> THEN d ELSE Push(d)]
  BY DecodingExists DEF IsDecoding, Start, Round
<1>2. g = [k \in 0..Len(input) |->
             IF k = 0 THEN [held |-> held, input |-> input, out |-> <<>>, bad |-> FALSE]
             ELSE LET d == g[k - 1] IN IF d.bad \/ d.input = <<>> THEN d ELSE Push(d)]
  BY <1>1
<1>3. Decoded(input) = g[Len(input)]
  BY DEF Decoded
<1> HIDE DEF g
<1>4. IsDecoding(g, input, Len(input))
  BY <1>2 DEF IsDecoding, Start, Round
<1> QED BY <1>3, <1>4

(* What a read delivers is decoded to its last byte, or to a bad packet.    *)
LEMMA DecodedKeeps ==
    ASSUME NEW v, NEW g \in Seq(Packet(v)), NEW q, NEW z \in Seq(Byte),
           NEW input \in Seq(Byte), InStep(g, q, v, Start(input), z)
    PROVE  /\ InStep(g, q, v, Decoded(input), z)
           /\ Decoded(input).bad \/ Decoded(input).input = <<>>
<1>1. Len(input) \in Nat
  BY LenProperties
<1>2. PICK f : IsDecoding(f, input, Len(input)) /\ Decoded(input) = f[Len(input)]
  BY <1>1, DecodedIs
<1> DEFINE n == Len(input)
           Fine(k) == /\ InStep(g, q, v, f[k], z)
                      /\ f[k].bad \/ Len(f[k].input) <= n - k
<1>3. \A k \in 0..n : f[k] = IF k = 0 THEN Start(input) ELSE Round(f[k - 1])
  BY <1>2 DEF IsDecoding
<1>4. \A d : InStep(g, q, v, d, z) => Len(d.input) \in Nat /\ d.input \in Seq(Byte)
  <2> SUFFICES ASSUME NEW d, InStep(g, q, v, d, z) PROVE Len(d.input) \in Nat /\ d.input \in Seq(Byte)
    OBVIOUS
  <2>1. PICK h, i, out : \E bad \in BOOLEAN :
          /\ d = [held |-> h, input |-> i, out |-> out, bad |-> bad]
          /\ Steady(g, q, v, h, i, out, bad, z)
    BY DEF InStep
  <2>2. d.input = i /\ i \in Seq(Byte)
    BY <2>1 DEF Steady
  <2> QED BY <2>2, LenProperties
<1>5. n \in Nat
  BY <1>1
<1> DEFINE T == {k \in 0..n : ~Fine(k)}
<1>6. CASE T = {}
  <2>1. Fine(n)
    BY <1>5, <1>6
  <2>2. f[n].bad \/ Len(f[n].input) <= 0
    BY <1>5, <2>1
  <2>3. f[n].bad \/ f[n].input = <<>>
    BY <1>4, <2>1, <2>2, EmptySeq
  <2> QED BY <1>2, <2>1, <2>3
<1>7. CASE T # {}
  <2>1. T \subseteq Nat
    BY <1>5
  <2> HIDE DEF T
  <2>2. PICK k \in T : \A m \in T : k <= m
    BY <1>7, <2>1, LeastExists
  <2>3. k \in 0..n /\ ~Fine(k)
    BY <2>2 DEF T
  <2>4. k # 0
    <3>1. f[0] = Start(input) /\ f[0].input = input
      <4>1. f[0] = Start(input)
        BY <1>3, <1>5
      <4>2. Start(input).input = input
        BY DEF Start
      <4> QED BY <4>1, <4>2
    <3>2. Fine(0)
      BY <1>5, <3>1
    <3> QED BY <2>3, <3>2
  <2>5. k - 1 \in 0..n /\ ~(k <= k - 1)
    BY <1>5, <2>3, <2>4
  <2>6. Fine(k - 1)
    BY <2>2, <2>5 DEF T
  <2> DEFINE d == f[k - 1]
  <2>7. f[k] = Round(d)
    BY <1>3, <2>3, <2>4
  <2>8. InStep(g, q, v, d, z) /\ (d.bad \/ Len(d.input) <= n - (k - 1))
    BY <2>6
  <2> HIDE DEF d, Fine
  <2>9. CASE d.bad
    <3>1. f[k] = d
      BY <2>7, <2>9 DEF Round
    <3>2. Fine(k)
      BY <2>8, <2>9, <3>1 DEF Fine
    <3> QED BY <2>3, <3>2
  <2>10. CASE ~d.bad /\ d.input = <<>>
    <3>1. f[k] = d
      BY <2>7, <2>10 DEF Round
    <3>2. Len(d.input) = 0
      BY <2>10
    <3>3. Len(f[k].input) <= n - k
      BY <1>5, <2>3, <3>1, <3>2
    <3>4. Fine(k)
      BY <2>8, <3>1, <3>3 DEF Fine
    <3> QED BY <2>3, <3>4
  <2>11. CASE ~d.bad /\ d.input # <<>>
    <3>1. f[k] = Push(d)
      BY <2>7, <2>11 DEF Round
    <3>2. /\ InStep(g, q, v, Push(d), z)
          /\ Push(d).bad \/ Len(Push(d).input) < Len(d.input)
      BY <2>8, <2>11, PushKeeps
    <3>3. Len(Push(d).input) \in Nat /\ Len(d.input) \in Nat
      BY <1>4, <2>8, <3>2
    <3>4. f[k].bad \/ Len(f[k].input) <= n - k
      BY <1>5, <2>3, <2>8, <2>11, <3>1, <3>2, <3>3
    <3>5. Fine(k)
      BY <3>1, <3>2, <3>4 DEF Fine
    <3> QED BY <2>3, <3>5
  <2> QED BY <2>9, <2>10, <2>11
<1> QED BY <1>6, <1>7

-----------------------------------------------------------------------------
(* The sender. *)

(* Two ways to cut one sequence at the same place have the same back.       *)
LEMMA SameCut ==
    ASSUME NEW S, NEW a, NEW b, NEW c, NEW d,
           a \in Seq(S), b \in Seq(S), c \in Seq(S), d \in Seq(S),
           a \o b = c \o d, Len(a) = Len(c)
    PROVE  b = d
<1>1. /\ Len(a) \in Nat /\ Len(b) \in Nat /\ Len(c) \in Nat /\ Len(d) \in Nat
      /\ Len(a \o b) = Len(a) + Len(b) /\ Len(c \o d) = Len(c) + Len(d)
      /\ \A i \in 1..Len(a) + Len(b) : (a \o b)[i] = IF i <= Len(a) THEN a[i] ELSE b[i - Len(a)]
      /\ \A i \in 1..Len(c) + Len(d) : (c \o d)[i] = IF i <= Len(c) THEN c[i] ELSE d[i - Len(c)]
  BY ConcatProperties, LenProperties
<1>2. Len(b) = Len(d)
  BY <1>1
<1>3. ASSUME NEW i \in 1..Len(b) PROVE b[i] = d[i]
  <2>1. /\ Len(a) + i \in 1..Len(a) + Len(b) /\ ~(Len(a) + i <= Len(a))
        /\ (Len(a) + i) - Len(a) = i
    BY <1>1
  <2> QED BY <1>1, <1>2, <2>1
<1> QED BY <1>2, <1>3, SeqEqual

(* A connection's output: whole packets, of the first of which offset bytes *)
(* are gone and of which bytes bytes are left.                              *)
Output(v, c) ==
    /\ c \in [output : Seq(Packet(v)), offset : Nat, bytes : Nat]
    /\ c.offset + c.bytes = Len(Flat(c.output))

LEMMA UnsentShape ==
    ASSUME NEW v, NEW c, Output(v, c)
    PROVE  /\ Unsent(c) \in Seq(Byte) /\ Len(Unsent(c)) = c.bytes
           /\ \E gone \in Seq(Byte) :
                Len(gone) = c.offset /\ Flat(c.output) = gone \o Unsent(c)
<1> DEFINE F == Flat(c.output)
           k == c.offset
<1>1. /\ F \in Seq(Byte) /\ Len(F) \in Nat /\ k \in Nat /\ c.bytes \in Nat
      /\ k + c.bytes = Len(F)
  <2>1. c.output \in Seq(Packet(v)) /\ c.offset \in Nat /\ c.bytes \in Nat
    BY DEF Output
  <2>2. F \in Seq(Byte)
    BY <2>1, PacketsAreBytes
  <2> QED BY <2>1, <2>2, LenProperties DEF Output
<1>2. Unsent(c) = SubSeq(F, k + 1, Len(F))
  BY DEF Unsent
<1> HIDE DEF F, k
<1>3. k \in 0..Len(F)
  BY <1>1
<1>4. /\ SubSeq(F, 1, k) \in Seq(Byte) /\ SubSeq(F, k + 1, Len(F)) \in Seq(Byte)
      /\ Len(SubSeq(F, 1, k)) = k /\ Len(SubSeq(F, k + 1, Len(F))) = Len(F) - k
      /\ F = SubSeq(F, 1, k) \o SubSeq(F, k + 1, Len(F))
  BY <1>1, <1>3, Cut
<1>5. Len(F) - k = c.bytes
  BY <1>1
<1> QED BY <1>2, <1>4, <1>5 DEF F, k

(* How many packets a flush completes is well defined.                      *)
LEMMA LeftExists ==
    ASSUME NEW v, NEW ps \in Seq(Packet(v)), NEW m \in Nat
    PROVE  \E k \in 0..Len(ps) :
               /\ Len(Flat(SubSeq(ps, 1, k))) <= m
               /\ k < Len(ps) => Len(Flat(SubSeq(ps, 1, k + 1))) > m
<1> DEFINE N == Len(ps)
           L(k) == Len(Flat(SubSeq(ps, 1, k)))
           T == {k \in 0..N : L(k) > m}
<1>1. N \in Nat
  BY LenProperties
<1>2. \A k \in 0..N : L(k) \in Nat
  <2> SUFFICES ASSUME NEW k \in 0..N PROVE L(k) \in Nat
    OBVIOUS
  <2>1. SubSeq(ps, 1, k) \in Seq(Packet(v))
    BY Cut
  <2>2. Flat(SubSeq(ps, 1, k)) \in Seq(Byte)
    BY <2>1, PacketsAreBytes
  <2> QED BY <2>2, LenProperties
<1>3. L(0) = 0
  <2>1. SubSeq(ps, 1, 0) = <<>>
    <3>1. SubSeq(ps, 1, 0) \in Seq(Packet(v)) /\ Len(SubSeq(ps, 1, 0)) = 0
      BY <1>1, Cut
    <3> QED BY <3>1, EmptySeq
  <2>2. Len(<<>>) = 0
    OBVIOUS
  <2> QED BY <2>1, <2>2, FlatNothing
<1> HIDE DEF L
<1>4. CASE T = {}
  <2>1. N \in 0..N /\ L(N) <= m /\ ~(N < N)
    BY <1>1, <1>2, <1>4
  <2> QED BY <2>1 DEF L
<1>5. CASE T # {}
  <2>1. T \subseteq Nat
    BY <1>1
  <2> HIDE DEF T
  <2>2. PICK k \in T : \A j \in T : k <= j
    BY <1>5, <2>1, LeastExists
  <2>3. k \in 0..N /\ L(k) > m
    BY <2>2 DEF T
  <2>4. k # 0
    BY <1>3, <2>3
  <2>5. k - 1 \in 0..N /\ ~(k <= k - 1) /\ k - 1 < N /\ (k - 1) + 1 = k
    BY <1>1, <2>3, <2>4
  <2>6. L(k - 1) <= m
    BY <1>2, <2>2, <2>5 DEF T
  <2> QED BY <2>3, <2>5, <2>6 DEF L
<1> QED BY <1>4, <1>5

(* A flush of n bytes takes the first n that are not sent.                  *)
LEMMA FlushedKeeps ==
    ASSUME NEW v, NEW c, Output(v, c), NEW n \in Nat, n <= c.bytes
    PROVE  /\ Output(v, Flushed(c, n))
           /\ SubSeq(Unsent(c), 1, n) \in Seq(Byte)
           /\ Unsent(c) = SubSeq(Unsent(c), 1, n) \o Unsent(Flushed(c, n))
<1> DEFINE ps == c.output
           m == c.offset + n
           left == CHOOSE k \in 0..Len(c.output) :
                    /\ Len(Flat(SubSeq(c.output, 1, k))) <= c.offset + n
                    /\ k < Len(c.output) =>
                         Len(Flat(SubSeq(c.output, 1, k + 1))) > c.offset + n
           gone == SubSeq(ps, 1, left)
           rest == SubSeq(ps, left + 1, Len(ps))
           d == [output |-> rest, offset |-> m - Len(Flat(gone)), bytes |-> c.bytes - n]
<1>1. /\ ps \in Seq(Packet(v)) /\ c.offset \in Nat /\ c.bytes \in Nat /\ m \in Nat
      /\ c.offset + c.bytes = Len(Flat(ps))
  BY DEF Output
<1>2. Flushed(c, n) = [output |-> rest, offset |-> c.offset + n - Len(Flat(gone)),
                       bytes |-> c.bytes - n]
  BY Zenon DEF Flushed
<1>3. left \in 0..Len(ps) /\ Len(Flat(gone)) <= m
  <2>1. \E k \in 0..Len(ps) :
               /\ Len(Flat(SubSeq(ps, 1, k))) <= m
               /\ k < Len(ps) => Len(Flat(SubSeq(ps, 1, k + 1))) > m
    BY <1>1, LeftExists
  <2> QED BY <2>1
<1> HIDE DEF left
<1>4. gone \in Seq(Packet(v)) /\ rest \in Seq(Packet(v)) /\ ps = gone \o rest
  BY <1>1, <1>3, Cut
<1> HIDE DEF gone, rest
<1>5. /\ gone \in Seq(Seq(Byte)) /\ Flat(gone) \in Seq(Byte)
      /\ rest \in Seq(Seq(Byte)) /\ Flat(rest) \in Seq(Byte)
      /\ ps \in Seq(Seq(Byte)) /\ Flat(ps) \in Seq(Byte)
  BY <1>1, <1>4, PacketsAreBytes
<1>6. Flat(ps) = Flat(gone) \o Flat(rest)
  BY <1>4, <1>5, FlatConcat
<1>7. /\ Len(Flat(gone)) \in Nat /\ Len(Flat(rest)) \in Nat
      /\ Len(Flat(ps)) = Len(Flat(gone)) + Len(Flat(rest))
  BY <1>5, <1>6, ConcatProperties, LenProperties
<1>8. Output(v, d)
  <2>1. m - Len(Flat(gone)) \in Nat /\ c.bytes - n \in Nat
    <3> DEFINE a == c.offset
               l == Len(Flat(gone))
               b == c.bytes
    <3>1. a \in Nat /\ b \in Nat /\ l \in Nat /\ l <= a + n /\ n <= b
      BY <1>1, <1>3, <1>7
    <3> HIDE DEF a, l, b
    <3>2. (a + n) - l \in Nat /\ b - n \in Nat
      BY <3>1
    <3> QED BY <3>2 DEF a, l, b
  <2>2. (m - Len(Flat(gone))) + (c.bytes - n) = Len(Flat(rest))
    <3> DEFINE a == c.offset
               l == Len(Flat(gone))
               b == c.bytes
               r == Len(Flat(rest))
    <3>1. /\ a \in Nat /\ b \in Nat /\ l \in Nat /\ r \in Nat /\ l <= a + n /\ n <= b
          /\ a + b = l + r
      BY <1>1, <1>3, <1>7
    <3> HIDE DEF a, l, b, r
    <3>2. ((a + n) - l) + (b - n) = r
      BY <3>1
    <3> QED BY <3>2 DEF a, l, b, r
  <2> QED BY <1>4, <2>1, <2>2 DEF Output
<1>9. PICK h \in Seq(Byte) : Len(h) = c.offset /\ Flat(ps) = h \o Unsent(c)
  BY UnsentShape
<1>10. /\ Unsent(d) \in Seq(Byte)
       /\ \E k \in Seq(Byte) : Len(k) = d.offset /\ Flat(d.output) = k \o Unsent(d)
  BY <1>8, UnsentShape
<1>11. PICK k \in Seq(Byte) : Len(k) = m - Len(Flat(gone)) /\ Flat(rest) = k \o Unsent(d)
  BY <1>10
<1> HIDE DEF d
<1> DEFINE U == Unsent(c)
           w == SubSeq(U, 1, n)
           t == SubSeq(U, n + 1, Len(U))
<1>12. /\ U \in Seq(Byte) /\ w \in Seq(Byte) /\ t \in Seq(Byte)
       /\ Len(w) = n /\ U = w \o t
  <2>1. U \in Seq(Byte) /\ Len(U) = c.bytes
    BY UnsentShape
  <2>2. n \in 0..Len(U)
    BY <1>1, <2>1
  <2> QED BY <2>1, <2>2, Cut
<1> HIDE DEF U, w, t
<1>13. (h \o w) \o t = (Flat(gone) \o k) \o Unsent(d)
  <2>1. (h \o w) \o t = h \o (w \o t)
    BY ONLY <1>9, <1>12, Associative
  <2>2. (Flat(gone) \o k) \o Unsent(d) = Flat(gone) \o (k \o Unsent(d))
    <3>1. Flat(gone) \in Seq(Byte) /\ k \in Seq(Byte) /\ Unsent(d) \in Seq(Byte)
      BY <1>5, <1>10
    <3> QED BY ONLY <3>1, Associative
  <2>3. Flat(ps) = h \o (w \o t)
    BY <1>9, <1>12 DEF U
  <2> QED BY <1>6, <1>11, <2>1, <2>2, <2>3
<1>14. t = Unsent(d)
  <2>1. /\ h \o w \in Seq(Byte) /\ Flat(gone) \o k \in Seq(Byte)
        /\ Len(h \o w) = c.offset + n /\ Len(Flat(gone) \o k) = Len(Flat(gone)) + Len(k)
    <3>1. Flat(gone) \in Seq(Byte) /\ k \in Seq(Byte) /\ h \in Seq(Byte) /\ w \in Seq(Byte)
      BY <1>5, <1>12
    <3>2. /\ h \o w \in Seq(Byte) /\ Flat(gone) \o k \in Seq(Byte)
          /\ Len(h \o w) = Len(h) + Len(w) /\ Len(Flat(gone) \o k) = Len(Flat(gone)) + Len(k)
      BY ONLY <3>1, ConcatProperties
    <3> QED BY <1>9, <1>12, <3>2
  <2>2. Len(h \o w) = Len(Flat(gone) \o k)
    BY <1>1, <1>7, <1>11, <2>1
  <2> QED BY <1>10, <1>12, <1>13, <2>1, <2>2, SameCut
<1>15. Flushed(c, n) = d
  <2>1. c.offset + n - Len(Flat(gone)) = m - Len(Flat(gone))
    BY <1>1, <1>7
  <2> QED BY <1>2, <2>1 DEF d
<1> QED BY <1>8, <1>12, <1>14, <1>15 DEF U, w

-----------------------------------------------------------------------------
(* The invariant of the connection. *)

V == route.version

(* Where every byte of a connection is, the oldest first.                   *)
Line == Flat(got) \o held \o far \o mid \o near \o Outgoing

(* Nothing has been lost on the way.                                        *)
Kept == bridge \in {"none", "up"} \/ (route.down /\ bridge = "ended")

Types ==
    /\ QueueInv
    /\ route \in [down : BOOLEAN, ssh : BOOLEAN, version : {1, 2}]
    /\ Output(V, conn)
    /\ near \in Seq(Byte) /\ mid \in Seq(Byte) /\ far \in Seq(Byte) /\ held \in Seq(Byte)
    /\ queued \in Seq(Packet(V)) /\ got \in Seq(Packet(V))
    /\ bridge \in {"none", "up", "ended", "failed"}
    /\ route.ssh <=> bridge # "none"
    /\ ~route.ssh => far = <<>> /\ mid = <<>>
    /\ got # <<>> => V = Version
    /\ receiver = "up" => Part(held)

Delivered == \E r \in Seq(Packet(V)) : queued = got \o r
Conserved == Kept /\ receiver # "failed" => Line = Flat(queued)

(* Over a bridge some bytes may be lost: those that no end can see.         *)
Passed == route.ssh /\ receiver # "failed" =>
              \E lost \in Seq(Byte) : Flat(got) \o (held \o (far \o lost)) = Flat(queued)

WireInv == Types /\ Delivered /\ Conserved /\ Passed

(* Everything that is on its way is bytes.                                  *)
LEMMA PartsAreBytes ==
    ASSUME Types
    PROVE  /\ Flat(got) \in Seq(Byte) /\ held \in Seq(Byte) /\ far \in Seq(Byte)
           /\ mid \in Seq(Byte) /\ near \in Seq(Byte) /\ Outgoing \in Seq(Byte)
<1>1. got \in Seq(Packet(V)) /\ QueueInv /\ Output(V, conn)
  BY DEF Types
<1>2. Pending \in Seq(Byte)
  BY <1>1, PendingShape DEF QueueInv
<1>3. Unsent(conn) \in Seq(Byte)
  BY <1>1, UnsentShape
<1>4. Outgoing \in Seq(Byte)
  BY <1>2, <1>3 DEF Outgoing
<1> QED BY <1>1, <1>4, PacketsAreBytes DEF Types

(* The line as its first parts and what follows them.                       *)
Behind == mid \o (near \o Outgoing)

LEMMA LineIs ==
    ASSUME Types
    PROVE  /\ Behind \in Seq(Byte)
           /\ Line = Flat(got) \o (held \o (far \o Behind))
<1> DEFINE a == Flat(got)
           b == a \o held
           c == b \o far
           e == c \o mid
           f == near \o Outgoing
           g == mid \o f
           h == far \o g
<1>1. /\ a \in Seq(Byte) /\ held \in Seq(Byte) /\ far \in Seq(Byte)
      /\ mid \in Seq(Byte) /\ near \in Seq(Byte) /\ Outgoing \in Seq(Byte)
  BY PartsAreBytes
<1>2. Line = (e \o near) \o Outgoing /\ Behind = g
  BY DEF Line, Behind
<1> HIDE DEF a
<1>3. b \in Seq(Byte) /\ f \in Seq(Byte)
  BY ONLY <1>1, ConcatProperties
<1> HIDE DEF f, b
<1>4. c \in Seq(Byte) /\ g \in Seq(Byte)
  BY ONLY <1>1, <1>3, ConcatProperties
<1> HIDE DEF c, g
<1>5. e \in Seq(Byte) /\ h \in Seq(Byte)
  BY ONLY <1>1, <1>4, ConcatProperties
<1> HIDE DEF e, h
<1>6. (e \o near) \o Outgoing = e \o f
  <2>1. e \in Seq(Byte) /\ near \in Seq(Byte) /\ Outgoing \in Seq(Byte)
    BY <1>1, <1>5
  <2> QED BY ONLY <2>1, Associative DEF f
<1>7. e \o f = c \o g
  <2>1. c \in Seq(Byte) /\ mid \in Seq(Byte) /\ f \in Seq(Byte)
    BY <1>1, <1>3, <1>4
  <2> QED BY ONLY <2>1, Associative DEF e, g
<1>8. c \o g = b \o h
  <2>1. b \in Seq(Byte) /\ far \in Seq(Byte) /\ g \in Seq(Byte)
    BY <1>1, <1>3, <1>4
  <2> QED BY ONLY <2>1, Associative DEF c, h
<1>9. b \o h = a \o (held \o h)
  <2>1. a \in Seq(Byte) /\ held \in Seq(Byte) /\ h \in Seq(Byte)
    BY <1>1, <1>5
  <2> QED BY ONLY <2>1, Associative DEF b
<1> QED BY <1>2, <1>4, <1>6, <1>7, <1>8, <1>9 DEF a, h

(* A line that is kept is also one of which nothing visible is lost.        *)
LEMMA KeptIsPassed ==
    ASSUME Types, Conserved, Kept
    PROVE  Passed
BY LineIs DEF Conserved, Passed

-----------------------------------------------------------------------------
(* Reading. *)

(* What a read of the first n bytes of box does, z being what is behind.    *)
Receipt(d, rest, z) ==
    /\ d.held \in Seq(Byte) /\ d.out \in Seq(Packet(V))
    /\ \E r \in Seq(Packet(V)) : queued = (got \o d.out) \o r
    /\ d.out # <<>> => V = Version
    /\ ~d.bad => /\ Part(d.held)
                 /\ Flat(got \o d.out) \o (d.held \o (rest \o z)) = Flat(queued)

LEMMA StartIsInStep ==
    ASSUME Types, Delivered, Part(held), NEW input \in Seq(Byte), NEW z \in Seq(Byte),
           Flat(got) \o (held \o (input \o z)) = Flat(queued)
    PROVE  InStep(got, queued, V, Start(input), z)
<1>1. held \in Seq(Byte) /\ got \in Seq(Packet(V)) /\ <<>> \in Seq(Packet(V))
  BY DEF Types
<1>2. got \o <<>> = got
  BY <1>1, ConcatEmptySeq
<1>3. Steady(got, queued, V, held, input, <<>>, FALSE, z)
  BY <1>1, <1>2 DEF Steady, Delivered
<1> QED BY <1>3, InStepOf DEF Start

LEMMA InStepGives ==
    ASSUME NEW d, NEW z \in Seq(Byte), InStep(got, queued, V, d, z)
    PROVE  /\ d.held \in Seq(Byte) /\ d.out \in Seq(Packet(V))
           /\ \E r \in Seq(Packet(V)) : queued = (got \o d.out) \o r
           /\ d.out # <<>> => V = Version
           /\ ~d.bad => /\ Part(d.held)
                        /\ Flat(got \o d.out) \o (d.held \o (d.input \o z)) = Flat(queued)
<1>1. PICK h, input, out : \E bad \in BOOLEAN :
        /\ d = [held |-> h, input |-> input, out |-> out, bad |-> bad]
        /\ Steady(got, queued, V, h, input, out, bad, z)
  BY DEF InStep
<1>2. PICK bad \in BOOLEAN :
        /\ d = [held |-> h, input |-> input, out |-> out, bad |-> bad]
        /\ Steady(got, queued, V, h, input, out, bad, z)
  BY <1>1
<1>3. d.held = h /\ d.input = input /\ d.out = out /\ d.bad = bad
  BY <1>2
<1> QED BY <1>2, <1>3 DEF Steady

LEMMA ReadReceives ==
    ASSUME Types, Delivered, Part(held), NEW box \in Seq(Byte), NEW n \in 1..Len(box),
           NEW z \in Seq(Byte), Flat(got) \o (held \o (box \o z)) = Flat(queued)
    PROVE  Receipt(Decoded(SubSeq(box, 1, n)), SubSeq(box, n + 1, Len(box)), z)
<1> DEFINE input == SubSeq(box, 1, n)
           rest == SubSeq(box, n + 1, Len(box))
           d == Decoded(input)
<1>1. n \in 0..Len(box)
  BY LenProperties
<1>2. input \in Seq(Byte) /\ rest \in Seq(Byte) /\ box = input \o rest
  BY <1>1, Cut
<1> HIDE DEF input, rest
<1>3. rest \o z \in Seq(Byte)
  BY <1>2, ConcatProperties
<1>4. box \o z = input \o (rest \o z)
  BY ONLY <1>2, z \in Seq(Byte), Associative
<1>5. Flat(got) \o (held \o (input \o (rest \o z))) = Flat(queued)
  BY <1>4
<1>6. InStep(got, queued, V, Start(input), rest \o z)
  BY <1>2, <1>3, <1>5, StartIsInStep
<1>7. InStep(got, queued, V, d, rest \o z) /\ (d.bad \/ d.input = <<>>)
  <2>1. got \in Seq(Packet(V))
    BY DEF Types
  <2> HIDE DEF d
  <2>2. /\ InStep(got, queued, V, Decoded(input), rest \o z)
        /\ Decoded(input).bad \/ Decoded(input).input = <<>>
    BY <1>2, <1>3, <1>6, <2>1, DecodedKeeps
  <2> QED BY <2>2 DEF d
<1>8. /\ d.held \in Seq(Byte) /\ d.out \in Seq(Packet(V))
      /\ \E r \in Seq(Packet(V)) : queued = (got \o d.out) \o r
      /\ d.out # <<>> => V = Version
      /\ ~d.bad => /\ Part(d.held)
                   /\ Flat(got \o d.out) \o (d.held \o (d.input \o (rest \o z))) = Flat(queued)
  BY <1>3, <1>7, InStepGives
<1>9. <<>> \o (rest \o z) = rest \o z
  BY <1>3, ConcatEmptySeq
<1> HIDE DEF d
<1>10. Receipt(d, rest, z)
  BY <1>7, <1>8, <1>9 DEF Receipt
<1> QED BY <1>10 DEF d, input, rest

-----------------------------------------------------------------------------
(* Sending. *)

LEMMA EncodeIsPacket ==
    ASSUME Types, NEW body \in Body
    PROVE  Encode(body) \in Packet(V) /\ Encode(body) \in Seq(Byte)
<1>1. PICK n \in 0..MaxPayload : body \in [1..n -> {0, Version}]
  BY DEF Body
<1>2. V \in {1, 2}
  BY DEF Types, V
<1>3. 0..2 \subseteq Byte /\ 0..MaxPayload \subseteq Byte /\ MaxPayload \in Nat
  BY WireAssumption
<1>4. n \in Nat /\ n \in Byte /\ V \in Byte /\ {0, Version} \subseteq Byte
  BY <1>2, <1>3 DEF Version
<1>5. body \in Seq(Byte) /\ Len(body) = n
  BY <1>1, <1>4
<1> DEFINE h == <<V, n>>
<1>6. h \in Seq(Byte) /\ Len(h) = 2 /\ h[1] = V /\ h[2] = n
  BY <1>4
<1> HIDE DEF h
<1>7. Encode(body) = h \o body
  BY <1>5 DEF Encode, V, h
<1>8. /\ h \o body \in Seq(Byte) /\ Len(h \o body) = 2 + n
      /\ (h \o body)[1] = V /\ (h \o body)[2] = n
  <2>1. /\ h \o body \in Seq(Byte) /\ Len(h \o body) = Len(h) + Len(body)
        /\ \A i \in 1..Len(h) + Len(body) :
             (h \o body)[i] = IF i <= Len(h) THEN h[i] ELSE body[i - Len(h)]
    BY ONLY <1>5, <1>6, ConcatProperties
  <2> QED BY <1>4, <1>5, <1>6, <2>1
<1> QED BY <1>1, <1>7, <1>8 DEF Packet, Header

(* Bytes leave the sender and a packet may join those it holds: everything  *)
(* that has to do with the order of the line is in the equation.            *)
LEMMA OutgoingIsBytes == Types => Outgoing \in Seq(Byte)
BY PartsAreBytes

LEMMA SendKeeps ==
    ASSUME WireInv, Types', UNCHANGED <<route, mid, far, held, bridge, receiver, got>>,
           NEW w \in Seq(Byte), NEW extra \in Seq(Byte),
           near' = near \o w, Outgoing \o extra = w \o Outgoing',
           Flat(queued') = Flat(queued) \o extra, Delivered'
    PROVE  WireInv'
<1> DEFINE Y == Flat(got) \o held \o far \o mid
           O == Outgoing
           P == Outgoing'
           F == Flat(queued)
<1>1. /\ Flat(got) \in Seq(Byte) /\ held \in Seq(Byte) /\ far \in Seq(Byte)
      /\ mid \in Seq(Byte) /\ near \in Seq(Byte) /\ O \in Seq(Byte)
  BY PartsAreBytes DEF WireInv
<1>2. P \in Seq(Byte)
  <2>1. (Outgoing \in Seq(Byte))'
    BY OutgoingIsBytes, PTL
  <2> QED BY <2>1
<1>3. Y \in Seq(Byte)
  <2>1. Flat(got) \o held \in Seq(Byte)
    BY <1>1, ConcatProperties
  <2>2. Flat(got) \o held \o far \in Seq(Byte)
    BY ONLY <1>1, <2>1, ConcatProperties
  <2> QED BY ONLY <1>1, <2>2, ConcatProperties
<1>4. Line = (Y \o near) \o O /\ Line' = (Y \o (near \o w)) \o P
  BY DEF Line
<1> HIDE DEF Y, O, P, F
<1>5. Line' = Line \o extra
  <2>1. Y \in Seq(Byte) /\ near \in Seq(Byte) /\ w \in Seq(Byte) /\ P \in Seq(Byte)
    BY <1>1, <1>2, <1>3
  <2>2. (Y \o near) \o (w \o P) = (Y \o (near \o w)) \o P
    <3>1. Shifted(Y, near, w, P)
      BY ONLY <2>1, Shift
    <3> QED BY <3>1 DEF Shifted
  <2>3. Y \o near \in Seq(Byte) /\ O \in Seq(Byte) /\ extra \in Seq(Byte)
    BY <1>1, <2>1, ConcatProperties
  <2>4. ((Y \o near) \o O) \o extra = (Y \o near) \o (O \o extra)
    BY ONLY <2>3, BytesAssociate
  <2>5. O \o extra = w \o P
    BY DEF O, P
  <2> QED BY <1>4, <2>2, <2>4, <2>5
<1>6. Conserved'
  <2>1. Kept' = Kept
    BY DEF Kept
  <2> QED BY <1>5, <2>1 DEF WireInv, Conserved
<1>7. Passed'
  <2> SUFFICES ASSUME route.ssh, receiver # "failed"
               PROVE  \E lost \in Seq(Byte) :
                        Flat(got) \o (held \o (far \o lost)) = Flat(queued')
    BY DEF Passed
  <2>1. PICK lost \in Seq(Byte) : Flat(got) \o (held \o (far \o lost)) = Flat(queued)
    BY DEF WireInv, Passed
  <2> DEFINE a == Flat(got)
             b == far \o lost
             c == held \o b
  <2>2. a \in Seq(Byte) /\ b \in Seq(Byte)
    BY <1>1, ConcatProperties
  <2>3. b \o extra = far \o (lost \o extra)
    <3>1. far \in Seq(Byte) /\ lost \in Seq(Byte) /\ extra \in Seq(Byte)
      BY <1>1
    <3> QED BY ONLY <3>1, BytesAssociate
  <2> HIDE DEF a, b
  <2>4. c \in Seq(Byte)
    BY ONLY <1>1, <2>2, ConcatProperties
  <2>5. c \o extra = held \o (b \o extra)
    <3>1. held \in Seq(Byte) /\ b \in Seq(Byte) /\ extra \in Seq(Byte)
      BY <1>1, <2>2
    <3> QED BY ONLY <3>1, BytesAssociate DEF b
  <2> HIDE DEF c
  <2>6. (a \o c) \o extra = a \o (c \o extra)
    <3>1. a \in Seq(Byte) /\ c \in Seq(Byte) /\ extra \in Seq(Byte)
      BY <2>2, <2>4
    <3> QED BY ONLY <3>1, BytesAssociate
  <2>7. a \o c = Flat(queued)
    BY <2>1 DEF a, b, c
  <2>8. a \o (held \o (far \o (lost \o extra))) = Flat(queued')
    BY <2>3, <2>5, <2>6, <2>7
  <2>9. lost \o extra \in Seq(Byte)
    BY ConcatProperties
  <2> QED BY <2>8, <2>9 DEF a
<1> QED BY <1>6, <1>7 DEF WireInv

(* A packet more is owed and the ones handed out are still the first.       *)
LEMMA PacketIsQueued ==
    ASSUME Types, Delivered, NEW p \in Packet(V),
           queued' = Append(queued, p), got' = got, route' = route
    PROVE  /\ Delivered' /\ Flat(queued') = Flat(queued) \o p
           /\ queued' \in Seq(Packet(V))
<1>1. /\ queued \in Seq(Packet(V)) /\ got \in Seq(Packet(V))
      /\ queued \in Seq(Seq(Byte)) /\ p \in Seq(Byte)
  BY PacketsAreBytes, PacketShape DEF Types
<1>2. PICK r \in Seq(Packet(V)) : queued = got \o r
  BY DEF Delivered
<1>3. Append(r, p) \in Seq(Packet(V)) /\ queued' = got \o Append(r, p)
  <2>1. got \o Append(r, p) = Append(got \o r, p)
    BY <1>1, ConcatAppend
  <2> QED BY <1>2, <2>1, AppendProperties
<1>4. V' = V
  BY DEF V
<1>5. Flat(Append(queued, p)) = Flat(queued) \o p
  BY <1>1, FlatAppend
<1>6. queued' \in Seq(Packet(V))
  BY <1>1, AppendProperties
<1>7. Delivered'
  <2>1. queued' = got' \o Append(r, p)
    BY <1>3
  <2> QED BY <1>3, <1>4, <2>1 DEF Delivered
<1> QED BY <1>5, <1>6, <1>7

LEMMA OutgoingStays ==
    ASSUME UNCHANGED <<bytes, sent, route, conn>>
    PROVE  Outgoing' = Outgoing
BY DEF Outgoing, Pending, Unsent

LEMMA QueueStays ==
    ASSUME QueueInv, UNCHANGED queueVars
    PROVE  QueueInv'
BY QueueInductive

(* An end that stops changes nothing of what is on its way.                 *)
LEMMA StayKeeps ==
    ASSUME WireInv, UNCHANGED <<queueVars, route, conn, chain, held, bridge, queued, got>>,
           receiver' = receiver \/ (receiver = "up" /\ receiver' # "up")
    PROVE  WireInv'
<1>1. /\ UNCHANGED <<bytes, sent, route, conn>>
      /\ near' = near /\ mid' = mid /\ far' = far /\ V' = V
  BY DEF queueVars, chain, V
<1>2. Outgoing' = Outgoing
  BY <1>1, OutgoingStays
<1>3. Line' = Line /\ Kept' = Kept
  BY <1>1, <1>2 DEF Line, Kept
<1>4. Types'
  <2>1. QueueInv'
    BY QueueStays DEF WireInv, Types
  <2>2. receiver' = "up" => receiver = "up"
    OBVIOUS
  <2>3. Output(V, conn)'
    BY <1>1 DEF WireInv, Types, Output
  <2> QED BY <1>1, <2>1, <2>2, <2>3 DEF WireInv, Types
<1>5. Delivered'
  BY <1>1 DEF WireInv, Delivered
<1>6. receiver' # "failed" => receiver # "failed"
  OBVIOUS
<1>7. Conserved'
  BY <1>3, <1>6 DEF WireInv, Conserved
<1>8. Passed'
  BY <1>1, <1>6 DEF WireInv, Passed
<1> QED BY <1>4, <1>5, <1>7, <1>8 DEF WireInv

-----------------------------------------------------------------------------
(* The bridge. *)

(* What the bridge takes from one side it has for the other.                *)
LEMMA TakeKeeps ==
    ASSUME WireInv, NEW n \in 0..Len(near), Take(n), bridge # "none",
           UNCHANGED <<queueVars, route, conn, far, held, ends, queued, got>>
    PROVE  WireInv'
<1> DEFINE w == SubSeq(near, 1, n)
           t == SubSeq(near, n + 1, Len(near))
           Y == Flat(got) \o held \o far
           O == Outgoing
<1>1. /\ Flat(got) \in Seq(Byte) /\ held \in Seq(Byte) /\ far \in Seq(Byte)
      /\ mid \in Seq(Byte) /\ near \in Seq(Byte) /\ O \in Seq(Byte)
  BY PartsAreBytes DEF WireInv
<1>2. w \in Seq(Byte) /\ t \in Seq(Byte) /\ near = w \o t
  BY <1>1, Cut
<1>3. /\ UNCHANGED <<bytes, sent, route, conn>> /\ V' = V
      /\ near' = t /\ mid' = mid \o w
      /\ bridge' = bridge /\ receiver' = receiver
  BY DEF queueVars, ends, Take, V
<1>4. O' = O
  BY <1>3, OutgoingStays
<1>5. Line = ((Y \o mid) \o near) \o O /\ Line' = ((Y \o (mid \o w)) \o t) \o O
  BY <1>3, <1>4 DEF Line
<1>6. Y \in Seq(Byte)
  <2>1. Flat(got) \o held \in Seq(Byte)
    BY <1>1, ConcatProperties
  <2> QED BY ONLY <1>1, <2>1, ConcatProperties
<1> HIDE DEF w, t, Y, O
<1>7. Line' = Line
  <2>1. Y \in Seq(Byte) /\ mid \in Seq(Byte) /\ w \in Seq(Byte) /\ t \in Seq(Byte)
    BY <1>1, <1>2, <1>6
  <2>2. Shifted(Y, mid, w, t)
    BY ONLY <2>1, Shift
  <2>3. (Y \o (mid \o w)) \o t = (Y \o mid) \o near
    BY <1>2, <2>2 DEF Shifted
  <2> QED BY <1>5, <2>3
<1>8. Types'
  <2>1. QueueInv'
    BY QueueStays DEF WireInv, Types
  <2>2. Output(V, conn)'
    BY <1>3 DEF WireInv, Types, Output
  <2>3. mid \o w \in Seq(Byte)
    BY <1>1, <1>2, ConcatProperties
  <2>4. route.ssh
    BY DEF WireInv, Types
  <2> QED BY <1>2, <1>3, <2>1, <2>2, <2>3, <2>4 DEF WireInv, Types
<1>9. Delivered'
  BY <1>3 DEF WireInv, Delivered
<1>10. Conserved'
  BY <1>3, <1>7 DEF WireInv, Conserved, Kept
<1>11. Passed'
  BY <1>3 DEF WireInv, Passed
<1> QED BY <1>8, <1>9, <1>10, <1>11 DEF WireInv

(* What it writes has left it.                                              *)
LEMMA WriteKeeps ==
    ASSUME WireInv, NEW n \in 0..Len(mid), bridge = "up",
           far' = far \o SubSeq(mid, 1, n), mid' = SubSeq(mid, n + 1, Len(mid)),
           UNCHANGED <<queueVars, route, conn, near, held, ends, queued, got>>
    PROVE  WireInv'
<1> DEFINE w == SubSeq(mid, 1, n)
           t == SubSeq(mid, n + 1, Len(mid))
           Y == Flat(got) \o held
           O == Outgoing
<1>1. /\ Flat(got) \in Seq(Byte) /\ held \in Seq(Byte) /\ far \in Seq(Byte)
      /\ mid \in Seq(Byte) /\ near \in Seq(Byte) /\ O \in Seq(Byte)
  BY PartsAreBytes DEF WireInv
<1>2. w \in Seq(Byte) /\ t \in Seq(Byte) /\ mid = w \o t
  BY <1>1, Cut
<1>3. /\ UNCHANGED <<bytes, sent, route, conn>> /\ V' = V
      /\ far' = far \o w /\ mid' = t
      /\ bridge' = bridge /\ receiver' = receiver
  BY DEF queueVars, ends, V
<1>4. O' = O
  BY <1>3, OutgoingStays
<1>5. Line = (((Y \o far) \o mid) \o near) \o O /\ Line' = (((Y \o (far \o w)) \o t) \o near) \o O
  BY <1>3, <1>4 DEF Line
<1>6. Y \in Seq(Byte)
  BY <1>1, ConcatProperties
<1> HIDE DEF w, t, Y, O
<1>7. Line' = Line
  <2>1. Y \in Seq(Byte) /\ far \in Seq(Byte) /\ w \in Seq(Byte) /\ t \in Seq(Byte)
    BY <1>1, <1>2, <1>6
  <2>2. Shifted(Y, far, w, t)
    BY ONLY <2>1, Shift
  <2>3. (Y \o (far \o w)) \o t = (Y \o far) \o mid
    BY <1>2, <2>2 DEF Shifted
  <2> QED BY <1>5, <2>3
<1>8. Types'
  <2>1. QueueInv'
    BY QueueStays DEF WireInv, Types
  <2>2. Output(V, conn)'
    BY <1>3 DEF WireInv, Types, Output
  <2>3. far \o w \in Seq(Byte)
    BY <1>1, <1>2, ConcatProperties
  <2>4. route.ssh
    BY DEF WireInv, Types
  <2> QED BY <1>2, <1>3, <2>1, <2>2, <2>3, <2>4 DEF WireInv, Types
<1>9. Delivered'
  BY <1>3 DEF WireInv, Delivered
<1>10. Conserved'
  BY <1>3, <1>7 DEF WireInv, Conserved, Kept
<1>11. Passed'
  <2>1. (Types /\ Conserved /\ Kept => Passed)'
    BY KeptIsPassed, PTL
  <2>2. Kept'
    BY <1>3 DEF Kept
  <2> QED BY <1>8, <1>10, <2>1, <2>2
<1> QED BY <1>8, <1>9, <1>10, <1>11 DEF WireInv

(* A bridge that stops drops what it holds, which is nothing when it stops  *)
(* at the end of a stream from the service.                                 *)
LEMMA StopKeeps ==
    ASSUME WireInv, bridge # "none", bridge' \in {"ended", "failed"},
           near' \in {near, <<>>}, mid' = <<>>,
           bridge' = "ended" => /\ near' = near
                                /\ mid = <<>> \/ ~route.down,
           UNCHANGED <<queueVars, route, conn, far, held, sender, receiver, queued, got>>,
           bridge = "up"
    PROVE  WireInv'
<1>1. UNCHANGED <<bytes, sent, route, conn>> /\ V' = V
  BY DEF queueVars, V
<1>2. Outgoing' = Outgoing
  BY <1>1, OutgoingStays
<1>3. Types'
  <2>1. QueueInv'
    BY QueueStays DEF WireInv, Types
  <2>2. Output(V, conn)'
    BY <1>1 DEF WireInv, Types, Output
  <2>3. <<>> \in Seq(Byte) /\ bridge' # "none"
    OBVIOUS
  <2>4. route.ssh
    BY DEF WireInv, Types
  <2>5. near' \in Seq(Byte) /\ mid' \in Seq(Byte)
    BY <2>3 DEF WireInv, Types
  <2> QED BY <1>1, <2>1, <2>2, <2>3, <2>4, <2>5 DEF WireInv, Types
<1>4. Delivered'
  BY <1>1 DEF WireInv, Delivered
<1>5. Conserved'
  <2> SUFFICES ASSUME Kept', receiver' # "failed" PROVE Line' = Flat(queued)'
    BY DEF Conserved
  <2>1. route.down /\ bridge' = "ended"
    BY <1>1 DEF Kept
  <2>2. near' = near /\ mid' = mid
    BY <2>1
  <2>3. Line' = Line
    BY <1>2, <2>2 DEF Line
  <2> QED BY <2>3 DEF WireInv, Conserved, Kept
<1>6. Passed'
  BY <1>1 DEF WireInv, Passed
<1> QED BY <1>3, <1>4, <1>5, <1>6 DEF WireInv

-----------------------------------------------------------------------------
(* Receiving. *)

(* What a read took is in the decoder's hand or handed out.                 *)
LEMMA ReceiveKeeps ==
    ASSUME WireInv, NEW n \in 1..Len(Inbox), Receive(n)
    PROVE  WireInv'
<1> DEFINE box == Inbox
           input == SubSeq(box, 1, n)
           rest == SubSeq(box, n + 1, Len(box))
           d == Decoded(input)
           O == Outgoing
<1>1. /\ receiver = "up" /\ TakeIn(n) /\ (WindowReads(n) \/ ServiceReads(n))
      /\ UNCHANGED <<queueVars, route, conn, mid, sender, bridge, queued>>
  BY DEF Receive
<1>2. /\ Flat(got) \in Seq(Byte) /\ held \in Seq(Byte) /\ far \in Seq(Byte)
      /\ mid \in Seq(Byte) /\ near \in Seq(Byte) /\ O \in Seq(Byte) /\ Behind \in Seq(Byte)
      /\ Line = Flat(got) \o (held \o (far \o Behind))
  BY PartsAreBytes, LineIs DEF WireInv
<1>3. box \in Seq(Byte) /\ n \in 0..Len(box) /\ n \in 1..Len(box)
  <2>1. box \in Seq(Byte)
    BY <1>2 DEF Inbox
  <2> QED BY <2>1, LenProperties
<1>4. input \in Seq(Byte) /\ rest \in Seq(Byte) /\ box = input \o rest
  BY <1>3, Cut
<1>5. Part(held) /\ Types /\ Delivered
  BY <1>1 DEF WireInv, Types
<1>6. UNCHANGED <<bytes, sent, route, conn>> /\ V' = V /\ O' = O
  BY <1>1, OutgoingStays DEF queueVars, V
<1> HIDE DEF box, rest
<1>7. ASSUME NEW z \in Seq(Byte), Flat(got) \o (held \o (box \o z)) = Flat(queued)
      PROVE  Receipt(d, rest, z)
  BY <1>3, <1>5, <1>7, ReadReceives DEF rest
<1> HIDE DEF input, d, O
<1>8. /\ far' = IF route.ssh THEN rest ELSE far
      /\ near' = IF route.ssh THEN near ELSE rest
      /\ box = IF route.ssh THEN far ELSE near
  BY <1>1 DEF TakeIn, Inbox, box, rest
<1>9. \E z \in Seq(Byte) : Flat(got) \o (held \o (box \o z)) = Flat(queued)
  <2>1. CASE route.ssh
    <3>1. PICK z \in Seq(Byte) : Flat(got) \o (held \o (far \o z)) = Flat(queued)
      BY <1>1, <2>1 DEF WireInv, Passed
    <3> QED BY <1>8, <2>1, <3>1
  <2>2. CASE ~route.ssh
    <3>1. far = <<>> /\ mid = <<>> /\ bridge = "none"
      BY <2>2 DEF WireInv, Types
    <3>2. Line = Flat(queued)
      BY <1>1, <3>1 DEF WireInv, Conserved, Kept
    <3>3. near \o O \in Seq(Byte)
      BY <1>2, ConcatProperties
    <3>4. mid \o (near \o O) = near \o O
      BY <3>1, <3>3, ConcatEmptySeq
    <3>5. far \o (near \o O) = near \o O
      BY <3>1, <3>3, ConcatEmptySeq
    <3>6. Behind = near \o O
      BY <3>4 DEF Behind, O
    <3>7. Flat(got) \o (held \o (near \o O)) = Flat(queued)
      BY <1>2, <3>2, <3>5, <3>6
    <3> QED BY <1>2, <1>8, <2>2, <3>7
  <2> QED BY <2>1, <2>2
<1>10. PICK y \in Seq(Byte) : Receipt(d, rest, y)
  BY <1>7, <1>9
<1>11. /\ d.held \in Seq(Byte) /\ d.out \in Seq(Packet(V))
       /\ \E r \in Seq(Packet(V)) : queued = (got \o d.out) \o r
       /\ d.out # <<>> => V = Version
       /\ ~d.bad => Part(d.held)
  BY <1>10 DEF Receipt
<1>12. /\ held' = d.held
       /\ \/ got' = got
          \/ got' = got \o d.out
       /\ receiver' = "failed" \/ (receiver' = "up" /\ ~d.bad /\ got' = got \o d.out)
  <2>1. CASE WindowReads(n)
    BY <1>1, <2>1 DEF WindowReads, d, input, box
  <2>2. CASE ServiceReads(n)
    BY <1>1, <2>2 DEF ServiceReads, d, input, box
  <2> QED BY <1>1, <2>1, <2>2
<1>13. got' \in Seq(Packet(V)) /\ (got' # <<>> => V = Version) /\ Delivered'
  <2>1. got \in Seq(Packet(V)) /\ (got # <<>> => V = Version)
    BY <1>5 DEF Types
  <2>2. CASE got' = got
    BY <1>1, <1>5, <1>6, <2>1, <2>2 DEF Delivered
  <2>3. CASE got' = got \o d.out
    <3>1. got' \in Seq(Packet(V))
      BY <1>11, <2>1, <2>3, ConcatProperties
    <3>2. got' # <<>> => V = Version
      <4>1. CASE got = <<>> /\ d.out = <<>>
        BY <2>3, <4>1, <2>1, ConcatEmptySeq
      <4> QED BY <1>11, <2>1, <4>1
    <3>3. Delivered'
      BY <1>1, <1>6, <1>11, <2>3 DEF Delivered
    <3> QED BY <3>1, <3>2, <3>3
  <2> QED BY <1>12, <2>2, <2>3
<1>14. Types'
  <2>1. QueueInv'
    BY <1>1, QueueStays DEF WireInv, Types
  <2>2. Output(V, conn)'
    BY <1>6 DEF WireInv, Types, Output
  <2>3. far' \in Seq(Byte) /\ near' \in Seq(Byte)
    BY <1>2, <1>4, <1>8
  <2>4. ~route.ssh => far' = far /\ mid' = mid
    BY <1>1, <1>8
  <2>5. held' \in Seq(Byte) /\ (receiver' = "up" => Part(held'))
    BY <1>11, <1>12
  <2>6. queued' = queued /\ route' = route /\ bridge' = bridge /\ mid' = mid
    BY <1>1
  <2> QED BY <1>5, <1>6, <1>13, <2>1, <2>2, <2>3, <2>4, <2>5, <2>6 DEF Types
<1>15. ASSUME receiver' # "failed", NEW z \in Seq(Byte),
              Flat(got) \o (held \o (box \o z)) = Flat(queued)
       PROVE  Flat(got') \o (held' \o (rest \o z)) = Flat(queued')
  <2>1. Receipt(d, rest, z)
    BY <1>7, <1>15
  <2>2. ~d.bad /\ got' = got \o d.out /\ held' = d.held /\ queued' = queued
    BY <1>1, <1>12, <1>15
  <2> QED BY <2>1, <2>2 DEF Receipt
<1>16. Passed'
  <2> SUFFICES ASSUME route.ssh, receiver' # "failed"
               PROVE  \E lost \in Seq(Byte) :
                        Flat(got') \o (held' \o (far' \o lost)) = Flat(queued')
    BY <1>6 DEF Passed
  <2>1. PICK z \in Seq(Byte) : Flat(got) \o (held \o (far \o z)) = Flat(queued)
    BY <1>1 DEF WireInv, Passed
  <2>2. Flat(got') \o (held' \o (rest \o z)) = Flat(queued')
    BY <1>8, <1>15, <2>1
  <2> QED BY <1>8, <2>2
<1>17. Conserved'
  <2> SUFFICES ASSUME Kept', receiver' # "failed" PROVE Line' = Flat(queued')
    BY DEF Conserved
  <2>1. Line = Flat(queued)
    BY <1>1 DEF WireInv, Conserved, Kept
  <2>2. (Line = Flat(got) \o (held \o (far \o Behind)))'
    <3>1. (Types => Line = Flat(got) \o (held \o (far \o Behind)))'
      BY LineIs, PTL
    <3> QED BY <1>14, <3>1
  <2>3. CASE route.ssh
    <3>1. Behind' = Behind
      BY <1>1, <1>6, <1>8, <2>3 DEF Behind, O
    <3>2. Flat(got') \o (held' \o (rest \o Behind)) = Flat(queued')
      BY <1>2, <1>8, <1>15, <2>1, <2>3
    <3> QED BY <1>8, <2>2, <2>3, <3>1, <3>2
  <2>4. CASE ~route.ssh
    <3>1. far = <<>> /\ mid = <<>> /\ far' = <<>> /\ mid' = <<>>
      BY <1>1, <1>8, <2>4 DEF WireInv, Types
    <3>2. near \o O \in Seq(Byte) /\ rest \o O \in Seq(Byte)
      BY <1>2, <1>4, ConcatProperties
    <3>3. <<>> \o (near \o O) = near \o O /\ <<>> \o (rest \o O) = rest \o O
      BY <3>2, ConcatEmptySeq
    <3>4. Behind = near \o O /\ Behind' = rest \o O
      BY <1>6, <1>8, <2>4, <3>1, <3>3 DEF Behind, O
    <3>5. Flat(got) \o (held \o (near \o O)) = Flat(queued)
      BY <1>2, <2>1, <3>1, <3>3, <3>4
    <3>6. Flat(got') \o (held' \o (rest \o O)) = Flat(queued')
      BY <1>2, <1>8, <1>15, <2>4, <3>5
    <3> QED BY <2>2, <3>1, <3>3, <3>4, <3>6
  <2> QED BY <2>3, <2>4
<1> QED BY <1>13, <1>14, <1>16, <1>17 DEF WireInv

-----------------------------------------------------------------------------
(* The steps of the sender. *)

LEMMA SendTypes ==
    ASSUME Types, QueueInv', Output(V, conn'), near' \in Seq(Byte), queued' \in Seq(Packet(V)),
           UNCHANGED <<route, mid, far, held, bridge, receiver, got>>
    PROVE  Types'
<1>1. V' = V /\ route' = route
  BY DEF V
<1>2. Output(V, conn)'
  BY <1>1 DEF Output
<1> QED BY <1>1, <1>2 DEF Types

LEMMA Nothing ==
    ASSUME NEW s \in Seq(Byte)
    PROVE  s \o <<>> = s /\ <<>> \o s = s /\ <<>> \in Seq(Byte)
BY ConcatEmptySeq

(* A queue that accepts a packet holds it behind the others.                *)
LEMMA AppendKeeps ==
    ASSUME QueueInv, NEW p \in Seq(Byte), AppendChunk(p) \/ AppendOwned(p)
    PROVE  QueueInv' /\ Pending' = Pending \o p
<1>1. /\ Len(p) <= Remaining /\ took' = p /\ wrote' = <<>>
  BY DEF AppendChunk, AppendOwned
<1>2. ASSUME Extend(p)
      PROVE  QueueInv' /\ Pending' = Pending \o p
  <2>1. /\ bytes' \in Seq(Byte) /\ sent' \in 0..Len(bytes') /\ Len(bytes') <= Limit
    BY <1>1, <1>2, ExtendInv
  <2>2. Pending' = Pending \o p
    BY <1>1, <1>2, ExtendPending
  <2> QED BY <1>1, <2>1, <2>2 DEF QueueInv, QueueTypeOK, StorageBound
<1>3. ASSUME QueueLen = 0, bytes' = p, sent' = 0
      PROVE  QueueInv' /\ Pending' = Pending \o p
  <2>1. Pending = <<>>
    BY <1>3, PendingShape, EmptySeq DEF QueueLen, QueueInv, QueueTypeOK
  <2>2. Pending' = p
    BY <1>3 DEF Pending
  <2>3. <<>> \o p = p
    BY ConcatEmptySeq
  <2>4. Len(p) <= Limit /\ Len(p) \in Nat
    BY <1>1, <1>3, QueueAssumption DEF Remaining
  <2>5. QueueInv'
    BY <1>1, <1>3, <2>4 DEF QueueInv, QueueTypeOK, StorageBound
  <2> QED BY <2>1, <2>2, <2>3, <2>5
<1> QED BY <1>2, <1>3 DEF AppendChunk, AppendOwned

(* Client::queue.                                                           *)
LEMMA QueueDownKeeps ==
    ASSUME WireInv, NEW body \in Body, QueueDown(body)
    PROVE  WireInv'
<1> DEFINE p == Encode(body)
<1>1. /\ route.down
      /\ near' = near /\ conn' = conn
      /\ UNCHANGED <<route, mid, far, held, bridge, receiver, got>>
  BY DEF QueueDown, chain
<1>2. Types /\ Delivered /\ QueueInv /\ Output(V, conn) /\ near \in Seq(Byte)
      /\ queued \in Seq(Packet(V)) /\ V' = V
  BY <1>1 DEF WireInv, Types, V
<1>3. near' = near \o <<>> /\ <<>> \in Seq(Byte)
  BY <1>1, <1>2, Nothing
<1>4. p \in Packet(V) /\ p \in Seq(Byte)
  BY <1>2, EncodeIsPacket
<1>5. Outgoing = Pending /\ Outgoing' = Pending'
  BY <1>1 DEF Outgoing
<1>6. Pending \in Seq(Byte)
  BY <1>2, PendingShape DEF QueueInv
<1> HIDE DEF p
<1>7. CASE (AppendChunk(p) \/ AppendOwned(p)) /\ queued' = Append(queued, p)
  <2>1. QueueInv' /\ Pending' = Pending \o p
    BY <1>2, <1>4, <1>7, AppendKeeps
  <2>2. Delivered' /\ Flat(queued') = Flat(queued) \o p /\ queued' \in Seq(Packet(V))
    BY <1>1, <1>2, <1>4, <1>7, PacketIsQueued
  <2>3. Types'
    BY <1>1, <1>2, <2>1, <2>2, SendTypes
  <2>4. Outgoing \o p = <<>> \o Outgoing'
    <3>1. Pending \o p \in Seq(Byte)
      BY <1>4, <1>6, ConcatProperties
    <3> QED BY <1>5, <2>1, <3>1, Nothing
  <2> QED BY <1>1, <1>3, <1>4, <2>2, <2>3, <2>4, SendKeeps
<1>8. CASE RefuseChunk(p) /\ queued' = queued
  <2>1. QueueInv' /\ Pending' = Pending
    BY <1>2, <1>8, <1>3 DEF RefuseChunk, QueueInv, QueueTypeOK, StorageBound, Pending
  <2>2. Types'
    BY <1>1, <1>2, <1>8, <2>1, SendTypes
  <2>3. Delivered'
    BY <1>1, <1>2, <1>8 DEF Delivered
  <2>4. Outgoing \o <<>> = <<>> \o Outgoing'
    BY <1>5, <1>6, <2>1, Nothing
  <2>5. Flat(queued') = Flat(queued) \o <<>>
    BY <1>2, <1>8, PacketsAreBytes, Nothing
  <2> QED BY <1>1, <1>3, <2>2, <2>3, <2>4, <2>5, SendKeeps
<1> QED BY <1>7, <1>8 DEF QueueDown, Queued, p

(* A flush writes no more than it is asked to.                              *)
LEMMA FlushDownWithin ==
    ASSUME QueueInv, near \in Seq(Byte), NEW n \in Nat, FlushDown(n)
    PROVE  n \in 0..FlushGoal /\ n \in 0..QueueLen
<1>1. Len(near) \in Nat /\ SocketSize \in Nat
  BY WireAssumption, LenProperties
<1>2. FlushGoal \in Int /\ QueueLen \in Int /\ FlushGoal <= QueueLen
  BY QueueAssumption, LenProperties DEF FlushGoal, QueueLen, QueueInv, QueueTypeOK
<1>3. n <= Least(FlushGoal, Room(near))
  BY DEF FlushDown
<1>4. n <= FlushGoal
  BY <1>1, <1>2, <1>3 DEF Least, Room
<1> QED BY <1>2, <1>4

(* client_flush.                                                            *)
LEMMA FlushDownKeeps ==
    ASSUME WireInv, NEW n \in Nat, FlushDown(n)
    PROVE  WireInv'
<1>1. /\ route.down /\ near' = near \o wrote' /\ conn' = conn /\ queued' = queued
      /\ UNCHANGED <<route, mid, far, held, bridge, receiver, got>>
      /\ FlushOk(n) \/ FlushErr(n)
  BY DEF FlushDown
<1>2. Types /\ Delivered /\ QueueInv /\ Output(V, conn) /\ near \in Seq(Byte)
      /\ queued \in Seq(Packet(V)) /\ V' = V
  BY <1>1 DEF WireInv, Types, V
<1>4. n \in 0..FlushGoal /\ n \in 0..QueueLen
  BY <1>2, FlushDownWithin
<1>5. QueueInv'
  <2>1. QueueNext
    BY <1>1, <1>4 DEF QueueNext, Flush
  <2> QED BY <1>2, <2>1, QueueInductive
<1>6. Pending = wrote' \o Pending'
  BY <1>1, <1>2, <1>4, FlushDelivers DEF FlushOk, FlushErr
<1>7. wrote' \in Seq(Byte)
  BY <1>5 DEF QueueInv, QueueTypeOK
<1>8. near' \in Seq(Byte)
  BY <1>1, <1>2, <1>7, ConcatProperties
<1>9. Types'
  BY <1>1, <1>2, <1>5, <1>8, SendTypes
<1>10. Delivered'
  BY <1>1, <1>2 DEF Delivered
<1>11. Outgoing = Pending /\ Outgoing' = Pending' /\ Pending \in Seq(Byte)
  BY <1>1, <1>2, PendingShape DEF Outgoing, QueueInv
<1>12. Outgoing \o <<>> = wrote' \o Outgoing'
  BY <1>6, <1>11, Nothing
<1>13. Flat(queued') = Flat(queued) \o <<>> /\ <<>> \in Seq(Byte)
  BY <1>1, <1>2, PacketsAreBytes, Nothing
<1> QED BY <1>1, <1>7, <1>9, <1>10, <1>12, <1>13, SendKeeps

(* A packet that joins the output of a connection is what it sends last.    *)
LEMMA UnsentGrows ==
    ASSUME NEW v, NEW c, Output(v, c), NEW p \in Packet(v)
    PROVE  LET d == [c EXCEPT !.output = Append(@, p), !.bytes = @ + Len(p)]
           IN Output(v, d) /\ Unsent(d) = Unsent(c) \o p
<1> DEFINE d == [c EXCEPT !.output = Append(@, p), !.bytes = @ + Len(p)]
<1>1. /\ c \in [output : Seq(Packet(v)), offset : Nat, bytes : Nat]
      /\ c.offset + c.bytes = Len(Flat(c.output))
  BY DEF Output
<1>2. d = [output |-> Append(c.output, p), offset |-> c.offset, bytes |-> c.bytes + Len(p)]
  <2>1. PICK o \in Seq(Packet(v)), a \in Nat, b \in Nat :
          c = [output |-> o, offset |-> a, bytes |-> b]
    BY <1>1
  <2>2. c.output = o /\ c.offset = a /\ c.bytes = b
    BY <2>1
  <2>3. d = [output |-> Append(o, p), offset |-> a, bytes |-> b + Len(p)]
    <3> DEFINE q == Append(o, p)
               y == b + Len(p)
               z == [c EXCEPT !.output = q]
    <3>1. z = [output |-> q, offset |-> a, bytes |-> b]
      <4> HIDE DEF q
      <4> QED BY ONLY <2>1 DEF z
    <3>2. d = [z EXCEPT !.bytes = y]
      BY ONLY <2>1, <2>2 DEF z, d, y, q
    <3> HIDE DEF q, y, z, d
    <3>3. [z EXCEPT !.bytes = y] = [output |-> q, offset |-> a, bytes |-> y]
      BY ONLY <3>1
    <3> QED BY <3>2, <3>3 DEF q, y
  <2> QED BY <2>2, <2>3
<1>3. p \in Seq(Byte) /\ c.output \in Seq(Seq(Byte)) /\ Flat(c.output) \in Seq(Byte)
      /\ Len(p) \in Nat /\ Append(c.output, p) \in Seq(Packet(v))
  BY <1>1, PacketShape, PacketsAreBytes, LenProperties, AppendProperties
<1>4. Flat(d.output) = Flat(c.output) \o p
  BY <1>2, <1>3, FlatAppend
<1>5. Len(Flat(d.output)) = Len(Flat(c.output)) + Len(p)
  BY <1>3, <1>4, ConcatProperties
<1>6. Output(v, d)
  <2>1. d.offset + d.bytes = Len(Flat(d.output))
    <3> DEFINE a == c.offset
               b == c.bytes
               l == Len(p)
    <3>1. a \in Nat /\ b \in Nat /\ l \in Nat /\ Len(Flat(d.output)) = (a + b) + l
      BY <1>1, <1>3, <1>5
    <3>2. d.offset = a /\ d.bytes = b + l
      BY <1>2
    <3> HIDE DEF a, b, l, d
    <3> QED BY <3>1, <3>2
  <2>2. d \in [output : Seq(Packet(v)), offset : Nat, bytes : Nat]
    <3>1. c.bytes + Len(p) \in Nat /\ c.offset \in Nat
      BY <1>1, <1>3
    <3> HIDE DEF d
    <3> QED BY <1>2, <1>3, <3>1
  <2> HIDE DEF d
  <2> QED BY <2>1, <2>2 DEF Output
<1>7. d.offset = c.offset
  BY <1>2
<1> HIDE DEF d
<1>8. PICK h \in Seq(Byte) : Len(h) = c.offset /\ Flat(c.output) = h \o Unsent(c)
  BY UnsentShape
<1>9. PICK k \in Seq(Byte) : Len(k) = d.offset /\ Flat(d.output) = k \o Unsent(d)
  BY <1>6, UnsentShape
<1>10. Unsent(c) \in Seq(Byte) /\ Unsent(d) \in Seq(Byte)
  BY <1>6, UnsentShape
<1>11. (h \o Unsent(c)) \o p = h \o (Unsent(c) \o p)
  BY ONLY <1>3, <1>10, h \in Seq(Byte), BytesAssociate
<1>12. Unsent(c) \o p \in Seq(Byte)
  BY <1>3, <1>10, ConcatProperties
<1>13. k \o Unsent(d) = h \o (Unsent(c) \o p) /\ Len(k) = Len(h)
  BY <1>4, <1>7, <1>8, <1>9, <1>11
<1>14. Unsent(d) = Unsent(c) \o p
  BY <1>10, <1>12, <1>13, SameCut
<1> QED BY <1>6, <1>14 DEF d

(* What Connection::flush writes of c.                                      *)
LEMMA Flush1Keeps ==
    ASSUME NEW v, NEW c, Output(v, c), NEW n \in Nat, near \in Seq(Byte), Flush1(c, n)
    PROVE  /\ Output(v, conn')
           /\ \E w \in Seq(Byte) : near' = near \o w /\ Unsent(c) = w \o Unsent(conn')
<1>1. conn' = Flushed(c, n) /\ near' = near \o SubSeq(Unsent(c), 1, n)
  BY DEF Flush1
<1>2. n <= c.bytes
  <2> DEFINE b == c.bytes
             r == Room(near)
  <2>1. b \in Nat /\ Budget \in Nat
    BY QueueAssumption DEF Output
  <2>2. r \in Int
    BY WireAssumption, LenProperties DEF Room
  <2>3. n <= Least(Least(Budget, b), r)
    BY DEF Flush1
  <2> HIDE DEF b, r
  <2>4. n <= b
    BY <2>1, <2>2, <2>3 DEF Least
  <2> QED BY <2>4 DEF b
<1>3. /\ Output(v, Flushed(c, n)) /\ SubSeq(Unsent(c), 1, n) \in Seq(Byte)
      /\ Unsent(c) = SubSeq(Unsent(c), 1, n) \o Unsent(Flushed(c, n))
  BY <1>2, FlushedKeeps
<1> QED BY <1>1, <1>3

(* Connection::queue.                                                       *)
LEMMA QueueUpKeeps ==
    ASSUME WireInv, NEW body \in Body, NEW n \in Nat, QueueUp(body, n)
    PROVE  WireInv'
<1> DEFINE p == Encode(body)
           c == [conn EXCEPT !.output = Append(@, p), !.bytes = @ + Len(p)]
<1>1. /\ ~route.down
      /\ UNCHANGED queueVars
      /\ UNCHANGED <<route, mid, far, held, bridge, receiver, got>>
  BY DEF QueueUp
<1>2. Types /\ Delivered /\ QueueInv /\ Output(V, conn) /\ near \in Seq(Byte) /\ V' = V
  BY <1>1 DEF WireInv, Types, V
<1>3. p \in Packet(V) /\ p \in Seq(Byte)
  BY <1>2, EncodeIsPacket
<1>4. CASE UNCHANGED <<conn, near, queued>>
  BY <1>1, <1>4, StayKeeps DEF chain
<1>5. CASE Flush1(c, n) /\ queued' = Append(queued, p)
  <2>1. Output(V, c) /\ Unsent(c) = Unsent(conn) \o p
    <3> HIDE DEF p
    <3> QED BY <1>2, <1>3, UnsentGrows
  <2> HIDE DEF c, p
  <2>2. PICK w \in Seq(Byte) : near' = near \o w /\ Unsent(c) = w \o Unsent(conn')
    BY <1>2, <1>5, <2>1, Flush1Keeps
  <2>3. Output(V, conn')
    BY <1>2, <1>5, <2>1, Flush1Keeps
  <2>4. Delivered' /\ Flat(queued') = Flat(queued) \o p /\ queued' \in Seq(Packet(V))
    BY <1>1, <1>2, <1>3, <1>5, PacketIsQueued
  <2>5. near' \in Seq(Byte)
    BY <1>2, <2>2, ConcatProperties
  <2>6. QueueInv'
    BY <1>1, <1>2, QueueStays
  <2>7. Types'
    BY <1>1, <1>2, <2>3, <2>4, <2>5, <2>6, SendTypes
  <2>8. Outgoing \o p = w \o Outgoing'
    BY <1>1, <2>1, <2>2 DEF Outgoing
  <2> QED BY <1>1, <1>3, <2>2, <2>4, <2>7, <2>8, SendKeeps
<1> QED BY <1>4, <1>5 DEF QueueUp, Queued

(* The writer callback.                                                     *)
LEMMA FlushUpKeeps ==
    ASSUME WireInv, NEW n \in Nat, FlushUp(n)
    PROVE  WireInv'
<1>1. /\ ~route.down /\ Flush1(conn, n) /\ queued' = queued
      /\ UNCHANGED queueVars
      /\ UNCHANGED <<route, mid, far, held, bridge, receiver, got>>
  BY DEF FlushUp
<1>2. Types /\ Delivered /\ QueueInv /\ Output(V, conn) /\ near \in Seq(Byte) /\ V' = V
      /\ queued \in Seq(Packet(V))
  BY <1>1 DEF WireInv, Types, V
<1>3. PICK w \in Seq(Byte) : near' = near \o w /\ Unsent(conn) = w \o Unsent(conn')
  BY <1>1, <1>2, Flush1Keeps
<1>4. Output(V, conn')
  BY <1>1, <1>2, Flush1Keeps
<1>5. near' \in Seq(Byte)
  BY <1>2, <1>3, ConcatProperties
<1>6. QueueInv'
  BY <1>1, <1>2, QueueStays
<1>7. Types'
  BY <1>1, <1>2, <1>4, <1>5, <1>6, SendTypes
<1>8. Delivered'
  BY <1>1, <1>2 DEF Delivered
<1>9. Outgoing \in Seq(Byte) /\ Flat(queued) \in Seq(Byte)
  BY <1>2, OutgoingIsBytes, PacketsAreBytes
<1>10. Outgoing \o <<>> = w \o Outgoing'
  BY <1>1, <1>3, <1>9, Nothing DEF Outgoing
<1>11. Flat(queued') = Flat(queued) \o <<>> /\ <<>> \in Seq(Byte)
  BY <1>1, <1>9, Nothing
<1> QED BY <1>1, <1>3, <1>7, <1>8, <1>10, <1>11, SendKeeps

-----------------------------------------------------------------------------
(* The whole connection. *)

LEMMA WireStarts == Init => WireInv
<1> SUFFICES ASSUME Init PROVE WireInv
  OBVIOUS
<1>1. /\ bytes = <<>> /\ sent = 0 /\ took = <<>> /\ wrote = <<>>
      /\ near = <<>> /\ mid = <<>> /\ far = <<>> /\ held = <<>>
      /\ queued = <<>> /\ got = <<>>
      /\ conn = [output |-> <<>>, offset |-> 0, bytes |-> 0]
      /\ route \in [down : BOOLEAN, ssh : BOOLEAN, version : {1, 2}]
      /\ bridge = (IF route.ssh THEN "up" ELSE "none")
  BY DEF Init, Version
<1>2. QueueInv
  BY <1>1, QueueAssumption DEF QueueInv, QueueTypeOK, StorageBound
<1>3. <<>> \in Seq(Byte) /\ <<>> \in Seq(Packet(V)) /\ Len(<<>>) = 0
  OBVIOUS
<1>4. conn.output = <<>> /\ conn.offset = 0 /\ conn.bytes = 0
  BY <1>1
<1>5. Output(V, conn)
  <2>1. conn \in [output : Seq(Packet(V)), offset : Nat, bytes : Nat]
    BY <1>1, <1>3
  <2> QED BY <1>3, <1>4, <2>1, FlatNothing DEF Output
<1>6. Part(held)
  BY <1>1, <1>3 DEF Part, Header
<1>7. Types
  BY <1>1, <1>2, <1>3, <1>5, <1>6 DEF Types
<1>8. <<>> \o <<>> = <<>>
  BY <1>3, Nothing
<1>9. Delivered
  BY <1>1, <1>3, <1>8, ConcatEmptySeq DEF Delivered
<1>10. Outgoing = <<>>
  <2>1. SubSeq(<<>>, 1, 0) = <<>>
    OBVIOUS
  <2>2. Pending = <<>>
    BY <1>1, <1>3, <2>1 DEF Pending
  <2>3. Unsent(conn) = <<>>
    BY <1>3, <1>4, <2>1, FlatNothing DEF Unsent
  <2> QED BY <2>2, <2>3 DEF Outgoing
<1>11. Line = <<>> /\ Flat(queued) = <<>>
  BY <1>1, <1>8, <1>10, FlatNothing DEF Line
<1>12. Conserved
  BY <1>11 DEF Conserved
<1>13. Passed
  BY <1>1, <1>3, <1>8, FlatNothing DEF Passed
<1> QED BY <1>7, <1>9, <1>12, <1>13 DEF WireInv

(* The bridge's steps, from what they do to its queue.                      *)
LEMMA BridgeKeeps ==
    ASSUME WireInv, BridgeRead \/ (\E n \in 1..Budget : BridgeWrite(n)) \/ BridgeHangup \/ BridgeEnds
    PROVE  WireInv'
<1>1. near \in Seq(Byte) /\ mid \in Seq(Byte) /\ Len(near) \in Nat /\ Len(mid) \in Nat
      /\ Budget \in Nat
  BY QueueAssumption, LenProperties DEF WireInv, Types
<1>2. Least(Budget, Len(near)) \in 0..Len(near)
  BY <1>1 DEF Least
<1>3. CASE BridgeRead
  <2>1. Take(Least(Budget, Len(near))) /\ bridge = "up"
        /\ UNCHANGED <<queueVars, route, conn, far, held, ends, queued, got>>
    BY <1>3 DEF BridgeRead
  <2> QED BY <1>2, <2>1, TakeKeeps
<1>4. CASE \E n \in 1..Budget : BridgeWrite(n)
  <2>1. PICK n \in 1..Budget : BridgeWrite(n)
    BY <1>4
  <2>2. n \in 0..Len(mid)
    <3> DEFINE r == Room(far)
    <3>1. r \in Int
      BY WireAssumption, LenProperties DEF Room, WireInv, Types
    <3>2. n <= Least(Least(Budget, Len(mid)), r)
      BY <2>1 DEF BridgeWrite
    <3> HIDE DEF r
    <3> QED BY <1>1, <3>1, <3>2 DEF Least
  <2>3. /\ bridge = "up"
        /\ far' = far \o SubSeq(mid, 1, n) /\ mid' = SubSeq(mid, n + 1, Len(mid))
        /\ UNCHANGED <<queueVars, route, conn, near, held, ends, queued, got>>
    BY <2>1 DEF BridgeWrite
  <2> QED BY <2>2, <2>3, WriteKeeps
<1>5. CASE BridgeHangup
  <2> DEFINE n == Least(Budget, Len(near))
  <2>1. /\ bridge = "up" /\ ~route.down
        /\ UNCHANGED <<queueVars, route, conn, far, held, sender, receiver, queued, got>>
        /\ \/ bridge' = "ended" /\ mid' = <<>> /\ near' = near
           \/ bridge' = "failed" /\ near' = <<>> /\ mid' = <<>>
           \/ bridge' = bridge /\ Take(n)
    BY <1>5 DEF BridgeHangup
  <2> HIDE DEF n
  <2>2. CASE bridge' = bridge /\ Take(n)
    <3>1. UNCHANGED <<queueVars, route, conn, far, held, ends, queued, got>>
      BY <2>1, <2>2 DEF ends
    <3>2. n \in 0..Len(near)
      BY <1>2 DEF n
    <3> QED BY <2>1, <2>2, <3>1, <3>2, TakeKeeps
  <2>3. CASE /\ bridge' \in {"ended", "failed"} /\ mid' = <<>> /\ near' \in {near, <<>>}
             /\ bridge' = "ended" => near' = near
    BY <2>1, <2>3, StopKeeps
  <2> QED BY <2>1, <2>2, <2>3
<1>6. CASE BridgeEnds
  <2>1. /\ bridge = "up"
        /\ UNCHANGED <<queueVars, route, conn, far, held, sender, receiver, queued, got>>
        /\ bridge' \in {"ended", "failed"} /\ near' = <<>> /\ mid' = <<>>
        /\ bridge' = "ended" => near = <<>> /\ mid = <<>>
    BY <1>6 DEF BridgeEnds
  <2> QED BY <2>1, StopKeeps
<1> QED BY <1>3, <1>4, <1>5, <1>6

(* Every step keeps the bytes where they belong.                            *)
LEMMA WireSteps == WireInv /\ [Next]_wireVars => WireInv'
<1> SUFFICES ASSUME WireInv, [Next]_wireVars PROVE WireInv'
  OBVIOUS
<1>1. Budget \in Nat /\ Limit \in Nat
  BY QueueAssumption
<1>2. CASE \E body \in Body : QueueDown(body) \/ \E n \in 0..Budget : QueueUp(body, n)
  <2>1. PICK body \in Body : QueueDown(body) \/ \E n \in 0..Budget : QueueUp(body, n)
    BY <1>2
  <2>2. CASE QueueDown(body)
    BY <2>2, QueueDownKeeps
  <2>3. CASE \E n \in 0..Budget : QueueUp(body, n)
    <3>1. PICK n \in 0..Budget : QueueUp(body, n)
      BY <2>3
    <3> QED BY <1>1, <3>1, QueueUpKeeps
  <2> QED BY <2>1, <2>2, <2>3
<1>3. CASE Flushing
  <2>1. PICK n \in 1..Limit : FlushDown(n) \/ FlushUp(n)
    BY <1>3 DEF Flushing
  <2> QED BY <1>1, <2>1, FlushDownKeeps, FlushUpKeeps
<1>4. CASE Receiving
  <2>1. PICK n \in 1..Len(Inbox) : Receive(n)
    BY <1>4 DEF Receiving
  <2> QED BY <2>1, ReceiveKeeps
<1>5. CASE Bridging \/ BridgeHangup \/ BridgeEnds
  BY <1>5, BridgeKeeps DEF Bridging
<1>6. CASE \E n \in 0..Limit : ~Read /\ FlushDown(n)
  <2>1. PICK n \in 0..Limit : FlushDown(n)
    BY <1>6
  <2> QED BY <1>1, <2>1, FlushDownKeeps
<1>7. CASE SenderEnds \/ EndOfStream \/ ReceiverEnds \/ UNCHANGED wireVars
  <2>1. /\ UNCHANGED <<queueVars, route, conn, chain, held, bridge, queued, got>>
        /\ receiver' = receiver \/ (receiver = "up" /\ receiver' # "up")
    BY <1>7 DEF SenderEnds, EndOfStream, ReceiverEnds, wireVars, ends
  <2> QED BY <2>1, StayKeeps
<1> QED BY <1>2, <1>3, <1>4, <1>5, <1>6, <1>7 DEF Next

(* The invariant, for every size of a packet, socket, queue and budget: the *)
(* bytes of a connection that has not failed are in one line, cut anywhere. *)
THEOREM WireInductive == Spec => []WireInv
BY WireStarts, WireSteps, PTL DEF Spec

(* However the bytes were cut on the way and wherever the connection broke, *)
(* the receiver is handed the first of the packets that were queued, whole, *)
(* and nothing of a stream of another version.                              *)
THEOREM PacketsStayInOrder == Spec => []PacketsInOrder
<1>1. ASSUME WireInv PROVE PacketsInOrder
  <2>1. /\ queued \in Seq(Packet(V)) /\ got \in Seq(Packet(V))
        /\ (got # <<>> => V = Version)
    BY <1>1 DEF WireInv, Types
  <2>2. PICK r \in Seq(Packet(V)) : queued = got \o r
    BY <1>1 DEF WireInv, Delivered
  <2> DEFINE n == Len(got)
  <2>3. /\ n \in Nat /\ Len(r) \in Nat /\ Len(queued) = n + Len(r)
        /\ \A i \in 1..n : queued[i] = got[i]
    BY <2>1, <2>2, LenProperties, ConcatProperties
  <2>4. n \in 0..Len(queued) /\ n \in 0..Len(got)
    BY <2>3
  <2>5. SubSeq(queued, 1, n) = SubSeq(got, 1, n)
    <3>1. /\ SubSeq(queued, 1, n) \in Seq(Packet(V)) /\ Len(SubSeq(queued, 1, n)) = n
          /\ SubSeq(got, 1, n) \in Seq(Packet(V)) /\ Len(SubSeq(got, 1, n)) = n
      BY <2>1, <2>4, Cut
    <3>2. \A i \in 1..n : /\ SubSeq(queued, 1, n)[i] = queued[i]
                          /\ SubSeq(got, 1, n)[i] = got[i]
      BY <2>1, <2>3, <2>4
    <3> QED BY <2>3, <3>1, <3>2, SeqEqual
  <2>6. IsPrefix(got, queued)
    BY <2>3, <2>5 DEF IsPrefix
  <2> QED BY <2>1, <2>6 DEF PacketsInOrder, V
<1> QED BY <1>1, WireInductive, PTL

LEMMA BeginningIsPrefix ==
    ASSUME NEW a \in Seq(Byte), NEW b \in Seq(Byte)
    PROVE  IsPrefix(a, a \o b)
<1>1. /\ a \o b \in Seq(Byte) /\ Len(a \o b) = Len(a) + Len(b) /\ Len(a) \in Nat /\ Len(b) \in Nat
      /\ \A i \in 1..Len(a) : (a \o b)[i] = a[i]
  BY LenProperties, ConcatProperties
<1>2. Len(a) \in 0..Len(a \o b) /\ Len(a) \in 0..Len(a)
  BY <1>1
<1>3. SubSeq(a \o b, 1, Len(a)) = SubSeq(a, 1, Len(a))
  <2>1. /\ SubSeq(a \o b, 1, Len(a)) \in Seq(Byte) /\ Len(SubSeq(a \o b, 1, Len(a))) = Len(a)
        /\ SubSeq(a, 1, Len(a)) \in Seq(Byte) /\ Len(SubSeq(a, 1, Len(a))) = Len(a)
    BY <1>1, <1>2, Cut
  <2>2. \A i \in 1..Len(a) : /\ SubSeq(a \o b, 1, Len(a))[i] = (a \o b)[i]
                             /\ SubSeq(a, 1, Len(a))[i] = a[i]
    BY <1>1
  <2> QED BY <1>1, <2>1, <2>2, SeqEqual
<1> QED BY <1>1, <1>3 DEF IsPrefix

(* What a receiver has taken and may still read is a beginning of what was   *)
(* sent, whichever parts end or fail before it; and as long as the bridge    *)
(* has not failed, no byte is lost, doubled or out of its place between the  *)
(* sender's queue and the packets handed out.                                *)
THEOREM StreamStaysConserved == Spec => []StreamIsConserved
<1>1. WireInv => StreamIsConserved
  <2> SUFFICES ASSUME WireInv, receiver # "failed" PROVE StreamIsConserved
    BY DEF StreamIsConserved
  <2>1. /\ Flat(got) \in Seq(Byte) /\ held \in Seq(Byte) /\ far \in Seq(Byte)
        /\ mid \in Seq(Byte) /\ near \in Seq(Byte) /\ Outgoing \in Seq(Byte)
    BY PartsAreBytes DEF WireInv
  <2>2. bridge # "failed" /\ (route.down \/ ~route.ssh) => Line = Flat(queued)
    BY DEF WireInv, Conserved, Kept, Types
  <2>3. Flat(got) \o held \in Seq(Byte) /\ (Flat(got) \o held) \o near \in Seq(Byte)
        /\ (Flat(got) \o held) \o far \in Seq(Byte)
    <3>1. Flat(got) \o held \in Seq(Byte)
      BY <2>1, ConcatProperties
    <3> QED BY ONLY <2>1, <3>1, ConcatProperties
  <2>4. CASE route.ssh
    <3>1. PICK lost \in Seq(Byte) : Flat(got) \o (held \o (far \o lost)) = Flat(queued)
      BY <2>4 DEF WireInv, Passed
    <3>2. ((Flat(got) \o held) \o far) \o lost = Flat(queued)
      <4> DEFINE g == Flat(got)
      <4>1. g \in Seq(Byte)
        BY <2>1
      <4> HIDE DEF g
      <4>2. far \o lost \in Seq(Byte)
        BY ONLY <2>1, ConcatProperties
      <4>3. g \o (held \o (far \o lost)) = (g \o held) \o (far \o lost)
        BY ONLY <2>1, <4>1, <4>2, BytesAssociate
      <4>4. g \o held \in Seq(Byte)
        BY ONLY <2>1, <4>1, ConcatProperties
      <4>5. (g \o held) \o (far \o lost) = ((g \o held) \o far) \o lost
        BY ONLY <2>1, <4>4, BytesAssociate
      <4> QED BY <3>1, <4>3, <4>5 DEF g
    <3>3. IsPrefix((Flat(got) \o held) \o far, ((Flat(got) \o held) \o far) \o lost)
      BY <2>3, BeginningIsPrefix
    <3> QED BY <2>2, <2>4, <3>2, <3>3 DEF StreamIsConserved, Inbox, Line
  <2>5. CASE ~route.ssh
    <3>1. far = <<>> /\ mid = <<>> /\ Line = Flat(queued)
      BY <2>5, <2>2 DEF WireInv, Types
    <3>2. Line = ((Flat(got) \o held) \o near) \o Outgoing
      BY <2>1, <2>3, <3>1, ConcatProperties DEF Line
    <3>3. IsPrefix((Flat(got) \o held) \o near, ((Flat(got) \o held) \o near) \o Outgoing)
      BY <2>1, <2>3, BeginningIsPrefix
    <3> QED BY <2>2, <2>5, <3>1, <3>2, <3>3 DEF StreamIsConserved, Inbox, Line
  <2> QED BY <2>4, <2>5
<1> QED BY <1>1, WireInductive, PTL

(* The queue that the service sends through keeps its storage within its    *)
(* limit on every route, and is the bounded FIFO to the rest of the line.   *)
THEOREM WireStorageBounded == Spec => []StorageBound
<1>1. WireInv => StorageBound
  BY DEF WireInv, Types, QueueInv
<1> QED BY <1>1, WireInductive, PTL

LEMMA WireStepIsFifoStep ==
    ASSUME WireInv, WireInv', [Next]_wireVars
    PROVE  [Fifo!FifoNext]_(Fifo!fifoVars)
<1> USE DEF Fifo!FifoNext, Fifo!Accept, Fifo!Deliver
<1>1. QueueInv /\ QueueInv' /\ Types
  BY DEF WireInv, Types
<1>2. Len(Pending') <= Limit /\ Pending \in Seq(Byte)
  <2>1. Len(Pending') = Len(bytes') - sent'
    BY <1>1 DEF Pending, QueueInv, QueueTypeOK
  <2> QED BY <1>1, <2>1, PendingShape, QueueAssumption DEF QueueInv, QueueTypeOK, StorageBound
<1>3. CASE UNCHANGED queueVars
  BY <1>3 DEF queueVars, Fifo!fifoVars, Pending
<1>4. ASSUME NEW body \in Body, QueueDown(body)
      PROVE  [Fifo!FifoNext]_(Fifo!fifoVars)
  <2> DEFINE p == Encode(body)
  <2>1. p \in Seq(Byte)
    BY <1>1, EncodeIsPacket
  <2> HIDE DEF p
  <2>2. CASE AppendChunk(p) \/ AppendOwned(p)
    <3>1. Pending' = Pending \o p
      BY <1>1, <2>1, <2>2, AppendKeeps
    <3>2. took' = p /\ wrote' = <<>>
      BY <2>2 DEF AppendChunk, AppendOwned
    <3> QED BY <1>2, <2>1, <3>1, <3>2
  <2>3. CASE RefuseChunk(p)
    <3>1. Pending' = Pending /\ wrote' = <<>> /\ took' = <<>>
      BY <2>3 DEF RefuseChunk, Pending
    <3>2. <<>> \in Seq(Byte) /\ <<>> \o Pending = Pending
      BY <1>2, Nothing
    <3> QED BY <3>1, <3>2
  <2> QED BY <1>4, <2>2, <2>3 DEF QueueDown, p
<1>5. ASSUME NEW n \in Nat, FlushDown(n)
      PROVE  [Fifo!FifoNext]_(Fifo!fifoVars)
  <2>1. FlushOk(n) \/ FlushErr(n)
    BY <1>5 DEF FlushDown
  <2>2. n \in 0..FlushGoal
    <3>1. near \in Seq(Byte)
      BY <1>1 DEF Types
    <3> QED BY <1>1, <1>5, <3>1, FlushDownWithin
  <2>3. QueueNext
    BY <2>1, <2>2 DEF QueueNext, Flush
  <2> QED BY <1>1, <2>3, QueueStepIsFifoStep
<1>6. Limit \in Nat
  BY QueueAssumption
<1>7. CASE \E body \in Body : QueueDown(body)
  BY <1>4, <1>7
<1>8. CASE \E n \in Nat : FlushDown(n)
  BY <1>5, <1>8
<1>9. UNCHANGED queueVars \/ (\E body \in Body : QueueDown(body)) \/ (\E n \in Nat : FlushDown(n))
  <2>1. CASE \E body \in Body : QueueDown(body) \/ \E n \in 0..Budget : QueueUp(body, n)
    <3>1. \A body \in Body : \A n \in 0..Budget : QueueUp(body, n) => UNCHANGED queueVars
      BY DEF QueueUp
    <3> QED BY <2>1, <3>1, Zenon
  <2>2. CASE Flushing \/ \E n \in 0..Limit : ~Read /\ FlushDown(n)
    <3>1. \A n \in 1..Limit : FlushUp(n) => UNCHANGED queueVars
      BY DEF FlushUp
    <3>2. \A n \in 0..Limit : n \in Nat
      BY <1>6
    <3>3. \A n \in 1..Limit : n \in Nat
      BY <1>6
    <3> QED BY <2>2, <3>1, <3>2, <3>3, Zenon DEF Flushing
  <2>3. CASE Receiving \/ Bridging \/ SenderEnds \/ BridgeHangup \/ BridgeEnds
             \/ EndOfStream \/ ReceiverEnds \/ UNCHANGED wireVars
    BY <2>3 DEF Receiving, Receive, Bridging, BridgeRead, BridgeWrite, SenderEnds,
       BridgeHangup, BridgeEnds, EndOfStream, ReceiverEnds, wireVars
  <2> QED BY <2>1, <2>2, <2>3 DEF Next
<1> QED BY <1>3, <1>7, <1>8, <1>9

(* So the queue of a client implements the bounded FIFO on every route.     *)
THEOREM WireQueueIsFifo == Spec => ImplementsFifo
<1>1. Init => Fifo!FifoInit
  <2> SUFFICES ASSUME Init PROVE Fifo!FifoInit
    OBVIOUS
  <2>1. WireInv
    BY WireStarts
  <2>2. bytes = <<>> /\ sent = 0 /\ took = <<>> /\ wrote = <<>>
    BY DEF Init
  <2>3. Pending = <<>>
    BY <2>2 DEF Pending
  <2> QED BY <2>2, <2>3, QueueAssumption DEF Fifo!FifoInit
<1> QED BY <1>1, WireInductive, WireStepIsFifoStep, PTL DEF Spec, ImplementsFifo, Fifo!FifoSpec
=============================================================================
