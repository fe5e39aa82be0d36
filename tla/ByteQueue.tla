----------------------------- MODULE ByteQueue -----------------------------
(***************************************************************************)
(* The bounded byte queue of src/daemon/src/queue.rs: one growing buffer,  *)
(* a mark that says how much of it has been written, and a compaction that *)
(* is put off until it pays.  The transport's answers (short writes, would *)
(* block, errors) are chosen nondeterministically.                         *)
(***************************************************************************)
EXTENDS Integers, Sequences

CONSTANTS Byte,     \* the values a byte can have
          Limit,    \* Queue::limit
          MaxChunk, \* the longest chunk a caller offers
          Budget    \* the byte budget one readiness callback spends

ASSUME QueueAssumption == /\ Limit \in Nat \ {0}
                          /\ MaxChunk \in Nat
                          /\ Budget \in Nat \ {0}

VARIABLES bytes,    \* Queue::bytes
          sent,     \* Queue::sent
          took,     \* the chunk the latest operation accepted
          wrote     \* what the latest operation handed to the transport

queueVars == <<bytes, sent, took, wrote>>

Chunk == UNION {[1..n -> Byte] : n \in 0..MaxChunk}

(* Queue::pending, Queue::len and Queue::remaining. *)
Pending == SubSeq(bytes, sent + 1, Len(bytes))
QueueLen == Len(bytes) - sent
Remaining == Limit - QueueLen

(* Queue::new and Queue::from_bytes: an imported buffer over the limit is  *)
(* refused and no queue exists.                                            *)
QueueInit == /\ bytes \in Chunk
             /\ Len(bytes) <= Limit
             /\ sent = 0
             /\ took = << >>
             /\ wrote = << >>

(* Mutant: the written prefix is reclaimed only when that is cheap, never  *)
(* because the chunk would not fit behind it.                              *)
CompactOnlyWhenCheap(chunk) == /\ sent # 0
                               /\ sent >= QueueLen
                               /\ Len(chunk) >= 0

(* The two reasons append drops the written prefix before it extends. *)
CompactionDue(chunk) == /\ sent # 0
                        /\ \/ sent >= QueueLen
                           \/ Len(chunk) > Limit - Len(bytes)

(* Mutant: the drained buffer keeps its old mark. *)
ExtendKeepingMark(chunk) ==
  /\ bytes' = IF CompactionDue(chunk) THEN Pending \o chunk ELSE bytes \o chunk
  /\ UNCHANGED sent

(* The body of append: drain the prefix if that is due, then extend. *)
Extend(chunk) ==
  IF CompactionDue(chunk)
  THEN bytes' = Pending \o chunk /\ sent' = 0
  ELSE bytes' = bytes \o chunk /\ UNCHANGED sent

(* Queue::append when check_append allows the chunk. *)
AppendChunk(chunk) == /\ Len(chunk) <= Remaining
                      /\ Extend(chunk)
                      /\ took' = chunk
                      /\ wrote' = << >>

(* Queue::append_owned: an empty queue takes over the caller's buffer. *)
AppendOwned(chunk) == /\ Len(chunk) <= Remaining
                      /\ IF QueueLen = 0
                         THEN bytes' = chunk /\ sent' = 0
                         ELSE Extend(chunk)
                      /\ took' = chunk
                      /\ wrote' = << >>

(* check_append fails: the caller sees OutOfMemory, the queue is untouched. *)
RefuseChunk(chunk) == /\ Len(chunk) > Remaining
                      /\ took' = << >>
                      /\ wrote' = << >>
                      /\ UNCHANGED <<bytes, sent>>

(* What one flush is asked to write. *)
FlushGoal == IF Budget < QueueLen THEN Budget ELSE QueueLen

(* Queue::flush returning Ok: the whole goal went out, or the transport    *)
(* would block after n bytes of it.  A drained buffer is cleared.          *)
FlushOk(n) == /\ took' = << >>
              /\ wrote' = SubSeq(bytes, sent + 1, sent + n)
              /\ IF sent + n = Len(bytes)
                 THEN bytes' = << >> /\ sent' = 0
                 ELSE sent' = sent + n /\ UNCHANGED bytes

(* Queue::flush returning Err (a write of zero bytes or a transport error) *)
(* before the goal is met: what went out stays counted, nothing is cleared.*)
FlushErr(n) == /\ n < FlushGoal
               /\ took' = << >>
               /\ wrote' = SubSeq(bytes, sent + 1, sent + n)
               /\ sent' = sent + n
               /\ UNCHANGED bytes

Flush == \E n \in 0..FlushGoal : FlushOk(n) \/ FlushErr(n)

QueueNext == \/ \E chunk \in Chunk : \/ AppendChunk(chunk)
                                     \/ AppendOwned(chunk)
                                     \/ RefuseChunk(chunk)
             \/ Flush

QueueSpec == QueueInit /\ [][QueueNext]_queueVars

-----------------------------------------------------------------------------
(* The mark never passes the end of the buffer, so len() cannot underflow. *)
QueueTypeOK == /\ bytes \in Seq(Byte)
               /\ sent \in 0..Len(bytes)
               /\ took \in Seq(Byte)
               /\ wrote \in Seq(Byte)

(* The storage itself, written prefix included, stays within the limit:    *)
(* the deferred compaction of append never lets the buffer outgrow it, and *)
(* the subtraction limit - bytes.len() cannot underflow.                   *)
StorageBound == Len(bytes) <= Limit

(* The queue implements a bounded FIFO: every chunk is accepted whole or   *)
(* refused, and accepted bytes reach the transport in order, once each,    *)
(* across compaction, buffer takeover, short writes and write errors.      *)
Fifo == INSTANCE BoundedFifo WITH pending <- Pending
ImplementsFifo == Fifo!FifoSpec
=============================================================================
