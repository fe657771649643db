------------------------------- MODULE HostQueue -------------------------------
(***************************************************************************)
(* The background fetch thread and its bounded queue, the mechanism that   *)
(* train._PrefetchedIterator (experiment.prefetch_batches) and             *)
(* runtime.data.PrefetchIterator (data.prefetch_batches) share.  One       *)
(* daemon thread calls next(source) and puts what it got into a            *)
(* queue.Queue(maxsize=depth); the consumer takes from the other end.      *)
(*                                                                         *)
(* Batches are numbered by their place in the source, 1, 2, ...; position  *)
(* is the source's own index, the number get_state persists.  The source   *)
(* reads its index when it starts a batch and advances it when the batch   *)
(* is built, so a call of set_state can fall between the two.              *)
(***************************************************************************)
EXTENDS Integers, Sequences

CONSTANTS
  Depth,    \* queue capacity; 0 stands for an iterator that is not wrapped
  Length    \* batches the source yields before next(source) raises

ASSUME HostQueueAssumption == Depth \in Nat /\ Length \in Nat

VARIABLES
  position, \* the source's index: batches it has handed out
  worker,   \* where the fetch thread is
  hand,     \* the entry the thread is about to put
  queue     \* the bounded queue

queueVars == <<position, worker, hand, queue>>

(* The last entry of a queue: _SENTINEL, _END or a _WorkerFailure. *)
Stop == 0

WorkerStates == {"read", "advance", "put", "exited"}

QueueTypeOK ==
  /\ position \in Nat
  /\ worker \in WorkerStates
  /\ hand \in Nat
  /\ queue \in Seq(Nat)
  /\ Len(queue) <= Depth

(* next(source), first half: the batch is chosen by the current index. *)
ReadBatch ==
  /\ worker = "read"
  /\ position < Length
  /\ hand' = position + 1
  /\ worker' = "advance"
  /\ UNCHANGED <<position, queue>>

(* next(source), second half: the index moves on. *)
AdvanceIndex ==
  /\ worker = "advance"
  /\ position' = position + 1
  /\ worker' = "put"
  /\ UNCHANGED <<hand, queue>>

(* next(source) raises, StopIteration or an error: the thread's last entry. *)
SourceStops ==
  /\ worker = "read"
  /\ position >= Length
  /\ hand' = Stop
  /\ worker' = "put"
  /\ UNCHANGED <<position, queue>>

(* Fault: a put that does not wait for room and loses the batch. *)
PutLossy ==
  /\ worker = "put"
  /\ queue' = IF Len(queue) < Depth THEN Append(queue, hand) ELSE queue
  /\ worker' = IF hand = Stop /\ Len(queue) < Depth THEN "exited"
               ELSE IF hand = Stop THEN "put" ELSE "read"
  /\ UNCHANGED <<position, hand>>

(* Fault: the thread ends on an error without telling the consumer. *)
PutNoSentinel ==
  /\ worker = "put"
  /\ Len(queue) < Depth
  /\ queue' = IF hand = Stop THEN queue ELSE Append(queue, hand)
  /\ worker' = IF hand = Stop THEN "exited" ELSE "read"
  /\ UNCHANGED <<position, hand>>

(* Queue.put blocks while the queue is full; the sentinel ends the thread. *)
Put ==
  /\ worker = "put"
  /\ Len(queue) < Depth
  /\ queue' = Append(queue, hand)
  /\ worker' = IF hand = Stop THEN "exited" ELSE "read"
  /\ UNCHANGED <<position, hand>>

Worker == ReadBatch \/ AdvanceIndex \/ SourceStops \/ Put

(* Queue.get on the consumer's thread: enabled only when an entry is there. *)
Take(entry) ==
  /\ queue # <<>>
  /\ entry = Head(queue)
  /\ queue' = Tail(queue)
  /\ UNCHANGED <<position, worker, hand>>

================================================================================
