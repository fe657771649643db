----------------------------- MODULE TrainRunProofs ----------------------------
(***************************************************************************)
(* Theorems about the prefetching iterator, for every queue depth and      *)
(* stream length, and about a training run, for every number of steps,     *)
(* save interval, budget and number of interruptions.                      *)
(***************************************************************************)
EXTENDS Prefetch, TrainRun, TLAPS, FiniteSetTheorems

--------------------------------------------------------------------------------
(* The bounded queue *)

(* What taking the head of a queue leaves behind. *)
LEMMA TailOfQueue ==
  ASSUME NEW q \in Seq(Nat), q # <<>>
  PROVE  /\ Tail(q) \in Seq(Nat)
         /\ Head(q) = q[1]
         /\ Len(q) \in Nat /\ Len(q) > 0
         /\ Len(Tail(q)) = Len(q) - 1
         /\ \A i \in 1 .. Len(Tail(q)) : Tail(q)[i] = q[i + 1]
  OBVIOUS

(* What putting an entry at the end of a queue adds. *)
LEMMA AppendToQueue ==
  ASSUME NEW q \in Seq(Nat), NEW e \in Nat
  PROVE  /\ Append(q, e) \in Seq(Nat)
         /\ Len(Append(q, e)) = Len(q) + 1
         /\ \A i \in 1 .. Len(q) : Append(q, e)[i] = q[i]
         /\ Append(q, e)[Len(q) + 1] = e
  OBVIOUS

(* Whatever the fetch thread does, the queue stays within its capacity. *)
LEMMA WorkerType == QueueTypeOK /\ Worker => QueueTypeOK'
<1> SUFFICES ASSUME QueueTypeOK, Worker PROVE QueueTypeOK'
  OBVIOUS
<1> USE HostQueueAssumption
<1>1. CASE ReadBatch \/ AdvanceIndex \/ SourceStops
  BY <1>1 DEF QueueTypeOK, ReadBatch, AdvanceIndex, SourceStops, WorkerStates, Stop
<1>2. CASE Put
  <2>1. /\ queue' \in Seq(Nat)
        /\ Len(queue') = Len(queue) + 1
    BY <1>2, AppendToQueue DEF QueueTypeOK, Put
  <2>2. QED
    BY <1>2, <2>1 DEF QueueTypeOK, Put, WorkerStates
<1>3. QED
  BY <1>1, <1>2 DEF Worker

(* Taking an entry keeps the queue well typed. *)
LEMMA TakeType == ASSUME QueueTypeOK, NEW e, Take(e)
                  PROVE  QueueTypeOK'
<1> USE HostQueueAssumption
<1>1. /\ queue' \in Seq(Nat)
      /\ Len(queue') = Len(queue) - 1
      /\ Len(queue) \in Nat
  BY TailOfQueue DEF QueueTypeOK, Take
<1>2. QED
  BY <1>1 DEF QueueTypeOK, Take

--------------------------------------------------------------------------------
(* The iterator behind the queue *)

(***************************************************************************)
(* The strengthening.  The queue holds the batches that                    *)
(* follow the delivered ones, and the thread's entry follows the queue.    *)
(***************************************************************************)
Fetched == Len(delivered) + Len(queue)

QueueContents ==
  \A i \in 1 .. Len(queue) :
    queue[i] = IF Len(delivered) + i <= Length THEN Len(delivered) + i ELSE Stop

HandFollows ==
  /\ worker = "read" => position = Fetched
  /\ worker = "advance" => /\ position = Fetched
                           /\ position < Length
                           /\ hand = Fetched + 1
  /\ worker = "put" => \/ /\ position = Fetched + 1
                          /\ position <= Length
                          /\ hand = position
                       \/ /\ position = Fetched
                          /\ position = Length
                          /\ hand = Stop
  /\ worker = "exited" => /\ position = Length
                          /\ Fetched = IF consumer = "stopped" THEN Length
                                                              ELSE Length + 1

Sequencing ==
  /\ QueueContents
  /\ HandFollows
  /\ position <= Length
  /\ consumer = "stopped" => Len(delivered) = Length /\ worker = "exited"

(* The inductive invariant: types, and where each batch in flight is. *)
PrefetchInv == PrefetchTypeOK /\ Sequencing

(* The constructor establishes the invariant. *)
LEMMA PrefetchInitInv == PrefetchInit => PrefetchInv
  BY HostQueueAssumption
     DEF PrefetchInit, PrefetchInv, PrefetchTypeOK, QueueTypeOK, WorkerStates, Stop, Sequencing,
         QueueContents, HandFollows, Fetched

(* The first half of next(source) keeps the invariant. *)
LEMMA ReadInv == PrefetchInv /\ ReadBatch /\ UNCHANGED <<consumer, delivered>> => PrefetchInv'
  BY HostQueueAssumption
     DEF ReadBatch, PrefetchInv, PrefetchTypeOK, QueueTypeOK, WorkerStates, Sequencing,
         QueueContents, HandFollows, Fetched

(* Advancing the source's index keeps the invariant. *)
LEMMA AdvanceInv == PrefetchInv /\ AdvanceIndex /\ UNCHANGED <<consumer, delivered>> => PrefetchInv'
  BY HostQueueAssumption
     DEF AdvanceIndex, PrefetchInv, PrefetchTypeOK, QueueTypeOK, WorkerStates, Sequencing,
         QueueContents, HandFollows, Fetched

(* The end of the source keeps the invariant. *)
LEMMA StopInv == PrefetchInv /\ SourceStops /\ UNCHANGED <<consumer, delivered>> => PrefetchInv'
  BY HostQueueAssumption
     DEF SourceStops, PrefetchInv, PrefetchTypeOK, QueueTypeOK, WorkerStates, Stop, Sequencing,
         QueueContents, HandFollows, Fetched

(* A put keeps the invariant: the entry in hand is the next one in order. *)
LEMMA PutInv == PrefetchInv /\ Put /\ UNCHANGED <<consumer, delivered>> => PrefetchInv'
<1> SUFFICES ASSUME PrefetchInv, Put, UNCHANGED <<consumer, delivered>>
             PROVE  PrefetchInv'
  OBVIOUS
<1> USE HostQueueAssumption
<1>1. /\ queue \in Seq(Nat) /\ hand \in Nat /\ delivered \in Seq(Nat)
      /\ Len(delivered) \in Nat /\ Len(queue) \in Nat
  BY DEF PrefetchInv, PrefetchTypeOK, QueueTypeOK
<1>2. /\ queue' = Append(queue, hand)
      /\ queue' \in Seq(Nat)
      /\ Len(queue') = Len(queue) + 1
      /\ \A i \in 1 .. Len(queue) : queue'[i] = queue[i]
      /\ queue'[Len(queue) + 1] = hand
  BY <1>1, AppendToQueue DEF Put
<1>3. PrefetchTypeOK'
  BY <1>1, <1>2 DEF Put, PrefetchInv, PrefetchTypeOK, QueueTypeOK, WorkerStates
<1>4. consumer # "stopped"
  BY DEF Put, PrefetchInv, Sequencing
<1>5. QueueContents'
  <2>1. hand = IF Fetched + 1 <= Length THEN Fetched + 1 ELSE Stop
    BY <1>1 DEF Put, PrefetchInv, Sequencing, HandFollows, Fetched
  <2>2. ASSUME NEW i \in 1 .. Len(queue')
        PROVE  queue'[i] = IF Len(delivered) + i <= Length
                             THEN Len(delivered) + i ELSE Stop
    <3>1. CASE i \in 1 .. Len(queue)
      BY <1>2, <3>1 DEF PrefetchInv, Sequencing, QueueContents
    <3>2. CASE i = Len(queue) + 1
      BY <1>1, <1>2, <2>1, <3>2 DEF Fetched
    <3>3. QED
      BY <1>1, <1>2, <3>1, <3>2
  <2>3. QED
    BY <2>2 DEF QueueContents
<1>6. HandFollows'
  BY <1>1, <1>2, <1>4 DEF Put, PrefetchInv, PrefetchTypeOK, QueueTypeOK, Sequencing, HandFollows,
                          Fetched, Stop
<1>7. QED
  BY <1>3, <1>4, <1>5, <1>6 DEF Put, PrefetchInv, Sequencing

(* Entering next() keeps the invariant. *)
LEMMA AskInv == PrefetchInv /\ Ask => PrefetchInv'
  BY HostQueueAssumption
     DEF Ask, queueVars, PrefetchInv, PrefetchTypeOK, QueueTypeOK, Sequencing, QueueContents, HandFollows, Fetched

(* What a call returns: the next batch, or the raise when none is left. *)
LEMMA AnswerIsNext ==
  ASSUME PrefetchInv, Answer
  PROVE  /\ queue # <<>>
         /\ queue' = Tail(queue)
         /\ UNCHANGED <<position, worker, hand>>
         /\ consumer = "waiting"
         /\ \/ /\ Len(delivered) < Length
               /\ consumer' = "busy"
               /\ delivered' = Append(delivered, Len(delivered) + 1)
            \/ /\ Len(delivered) >= Length
               /\ consumer' = "stopped"
               /\ delivered' = delivered
<1> USE HostQueueAssumption
<1>1. PICK entry \in 0 .. Length :
        /\ Take(entry)
        /\ IF entry = Stop
             THEN consumer' = "stopped" /\ UNCHANGED delivered
             ELSE consumer' = "busy" /\ delivered' = Append(delivered, entry)
  BY DEF Answer
<1>2. /\ queue \in Seq(Nat) /\ queue # <<>> /\ Len(delivered) \in Nat
  BY <1>1 DEF Take, PrefetchInv, PrefetchTypeOK, QueueTypeOK
<1>3. entry = queue[1] /\ Len(queue) > 0 /\ Len(queue) \in Nat
  BY <1>1, <1>2, TailOfQueue DEF Take
<1>4. entry = IF Len(delivered) + 1 <= Length THEN Len(delivered) + 1 ELSE Stop
  BY <1>2, <1>3 DEF PrefetchInv, Sequencing, QueueContents
<1>5. queue' = Tail(queue) /\ UNCHANGED <<position, worker, hand>> /\ consumer = "waiting"
  BY <1>1 DEF Take, Answer
<1>6. Length \in Nat /\ Len(delivered) \in Nat
  BY <1>2, HostQueueAssumption
<1>7. CASE Len(delivered) < Length
  BY <1>1, <1>2, <1>4, <1>5, <1>6, <1>7 DEF Stop
<1>8. CASE Len(delivered) >= Length
  BY <1>1, <1>2, <1>4, <1>5, <1>6, <1>8 DEF Stop
<1>9. QED
  BY <1>6, <1>7, <1>8

(* An answer keeps the invariant. *)
LEMMA AnswerInv == PrefetchInv /\ Answer => PrefetchInv'
<1> SUFFICES ASSUME PrefetchInv, Answer
             PROVE  PrefetchInv'
  OBVIOUS
<1> USE HostQueueAssumption
<1>1. /\ queue \in Seq(Nat) /\ delivered \in Seq(Nat) /\ Len(delivered) \in Nat
      /\ position \in Nat /\ hand \in Nat /\ worker \in WorkerStates
      /\ Len(queue) <= Depth
  BY DEF PrefetchInv, PrefetchTypeOK, QueueTypeOK
<1>2. /\ queue' \in Seq(Nat)
      /\ Len(queue) \in Nat /\ Len(queue) > 0
      /\ Len(queue') = Len(queue) - 1
      /\ \A i \in 1 .. Len(queue') : queue'[i] = queue[i + 1]
  BY <1>1, AnswerIsNext, TailOfQueue
<1>3. CASE Len(delivered) < Length
  <2>1. /\ consumer' = "busy"
        /\ delivered' \in Seq(Nat)
        /\ Len(delivered') = Len(delivered) + 1
        /\ UNCHANGED <<position, worker, hand>>
        /\ consumer = "waiting"
    <3>1. Len(delivered) + 1 \in Nat
      BY <1>1
    <3>2. /\ consumer' = "busy" /\ consumer = "waiting"
          /\ delivered' = Append(delivered, Len(delivered) + 1)
          /\ UNCHANGED <<position, worker, hand>>
      BY <1>1, <1>3, AnswerIsNext
    <3>3. QED
      BY <1>1, <3>1, <3>2, AppendToQueue
  <2>2. PrefetchTypeOK'
    BY <1>1, <1>2, <2>1 DEF PrefetchTypeOK, QueueTypeOK
  <2>3. Fetched' = Fetched
    BY <1>1, <1>2, <2>1 DEF Fetched
  <2>4. QueueContents'
    BY <1>1, <1>2, <2>1 DEF PrefetchInv, Sequencing, QueueContents
  <2>5. HandFollows' /\ position' <= Length
    BY <1>1, <2>1, <2>3 DEF PrefetchInv, Sequencing, HandFollows
  <2>6. QED
    BY <2>1, <2>2, <2>4, <2>5 DEF PrefetchInv, Sequencing
<1>4. CASE Len(delivered) >= Length
  <2>1. /\ consumer' = "stopped"
        /\ delivered' = delivered
        /\ UNCHANGED <<position, worker, hand>>
        /\ consumer = "waiting"
    BY <1>1, <1>4, AnswerIsNext
  <2>2. PrefetchTypeOK'
    BY <1>1, <1>2, <2>1 DEF PrefetchTypeOK, QueueTypeOK
  <2>3. Fetched >= Length + 1
    BY <1>1, <1>2, <1>4 DEF Fetched
  <2>4. worker = "exited"
    BY <1>1, <2>3 DEF PrefetchInv, Sequencing, HandFollows, WorkerStates, Fetched
  <2>5. Fetched = Length + 1 /\ position = Length
    BY <2>1, <2>4 DEF PrefetchInv, Sequencing, HandFollows
  <2>6. Len(queue) = 1 /\ Len(delivered) = Length /\ Len(queue') = 0
    BY <1>1, <1>2, <1>4, <2>5 DEF Fetched
  <2>7. QueueContents'
    BY <2>6 DEF QueueContents
  <2>8. HandFollows'
    BY <1>1, <2>1, <2>4, <2>5, <2>6 DEF HandFollows, Fetched
  <2>9. QED
    BY <2>1, <2>2, <2>4, <2>5, <2>6, <2>7, <2>8 DEF PrefetchInv, Sequencing
<1>5. QED
  BY <1>1, <1>3, <1>4

(* Every step keeps the invariant. *)
LEMMA PrefetchNextInv == PrefetchInv /\ [PrefetchNext]_prefetchVars => PrefetchInv'
<1>1. PrefetchInv /\ PrefetchNext => PrefetchInv'
  BY ReadInv, AdvanceInv, StopInv, PutInv, AskInv, AnswerInv DEF PrefetchNext, FetchThread, Worker
<1>2. PrefetchInv /\ UNCHANGED prefetchVars => PrefetchInv'
  BY DEF prefetchVars, PrefetchInv, PrefetchTypeOK, QueueTypeOK, Sequencing, QueueContents, HandFollows, Fetched
<1>3. QED
  BY <1>1, <1>2

(* The invariant holds of every behaviour of the prefetching iterator. *)
THEOREM PrefetchInvariant == PrefetchSpec => []PrefetchInv
  BY PrefetchInitInv, PrefetchNextInv, PTL DEF PrefetchSpec

(* Type correctness: the queue never exceeds its capacity. *)
THEOREM PrefetchTypeCorrect == PrefetchSpec => []PrefetchTypeOK
<1>1. PrefetchInv => PrefetchTypeOK
  BY DEF PrefetchInv
<1>2. QED
  BY <1>1, PrefetchInvariant, PTL

(* However deep the queue, a position read while training is at most one   *)
(* batch further ahead than the queue can hold.                            *)
THEOREM BoundedLookahead == PrefetchSpec => []LookaheadBound
<1>1. PrefetchInv => LookaheadBound
  BY HostQueueAssumption
     DEF PrefetchInv, PrefetchTypeOK, QueueTypeOK, WorkerStates, Sequencing, HandFollows, Fetched, LookaheadBound
<1>2. QED
  BY <1>1, PrefetchInvariant, PTL

(* The prefetching iterator implements the unqueued one: the initial       *)
(* states agree and every step is a step of the stream or invisible.       *)
THEOREM PrefetchImplementsStream == PrefetchSpec => Stream!SafeSpec
<1>1. PrefetchInit => Stream!Init
  BY DEF PrefetchInit, Stream!Init
<1>2. PrefetchInv /\ [PrefetchNext]_prefetchVars => [Stream!Next]_Stream!vars
  <2> SUFFICES ASSUME PrefetchInv, [PrefetchNext]_prefetchVars
               PROVE  [Stream!Next]_Stream!vars
    OBVIOUS
  <2>1. CASE FetchThread \/ UNCHANGED prefetchVars
    BY <2>1 DEF FetchThread, prefetchVars, Stream!vars
  <2>2. CASE Ask
    BY <2>2 DEF Ask, Stream!Next, Stream!Ask
  <2>3. CASE Answer
    BY <2>3, AnswerIsNext DEF Stream!Next, Stream!Deliver, Stream!Raise
  <2>4. QED
    BY <2>1, <2>2, <2>3 DEF PrefetchNext
<1>3. QED
  BY <1>1, <1>2, PrefetchInvariant, PTL DEF PrefetchSpec, Stream!SafeSpec

(* What the fairness part of StreamSpec stands on: while the consumer      *)
(* waits there is an entry, or the thread can go on to the next one.       *)

(* The guards of FetchThread. *)
ThreadRuns == worker \in {"read", "advance"} \/ (worker = "put" /\ Len(queue) < Depth)

SomethingComes == consumer = "waiting" => queue # <<>> \/ ThreadRuns

StepsToPut == CASE worker = "read" -> 2 [] worker = "advance" -> 1 [] OTHER -> 0

EntryIsNearer ==
  consumer = "waiting" /\ queue = <<>> => queue' # <<>> \/ StepsToPut' < StepsToPut

(* A queue has room for an entry. *)
LEMMA DepthHolds == PrefetchSpec => [](Depth >= 1)
<1>1. PrefetchInit => Depth >= 1
  BY DEF PrefetchInit
<1>2. (Depth >= 1) /\ [PrefetchNext]_prefetchVars => (Depth >= 1)'
  OBVIOUS
<1>3. QED
  BY <1>1, <1>2, PTL DEF PrefetchSpec

(* No more is delivered than there is. *)
LEMMA NoneBeyondTheEnd == PrefetchSpec => [](Len(delivered) <= Length)
<1>1. PrefetchInit => Len(delivered) <= Length
  BY HostQueueAssumption DEF PrefetchInit
<1>2. PrefetchInv /\ Len(delivered) <= Length /\ [PrefetchNext]_prefetchVars
        => (Len(delivered) <= Length)'
  <2> SUFFICES ASSUME PrefetchInv, Len(delivered) <= Length, [PrefetchNext]_prefetchVars
               PROVE  Len(delivered') <= Length
    OBVIOUS
  <2>1. CASE Answer
    <3>1. \/ Len(delivered) < Length /\ delivered' = Append(delivered, Len(delivered) + 1)
          \/ delivered' = delivered
      BY <2>1, AnswerIsNext DEF Stream!Deliver, Stream!Raise
    <3>2. delivered \in Seq(Nat) /\ Length \in Nat
      BY HostQueueAssumption DEF PrefetchInv, PrefetchTypeOK
    <3>3. QED
      BY <3>1, <3>2
  <2>2. CASE FetchThread \/ Ask \/ UNCHANGED prefetchVars
    BY <2>2 DEF FetchThread, Ask, prefetchVars
  <2>3. QED
    BY <2>1, <2>2 DEF PrefetchNext
<1>3. QED
  BY <1>1, <1>2, PrefetchInvariant, PTL DEF PrefetchSpec

(* The get() without a timeout (train.py:460-464) is never called in vain: *)
(* the sentinel is in the queue when the thread has ended, and before that *)
(* an empty queue is at most three of its steps from an entry.             *)
THEOREM CallsAreAnswered ==
  PrefetchSpec => []SomethingComes /\ [][EntryIsNearer]_prefetchVars
<1>1. PrefetchInv /\ Depth >= 1 /\ Len(delivered) <= Length => SomethingComes
  <2> SUFFICES ASSUME PrefetchInv, Depth >= 1, Len(delivered) <= Length,
                      consumer = "waiting", queue = <<>>
               PROVE  ThreadRuns
    BY DEF SomethingComes
  <2>1. Len(queue) = 0 /\ Len(queue) < Depth
    BY HostQueueAssumption
  <2>2. worker # "exited"
    <3>1. SUFFICES ASSUME worker = "exited" PROVE FALSE
      OBVIOUS
    <3>2. Len(delivered) = Length + 1
      BY <2>1, <3>1 DEF PrefetchInv, PrefetchTypeOK, Sequencing, HandFollows, Fetched
    <3>3. QED
      BY <3>2, HostQueueAssumption
  <2>3. QED
    BY <2>1, <2>2 DEF ThreadRuns, PrefetchInv, PrefetchTypeOK, QueueTypeOK, WorkerStates
<1>2. PrefetchInv /\ [PrefetchNext]_prefetchVars => [EntryIsNearer]_prefetchVars
  <2> SUFFICES ASSUME PrefetchInv, PrefetchNext, consumer = "waiting", queue = <<>>
               PROVE  queue' # <<>> \/ StepsToPut' < StepsToPut
    BY DEF EntryIsNearer
  <2>1. CASE FetchThread
    <3>1. CASE ReadBatch \/ AdvanceIndex \/ SourceStops
      BY <3>1 DEF ReadBatch, AdvanceIndex, SourceStops, StepsToPut
    <3>2. CASE Put
      BY <3>2, AppendToQueue DEF Put, PrefetchInv, PrefetchTypeOK, QueueTypeOK
    <3>3. QED
      BY <2>1, <3>1, <3>2 DEF FetchThread, Worker
  <2>2. QED
    BY <2>1 DEF PrefetchNext, Ask, Answer, Take
<1>3. QED
  BY <1>1, <1>2, PrefetchInvariant, DepthHolds, NoneBeyondTheEnd, PTL DEF PrefetchSpec

--------------------------------------------------------------------------------
(* Types of a training run *)

(* A process that is gone leaves a well-typed state. *)
LEMMA GoneType == TypeOK /\ Gone /\ outcome' \in {"running", "raised", "done"}
                         /\ interruptions' \in Nat => TypeOK'
  BY HostQueueAssumption
     DEF TypeOK, Gone, QueueTypeOK, WorkerStates, Stop, NoBatch, Points, LoopPoints,
         Weights, FreshWeights

(* The fetch thread keeps the types. *)
LEMMA PrefetchingType == TypeOK /\ Prefetching => TypeOK'
  BY WorkerType DEF TypeOK, Prefetching, legVars, storeVars

(* What next(data_iterator) does to the queue and the index. *)
LEMMA ReceiveType == ASSUME TypeOK, NEW b \in Nat, Receive(b)
                     PROVE  QueueTypeOK'
<1>1. CASE Depth > 0
  BY <1>1, TakeType DEF TypeOK, Receive
<1>2. CASE ~(Depth > 0)
  BY <1>2, HostQueueAssumption DEF TypeOK, Receive, QueueTypeOK
<1>3. QED
  BY <1>1, <1>2

(* Starting up keeps the types. *)
LEMMA StartupType == TypeOK /\ Startup => TypeOK'
<1> SUFFICES ASSUME TypeOK, Startup PROVE TypeOK'
  OBVIOUS
<1> USE HostQueueAssumption, TrainRunAssumption
<1>1. CASE Launch
  BY <1>1 DEF TypeOK, Launch, storeVars, QueueTypeOK, WorkerStates, Points, LoopPoints
<1>2. CASE Restore
  BY <1>2 DEF TypeOK, Restore, storeVars, QueueTypeOK, WorkerStates, Points, LoopPoints,
              Checkpoint
<1>3. CASE WarmStart
  BY <1>3 DEF TypeOK, WarmStart, queueVars, storeVars, QueueTypeOK, Points, LoopPoints,
              Weights
<1>4. CASE FirstFetch
  BY <1>4, ReceiveType
     DEF TypeOK, FirstFetch, StageBatch, storeVars, Points, LoopPoints
<1>5. CASE FirstFetchRaises
  BY <1>5, GoneType DEF TypeOK, FirstFetchRaises
<1>6. QED
  BY <1>1, <1>2, <1>3, <1>4, <1>5 DEF Startup

(* A snapshot is a checkpoint. *)
LEMMA SnapshotType == ASSUME TypeOK, NEW s \in Nat, BeginSave(s)
                      PROVE  /\ inflight' \subseteq Checkpoint
                             /\ \A c, d \in inflight' : c = d
  BY TrainRunAssumption
     DEF TypeOK, BeginSave, Snapshot, IteratorState, Checkpoint, QueueTypeOK

(* The loop keeps the types. *)
LEMMA LoopType == TypeOK /\ Loop => TypeOK'
<1> SUFFICES ASSUME TypeOK, Loop PROVE TypeOK'
  OBVIOUS
<1> USE HostQueueAssumption, TrainRunAssumption DEF queueVars, storeVars
<1>1. CASE BeginStep
  BY <1>1 DEF TypeOK, BeginStep, QueueTypeOK, Points, LoopPoints
<1>2. CASE EndLoop
  BY <1>2 DEF TypeOK, EndLoop, QueueTypeOK, Points, LoopPoints
<1>3. CASE Fetch
  BY <1>3, ReceiveType DEF TypeOK, Fetch, StageBatch, Points, LoopPoints
<1>4. CASE Train
  BY <1>4 DEF TypeOK, Train, QueueTypeOK, Points, LoopPoints, Weights, NoBatch
<1>5. CASE Stage
  BY <1>5, ReceiveType DEF TypeOK, Stage, StageBatch, QueueTypeOK, Points, LoopPoints
<1>6. CASE Metrics
  BY <1>6 DEF TypeOK, Metrics, QueueTypeOK, Points, LoopPoints
<1>7. CASE IntervalSave
  BY <1>7, SnapshotType DEF TypeOK, IntervalSave, QueueTypeOK, Points, LoopPoints
<1>8. CASE EndStep
  BY <1>8 DEF TypeOK, EndStep, QueueTypeOK, Points, LoopPoints
<1>9. CASE DataEnds
  BY <1>9, ReceiveType DEF TypeOK, DataEnds, Points, LoopPoints, Stop
<1>10. QED
  BY <1>1, <1>2, <1>3, <1>4, <1>5, <1>6, <1>7, <1>8, <1>9 DEF Loop

(* Finishing keeps the types. *)
LEMMA FinishType == TypeOK /\ Finish => TypeOK'
<1> SUFFICES ASSUME TypeOK, Finish PROVE TypeOK'
  OBVIOUS
<1> USE DEF queueVars, storeVars
<1>1. CASE FinalSave
  BY <1>1, SnapshotType DEF TypeOK, FinalSave, QueueTypeOK, Points, LoopPoints
<1>2. CASE FinalSaveRefused
  BY <1>2 DEF TypeOK, FinalSaveRefused, QueueTypeOK, Points, LoopPoints
<1>3. CASE Close
  BY <1>3 DEF TypeOK, Close, QueueTypeOK, Points, LoopPoints
<1>4. CASE Exit
  BY <1>4, GoneType DEF TypeOK, Exit
<1>5. QED
  BY <1>1, <1>2, <1>3, <1>4 DEF Finish

(* A commit keeps the types. *)
LEMMA CommitType == TypeOK /\ Commit => TypeOK'
  BY DEF TypeOK, Commit, Retained, queueVars, legVars, QueueTypeOK

(* A fault keeps the types. *)
LEMMA FaultType == TypeOK /\ Fault => TypeOK'
<1> SUFFICES ASSUME TypeOK, Fault PROVE TypeOK'
  OBVIOUS
<1>1. CASE Crash \/ DonorMissing
  BY <1>1, GoneType DEF TypeOK, Crash, DonorMissing, Interrupted
<1>2. CASE Raises \/ WriteFails
  BY <1>2 DEF TypeOK, Raises, WriteFails, Interrupted, queueVars, storeVars, QueueTypeOK,
              Points, LoopPoints
<1>3. CASE SourceFails
  BY <1>3 DEF TypeOK, SourceFails, Interrupted, legVars, storeVars, QueueTypeOK,
              WorkerStates, Stop
<1>4. QED
  BY <1>1, <1>2, <1>3 DEF Fault

(* Every variable keeps its type in every run. *)
THEOREM TypeCorrect == Spec => []TypeOK
<1>1. Init => TypeOK
  BY HostQueueAssumption
     DEF Init, Idle, TypeOK, QueueTypeOK, WorkerStates, Stop, NoBatch, Points, LoopPoints,
         Weights, FreshWeights
<1>2. TypeOK /\ [Next]_vars => TypeOK'
  <2>1. TypeOK /\ UNCHANGED vars => TypeOK'
    BY DEF vars, queueVars, legVars, storeVars, TypeOK, QueueTypeOK
  <2>2. QED
    BY <2>1, PrefetchingType, StartupType, LoopType, FinishType, CommitType, FaultType
       DEF Next, Main
<1>3. QED
  BY <1>1, <1>2, PTL DEF Spec

--------------------------------------------------------------------------------
(* Exact replay *)

(* The configurations whose position can be persisted exactly. *)
Exact == Depth = 0 /\ Resumable

(***************************************************************************)
(* The strengthening behind ExactReplay and PersistedAgrees, for a         *)
(* resumable source read without a queue.  Its heart is Staging: a batch   *)
(* is never staged where a save of this leg can follow, because the tokens *)
(* of a step never exceed the projection.                                  *)
(***************************************************************************)
Consumed == Len(weights.trained)

GoodCheckpoint(c) ==
  /\ \A i \in 1 .. Len(c.weights.trained) : c.weights.trained[i] = i
  /\ Len(c.weights.trained) = c.step
  /\ c.iterator.resumable /\ c.iterator.index = c.step

(* A leg that has found nothing left to do. *)
NothingNew ==
  completed = startStep /\ inflight = {} /\ \E c \in store : c.step = startStep

Starting ==
  /\ pc \in {"down", "restore"} => position = 0 /\ weights = FreshWeights /\ startStep = 0
  /\ pc \in {"warm", "first"} =>
       /\ position = Consumed /\ Consumed = startStep
       /\ startStep > 0 => \E c \in store : c.step = startStep
  /\ pc \in {"down", "restore", "warm", "first"} => inflight = {}

Counting ==
  /\ pc = "head" => Consumed = step /\ completed = step
  /\ pc \in {"fetch", "train"} => Consumed + 1 = step
  /\ pc \in {"stage", "metrics"} => Consumed = step
  /\ pc \in {"evaluate", "saving"} => Consumed = step /\ completed = step
  /\ pc = "final" => Consumed = completed

Staging ==
  /\ pc \in LoopPoints => IF batch = NoBatch THEN position = Consumed
                           ELSE position = Consumed + 1 /\ batch = position
  /\ pc \in {"fetch", "stage"} => batch = NoBatch
  /\ pc = "train" => batch # NoBatch
  /\ pc \in {"metrics", "evaluate"} /\ WillCheckpoint => batch = NoBatch
  /\ pc = "metrics" /\ EndsTokenBudget => batch = NoBatch
  /\ pc \in {"evaluate", "saving"} /\ BudgetReached => batch = NoBatch
  /\ pc \in {"metrics", "evaluate", "saving"} => batch = NoBatch \/ step < Steps
  /\ pc = "head" => batch = NoBatch \/ step < Steps \/ NothingNew
  /\ pc = "final" => batch = NoBatch \/ NothingNew

Replay ==
  /\ Depth = 0 => worker = "exited"
  /\ ExactReplay
  /\ \A c \in store \cup inflight : GoodCheckpoint(c)
  /\ Starting /\ Counting /\ Staging

ReplayInv == TypeOK /\ Replay

(* One more batch at the end of the trained sequence, in order. *)
LEMMA TrainInOrder ==
  ASSUME NEW t \in Seq(Nat), \A i \in 1 .. Len(t) : t[i] = i,
         NEW b \in Nat, b = Len(t) + 1
  PROVE  /\ \A i \in 1 .. Len(Append(t, b)) : Append(t, b)[i] = i
         /\ Len(Append(t, b)) = Len(t) + 1
<1>1. Len(Append(t, b)) = Len(t) + 1
  OBVIOUS
<1>2. ASSUME NEW i \in 1 .. Len(t) + 1 PROVE Append(t, b)[i] = i
  <2>1. CASE i \in 1 .. Len(t)
    BY <2>1
  <2>2. CASE i = Len(t) + 1
    BY <2>2
  <2>3. QED
    BY <2>1, <2>2
<1>3. QED
  BY <1>1, <1>2

(* A leg that ends leaves only its committed checkpoints behind. *)
LEMMA GoneReplay == ReplayInv /\ Gone => Replay'
<1> SUFFICES ASSUME ReplayInv, Gone PROVE Replay'
  OBVIOUS
<1>1. pc' = "down" /\ weights' = FreshWeights /\ store' = store /\ inflight' = {}
  BY DEF Gone
<1>2. ExactReplay' /\ Starting' /\ Counting' /\ Staging'
  BY <1>1 DEF Gone, FreshWeights, ExactReplay, Starting, Counting, Staging, LoopPoints
<1>3. QED
  BY <1>1, <1>2 DEF ReplayInv, Replay, Gone, GoodCheckpoint

(* Without a queue, next() returns the batch the index names. *)
LEMMA ReceiveNext ==
  ASSUME Exact, TypeOK, NEW b \in 1 .. Length, Receive(b)
  PROVE  /\ b = position + 1 /\ position' = position + 1
         /\ UNCHANGED <<worker, hand, queue>>
  BY HostQueueAssumption DEF Exact, TypeOK, QueueTypeOK, Receive, Stop

(* Starting up keeps the invariant: position, weights and step agree. *)
LEMMA StartupReplay == Exact /\ ReplayInv /\ Startup => Replay'
<1> SUFFICES ASSUME Exact, ReplayInv, Startup PROVE Replay'
  OBVIOUS
<1> USE HostQueueAssumption, TrainRunAssumption
<1>1. CASE Launch
  <2>1. Starting' /\ Counting' /\ Staging'
    BY <1>1 DEF Launch, storeVars, ReplayInv, Replay, Starting, Counting, Staging,
                LoopPoints, Consumed
  <2>2. QED
    BY <1>1, <2>1 DEF Launch, storeVars, Exact, ReplayInv, Replay, ExactReplay, GoodCheckpoint
<1>2. CASE Restore
  <2>1. Counting' /\ Staging'
    BY <1>2 DEF Restore, Counting, Staging, LoopPoints
  <2>2. UNCHANGED <<store, inflight, worker, completed>> /\ pc' = "warm" /\ inflight = {}
    BY <1>2 DEF Restore, storeVars, ReplayInv, Replay, Starting
  <2>3. CASE store = {} /\ UNCHANGED <<startStep, weights, position>>
    <3>1. Starting' /\ ExactReplay'
      BY <1>2, <2>2, <2>3 DEF Restore, ReplayInv, Replay, Starting, ExactReplay, Consumed,
                              FreshWeights
    <3>2. QED
      BY <2>1, <2>2, <3>1 DEF ReplayInv, Replay, GoodCheckpoint
  <2>4. ASSUME NEW c \in store,
               startStep' = c.step, weights' = c.weights,
               position' = IF c.iterator.resumable THEN c.iterator.index ELSE position
        PROVE  Replay'
    <3>1. GoodCheckpoint(c)
      BY DEF ReplayInv, Replay
    <3>2. Starting' /\ ExactReplay'
      BY <2>2, <2>4, <3>1 DEF GoodCheckpoint, Starting, ExactReplay, Consumed
    <3>3. QED
      BY <2>1, <2>2, <3>2 DEF ReplayInv, Replay, GoodCheckpoint
  <2>5. QED
    BY <1>2, <2>3, <2>4 DEF Restore
<1>3. CASE WarmStart
  <2>1. /\ UNCHANGED <<store, inflight, worker, completed, position, startStep>>
        /\ pc = "warm" /\ pc' = "first"
    BY <1>3 DEF WarmStart, storeVars, queueVars
  <2>2. Counting' /\ Staging'
    BY <2>1 DEF Counting, Staging, LoopPoints
  <2>3. CASE startStep = 0 /\ InitFromRun
    <3>1. weights'.trained = <<>>
      BY <1>3, <2>3 DEF WarmStart
    <3>2. Starting' /\ ExactReplay'
      BY <2>1, <2>3, <3>1 DEF ReplayInv, Replay, Starting, ExactReplay, Consumed
    <3>3. QED
      BY <2>1, <2>2, <3>2 DEF ReplayInv, Replay, GoodCheckpoint
  <2>4. CASE ~(startStep = 0 /\ InitFromRun)
    <3>1. weights' = weights
      BY <1>3, <2>4 DEF WarmStart
    <3>2. Starting' /\ ExactReplay'
      BY <2>1, <3>1 DEF ReplayInv, Replay, Starting, ExactReplay, Consumed
    <3>3. QED
      BY <2>1, <2>2, <3>2 DEF ReplayInv, Replay, GoodCheckpoint
  <2>5. QED
    BY <2>3, <2>4
<1>4. CASE FirstFetch
  <2>1. PICK b \in 1 .. Length : Receive(b) /\ batch' = b
    BY <1>4 DEF FirstFetch, StageBatch
  <2>2. /\ batch' = position + 1 /\ position' = position + 1
        /\ UNCHANGED <<worker, store, inflight, weights, startStep>>
        /\ step' = startStep /\ completed' = startStep
        /\ pc = "first" /\ pc' = "head"
    BY <1>4, <2>1, ReceiveNext DEF FirstFetch, storeVars, ReplayInv
  <2>3. position = Consumed /\ Consumed = startStep /\ inflight = {} /\ position \in Nat
    BY <2>2 DEF ReplayInv, Replay, Starting, TypeOK, QueueTypeOK
  <2>4. startStep >= Steps => NothingNew'
    BY <2>2, <2>3 DEF ReplayInv, Replay, Starting, NothingNew
  <2>5. Starting' /\ Counting' /\ ExactReplay'
    BY <2>2, <2>3 DEF Starting, Counting, ReplayInv, Replay, ExactReplay, Consumed
  <2>6. Staging'
    BY <2>2, <2>3, <2>4 DEF Staging, LoopPoints, NoBatch, Consumed, ReplayInv, TypeOK
  <2>7. QED
    BY <2>2, <2>5, <2>6 DEF ReplayInv, Replay, GoodCheckpoint
<1>5. CASE FirstFetchRaises
  BY <1>5, GoneReplay DEF FirstFetchRaises
<1>6. QED
  BY <1>1, <1>2, <1>3, <1>4, <1>5 DEF Startup

(* A save of a leg with nothing staged is a good checkpoint. *)
LEMMA SaveReplay ==
  ASSUME Exact, ReplayInv, NEW s \in Nat, BeginSave(s),
         batch = NoBatch, pc \in LoopPoints, s = Consumed
  PROVE  \A c \in inflight' : GoodCheckpoint(c)
<1>1. position = Consumed
  BY DEF ReplayInv, Replay, Staging
<1>2. GoodCheckpoint(Snapshot(s))
  BY <1>1 DEF Exact, GoodCheckpoint, Snapshot, IteratorState, ReplayInv, Replay,
              ExactReplay, Consumed
<1>3. QED
  BY <1>2 DEF BeginSave

(* The loop keeps the invariant: what is staged is one ahead of what is    *)
(* consumed, and nothing is staged where a save of this leg can follow.    *)
LEMMA LoopReplay == Exact /\ ReplayInv /\ Loop => Replay'
<1> SUFFICES ASSUME Exact, ReplayInv, Loop PROVE Replay'
  OBVIOUS
<1> USE HostQueueAssumption, TrainRunAssumption
<1>t. /\ position \in Nat /\ step \in Nat /\ completed \in Nat /\ batch \in Nat
      /\ tokensSeen \in Nat /\ weights.trained \in Seq(Nat) /\ Consumed \in Nat
  BY DEF ReplayInv, TypeOK, QueueTypeOK, Weights, Consumed
<1>1. CASE BeginStep
  <2>1. Starting' /\ Counting' /\ Staging'
    BY <1>1, <1>t DEF BeginStep, queueVars, storeVars, ReplayInv, Replay, Starting, Counting,
                      Staging, LoopPoints, Consumed
  <2>2. QED
    BY <1>1, <2>1 DEF BeginStep, queueVars, storeVars, ReplayInv, Replay, ExactReplay,
                      GoodCheckpoint
<1>2. CASE EndLoop
  <2>1. Starting' /\ Counting' /\ Staging'
    BY <1>2, <1>t DEF EndLoop, queueVars, storeVars, ReplayInv, Replay, Starting, Counting,
                      Staging, NothingNew, LoopPoints, Consumed
  <2>2. QED
    BY <1>2, <2>1 DEF EndLoop, queueVars, storeVars, ReplayInv, Replay, ExactReplay,
                      GoodCheckpoint
<1>3. CASE Fetch
  <2>1. PICK b \in 1 .. Length : Receive(b) /\ batch' = b
    BY <1>3 DEF Fetch, StageBatch
  <2>2. /\ batch' = position + 1 /\ position' = position + 1
        /\ UNCHANGED <<worker, store, inflight, weights, step>>
        /\ pc = "fetch" /\ pc' = "train"
    BY <1>3, <2>1, ReceiveNext DEF Fetch, storeVars, ReplayInv
  <2>3. Starting' /\ Counting' /\ Staging'
    BY <2>2, <1>t DEF ReplayInv, Replay, Starting, Counting, Staging, LoopPoints, Consumed,
                      NoBatch
  <2>4. QED
    BY <2>2, <2>3 DEF ReplayInv, Replay, ExactReplay, GoodCheckpoint
<1>4. CASE Train
  <2>1. /\ batch = position /\ position = Consumed + 1 /\ Consumed + 1 = step
        /\ pc' = "stage" /\ batch' = NoBatch
        /\ UNCHANGED <<position, worker, store, inflight, step>>
        /\ weights'.trained = Append(weights.trained, batch)
    BY <1>4 DEF Train, queueVars, storeVars, ReplayInv, Replay, Counting, Staging, LoopPoints
  <2>2. ExactReplay' /\ Consumed' = Consumed + 1
    BY <2>1, <1>t, TrainInOrder DEF ExactReplay, Consumed, ReplayInv, Replay
  <2>3. Starting' /\ Counting' /\ Staging'
    BY <2>1, <2>2, <1>t DEF Starting, Counting, Staging, LoopPoints
  <2>4. QED
    BY <2>1, <2>2, <2>3 DEF ReplayInv, Replay, GoodCheckpoint
<1>5. CASE Stage
  <2>1. /\ pc = "stage" /\ pc' = "metrics" /\ batch = NoBatch
        /\ position = Consumed /\ Consumed = step
        /\ UNCHANGED <<store, inflight, weights, step, tokensSeen>>
    BY <1>5 DEF Stage, storeVars, ReplayInv, Replay, Counting, Staging, LoopPoints
  <2>2. CASE ~StagesNext /\ UNCHANGED <<queueVars, batch>>
    <3>1. Starting' /\ Counting' /\ Staging'
      BY <2>1, <2>2 DEF queueVars, Starting, Counting, Staging, LoopPoints, Consumed
    <3>2. QED
      BY <2>1, <2>2, <3>1 DEF queueVars, ReplayInv, Replay, ExactReplay, GoodCheckpoint
  <2>3. CASE StagesNext /\ StageBatch
    <3>1. PICK b \in 1 .. Length : Receive(b) /\ batch' = b
      BY <2>3 DEF StageBatch
    <3>2. batch' = position + 1 /\ position' = position + 1 /\ UNCHANGED worker
      BY <3>1, ReceiveNext DEF ReplayInv
    <3>3. step < Steps /\ ~WillCheckpoint' /\ ~EndsTokenBudget'
      BY <2>1, <2>3 DEF StagesNext, WillCheckpoint, EndsTokenBudget
    <3>4. Starting' /\ Counting' /\ Staging'
      BY <2>1, <3>2, <3>3, <1>t DEF Starting, Counting, Staging, LoopPoints, Consumed,
                                        NoBatch
    <3>5. QED
      BY <2>1, <3>2, <3>4 DEF ReplayInv, Replay, ExactReplay, GoodCheckpoint
  <2>4. QED
    BY <1>5, <2>2, <2>3 DEF Stage
<1>6. CASE Metrics
  <2>1. /\ pc = "metrics" /\ pc' = "evaluate" /\ completed' = step
        /\ UNCHANGED <<position, worker, batch, store, inflight, weights, step>>
    BY <1>6 DEF Metrics, queueVars, storeVars
  <2>2. BudgetReached' => EndsTokenBudget
    <3>1. PICK n \in TokenCounts : tokensSeen' = tokensSeen + n
      BY <1>6 DEF Metrics
    <3>2. n \in Nat /\ n <= TokensPerStep
      OBVIOUS
    <3>3. QED
      BY <3>1, <3>2, <1>t DEF BudgetReached, EndsTokenBudget
  <2>3. Starting' /\ Counting' /\ Staging'
    BY <2>1, <2>2, <1>t DEF ReplayInv, Replay, Starting, Counting, Staging, LoopPoints,
                            Consumed, WillCheckpoint
  <2>4. QED
    BY <2>1, <2>3 DEF ReplayInv, Replay, ExactReplay, GoodCheckpoint
<1>7. CASE IntervalSave
  <2>1. /\ pc = "evaluate" /\ pc' = "saving"
        /\ UNCHANGED <<position, worker, batch, store, weights, step, completed, tokensSeen>>
    BY <1>7 DEF IntervalSave, queueVars
  <2>2. \A c \in inflight' : GoodCheckpoint(c)
    <3>1. CASE WillCheckpoint
      <4>1. BeginSave(step) /\ batch = NoBatch /\ step = Consumed
        BY <1>7, <3>1, <2>1 DEF IntervalSave, ReplayInv, Replay, Counting, Staging
      <4>2. QED
        BY <4>1, <2>1, <1>t, SaveReplay DEF LoopPoints
    <3>2. CASE ~WillCheckpoint
      BY <1>7, <3>2 DEF IntervalSave, ReplayInv, Replay
    <3>3. QED
      BY <3>1, <3>2
  <2>3. Starting' /\ Counting' /\ Staging'
    BY <2>1, <1>t DEF ReplayInv, Replay, Starting, Counting, Staging, LoopPoints, Consumed,
                      BudgetReached
  <2>4. \A c \in store' : GoodCheckpoint(c)
    BY <2>1 DEF ReplayInv, Replay
  <2>5. ExactReplay' /\ (Depth = 0 => worker' = "exited")
    BY <2>1 DEF ReplayInv, Replay, ExactReplay
  <2>6. (\A c \in store \cup inflight : GoodCheckpoint(c))'
    BY <2>2, <2>4 DEF GoodCheckpoint
  <2>7. QED
    BY <2>3, <2>5, <2>6 DEF Replay
<1>8. CASE EndStep
  <2>1. Starting' /\ Counting' /\ Staging'
    BY <1>8, <1>t DEF EndStep, queueVars, storeVars, ReplayInv, Replay, Starting, Counting,
                      Staging, LoopPoints, Consumed
  <2>2. QED
    BY <1>8, <2>1 DEF EndStep, queueVars, storeVars, ReplayInv, Replay, ExactReplay,
                      GoodCheckpoint
<1>9. CASE DataEnds
  <2>1. pc' = "closing" /\ UNCHANGED <<worker, store, inflight, weights>>
    BY <1>9 DEF DataEnds, Receive, Exact, storeVars
  <2>2. Starting' /\ Counting' /\ Staging'
    BY <2>1 DEF Starting, Counting, Staging, LoopPoints
  <2>3. QED
    BY <2>1, <2>2 DEF ReplayInv, Replay, ExactReplay, GoodCheckpoint
<1>10. QED
  BY <1>1, <1>2, <1>3, <1>4, <1>5, <1>6, <1>7, <1>8, <1>9 DEF Loop

(* The end of a leg: a save that is due has nothing staged beside it, and  *)
(* a leg with a batch staged finds its step in the directory.              *)
LEMMA FinishReplay == Exact /\ ReplayInv /\ Finish => Replay'
<1> SUFFICES ASSUME Exact, ReplayInv, Finish PROVE Replay'
  OBVIOUS
<1>1. CASE FinalSave
  <2>1. pc = "final" /\ pc' = "closing" /\ UNCHANGED <<worker, store, weights>>
    BY <1>1 DEF FinalSave, queueVars
  <2>2. \A c \in inflight' : GoodCheckpoint(c)
    <3>1. CASE FinalSaveDue
      <4>1. BeginSave(completed) /\ completed = Consumed /\ completed \in Nat
        BY <1>1, <3>1, <2>1 DEF FinalSave, ReplayInv, Replay, Counting, TypeOK
      <4>2. ~NothingNew
        BY <4>1 DEF BeginSave, NothingNew
      <4>3. batch = NoBatch
        BY <2>1, <4>2 DEF ReplayInv, Replay, Staging
      <4>4. QED
        BY <2>1, <4>1, <4>3, SaveReplay DEF LoopPoints
    <3>2. CASE ~FinalSaveDue
      BY <1>1, <3>2 DEF FinalSave, ReplayInv, Replay
    <3>3. QED
      BY <3>1, <3>2
  <2>3. Starting' /\ Counting' /\ Staging'
    BY <2>1 DEF Starting, Counting, Staging, LoopPoints
  <2>4. \A c \in store' : GoodCheckpoint(c)
    BY <2>1 DEF ReplayInv, Replay
  <2>5. ExactReplay' /\ (Depth = 0 => worker' = "exited")
    BY <2>1 DEF ReplayInv, Replay, ExactReplay
  <2>6. (\A c \in store \cup inflight : GoodCheckpoint(c))'
    BY <2>2, <2>4 DEF GoodCheckpoint
  <2>7. QED
    BY <2>3, <2>5, <2>6 DEF Replay
<1>2. CASE FinalSaveRefused \/ Close
  <2>1. pc' \in {"closing", "exit"} /\ UNCHANGED <<worker, store, inflight, weights>>
    BY <1>2 DEF FinalSaveRefused, Close, queueVars, storeVars
  <2>2. Starting' /\ Counting' /\ Staging'
    BY <2>1 DEF Starting, Counting, Staging, LoopPoints
  <2>3. QED
    BY <2>1, <2>2 DEF ReplayInv, Replay, ExactReplay, GoodCheckpoint
<1>3. CASE Exit
  BY <1>3, GoneReplay DEF Exit
<1>4. QED
  BY <1>1, <1>2, <1>3 DEF Finish

(* A commit only moves a good checkpoint into the directory. *)
LEMMA CommitReplay == ReplayInv /\ Commit => Replay'
<1> SUFFICES ASSUME ReplayInv, Commit PROVE Replay'
  OBVIOUS
<1>1. PICK c \in inflight : store' = Retained(store \cup {c})
  BY DEF Commit
<1>2. /\ store' \subseteq store \cup inflight /\ inflight' = {}
      /\ UNCHANGED <<queueVars, legVars>>
  BY <1>1 DEF Commit, Retained
<1>3. \A d \in store' \cup inflight' : GoodCheckpoint(d)
  BY <1>2 DEF ReplayInv, Replay
<1>4. inflight # {}
  BY <1>1
<1>5. ~NothingNew /\ pc \notin {"down", "restore", "warm", "first"}
  BY <1>4 DEF NothingNew, ReplayInv, Replay, Starting
<1>6. Starting' /\ Counting' /\ Staging'
  BY <1>2, <1>5 DEF queueVars, legVars, ReplayInv, Replay, Starting, Counting, Staging,
                    Consumed, WillCheckpoint, EndsTokenBudget, BudgetReached
<1>7. (\A d \in store \cup inflight : GoodCheckpoint(d))'
  BY <1>3 DEF GoodCheckpoint
<1>8. QED
  BY <1>2, <1>6, <1>7 DEF queueVars, legVars, ReplayInv, Replay, ExactReplay

(* A fault ends the leg or sends it to the finally block. *)
LEMMA FaultReplay == Exact /\ ReplayInv /\ Fault => Replay'
<1> SUFFICES ASSUME Exact, ReplayInv, Fault PROVE Replay'
  OBVIOUS
<1>1. CASE Crash \/ DonorMissing
  BY <1>1, GoneReplay DEF Crash, DonorMissing
<1>2. CASE Raises \/ WriteFails
  <2>1. /\ pc' = "closing" /\ inflight' \subseteq inflight
        /\ UNCHANGED <<worker, store, weights>>
    BY <1>2 DEF Raises, WriteFails, queueVars, storeVars
  <2>2. Starting' /\ Counting' /\ Staging'
    BY <2>1 DEF Starting, Counting, Staging, LoopPoints
  <2>3. \A c \in store' \cup inflight' : GoodCheckpoint(c)
    BY <2>1 DEF ReplayInv, Replay
  <2>4. (\A c \in store \cup inflight : GoodCheckpoint(c))'
    BY <2>3 DEF GoodCheckpoint
  <2>5. QED
    BY <2>1, <2>2, <2>4 DEF ReplayInv, Replay, ExactReplay
<1>3. ~SourceFails
  BY DEF SourceFails, Exact, ReplayInv, Replay
<1>4. QED
  BY <1>1, <1>2, <1>3 DEF Fault

(* There is no fetch thread at depth 0. *)
LEMMA PrefetchingReplay == Exact /\ ReplayInv => ~Prefetching
  BY DEF Exact, ReplayInv, Replay, Prefetching, Worker, ReadBatch, AdvanceIndex, SourceStops,
         Put

(* The strengthening is inductive. *)
LEMMA ReplayInductive == Exact /\ ReplayInv /\ [Next]_vars => ReplayInv'
<1> SUFFICES ASSUME Exact, ReplayInv, [Next]_vars PROVE ReplayInv'
  OBVIOUS
<1>1. TypeOK'
  <2>1. CASE UNCHANGED vars
    BY <2>1 DEF vars, queueVars, legVars, storeVars, ReplayInv, TypeOK, QueueTypeOK
  <2>2. QED
    BY <2>1, PrefetchingType, StartupType, LoopType, FinishType, CommitType, FaultType
       DEF Next, Main, ReplayInv
<1>2. Replay'
  <2>1. CASE UNCHANGED vars
    <3>1. Starting' /\ Counting' /\ Staging'
      BY <2>1 DEF vars, queueVars, legVars, storeVars, ReplayInv, Replay, Starting, Counting,
                  Staging, Consumed, WillCheckpoint, EndsTokenBudget, BudgetReached, NothingNew
    <3>2. QED
      BY <2>1, <3>1 DEF vars, queueVars, legVars, storeVars, ReplayInv, Replay, ExactReplay,
                        GoodCheckpoint
  <2>2. QED
    BY <2>1, StartupReplay, LoopReplay, FinishReplay, CommitReplay, FaultReplay,
       PrefetchingReplay DEF Next, Main
<1>3. QED
  BY <1>1, <1>2 DEF ReplayInv

(* The strengthening holds before the first launch. *)
LEMMA ReplayInit == Init => ReplayInv
<1> SUFFICES ASSUME Init PROVE ReplayInv
  OBVIOUS
<1>1. TypeOK
  BY HostQueueAssumption
     DEF Init, Idle, TypeOK, QueueTypeOK, WorkerStates, Stop, NoBatch, Points, LoopPoints,
         Weights, FreshWeights
<1>2. QED
  BY <1>1 DEF Init, Idle, ReplayInv, Replay, ExactReplay, Starting, Counting, Staging,
              GoodCheckpoint, FreshWeights, LoopPoints

(* Whatever is interrupted and however often, a resumable source read      *)
(* without a queue is trained on batch by batch, each once and in order    *)
(* (train.py:935-1017).                                                    *)
THEOREM ReplaysExactly == Exact => (Spec => []ExactReplay)
<1>1. ReplayInv => ExactReplay
  BY DEF ReplayInv, Replay
<1> SUFFICES ASSUME Exact PROVE Spec => []ExactReplay
  OBVIOUS
<1>2. Init => ReplayInv
  BY ReplayInit
<1>3. ReplayInv /\ [Next]_vars => ReplayInv'
  BY ReplayInductive
<1>4. QED
  BY <1>1, <1>2, <1>3, PTL DEF Spec

(* In the same configurations every checkpoint, written or being written,  *)
(* holds the iterator position that its weights consumed                   *)
(* (train.py:940-941).                                                     *)
THEOREM PositionsPersistExactly == Exact => (Spec => []PersistedAgrees)
<1>1. ReplayInv => PersistedAgrees
  BY DEF ReplayInv, Replay, PersistedAgrees, GoodCheckpoint
<1> SUFFICES ASSUME Exact PROVE Spec => []PersistedAgrees
  OBVIOUS
<1>2. Init => ReplayInv
  BY ReplayInit
<1>3. ReplayInv /\ [Next]_vars => ReplayInv'
  BY ReplayInductive
<1>4. QED
  BY <1>1, <1>2, <1>3, PTL DEF Spec

--------------------------------------------------------------------------------
(* The final save *)

(***************************************************************************)
(* The strengthening behind NoOverwrite, for runs whose last step is an    *)
(* interval step: what a leg finds saved is at or before its start, and    *)
(* what it saves before its end is filed under multiples of Interval.      *)
(***************************************************************************)
SavedSteps ==
  /\ \A c \in store \cup inflight : c.step <= Steps
  /\ pc \in {"down", "restore"} => startStep = 0
  /\ pc \in {"down", "restore", "warm", "first"} => inflight = {}
  /\ pc \in {"warm", "first"} \cup LoopPoints => startStep <= Steps
  /\ pc \in {"warm", "first"} => \A c \in store : c.step <= startStep
  /\ pc \in LoopPoints =>
       /\ startStep <= step /\ step <= Steps
       /\ \A c \in store \cup inflight :
            c.step <= startStep \/ (c.step <= step /\ c.step % Interval = 0)
  /\ pc \in {"fetch", "train", "stage", "metrics", "evaluate", "saving"} => step > startStep
  /\ pc \in {"evaluate", "saving", "head", "final"} => completed = step
  /\ pc = "final" => step > startStep \/ step = Steps

SavedInv == TypeOK /\ SavedSteps

(* The last step of a run is an interval step: config.py does not ask it.  *)
Aligned == Interval > 0 /\ Steps % Interval = 0

(* A process that is gone has nothing in flight. *)
LEMMA GoneSaved == SavedInv /\ Gone => SavedSteps'
  BY DEF SavedInv, SavedSteps, Gone, LoopPoints

(* A leg starts at the newest step it finds, and nothing is saved above.   *)
LEMMA StartupSaved == SavedInv /\ Startup => SavedSteps'
<1> SUFFICES ASSUME SavedInv, Startup PROVE SavedSteps'
  OBVIOUS
<1> USE TrainRunAssumption
<1>1. CASE Launch
  BY <1>1 DEF Launch, storeVars, SavedInv, SavedSteps, LoopPoints
<1>2. CASE Restore
  <2>1. CASE store = {} /\ UNCHANGED <<startStep, weights, position>>
    BY <1>2, <2>1 DEF Restore, storeVars, SavedInv, SavedSteps, LoopPoints
  <2>2. ASSUME NEW c \in store, Newest(c), startStep' = c.step PROVE SavedSteps'
    BY <1>2, <2>2 DEF Restore, storeVars, SavedInv, SavedSteps, LoopPoints, Newest
  <2>3. QED
    BY <1>2, <2>1, <2>2 DEF Restore
<1>3. CASE WarmStart
  BY <1>3 DEF WarmStart, storeVars, SavedInv, SavedSteps, LoopPoints
<1>4. CASE FirstFetch
  BY <1>4 DEF FirstFetch, storeVars, SavedInv, SavedSteps, LoopPoints, TypeOK, Checkpoint
<1>5. CASE FirstFetchRaises
  BY <1>5, GoneSaved DEF FirstFetchRaises
<1>6. QED
  BY <1>1, <1>2, <1>3, <1>4, <1>5 DEF Startup

(* The loop saves under multiples of Interval, never past the last step.   *)
LEMMA LoopSaved == SavedInv /\ Loop => SavedSteps'
<1> SUFFICES ASSUME SavedInv, Loop PROVE SavedSteps'
  OBVIOUS
<1> USE TrainRunAssumption DEF storeVars
<1>t. /\ step \in Nat /\ completed \in Nat /\ startStep \in Nat
      /\ \A c \in store \cup inflight : c.step \in Nat
  BY DEF SavedInv, TypeOK, Checkpoint
<1>1. CASE BeginStep
  BY <1>1, <1>t DEF BeginStep, SavedInv, SavedSteps, LoopPoints
<1>2. CASE EndLoop
  BY <1>2, <1>t DEF EndLoop, SavedInv, SavedSteps, LoopPoints
<1>3. CASE Fetch \/ Train \/ Stage
  <2>1. /\ pc \in {"fetch", "train", "stage"} /\ pc' \in {"train", "stage", "metrics"}
        /\ UNCHANGED <<startStep, step, completed, store, inflight>>
    BY <1>3 DEF Fetch, Train, Stage
  <2>2. QED
    BY <2>1, <1>t DEF SavedInv, SavedSteps, LoopPoints
<1>4. CASE Metrics
  BY <1>4, <1>t DEF Metrics, SavedInv, SavedSteps, LoopPoints
<1>5. CASE IntervalSave
  <2>1. /\ pc = "evaluate" /\ pc' = "saving"
        /\ UNCHANGED <<startStep, step, completed, store>>
    BY <1>5 DEF IntervalSave
  <2>2. \A c \in inflight' : c \in inflight \/ (c.step = step /\ step % Interval = 0)
    BY <1>5 DEF IntervalSave, BeginSave, Snapshot, WillCheckpoint
  <2>3. QED
    BY <2>1, <2>2, <1>t DEF SavedInv, SavedSteps, LoopPoints
<1>6. CASE EndStep
  BY <1>6, <1>t DEF EndStep, SavedInv, SavedSteps, LoopPoints
<1>7. CASE DataEnds
  BY <1>7 DEF DataEnds, SavedInv, SavedSteps, LoopPoints
<1>8. QED
  BY <1>1, <1>2, <1>3, <1>4, <1>5, <1>6, <1>7 DEF Loop

(* The final save is filed under the step the loop ended at.               *)
LEMMA FinishSaved == SavedInv /\ Finish => SavedSteps'
<1> SUFFICES ASSUME SavedInv, Finish PROVE SavedSteps'
  OBVIOUS
<1>1. CASE FinalSave
  <2>1. pc = "final" /\ pc' = "closing" /\ store' = store
    BY <1>1 DEF FinalSave
  <2>2. completed <= Steps
    BY <2>1 DEF SavedInv, SavedSteps, LoopPoints
  <2>3. \A c \in inflight' : c \in inflight \/ c.step = completed
    BY <1>1 DEF FinalSave, BeginSave, Snapshot
  <2>4. QED
    BY <2>1, <2>2, <2>3 DEF SavedInv, SavedSteps, LoopPoints
<1>2. CASE FinalSaveRefused \/ Close
  BY <1>2 DEF FinalSaveRefused, Close, storeVars, SavedInv, SavedSteps, LoopPoints
<1>3. CASE Exit
  BY <1>3, GoneSaved DEF Exit
<1>4. QED
  BY <1>1, <1>2, <1>3 DEF Finish

(* Commits and faults add no checkpoint.                                   *)
LEMMA RestSaved == SavedInv /\ (Prefetching \/ Commit \/ Fault) => SavedSteps'
<1> SUFFICES ASSUME SavedInv, Prefetching \/ Commit \/ Fault PROVE SavedSteps'
  OBVIOUS
<1>1. CASE Prefetching
  BY <1>1 DEF Prefetching, legVars, storeVars, SavedInv, SavedSteps
<1>2. CASE Commit
  <2>1. /\ store' \subseteq store \cup inflight /\ inflight' = {} /\ inflight # {}
        /\ UNCHANGED legVars
    BY <1>2 DEF Commit, Retained
  <2>2. QED
    BY <2>1 DEF legVars, SavedInv, SavedSteps
<1>3. CASE Crash \/ DonorMissing
  BY <1>3, GoneSaved DEF Crash, DonorMissing
<1>4. CASE Raises \/ WriteFails
  BY <1>4 DEF Raises, WriteFails, storeVars, SavedInv, SavedSteps, LoopPoints
<1>5. CASE SourceFails
  BY <1>5 DEF SourceFails, legVars, storeVars, SavedInv, SavedSteps
<1>6. QED
  BY <1>1, <1>2, <1>3, <1>4, <1>5 DEF Fault

(* The strengthening holds of every state of every behaviour. *)
LEMMA SavedHolds == Spec => []SavedInv
<1>1. Init => SavedInv
  BY ReplayInit DEF ReplayInv, SavedInv, SavedSteps, Init, Idle, LoopPoints
<1>2. SavedInv /\ [Next]_vars => SavedInv'
  <2> SUFFICES ASSUME SavedInv, [Next]_vars PROVE SavedInv'
    OBVIOUS
  <2>1. CASE UNCHANGED vars
    BY <2>1 DEF vars, queueVars, legVars, storeVars, SavedInv, SavedSteps, TypeOK, QueueTypeOK
  <2>2. CASE Next
    <3>1. TypeOK'
      BY <2>2, PrefetchingType, StartupType, LoopType, FinishType, CommitType, FaultType
         DEF Next, Main, SavedInv
    <3>2. SavedSteps'
      BY <2>2, StartupSaved, LoopSaved, FinishSaved, RestSaved DEF Next, Main
    <3>3. QED
      BY <3>1, <3>2 DEF SavedInv
  <2>3. QED
    BY <2>1, <2>2
<1>3. QED
  BY <1>1, <1>2, PTL DEF Spec

(* When the last step is an interval step, no relaunch and no interruption *)
(* makes the final save meet a step that is already there                  *)
(* (train.py:1263-1277).                                                   *)
THEOREM NeverOverwrites == Aligned => (Spec => []NoOverwrite)
<1> SUFFICES ASSUME Aligned PROVE Spec => []NoOverwrite
  OBVIOUS
<1>1. SavedInv => NoOverwrite
  <2> SUFFICES ASSUME SavedInv, pc = "final", FinalSaveDue, NEW c \in store \cup inflight
               PROVE  c.step # completed
    BY DEF NoOverwrite
  <2>1. completed = step /\ step \in Nat /\ startStep \in Nat /\ c.step \in Nat
    BY DEF SavedInv, SavedSteps, TypeOK, Checkpoint
  <2>2. completed % Interval # 0
    BY DEF FinalSaveDue, Aligned
  <2>3. step > startStep
    BY <2>1, <2>2 DEF SavedInv, SavedSteps, Aligned
  <2>4. QED
    BY <2>1, <2>2, <2>3 DEF SavedInv, SavedSteps, LoopPoints
<1>2. QED
  BY <1>1, SavedHolds, PTL

--------------------------------------------------------------------------------
(* The schedule, the order of a leg, what a crash costs *)

(* The types, step by step.                                                *)
LEMMA TypeStep == TypeOK /\ [Next]_vars => TypeOK'
<1>1. TypeOK /\ UNCHANGED vars => TypeOK'
  BY DEF vars, queueVars, legVars, storeVars, TypeOK, QueueTypeOK
<1>2. QED
  BY <1>1, PrefetchingType, StartupType, LoopType, FinishType, CommitType, FaultType
     DEF Next, Main

--------------------------------------------------------------------------------
(* The schedule *)

(* The optimizer has counted the steps, and has seen a batch for each.     *)
StepsOf(w, s) == w.updates = s /\ Len(w.trained) = s

Scheduled ==
  /\ \A c \in store \cup inflight : StepsOf(c.weights, c.step)
  /\ pc \in {"down", "restore", "warm", "first"} => StepsOf(weights, startStep)
  /\ pc \in {"down", "restore"} => startStep = 0
  /\ pc \in {"head", "evaluate", "saving", "final"} => completed = step
  /\ pc \in {"head", "stage", "metrics", "evaluate", "saving", "final"} => StepsOf(weights, step)
  /\ pc \in {"fetch", "train"} => step > 0 /\ StepsOf(weights, step - 1)
  /\ pc \in LoopPoints => startStep <= Len(weights.trained)


(* The train state and the checkpoints have types. *)
LEMMA WeightTypes ==
  ASSUME TypeOK
  PROVE  /\ weights.trained \in Seq(Nat) /\ weights.updates \in Nat
         /\ Len(weights.trained) \in Nat
         /\ startStep \in Nat /\ step \in Nat /\ completed \in Nat /\ batch \in Nat
         /\ \A c \in store \cup inflight : c.step \in Nat /\ c.weights \in Weights
  BY DEF TypeOK, Weights, Checkpoint

(* One more batch is one more update. *)
LEMMA OneMore ==
  ASSUME TypeOK, Train
  PROVE  /\ weights'.updates = weights.updates + 1
         /\ Len(weights'.trained) = Len(weights.trained) + 1
         /\ weights'.trained[Len(weights.trained) + 1] = batch
         /\ \A i \in 1 .. Len(weights.trained) : weights'.trained[i] = weights.trained[i]
<1>1. weights.trained \in Seq(Nat) /\ batch \in Nat
  BY WeightTypes
<1>2. weights'.updates = weights.updates + 1
      /\ weights'.trained = Append(weights.trained, batch)
  BY DEF Train
<1>3. LET t == Append(weights.trained, batch)
      IN  /\ Len(t) = Len(weights.trained) + 1
          /\ t[Len(weights.trained) + 1] = batch
          /\ \A i \in 1 .. Len(weights.trained) : t[i] = weights.trained[i]
  BY <1>1, AppendToQueue
<1>4. QED
  BY <1>2, <1>3

(* Every step of a run keeps its schedule. *)
LEMMA ScheduledStep == TypeOK /\ Scheduled /\ [Next]_vars => Scheduled'
<1> SUFFICES ASSUME TypeOK, Scheduled, [Next]_vars PROVE Scheduled'
  OBVIOUS
<1> USE DEF Scheduled, StepsOf, LoopPoints, storeVars
<1>t. /\ weights.updates \in Nat /\ Len(weights.trained) \in Nat
      /\ startStep \in Nat /\ step \in Nat /\ completed \in Nat
  BY WeightTypes
<1>1. CASE Gone
  BY <1>1 DEF Gone, FreshWeights
<1>2. CASE Launch
  BY <1>2, <1>t DEF Launch
<1>3. CASE Restore
  <2>1. CASE store = {} /\ UNCHANGED <<startStep, weights, position>>
    BY <1>3, <2>1 DEF Restore
  <2>2. ASSUME NEW c \in store, startStep' = c.step, weights' = c.weights PROVE Scheduled'
    BY <1>3, <2>2 DEF Restore
  <2>3. QED
    BY <1>3, <2>1, <2>2 DEF Restore
<1>4. CASE WarmStart
  BY <1>4 DEF WarmStart
<1>5. CASE FirstFetch
  BY <1>5, <1>t DEF FirstFetch
<1>6. CASE BeginStep
  BY <1>6, <1>t DEF BeginStep
<1>7. CASE EndLoop \/ Fetch \/ Stage \/ Metrics \/ EndStep
  BY <1>7, <1>t DEF EndLoop, Fetch, Stage, Metrics, EndStep
<1>8. CASE Train
  <2>1. /\ weights'.updates = weights.updates + 1
        /\ Len(weights'.trained) = Len(weights.trained) + 1
    BY <1>8, OneMore
  <2>2. UNCHANGED <<startStep, step, completed, store, inflight>> /\ pc = "train" /\ pc' = "stage"
    BY <1>8 DEF Train
  <2>3. QED
    BY <2>1, <2>2, <1>t
<1>9. CASE IntervalSave
  <2>1. \A c \in inflight' : c \in inflight \/ (c.step = step /\ c.weights = weights)
    BY <1>9 DEF IntervalSave, BeginSave, Snapshot
  <2>2. UNCHANGED <<startStep, step, completed, store, weights>>
        /\ pc = "evaluate" /\ pc' = "saving"
    BY <1>9 DEF IntervalSave
  <2>3. QED
    BY <2>1, <2>2
<1>10. CASE FinalSave
  <2>1. \A c \in inflight' : c \in inflight \/ (c.step = completed /\ c.weights = weights)
    BY <1>10 DEF FinalSave, BeginSave, Snapshot
  <2>2. store' = store /\ pc = "final" /\ pc' = "closing"
    BY <1>10 DEF FinalSave
  <2>3. QED
    BY <2>1, <2>2
<1>11. CASE Commit
  <2>1. UNCHANGED legVars /\ store' \cup inflight' \subseteq store \cup inflight
    BY <1>11 DEF Commit, Retained
  <2>2. QED
    BY <2>1 DEF legVars
<1>12. CASE DataEnds \/ FinalSaveRefused \/ Close \/ Raises \/ WriteFails
  <2>1. pc' \in {"closing", "exit"} /\ store' = store /\ inflight' \subseteq inflight
    BY <1>12 DEF DataEnds, FinalSaveRefused, Close, Raises, WriteFails
  <2>2. QED
    BY <2>1
<1>13. CASE Prefetching \/ SourceFails \/ UNCHANGED vars
  <2>1. UNCHANGED <<legVars, storeVars>>
    BY <1>13 DEF Prefetching, SourceFails, vars
  <2>2. QED
    BY <2>1 DEF legVars
<1>14. QED
  BY <1>1, <1>2, <1>3, <1>4, <1>5, <1>6, <1>7, <1>8, <1>9, <1>10, <1>11, <1>12, <1>13
     DEF Next, Main, Startup, Loop, Finish, Fault, FirstFetchRaises, Exit, Crash, DonorMissing

(* The schedule starts at zero. *)
LEMMA ScheduledInit == Init => TypeOK /\ Scheduled
  BY ReplayInit DEF ReplayInv, Init, Idle, Scheduled, StepsOf, FreshWeights, LoopPoints

(* In every run, over every crash, resume and warm start, the optimizer's  *)
(* own count is the loop's step (train.py:695-713).                        *)
THEOREM ScheduleStaysInStep == Spec => []ScheduleInStep
<1>1. TypeOK /\ Scheduled /\ [Next]_vars => (TypeOK /\ Scheduled)'
  BY TypeStep, ScheduledStep
<1>2. TypeOK /\ Scheduled => ScheduleInStep
  BY DEF Scheduled, StepsOf, ScheduleInStep
<1>3. QED
  BY <1>1, <1>2, ScheduledInit, PTL DEF Spec

--------------------------------------------------------------------------------
(* What a crash costs *)

Saved(k) == k = 0 \/ \E c \in store : c.step >= k
Pending(k) == \E c \in inflight : c.step >= k

(* The last step whose interval save, if it was due, has begun.            *)
Covered == IF pc = "evaluate" THEN completed - 1 ELSE completed

Trail ==
  /\ store # {} => \E c \in store : Newest(c)
  /\ pc \in {"down", "restore", "warm", "first"} => inflight = {}
  /\ pc \in {"down", "restore"} => startStep = 0
  /\ pc \in {"restore", "warm", "first"} \cup LoopPoints => Saved(startStep)
  /\ pc \in {"fetch", "train", "stage", "metrics"} => completed = step - 1
  /\ pc \in {"head", "evaluate", "saving", "final"} => completed = step
  /\ pc \in LoopPoints => startStep <= step
  /\ pc \in {"fetch", "train", "stage", "metrics", "evaluate", "saving"} => startStep < step
  /\ pc \in LoopPoints =>
       /\ \A k \in Nat : k % Interval = 0 /\ k <= Covered => Saved(k) \/ Pending(k)
       /\ \A j, k \in Nat :
            j < k /\ k <= Covered /\ j % Interval = 0 /\ k % Interval = 0 => Saved(j)
       /\ ~Async /\ pc # "saving" => inflight = {}
       /\ ~Async /\ pc = "saving" /\ inflight # {} => completed % Interval = 0


(* The newest checkpoint is a bound on what is lost. *)
LEMMA LatestIsNewest ==
  ASSUME TypeOK, Trail, NEW k \in Nat, Saved(k)
  PROVE  LatestStep \in Nat /\ LatestStep >= k
<1>1. CASE store = {}
  BY <1>1 DEF Saved, LatestStep
<1>2. CASE store # {}
  <2>1. \E c \in store : Newest(c)
    BY <1>2 DEF Trail
  <2>2. (CHOOSE c \in store : Newest(c)) \in store /\ Newest(CHOOSE c \in store : Newest(c))
    BY <2>1
  <2>3. PICK d \in store : d.step = LatestStep /\ Newest(d)
    BY <1>2, <2>2 DEF LatestStep
  <2>4. d.step \in Nat /\ \A c \in store : c.step \in Nat
    BY WeightTypes
  <2>5. QED
    BY <2>3, <2>4 DEF Saved, Newest
<1>3. QED
  BY <1>1, <1>2

(* A commit loses nothing that was saved, and saves what was pending.      *)
LEMMA CommitSaves ==
  ASSUME TypeOK, store # {} => \E c \in store : Newest(c), Commit
  PROVE  /\ \E c \in store' : Newest(c)'
         /\ \A k \in Nat : Saved(k) \/ Pending(k) => Saved(k)'
<1>1. PICK n \in inflight : store' = Retained(store \cup {n})
  BY DEF Commit
<1>2. \A c, d \in inflight : c = d
  BY DEF TypeOK
<1>3. \A c \in store \cup {n} : c.step \in Nat
  BY <1>1, WeightTypes
<1>4. PICK m \in store \cup {n} : \A c \in store \cup {n} : c.step <= m.step
  <2>1. CASE store = {}
    BY <1>3, <2>1
  <2>2. CASE store # {}
    <3>1. PICK o \in store : \A c \in store : c.step <= o.step
      BY <2>2 DEF Newest
    <3>2. CASE o.step <= n.step
      BY <1>3, <3>1, <3>2
    <3>3. CASE ~(o.step <= n.step)
      BY <1>3, <3>1, <3>3
    <3>4. QED
      BY <3>2, <3>3
  <2>3. QED
    BY <2>1, <2>2
<1>5. m \in store'
  <2>1. {d \in store \cup {n} : d.step > m.step} = {}
    BY <1>3, <1>4
  <2>2. Cardinality({d \in store \cup {n} : d.step > m.step}) = 0
    BY <2>1, FS_EmptySet
  <2>3. QED
    BY <1>1, <1>4, <2>2, TrainRunAssumption DEF Retained
<1>6. store' \subseteq store \cup {n}
  BY <1>1 DEF Retained
<1>7. \A c \in store' : c.step <= m.step
  BY <1>4, <1>6
<1>8. ASSUME NEW k \in Nat, Saved(k) \/ Pending(k) PROVE Saved(k)'
  <2>1. k = 0 \/ m.step >= k
    BY <1>1, <1>2, <1>3, <1>4, <1>8 DEF Saved, Pending
  <2>2. QED
    BY <1>5, <2>1 DEF Saved
<1>9. QED
  BY <1>5, <1>7, <1>8 DEF Newest

(* Whatever leaves the checkpoints and the loop's counters alone, or ends  *)
(* the loop, leaves the trail.                                             *)
LEMMA TrailKept ==
  ASSUME Trail, store' = store, inflight' = inflight,
         startStep' = startStep, step' = step, completed' = completed, pc' = pc
  PROVE  Trail'
  BY DEF Trail, Saved, Pending, Covered, Newest

LEMMA TrailEnds ==
  ASSUME Trail, store' = store,
         pc' \in {"closing", "exit"} \/ (pc' = "down" /\ inflight' = {} /\ startStep' = 0)
  PROVE  Trail'
  BY DEF Trail, Newest, LoopPoints

(* Every step keeps the trail of saves. *)
LEMMA TrailStep == TypeOK /\ Trail /\ Interval > 0 /\ [Next]_vars => Trail'
<1> SUFFICES ASSUME TypeOK, Trail, Interval > 0, [Next]_vars PROVE Trail'
  OBVIOUS
<1> USE DEF storeVars
<1>t. startStep \in Nat /\ step \in Nat /\ completed \in Nat /\ Interval \in Nat \ {0}
      /\ \A c \in store \cup inflight : c.step \in Nat
  BY WeightTypes, TrainRunAssumption
<1>1. CASE Gone
  BY <1>1, TrailEnds DEF Gone
<1>2. CASE DataEnds \/ FinalSave \/ FinalSaveRefused \/ Close \/ Raises \/ WriteFails
  <2>1. store' = store /\ pc' \in {"closing", "exit"}
    BY <1>2 DEF DataEnds, FinalSave, FinalSaveRefused, Close, Raises, WriteFails
  <2>2. QED
    BY <2>1 DEF Trail, Newest, LoopPoints
<1>3. CASE Prefetching \/ SourceFails \/ UNCHANGED vars
  BY <1>3, TrailKept DEF Prefetching, SourceFails, vars, legVars
<1>4. CASE Launch
  <2>1. pc = "down" /\ pc' = "restore" /\ UNCHANGED <<startStep, store, inflight>>
    BY <1>4 DEF Launch
  <2>2. Saved(startStep)'
    BY <2>1 DEF Trail, Saved
  <2>3. QED
    BY <2>1, <2>2 DEF Trail, Newest, LoopPoints
<1>5. CASE Restore
  <2>1. /\ pc = "restore" /\ pc' = "warm" /\ UNCHANGED <<store, inflight>>
        /\ startStep' = startStep \/ \E c \in store : startStep' = c.step
    BY <1>5 DEF Restore
  <2>2. Saved(startStep)'
    BY <2>1, <1>t DEF Trail, Saved
  <2>3. QED
    BY <2>1, <2>2 DEF Trail, Newest, LoopPoints
<1>6. CASE WarmStart
  BY <1>6 DEF WarmStart, Trail, Saved, Newest, LoopPoints
<1>7. CASE FirstFetch
  <2>1. /\ pc = "first" /\ pc' = "head" /\ UNCHANGED <<store, inflight, startStep>>
        /\ step' = startStep /\ completed' = startStep
    BY <1>7 DEF FirstFetch
  <2>2. inflight = {} /\ Saved(startStep)
    BY <2>1 DEF Trail
  <2>3. \A k \in Nat : k <= startStep => Saved(k)'
    BY <2>1, <2>2, <1>t DEF Saved
  <2>4. QED
    BY <2>1, <2>2, <2>3, <1>t DEF Trail, Newest, LoopPoints, Covered, Saved
<1>8. CASE BeginStep \/ EndLoop \/ Fetch \/ Train \/ Stage \/ EndStep
  <2>1. /\ UNCHANGED <<store, inflight, startStep, completed>>
        /\ step' = step \/ (pc = "head" /\ step' = step + 1 /\ pc' \in {"fetch", "train"})
        /\ \/ pc = "head" /\ step' = step /\ pc' = "final"
           \/ pc = "head" /\ step' = step + 1 /\ pc' \in {"fetch", "train"}
           \/ /\ pc \in {"fetch", "train", "stage"} /\ pc' \in {"train", "stage", "metrics"}
              /\ step' = step
           \/ /\ pc = "saving" /\ pc' \in {"head", "final"} /\ step' = step
              /\ Async \/ inflight = {}
    BY <1>8 DEF BeginStep, EndLoop, Fetch, Train, Stage, EndStep
  <2>2. Covered' = Covered /\ pc \in LoopPoints /\ pc' \in LoopPoints
    BY <2>1 DEF Covered, LoopPoints
  <2>3. \A k \in Nat : (Saved(k)' <=> Saved(k)) /\ (Pending(k)' <=> Pending(k))
    BY <2>1 DEF Saved, Pending
  <2>4. /\ \A k \in Nat : k % Interval = 0 /\ k <= Covered' => Saved(k)' \/ Pending(k)'
        /\ \A j, k \in Nat : j < k /\ k <= Covered' /\ j % Interval = 0 /\ k % Interval = 0
                               => Saved(j)'
    BY <2>2, <2>3 DEF Trail
  <2>5. Saved(startStep)'
    BY <2>1, <2>2, <1>t DEF Trail, Saved
  <2>6. QED
    BY <2>1, <2>2, <2>4, <2>5, <1>t DEF Trail, Newest, LoopPoints
<1>9. CASE Metrics
  <2>1. /\ UNCHANGED <<store, inflight, startStep, step>>
        /\ pc = "metrics" /\ pc' = "evaluate" /\ completed' = step
    BY <1>9 DEF Metrics
  <2>2. Covered' = Covered
    BY <2>1, <1>t DEF Covered, Trail
  <2>3. QED
    BY <2>1, <2>2, <1>t DEF Trail, Saved, Pending, Newest, LoopPoints
<1>10. CASE IntervalSave
  <2>1. /\ UNCHANGED <<store, startStep, step, completed>>
        /\ pc = "evaluate" /\ pc' = "saving" /\ completed = step
    BY <1>10 DEF IntervalSave, Trail
  <2>2. Covered = step - 1 /\ Covered' = step /\ pc \in LoopPoints /\ pc' \in LoopPoints
    BY <2>1 DEF Covered, LoopPoints
  <2>3. \A k \in Nat : Saved(k)' <=> Saved(k)
    BY <2>1 DEF Saved
  <2>4. CASE WillCheckpoint
    <3>1. /\ inflight = {} /\ step % Interval = 0
          /\ \E c \in inflight' : c.step = step
      <4>1. BeginSave(step) /\ step % Interval = 0
        BY <1>10, <2>4 DEF IntervalSave, WillCheckpoint
      <4>2. Snapshot(step).step = step
        BY DEF Snapshot
      <4>3. QED
        BY <4>1, <4>2 DEF BeginSave
    <3>2. \A k \in Nat : k % Interval = 0 /\ k < step => Saved(k)
      BY <2>2, <3>1, <1>t DEF Trail, Pending
    <3>4. \A k \in Nat : k % Interval = 0 /\ k <= step => Saved(k)' \/ Pending(k)'
      <4> SUFFICES ASSUME NEW k \in Nat, k % Interval = 0, k <= step
                   PROVE  Saved(k)' \/ Pending(k)'
        OBVIOUS
      <4>1. CASE k = step
        BY <2>1, <3>1, <4>1, <1>t DEF Pending
      <4>2. CASE k < step
        BY <2>3, <3>2, <4>2
      <4>3. QED
        BY <4>1, <4>2, <1>t
    <3>5. \A j, k \in Nat : j < k /\ k <= step /\ j % Interval = 0 => Saved(j)'
      BY <2>3, <3>2, <1>t
    <3>6. QED
      BY <2>1, <2>2, <2>3, <3>1, <3>4, <3>5, <1>t DEF Trail, Newest, LoopPoints
  <2>5. CASE ~WillCheckpoint
    <3>1. inflight' = inflight /\ step % Interval # 0
      BY <1>10, <2>5, <1>t DEF IntervalSave, WillCheckpoint
    <3>2. \A k \in Nat : k % Interval = 0 /\ k <= step => k <= Covered
      BY <2>2, <3>1, <1>t
    <3>3. \A k \in Nat : Pending(k)' <=> Pending(k)
      BY <3>1 DEF Pending
    <3>4. /\ \A k \in Nat : k % Interval = 0 /\ k <= step => Saved(k)' \/ Pending(k)'
          /\ \A j, k \in Nat : j < k /\ k <= step /\ j % Interval = 0 /\ k % Interval = 0
                                 => Saved(j)'
      BY <2>2, <2>3, <3>2, <3>3 DEF Trail
    <3>5. QED
      BY <2>1, <2>2, <2>3, <3>1, <3>4, <1>t DEF Trail, Newest, LoopPoints
  <2>6. QED
    BY <2>4, <2>5
<1>11. CASE Commit
  <2>1. UNCHANGED legVars /\ inflight' = {} /\ inflight # {}
    BY <1>11 DEF Commit
  <2>2. \A k \in Nat : Saved(k) \/ Pending(k) => Saved(k)'
    BY <1>11, CommitSaves DEF Trail
  <2>3. \E c \in store' : Newest(c)'
    BY <1>11, CommitSaves DEF Trail
  <2>4. Covered' = Covered
    BY <2>1 DEF legVars, Covered
  <2>5. QED
    BY <2>1, <2>2, <2>3, <2>4, <1>t DEF legVars, Trail, LoopPoints
<1>12. QED
  BY <1>1, <1>2, <1>3, <1>4, <1>5, <1>6, <1>7, <1>8, <1>9, <1>10, <1>11
     DEF Next, Main, Startup, Loop, Finish, Fault, FirstFetchRaises, Exit, Crash, DonorMissing

(* A multiple of n leaves no rest. *)
LEMMA MultipleHasNoRest ==
  ASSUME NEW n \in Nat \ {0}, NEW k \in Nat
  PROVE  (n * k) % n = 0
<1> DEFINE d == (n * k) \div n
           r == (n * k) % n
<1>1. n * k \in Nat /\ d \in Nat /\ r \in 0 .. n - 1 /\ n * k = n * d + r
  OBVIOUS
<1> HIDE DEF d, r
<1>2. n * (k - d) = r
  BY <1>1
<1>3. CASE k - d >= 1
  <2>1. n * (k - d - 1) >= 0
    BY <1>1, <1>3
  <2>2. QED
    BY <1>1, <1>2, <2>1
<1>4. CASE k - d <= -1
  <2>1. n * (d - k - 1) >= 0
    BY <1>1, <1>4
  <2>2. QED
    BY <1>1, <1>2, <2>1
<1>5. CASE k = d
  <2>1. r = 0
    BY <1>1, <1>5
  <2>2. QED
    BY <2>1 DEF r
<1>6. QED
  BY <1>1, <1>3, <1>4, <1>5

(* The last multiple of Interval at or below a step. *)
LEMMA LastMultiple ==
  ASSUME NEW f \in Nat, NEW n \in Nat \ {0}
  PROVE  \E m \in Nat : /\ m % n = 0 /\ m <= f /\ f < m + n
                        /\ m > 0 => m >= n /\ (m - n) % n = 0
<1> DEFINE q == f \div n
           m == n * q
<1>1. q \in Nat /\ f % n \in 0 .. n - 1
  OBVIOUS
<1>6. f = n * q + (f % n)
  OBVIOUS
<1>2. m \in Nat /\ m <= f /\ f < m + n
  BY <1>1, <1>6
<1>3. \A k \in Nat : (n * k) % n = 0
  BY MultipleHasNoRest
<1>4. CASE q = 0
  BY <1>1, <1>2, <1>3, <1>4
<1>5. CASE q > 0
  <2>1. q - 1 \in Nat /\ m - n = n * (q - 1) /\ m >= n
    BY <1>1, <1>5
  <2>2. QED
    BY <1>1, <1>2, <1>3, <2>1
<1>7. QED
  BY <1>1, <1>4, <1>5

(* A crash costs at most Interval updates when saves are synchronous and   *)
(* twice that when they are not, whenever it comes and whatever failed     *)
(* before (train.py:1248-1262, checkpoints.py:128-164).                    *)
THEOREM LossIsBounded == Spec => []BoundedLoss
<1>1. CASE Interval > 0
  <2>1. Init => TypeOK /\ Trail
    BY ReplayInit DEF ReplayInv, Init, Idle, Trail, LoopPoints
  <2>2. TypeOK /\ Trail /\ [Next]_vars => (TypeOK /\ Trail)'
    BY <1>1, TypeStep, TrailStep
  <2>3. TypeOK /\ Trail => BoundedLoss
    <3> SUFFICES ASSUME TypeOK, Trail, pc \in LoopPoints
                 PROVE  completed - LatestStep <= IF Async THEN 2 * Interval ELSE Interval
      BY DEF BoundedLoss
    <3>t. completed \in Nat /\ startStep \in Nat /\ step \in Nat /\ Interval \in Nat \ {0}
      BY <1>1, WeightTypes, TrainRunAssumption
    <3>1. Covered \in Nat /\ completed <= Covered + 1 /\ (pc # "evaluate" => Covered = completed)
      BY <3>t DEF Covered, Trail
    <3>2. PICK m \in Nat : /\ m % Interval = 0 /\ m <= Covered /\ Covered < m + Interval
                           /\ m > 0 => m >= Interval /\ (m - Interval) % Interval = 0
      BY <3>1, <3>t, LastMultiple
    <3>3. Saved(0)
      BY DEF Saved
    <3>4. LatestStep \in Nat
      BY <3>3, LatestIsNewest
    <3>5. m > 0 => LatestStep >= m - Interval
      <4>1. m > 0 => m - Interval \in Nat /\ m - Interval < m /\ Saved(m - Interval)
        BY <3>2, <3>t DEF Trail
      <4>2. QED
        BY <4>1, LatestIsNewest
    <3>6. CASE Async
      BY <3>1, <3>2, <3>4, <3>5, <3>6, <3>t
    <3>7. CASE ~Async /\ inflight = {}
      <4>1. Saved(m)
        BY <3>2, <3>7 DEF Trail, Pending
      <4>2. LatestStep >= m
        BY <4>1, LatestIsNewest
      <4>3. QED
        BY <3>1, <3>2, <3>4, <3>7, <4>2, <3>t
    <3>8. CASE ~Async /\ inflight # {}
      <4>1. pc = "saving" /\ completed % Interval = 0 /\ Covered = completed
        BY <3>8 DEF Trail, Covered
      <4>2. CASE m = completed
        BY <3>4, <3>5, <3>8, <4>2, <3>t
      <4>3. CASE m # completed
        <5>1. m < completed /\ Saved(m)
          <6>1. m < completed /\ completed <= Covered /\ completed \in Nat
            BY <3>2, <4>1, <4>3, <3>t
          <6>2. QED
            BY <3>2, <4>1, <6>1 DEF Trail
        <5>2. LatestStep >= m
          BY <5>1, LatestIsNewest
        <5>3. QED
          BY <3>2, <3>4, <3>8, <4>1, <5>2, <3>t
      <4>4. QED
        BY <4>2, <4>3
    <3>9. QED
      BY <3>6, <3>7, <3>8
  <2>4. QED
    BY <2>1, <2>2, <2>3, PTL DEF Spec
<1>2. CASE ~(Interval > 0)
  <2>1. BoundedLoss
    BY <1>2 DEF BoundedLoss
  <2>2. QED
    BY <2>1, PTL
<1>3. QED
  BY <1>1, <1>2

--------------------------------------------------------------------------------
(* One leg of a stream *)

(* Batches this leg has taken from the iterator.                           *)
Taken == Len(weights.trained) - startStep + (IF batch = NoBatch THEN 0 ELSE 1)

(* What the thread and the queue hold follows the n batches taken.         *)
Ahead(n) ==
  /\ \A i \in 1 .. Len(queue) :
       queue[i] = n + i \/ (queue[i] = Stop /\ i = Len(queue) /\ worker = "exited")
  /\ worker \in {"read", "advance"} => position = n + Len(queue)
  /\ worker = "advance" => hand = position + 1
  /\ worker = "put" => hand = Stop \/ (hand = position /\ position = n + Len(queue) + 1)

(* The iterator is n batches into its stream.                              *)
ReadTo(n) ==
  /\ Depth = 0 => position = n /\ worker = "exited"
  /\ Depth > 0 => Ahead(n)

Reading == {"restore", "warm", "first"} \cup LoopPoints

Leg ==
  /\ \A c \in store \cup inflight : ~c.iterator.resumable
  /\ pc \in {"restore", "warm", "first", "fetch", "stage"} => batch = NoBatch
  /\ pc = "train" => batch # NoBatch
  /\ pc = "down" => /\ position = 0 /\ queue = <<>> /\ worker = "exited"
                    /\ batch = NoBatch
  /\ pc \in Reading => ReadTo(Taken) /\ (batch # NoBatch => batch = Taken)
  /\ LegReadsInOrder

(* Taken is a number. *)
LEMMA TakenType ==
  ASSUME TypeOK, Scheduled
  PROVE  pc \in {"down"} \cup Reading => Taken \in Nat
  BY WeightTypes DEF Scheduled, StepsOf, Reading, LoopPoints, Taken, NoBatch

(* The next batch the main thread receives is the next of the stream. *)
LEMMA ReceivesNext ==
  ASSUME TypeOK, NEW n \in Nat, ReadTo(n), NEW b \in 1 .. Length, Receive(b)
  PROVE  b = n + 1 /\ ReadTo(n + 1)'
<1>1. CASE Depth > 0
  <2>1. /\ queue \in Seq(Nat) /\ queue # <<>> /\ b = Head(queue) /\ queue' = Tail(queue)
        /\ UNCHANGED <<position, worker, hand>> /\ Ahead(n)
        /\ position \in Nat /\ hand \in Nat
    BY <1>1 DEF TypeOK, QueueTypeOK, Receive, Take, ReadTo
  <2>2. /\ Head(queue) = queue[1] /\ Len(queue) \in Nat /\ Len(queue) > 0
        /\ Len(queue') = Len(queue) - 1
        /\ \A i \in 1 .. Len(queue') : queue'[i] = queue[i + 1]
    BY <2>1, TailOfQueue
  <2>0. worker' = worker /\ position' = position /\ hand' = hand
    BY <2>1
  <2>a. /\ \A i \in 1 .. Len(queue) :
             queue[i] = n + i \/ (queue[i] = Stop /\ i = Len(queue) /\ worker = "exited")
        /\ worker \in {"read", "advance"} => position = n + Len(queue)
        /\ worker = "advance" => hand = position + 1
        /\ worker = "put" => hand = Stop \/ (hand = position /\ position = n + Len(queue) + 1)
    BY <2>1 DEF Ahead
  <2>3. b = n + 1
    <3>1. 1 \in 1 .. Len(queue)
      BY <2>2
    <3>2. queue[1] = n + 1 \/ queue[1] = Stop
      BY <2>a, <3>1
    <3>3. b # Stop /\ b = queue[1]
      BY <2>1, <2>2 DEF Stop
    <3>4. QED
      BY <3>2, <3>3
  <2>4. Ahead(n + 1)'
    <3>1. ASSUME NEW i \in 1 .. Len(queue')
          PROVE  queue'[i] = n + 1 + i
                 \/ (queue'[i] = Stop /\ i = Len(queue') /\ worker' = "exited")
      <4>1. i + 1 \in 1 .. Len(queue) /\ queue'[i] = queue[i + 1]
        BY <2>2
      <4>2. queue[i + 1] = n + (i + 1)
            \/ (queue[i + 1] = Stop /\ i + 1 = Len(queue) /\ worker = "exited")
        BY <2>a, <4>1
      <4>3. i + 1 = Len(queue) => i = Len(queue')
        BY <2>2
      <4>4. QED
        BY <2>0, <4>1, <4>2, <4>3
    <3>2. /\ worker \in {"read", "advance"} => position = n + 1 + Len(queue')
          /\ worker = "advance" => hand = position + 1
          /\ worker = "put" =>
               hand = Stop \/ (hand = position /\ position = n + 1 + Len(queue') + 1)
      <4>1. n + 1 + Len(queue') = n + Len(queue)
        BY <2>2
      <4>2. QED
        BY <2>a, <4>1
    <3>3. QED
      BY <2>0, <3>1, <3>2 DEF Ahead
  <2>5. QED
    BY <1>1, <2>3, <2>4 DEF ReadTo
<1>2. CASE ~(Depth > 0)
  <2>1. Depth = 0
    BY <1>2, HostQueueAssumption
  <2>2. QED
    BY <2>1 DEF Receive, ReadTo, Stop
<1>3. QED
  BY <1>1, <1>2

(* The fetch thread reads on, and never out of order. *)
LEMMA WorkerReadsOn ==
  ASSUME TypeOK, NEW n \in Nat, ReadTo(n), Worker
  PROVE  ReadTo(n)'
<1>1. worker # "exited" /\ Ahead(n) /\ Depth > 0
  BY HostQueueAssumption DEF Worker, ReadBatch, AdvanceIndex, SourceStops, Put, ReadTo
<1>2. queue \in Seq(Nat) /\ hand \in Nat /\ position \in Nat /\ Len(queue) \in Nat
  BY DEF TypeOK, QueueTypeOK
<1>3. CASE ReadBatch
  BY <1>1, <1>2, <1>3 DEF ReadBatch, Ahead, ReadTo
<1>4. CASE AdvanceIndex
  BY <1>1, <1>2, <1>4 DEF AdvanceIndex, Ahead, ReadTo
<1>5. CASE SourceStops
  BY <1>1, <1>2, <1>5 DEF SourceStops, Ahead, ReadTo
<1>6. CASE Put
  <2>1. /\ queue' = Append(queue, hand) /\ worker = "put" /\ UNCHANGED <<position, hand>>
        /\ worker' = IF hand = Stop THEN "exited" ELSE "read"
    BY <1>6 DEF Put
  <2>2. /\ Len(queue') = Len(queue) + 1
        /\ \A i \in 1 .. Len(queue) : queue'[i] = queue[i]
        /\ queue'[Len(queue) + 1] = hand
    BY <1>2, <2>1, AppendToQueue
  <2>3. \A i \in 1 .. Len(queue) : queue'[i] = n + i
    BY <1>1, <2>1, <2>2 DEF Ahead
  <2>4. hand = Stop \/ (hand = position /\ position = n + Len(queue) + 1)
    BY <1>1, <2>1 DEF Ahead
  <2>5. \A i \in 1 .. Len(queue') :
          queue'[i] = n + i \/ (queue'[i] = Stop /\ i = Len(queue') /\ worker' = "exited")
    <3> SUFFICES ASSUME NEW i \in 1 .. Len(queue')
                 PROVE  queue'[i] = n + i \/ (queue'[i] = Stop /\ i = Len(queue') /\ worker' = "exited")
      OBVIOUS
    <3>1. CASE i \in 1 .. Len(queue)
      BY <2>2, <2>3, <3>1
    <3>2. CASE i = Len(queue) + 1
      <4>1. queue'[i] = hand /\ i = Len(queue')
        BY <2>2, <3>2
      <4>2. CASE hand = Stop
        BY <2>1, <4>1, <4>2
      <4>3. CASE hand = position /\ position = n + Len(queue) + 1
        BY <1>2, <3>2, <4>1, <4>3
      <4>4. QED
        BY <2>4, <4>2, <4>3
    <3>3. i \in 1 .. Len(queue) \/ i = Len(queue) + 1
      BY <1>2, <2>2
    <3>4. QED
      BY <3>1, <3>2, <3>3
  <2>6. QED
    BY <1>1, <1>2, <2>1, <2>2, <2>4, <2>5 DEF Ahead, ReadTo
<1>7. QED
  BY <1>3, <1>4, <1>5, <1>6 DEF Worker

(* Where the leg stands, for a step that leaves the iterator alone.        *)
LegKept ==
  /\ UNCHANGED <<startStep, weights, batch, position, worker, hand, queue, store>>
  /\ \A c \in inflight' : ~c.iterator.resumable

(* A step of the main thread that neither draws nor trains. *)
LEMMA LegKeeps ==
  ASSUME Leg, LegKept,
         pc \in Reading /\ pc # "train", pc' \in LoopPoints \cup {"closing", "exit"},
         pc \in LoopPoints \/ pc' \notin LoopPoints,
         pc' \in {"fetch", "stage"} => batch = NoBatch,
         pc' = "train" => batch # NoBatch
  PROVE  Leg'
<1> USE DEF Reading, LoopPoints
<1>1. Taken' = Taken
  BY DEF Taken, LegKept
<1>2. ReadTo(Taken)' <=> ReadTo(Taken)
  BY <1>1 DEF ReadTo, Ahead, LegKept
<1>3. LegReadsInOrder'
  BY DEF LegReadsInOrder, Leg, LegKept
<1>4. QED
  BY <1>1, <1>2, <1>3 DEF Leg, LegKept

(* The loop is over: nothing is read any more. *)
LEMMA LegEnds ==
  ASSUME Leg, store' = store, \A c \in inflight' : ~c.iterator.resumable,
         pc' \in {"closing", "exit"}
  PROVE  Leg'
  BY DEF Leg, LegReadsInOrder, Reading, LoopPoints

(* A batch is drawn and staged. *)
LEMMA LegDraws ==
  ASSUME TypeOK, Scheduled, Leg, StageBatch, batch = NoBatch, pc \in Reading,
         pc' \in LoopPoints \ {"fetch", "stage"},
         UNCHANGED <<startStep, weights, store, inflight>>,
         pc \in LoopPoints \/ Len(weights.trained) = startStep
  PROVE  Leg'
<1>1. PICK b \in 1 .. Length : Receive(b) /\ batch' = b
  BY DEF StageBatch
<1>2. PICK n \in Nat : n = Taken
  BY TakenType
<1>3. b = n + 1 /\ ReadTo(n + 1)'
  BY <1>1, <1>2, ReceivesNext DEF Leg
<1>4. b \in Nat /\ b # NoBatch
  BY <1>1, HostQueueAssumption DEF NoBatch
<1>5. Taken' = n + 1
  BY <1>1, <1>2, <1>4, WeightTypes DEF Taken
<1>6. ReadTo(Taken)' /\ batch' = Taken' /\ batch' # NoBatch
  BY <1>1, <1>3, <1>4, <1>5 DEF ReadTo, Ahead
<1>7. LegReadsInOrder'
  BY WeightTypes DEF LegReadsInOrder, Leg
<1>8. QED
  BY <1>6, <1>7 DEF Leg, Reading, LoopPoints

(* Every step keeps a leg in the order of its stream. *)
LEMMA LegStep ==
  ~Resumable /\ TypeOK /\ Scheduled /\ Leg /\ [Next]_vars => Leg'
<1> SUFFICES ASSUME ~Resumable, TypeOK, Scheduled, Leg, [Next]_vars PROVE Leg'
  OBVIOUS
<1> USE DEF storeVars, queueVars
<1>s. \A s \in Nat : ~Snapshot(s).iterator.resumable
  BY DEF Snapshot, IteratorState
<1>t. startStep \in Nat /\ step \in Nat /\ completed \in Nat
  BY WeightTypes
<1>1. CASE Gone
  BY <1>1 DEF Gone, Leg, LegReadsInOrder, Reading, LoopPoints
<1>2. CASE Launch
  <2>1. /\ pc = "down" /\ pc' = "restore"
        /\ position' = 0 /\ queue' = <<>> /\ batch' = NoBatch
        /\ worker' = IF Depth > 0 THEN "read" ELSE "exited"
        /\ UNCHANGED <<startStep, weights, store, inflight>>
    BY <1>2 DEF Launch, Leg
  <2>2. Taken' = 0
    BY <2>1, WeightTypes DEF Taken, Scheduled, StepsOf
  <2>3. ReadTo(Taken)'
    BY <2>1, <2>2, HostQueueAssumption DEF ReadTo, Ahead
  <2>4. QED
    BY <2>1, <2>3 DEF Leg, LegReadsInOrder, LoopPoints
<1>3. CASE Restore
  <2>1. /\ pc = "restore" /\ pc' = "warm"
        /\ UNCHANGED <<position, worker, hand, queue, batch, store, inflight>>
        /\ Len(weights'.trained) - startStep' = Len(weights.trained) - startStep
    <3>1. CASE store = {} /\ UNCHANGED <<startStep, weights, position>>
      BY <1>3, <3>1 DEF Restore
    <3>2. ASSUME NEW c \in store, startStep' = c.step, weights' = c.weights,
                 position' = IF c.iterator.resumable THEN c.iterator.index ELSE position
          PROVE  /\ Len(weights'.trained) - startStep' = Len(weights.trained) - startStep
                 /\ position' = position
      BY <1>3, <3>2, WeightTypes DEF Restore, Leg, Scheduled, StepsOf
    <3>3. QED
      BY <1>3, <3>1, <3>2 DEF Restore
  <2>2. Taken' = Taken
    BY <2>1 DEF Taken
  <2>3. ReadTo(Taken)' <=> ReadTo(Taken)
    BY <2>1, <2>2 DEF ReadTo, Ahead
  <2>4. QED
    BY <2>1, <2>2, <2>3 DEF Leg, LegReadsInOrder, Reading, LoopPoints
<1>4. CASE WarmStart
  <2>1. /\ pc = "warm" /\ pc' = "first"
        /\ UNCHANGED <<position, worker, hand, queue, batch, store, inflight, startStep>>
        /\ Len(weights'.trained) = Len(weights.trained)
    BY <1>4, WeightTypes DEF WarmStart, Scheduled, StepsOf
  <2>2. Taken' = Taken
    BY <2>1 DEF Taken
  <2>3. ReadTo(Taken)' <=> ReadTo(Taken)
    BY <2>1, <2>2 DEF ReadTo, Ahead
  <2>4. QED
    BY <2>1, <2>2, <2>3 DEF Leg, LegReadsInOrder, Reading, LoopPoints
<1>5. CASE FirstFetch
  <2>1. Len(weights.trained) = startStep
    BY <1>5 DEF FirstFetch, Scheduled, StepsOf
  <2>2. QED
    BY <1>5, <2>1, LegDraws DEF FirstFetch, Leg, Reading, LoopPoints
<1>6. CASE Fetch \/ (Stage /\ StagesNext)
  BY <1>6, LegDraws DEF Fetch, Stage, Leg, Reading, LoopPoints
<1>7. CASE BeginStep \/ EndLoop \/ (Stage /\ ~StagesNext) \/ Metrics \/ EndStep
  <2>1. LegKept
    BY <1>7 DEF BeginStep, EndLoop, Stage, Metrics, EndStep, LegKept, Leg
  <2>2. /\ pc \in {"head", "stage", "metrics", "saving"}
        /\ pc' \in {"fetch", "train", "head", "metrics", "evaluate", "final"}
        /\ pc' = "fetch" => batch = NoBatch
        /\ pc' = "train" => batch # NoBatch
    BY <1>7 DEF BeginStep, EndLoop, Stage, Metrics, EndStep
  <2>3. QED
    BY <2>1, <2>2, LegKeeps DEF Reading, LoopPoints
<1>8. CASE Train
  <2>1. /\ pc = "train" /\ pc' = "stage" /\ batch' = NoBatch
        /\ UNCHANGED <<startStep, position, worker, hand, queue, store, inflight>>
        /\ batch # NoBatch /\ batch = Taken /\ ReadTo(Taken)
    BY <1>8 DEF Train, Leg, Reading, LoopPoints
  <2>2. /\ Len(weights'.trained) = Len(weights.trained) + 1
        /\ weights'.trained[Len(weights.trained) + 1] = batch
        /\ \A i \in 1 .. Len(weights.trained) : weights'.trained[i] = weights.trained[i]
        /\ Len(weights.trained) \in Nat /\ startStep <= Len(weights.trained)
    BY <1>8, <2>1, OneMore, WeightTypes DEF Scheduled, LoopPoints
  <2>3. Taken' = Taken
    BY <2>1, <2>2, <1>t DEF Taken
  <2>4. ReadTo(Taken)'
    BY <2>1, <2>3 DEF ReadTo, Ahead
  <2>5. ASSUME NEW i \in startStep + 1 .. Len(weights.trained) + 1
        PROVE  weights'.trained[i] = i - startStep
    <3>1. CASE i = Len(weights.trained) + 1
      BY <2>1, <2>2, <3>1, <1>t DEF Taken
    <3>2. CASE i <= Len(weights.trained)
      BY <2>1, <2>2, <2>5, <3>2, <1>t DEF Leg, LegReadsInOrder, LoopPoints
    <3>3. QED
      BY <2>2, <3>1, <3>2, <1>t
  <2>6. LegReadsInOrder'
    BY <2>1, <2>2, <2>5 DEF LegReadsInOrder
  <2>7. QED
    BY <2>1, <2>4, <2>6 DEF Leg
<1>9. CASE IntervalSave
  <2>1. \A c \in inflight' : ~c.iterator.resumable
    BY <1>9, <1>s, <1>t DEF IntervalSave, BeginSave, Leg
  <2>2. LegKept /\ pc = "evaluate" /\ pc' = "saving"
    BY <1>9, <2>1 DEF IntervalSave, LegKept
  <2>3. QED
    BY <2>2, LegKeeps DEF Reading, LoopPoints
<1>10. CASE FinalSave
  <2>1. \A c \in inflight' : ~c.iterator.resumable
    BY <1>10, <1>s, <1>t DEF FinalSave, BeginSave, Leg
  <2>2. store' = store /\ pc' = "closing"
    BY <1>10 DEF FinalSave
  <2>3. QED
    BY <2>1, <2>2, LegEnds
<1>11. CASE DataEnds \/ FinalSaveRefused \/ Close \/ Raises \/ WriteFails
  <2>1. store' = store /\ pc' \in {"closing", "exit"} /\ inflight' \subseteq inflight
    BY <1>11 DEF DataEnds, FinalSaveRefused, Close, Raises, WriteFails
  <2>2. QED
    BY <2>1, LegEnds DEF Leg
<1>12. CASE Commit
  <2>1. UNCHANGED <<queueVars, legVars>> /\ store' \cup inflight' \subseteq store \cup inflight
    BY <1>12 DEF Commit, Retained
  <2>2. Taken' = Taken /\ (ReadTo(Taken)' <=> ReadTo(Taken))
    BY <2>1 DEF legVars, Taken, ReadTo, Ahead
  <2>3. QED
    BY <2>1, <2>2 DEF legVars, Leg, LegReadsInOrder
<1>13. CASE UNCHANGED vars
  <2>1. Taken' = Taken /\ (ReadTo(Taken)' <=> ReadTo(Taken))
    BY <1>13 DEF vars, legVars, Taken, ReadTo, Ahead
  <2>2. QED
    BY <1>13, <2>1 DEF vars, legVars, Leg, LegReadsInOrder
<1>14. CASE Prefetching \/ SourceFails
  <2>1. UNCHANGED <<legVars, storeVars>> /\ (Worker \/ SourceFails)
    BY <1>14 DEF Prefetching, SourceFails
  <2>2. Taken' = Taken
    BY <2>1 DEF legVars, Taken
  <2>3. worker # "exited"
    BY <2>1 DEF Worker, ReadBatch, AdvanceIndex, SourceStops, Put, SourceFails
  <2>4. ASSUME pc \in Reading PROVE ReadTo(Taken)'
    <3>1. PICK n \in Nat : n = Taken
      BY <2>4, TakenType
    <3>2. ReadTo(n)
      BY <2>4, <3>1 DEF Leg
    <3>3. CASE Worker
      BY <2>2, <3>1, <3>2, <3>3, WorkerReadsOn DEF ReadTo, Ahead
    <3>4. CASE SourceFails
      BY <2>2, <3>1, <3>2, <3>4, HostQueueAssumption DEF SourceFails, ReadTo, Ahead
    <3>5. QED
      BY <2>1, <3>3, <3>4
  <2>5. QED
    BY <2>1, <2>2, <2>3, <2>4 DEF legVars, Leg, LegReadsInOrder
<1>15. QED
  BY <1>1, <1>2, <1>3, <1>4, <1>5, <1>6, <1>7, <1>8, <1>9, <1>10, <1>11, <1>12, <1>13, <1>14
     DEF Next, Main, Startup, Loop, Finish, Fault, FirstFetchRaises, Exit, Crash, DonorMissing

(* Within one leg an unresumable stream is trained on from its head, in    *)
(* order and without a gap, whatever the fetch thread and its failures do  *)
(* (train.py:426-434, data.py:758-825).                                    *)
THEOREM LegReads == ~Resumable => (Spec => []LegReadsInOrder)
<1> SUFFICES ASSUME ~Resumable PROVE Spec => []LegReadsInOrder
  OBVIOUS
<1>1. Init => TypeOK /\ Scheduled /\ Leg
  BY ScheduledInit
     DEF Init, Idle, Leg, LegReadsInOrder, Reading, LoopPoints
<1>2. TypeOK /\ Scheduled /\ Leg /\ [Next]_vars => (TypeOK /\ Scheduled /\ Leg)'
  BY TypeStep, ScheduledStep, LegStep
<1>3. TypeOK /\ Scheduled /\ Leg => LegReadsInOrder
  BY DEF Leg
<1>4. QED
  BY <1>1, <1>2, <1>3, PTL DEF Spec

--------------------------------------------------------------------------------
(* A leg never stops, and it ends                                          *)

(* The iterator has a batch for the main thread. *)
HasBatch ==
  \E b \in 1 .. Length :
    IF Depth > 0 THEN queue # <<>> /\ b = Head(queue)
                 ELSE b = IF position < Length THEN position + 1 ELSE Stop

CanSave(s) == inflight = {} /\ \A c \in store : c.step # s

(* The guards of Main. *)
MainReady ==
  \/ pc \in {"down", "warm", "head", "train", "exit"}
  \/ pc = "restore" /\ (store = {} \/ \E c \in store : Newest(c))
  \/ pc \in {"first", "fetch"} /\ (HasBatch \/ NextRaises)
  \/ pc = "stage" /\ (~StagesNext \/ HasBatch \/ NextRaises)
  \/ pc = "metrics" /\ TokenCounts # {}
  \/ pc = "evaluate" /\ (WillCheckpoint => CanSave(step))
  \/ pc = "saving" /\ (Async \/ inflight = {})
  \/ pc = "final" /\ \/ ~FinalSaveDue \/ CanSave(completed)
                     \/ inflight = {} /\ \E c \in store : c.step = completed
  \/ pc = "closing" /\ inflight = {}

(* What the main thread may have to wait for: an entry of the queue, the   *)
(* end of a write.                                                         *)
AwaitsBatch ==
  /\ pc \in {"first", "fetch"} \/ (pc = "stage" /\ StagesNext)
  /\ Depth > 0 /\ queue = <<>>

AwaitsWrite ==
  /\ inflight # {}
  /\ \/ pc = "evaluate" /\ WillCheckpoint
     \/ pc = "saving" /\ ~Async
     \/ pc = "final" /\ FinalSaveDue
     \/ pc = "closing"

GoesOn == MainReady \/ AwaitsWrite \/ (AwaitsBatch /\ ThreadRuns)

(* A measure of what is left of a leg: a pass of the loop takes seven of   *)
(* its points.                                                             *)
ToGo ==
  CASE pc = "down"     -> 0
    [] pc = "exit"     -> 1
    [] pc = "closing"  -> 2
    [] pc = "final"    -> 7 * (Steps - step) + 3
    [] pc = "head"     -> 7 * (Steps - step) + 4
    [] pc = "saving"   -> 7 * (Steps - step) + 5
    [] pc = "evaluate" -> 7 * (Steps - step) + 6
    [] pc = "metrics"  -> 7 * (Steps - step) + 7
    [] pc = "stage"    -> 7 * (Steps - step) + 8
    [] pc = "train"    -> 7 * (Steps - step) + 9
    [] pc = "fetch"    -> 7 * (Steps - step) + 10
    [] pc = "first"    -> 7 * Steps + 11
    [] pc = "warm"     -> 7 * Steps + 12
    [] OTHER           -> 7 * Steps + 13

(* A step of another thread ends no wait without an answer to it. *)
WaitIsKept ==
  /\ MainReady => MainReady'
  /\ AwaitsWrite => AwaitsWrite' \/ MainReady'
  /\ AwaitsBatch => \/ MainReady'
                    \/ AwaitsBatch' /\ \/ StepsToPut' < StepsToPut
                                       \/ inflight # {} /\ inflight' = {}

LegIsNearer == pc # "down" => ToGo' < ToGo \/ (ToGo' = ToGo /\ WaitIsKept)

(* What the thread has read and the queue holds are batches of the source  *)
(* or its end; and a thread that has ended has left that end in the queue. *)
InRange == hand <= Length /\ \A i \in 1 .. Len(queue) : queue[i] <= Length

EndIsQueued ==
  Depth > 0 /\ pc \in Reading /\ worker = "exited" =>
    queue # <<>> /\ queue[Len(queue)] = Stop

NewestFound == store # {} => \E c \in store : Newest(c)

NotYetSaved ==
  pc \in {"fetch", "train", "stage", "metrics", "evaluate"} =>
    \A c \in store \cup inflight : c.step < step

Course == SavedInv /\ InRange /\ EndIsQueued /\ NewestFound /\ NotYetSaved

(* The fetch thread ends with an entry of its own. *)
LEMMA WorkerCourse ==
  ASSUME TypeOK, InRange, EndIsQueued, Worker, pc' = pc
  PROVE  InRange' /\ EndIsQueued'
<1>1. queue \in Seq(Nat) /\ hand \in Nat /\ position \in Nat /\ Length \in Nat
  BY HostQueueAssumption DEF TypeOK, QueueTypeOK
<1>2. CASE ReadBatch \/ AdvanceIndex \/ SourceStops
  BY <1>1, <1>2 DEF ReadBatch, AdvanceIndex, SourceStops, InRange, EndIsQueued, Stop
<1>3. CASE Put
  <2>1. /\ queue' = Append(queue, hand) /\ hand' = hand
        /\ worker' = "exited" => hand = Stop
    BY <1>3 DEF Put
  <2>2. /\ queue' \in Seq(Nat) /\ Len(queue') = Len(queue) + 1 /\ Len(queue) \in Nat
        /\ \A i \in 1 .. Len(queue) : queue'[i] = queue[i]
        /\ queue'[Len(queue) + 1] = hand
    BY <1>1, <2>1, AppendToQueue
  <2>3. InRange'
    <3>1. ASSUME NEW i \in 1 .. Len(queue') PROVE queue'[i] <= Length
      <4>1. i \in 1 .. Len(queue) \/ i = Len(queue) + 1
        BY <2>2
      <4>2. QED
        BY <2>2, <4>1 DEF InRange
    <3>2. QED
      BY <2>1, <3>1 DEF InRange
  <2>4. EndIsQueued'
    BY <2>1, <2>2 DEF EndIsQueued
  <2>5. QED
    BY <2>3, <2>4
<1>4. QED
  BY <1>2, <1>3 DEF Worker

(* The main thread takes a batch and leaves the end behind it. *)
LEMMA ReceiveCourse ==
  ASSUME TypeOK, InRange, EndIsQueued, pc \in Reading, NEW b \in Nat, Receive(b),
         b = Stop => pc' \notin Reading
  PROVE  InRange' /\ EndIsQueued'
<1>1. CASE Depth > 0
  <2>1. /\ queue \in Seq(Nat) /\ queue # <<>> /\ queue' = Tail(queue) /\ b = Head(queue)
        /\ worker' = worker /\ hand' = hand
    BY <1>1 DEF Receive, Take, TypeOK, QueueTypeOK
  <2>2. /\ Len(queue) \in Nat /\ Len(queue) > 0 /\ Len(queue') = Len(queue) - 1
        /\ queue' \in Seq(Nat) /\ Head(queue) = queue[1]
        /\ \A i \in 1 .. Len(queue') : queue'[i] = queue[i + 1]
    BY <2>1, TailOfQueue
  <2>3. InRange'
    <3>1. ASSUME NEW i \in 1 .. Len(queue') PROVE queue'[i] <= Length
      <4>1. i + 1 \in 1 .. Len(queue) /\ queue'[i] = queue[i + 1]
        BY <2>2
      <4>2. QED
        BY <4>1 DEF InRange
    <3>2. QED
      BY <2>1, <3>1 DEF InRange
  <2>4. ASSUME pc' \in Reading, worker = "exited"
        PROVE  queue' # <<>> /\ queue'[Len(queue')] = Stop
    <3>1. queue[Len(queue)] = Stop /\ queue[1] # Stop
      BY <1>1, <2>1, <2>2, <2>4 DEF EndIsQueued
    <3>2. Len(queue') \in Nat /\ Len(queue') > 0
      BY <2>2, <3>1
    <3>3. Len(queue') \in 1 .. Len(queue') /\ Len(queue') + 1 = Len(queue)
      BY <2>2, <3>2
    <3>4. queue'[Len(queue')] = queue[Len(queue)]
      BY <2>2, <3>3
    <3>5. QED
      BY <3>1, <3>2, <3>4
  <2>5. QED
    BY <2>1, <2>3, <2>4 DEF EndIsQueued
<1>2. CASE ~(Depth > 0)
  BY <1>2 DEF Receive, InRange, EndIsQueued
<1>3. QED
  BY <1>1, <1>2

(* Every step keeps the end of the stream in the queue. *)
LEMMA QueueCourse ==
  TypeOK /\ InRange /\ EndIsQueued /\ [Next]_vars => InRange' /\ EndIsQueued'
<1> SUFFICES ASSUME TypeOK, InRange, EndIsQueued, [Next]_vars PROVE InRange' /\ EndIsQueued'
  OBVIOUS
<1> USE DEF Reading, LoopPoints
<1>1. CASE Prefetching
  BY <1>1, WorkerCourse DEF Prefetching, legVars
<1>2. CASE Gone
  BY <1>2, HostQueueAssumption DEF Gone, InRange, EndIsQueued, Stop
<1>3. CASE FirstFetch \/ Fetch \/ (Stage /\ StageBatch)
  <2>1. PICK b \in 1 .. Length : Receive(b)
    BY <1>3 DEF FirstFetch, Fetch, StageBatch
  <2>2. b \in Nat /\ b # Stop /\ pc \in Reading
    BY <1>3, HostQueueAssumption DEF FirstFetch, Fetch, Stage, Stop
  <2>3. QED
    BY <2>1, <2>2, ReceiveCourse
<1>4. CASE DataEnds
  <2>1. Receive(Stop) /\ Stop \in Nat /\ pc \in Reading /\ pc' \notin Reading
    BY <1>4 DEF DataEnds, Stop
  <2>2. QED
    BY <2>1, ReceiveCourse
<1>5. CASE SourceFails
  BY <1>5, HostQueueAssumption DEF SourceFails, legVars, InRange, EndIsQueued, Stop
<1>6. CASE Launch
  BY <1>6 DEF Launch, InRange, EndIsQueued
<1>7. CASE Restore \/ WarmStart \/ BeginStep \/ EndLoop \/ Train \/ Metrics \/ IntervalSave
           \/ EndStep \/ FinalSave \/ FinalSaveRefused \/ Close \/ Raises \/ WriteFails \/ Commit
           \/ (Stage /\ UNCHANGED queueVars)
  <2>1. worker' = worker /\ hand' = hand /\ queue' = queue
    BY <1>7 DEF Restore, WarmStart, BeginStep, EndLoop, Train, Metrics, IntervalSave, EndStep,
                FinalSave, FinalSaveRefused, Close, Raises, WriteFails, Commit, queueVars
  <2>2. pc' \in Reading => pc \in Reading
    BY <1>7 DEF Restore, WarmStart, BeginStep, EndLoop, Train, Metrics, IntervalSave, EndStep,
                FinalSave, FinalSaveRefused, Close, Raises, WriteFails, Commit, Stage, legVars
  <2>3. QED
    BY <2>1, <2>2 DEF InRange, EndIsQueued
<1>8. CASE UNCHANGED vars
  BY <1>8 DEF vars, queueVars, legVars, InRange, EndIsQueued
<1>9. QED
  BY <1>1, <1>2, <1>3, <1>4, <1>5, <1>6, <1>7, <1>8
     DEF Next, Main, Startup, Loop, Finish, Fault, FirstFetchRaises, Exit, Crash, DonorMissing,
         Stage

(* A directory that is not empty has a newest checkpoint. *)
LEMMA NewestStep == TypeOK /\ NewestFound /\ [Next]_vars => NewestFound'
<1> SUFFICES ASSUME TypeOK, NewestFound, [Next]_vars PROVE NewestFound'
  OBVIOUS
<1>1. CASE Commit
  BY <1>1, CommitSaves DEF NewestFound
<1>2. CASE ~Commit
  <2>1. store' = store
    BY <1>2 DEF Next, Main, Startup, Loop, Finish, Fault, Gone, Launch, Restore, WarmStart,
       FirstFetch, FirstFetchRaises, BeginStep, EndLoop, Fetch, Train, Stage, Metrics,
       IntervalSave, EndStep, DataEnds, FinalSave, FinalSaveRefused, Close, Exit, Crash, Raises,
       SourceFails, WriteFails, DonorMissing, Prefetching, vars, storeVars
  <2>2. QED
    BY <2>1 DEF NewestFound, Newest
<1>3. QED
  BY <1>1, <1>2

(* A step of the loop is saved once. *)
LEMMA NotYetSavedStep == SavedInv /\ NotYetSaved /\ [Next]_vars => NotYetSaved'
<1> SUFFICES ASSUME SavedInv, NotYetSaved, [Next]_vars PROVE NotYetSaved'
  OBVIOUS
<1> USE DEF NotYetSaved, storeVars
<1>1. step \in Nat /\ \A c \in store \cup inflight : c.step \in Nat
  BY WeightTypes DEF SavedInv
<1>2. CASE BeginStep
  <2>1. step' = step + 1 /\ UNCHANGED <<store, inflight>> /\ pc = "head"
    BY <1>2 DEF BeginStep
  <2>2. \A c \in store \cup inflight : c.step <= step
    BY <1>1, <2>1 DEF SavedInv, SavedSteps, LoopPoints, TypeOK
  <2>3. QED
    BY <1>1, <2>1, <2>2
<1>3. CASE Commit
  <2>1. store' \subseteq store \cup inflight /\ inflight' = {} /\ UNCHANGED legVars
    BY <1>3 DEF Commit, Retained
  <2>2. QED
    BY <2>1 DEF legVars
<1>4. CASE Fetch \/ Train \/ Stage \/ Metrics
  BY <1>4 DEF Fetch, Train, Stage, Metrics
<1>5. CASE Prefetching \/ SourceFails \/ UNCHANGED vars
  BY <1>5 DEF Prefetching, SourceFails, vars, legVars
<1>6. QED
  BY <1>2, <1>3, <1>4, <1>5 DEF Next, Main, Startup, Loop, Finish, Fault, Gone, Launch, Restore,
     WarmStart, FirstFetch, FirstFetchRaises, EndLoop, IntervalSave, EndStep, DataEnds, FinalSave,
     FinalSaveRefused, Close, Exit, Crash, Raises, WriteFails, DonorMissing

LEMMA CourseHolds == Spec => []Course
<1>1. Init => InRange /\ EndIsQueued /\ NewestFound /\ NotYetSaved
  BY HostQueueAssumption
     DEF Init, Idle, InRange, EndIsQueued, NewestFound, NotYetSaved, Reading, LoopPoints, Stop
<1>2. Course /\ [Next]_vars /\ SavedInv' => Course'
  BY QueueCourse, NewestStep, NotYetSavedStep DEF Course, SavedInv
<1>3. Init /\ SavedInv => Course
  BY <1>1 DEF Course
<1>4. QED
  BY <1>2, <1>3, SavedHolds, PTL DEF Spec

(* What the iterator has is a batch or the end of the data. *)
LEMMA SomethingToTake == Course => (HasBatch \/ NextRaises <=> (Depth > 0 => queue # <<>>))
<1> SUFFICES ASSUME Course PROVE HasBatch \/ NextRaises <=> (Depth > 0 => queue # <<>>)
  OBVIOUS
<1>1. /\ queue \in Seq(Nat) /\ position \in Nat /\ Length \in Nat
      /\ \A i \in 1 .. Len(queue) : queue[i] <= Length
  BY HostQueueAssumption DEF Course, SavedInv, TypeOK, QueueTypeOK, InRange
<1>2. CASE Depth > 0
  <2>1. ASSUME queue # <<>> PROVE Head(queue) = Stop \/ Head(queue) \in 1 .. Length
    <3>1. Head(queue) = queue[1] /\ 1 \in 1 .. Len(queue) /\ queue[1] \in Nat
      BY <1>1, <2>1
    <3>2. QED
      BY <1>1, <3>1 DEF Stop
  <2>2. QED
    BY <1>2, <2>1 DEF HasBatch, NextRaises
<1>3. CASE ~(Depth > 0)
  BY <1>1, <1>3 DEF HasBatch, NextRaises
<1>4. QED
  BY <1>2, <1>3

(* The main thread can go on, or waits for what another thread will bring. *)
LEMMA AlwaysGoesOn == Course => GoesOn
<1> SUFFICES ASSUME Course, ~AwaitsWrite, ~(AwaitsBatch /\ ThreadRuns) PROVE MainReady
  BY DEF GoesOn
<1>1. TypeOK /\ SavedSteps
  BY DEF Course, SavedInv
<1>2. CASE pc \in {"first", "fetch"} \/ (pc = "stage" /\ StagesNext)
  <2>1. CASE Depth > 0 /\ queue = <<>>
    <3>1. ~ThreadRuns
      BY <1>2, <2>1 DEF AwaitsBatch
    <3>2. Len(queue) = 0
      BY <2>1
    <3>3. worker = "exited"
      BY <1>1, <2>1, <3>1, <3>2, HostQueueAssumption
         DEF ThreadRuns, TypeOK, QueueTypeOK, WorkerStates
    <3>4. pc \in Reading
      BY <1>2 DEF Reading, LoopPoints
    <3>5. QED
      BY <2>1, <3>3, <3>4 DEF Course, EndIsQueued
  <2>2. CASE ~(Depth > 0 /\ queue = <<>>)
    BY <1>2, <2>2, SomethingToTake DEF MainReady
  <2>3. QED
    BY <2>1, <2>2
<1>3. CASE pc = "evaluate"
  <2>1. step \in Nat /\ \A c \in store : c.step \in Nat /\ c.step < step
    BY <1>1, <1>3, WeightTypes DEF Course, NotYetSaved, TypeOK
  <2>2. QED
    BY <1>3, <2>1 DEF MainReady, AwaitsWrite, CanSave
<1>4. CASE pc \in {"saving", "closing"}
  BY <1>4, TrainRunAssumption DEF MainReady, AwaitsWrite
<1>5. CASE pc = "final"
  BY <1>5 DEF MainReady, AwaitsWrite, CanSave
<1>6. CASE pc = "restore"
  BY <1>6 DEF MainReady, Course, NewestFound
<1>7. CASE pc = "metrics"
  BY <1>7, TrainRunAssumption DEF MainReady
<1>8. CASE pc \in {"down", "warm", "head", "train", "exit"} \/ (pc = "stage" /\ ~StagesNext)
  BY <1>8 DEF MainReady
<1>9. QED
  BY <1>1, <1>2, <1>3, <1>4, <1>5, <1>6, <1>7, <1>8 DEF TypeOK, Points, LoopPoints

(* Every step of the main thread is one less to go. *)
LEMMA MainIsNearer == ASSUME Course, Main, pc # "down" PROVE ToGo' < ToGo
<1>1. /\ step \in Nat /\ startStep \in Nat /\ Steps \in Nat /\ SavedSteps
      /\ pc \in LoopPoints => step <= Steps
      /\ pc = "first" => startStep <= Steps
  BY TrainRunAssumption DEF Course, SavedInv, TypeOK, SavedSteps
<1>2. CASE Restore \/ WarmStart
  BY <1>1, <1>2 DEF Restore, WarmStart, ToGo
<1>3. CASE FirstFetch
  BY <1>1, <1>3 DEF FirstFetch, ToGo
<1>4. CASE FirstFetchRaises
  BY <1>1, <1>4 DEF FirstFetchRaises, Gone, ToGo
<1>5. CASE BeginStep
  <2>1. /\ pc = "head" /\ step' = step + 1 /\ pc' \in {"fetch", "train"}
    BY <1>5 DEF BeginStep
  <2>2. QED
    BY <1>1, <2>1 DEF ToGo
<1>6. CASE EndLoop \/ Fetch \/ Train \/ Stage \/ Metrics \/ IntervalSave \/ EndStep
  <2>1. /\ step' = step
        /\ <<pc, pc'>> \in {<<"head", "final">>, <<"fetch", "train">>, <<"train", "stage">>,
                            <<"stage", "metrics">>, <<"metrics", "evaluate">>,
                            <<"evaluate", "saving">>, <<"saving", "final">>, <<"saving", "head">>}
    BY <1>6 DEF EndLoop, Fetch, Train, Stage, Metrics, IntervalSave, EndStep
  <2>2. QED
    BY <1>1, <2>1 DEF ToGo
<1>7. CASE DataEnds \/ FinalSave \/ FinalSaveRefused
  <2>1. pc \in {"fetch", "stage", "final"} /\ pc' = "closing"
    BY <1>7 DEF DataEnds, FinalSave, FinalSaveRefused
  <2>2. QED
    BY <1>1, <2>1 DEF ToGo, LoopPoints
<1>8. CASE Close
  BY <1>8 DEF Close, ToGo
<1>9. CASE Exit
  BY <1>9 DEF Exit, Gone, ToGo
<1>10. QED
  BY <1>2, <1>3, <1>4, <1>5, <1>6, <1>7, <1>8, <1>9 DEF Main, Startup, Loop, Finish, Launch

(* A step of the fetch thread shortens a wait for it and no other. *)
LEMMA ThreadIsNearer ==
  ASSUME Course, Course', Prefetching \/ SourceFails
  PROVE  ToGo' = ToGo /\ WaitIsKept
<1>1. UNCHANGED <<legVars, storeVars>>
  BY DEF Prefetching, SourceFails
<1>2. /\ pc' = pc /\ step' = step /\ completed' = completed /\ tokensSeen' = tokensSeen
      /\ store' = store /\ inflight' = inflight
  BY <1>1 DEF legVars, storeVars
<1>3. /\ ToGo' = ToGo /\ (StagesNext' <=> StagesNext)
      /\ AwaitsWrite' = AwaitsWrite
  BY <1>2 DEF ToGo, StagesNext, WillCheckpoint, EndsTokenBudget, AwaitsWrite, FinalSaveDue
<1>4. queue # <<>> => queue' # <<>>
  BY AppendToQueue
     DEF Prefetching, SourceFails, Worker, ReadBatch, AdvanceIndex, SourceStops, Put, Course,
         SavedInv, TypeOK, QueueTypeOK
<1>5. (Depth > 0 => queue' # <<>>) => (HasBatch \/ NextRaises)'
  <2>1. (Course => (HasBatch \/ NextRaises <=> (Depth > 0 => queue # <<>>)))'
    BY SomethingToTake, PTL
  <2>2. QED
    BY <2>1
<1>6. MainReady => MainReady'
  <2>1. HasBatch \/ NextRaises => (HasBatch \/ NextRaises)'
    BY <1>4, <1>5, SomethingToTake
  <2>2. QED
    BY <1>2, <1>3, <2>1 DEF MainReady, Newest, CanSave, WillCheckpoint, FinalSaveDue
<1>7. ASSUME AwaitsBatch
      PROVE  MainReady' \/ (AwaitsBatch' /\ StepsToPut' < StepsToPut)
  <2>1. CASE queue' = <<>>
    <3>1. AwaitsBatch'
      BY <1>2, <1>3, <1>7, <2>1 DEF AwaitsBatch
    <3>2. CASE Put
      BY <2>1, <3>2, AppendToQueue DEF Put, Course, SavedInv, TypeOK, QueueTypeOK
    <3>3. CASE ReadBatch \/ AdvanceIndex \/ SourceStops \/ SourceFails
      BY <3>1, <3>3 DEF ReadBatch, AdvanceIndex, SourceStops, SourceFails, StepsToPut
    <3>4. QED
      BY <3>1, <3>2, <3>3 DEF Prefetching, Worker
  <2>2. CASE queue' # <<>>
    <3>1. (HasBatch \/ NextRaises)'
      BY <1>5, <2>2
    <3>2. QED
      BY <1>2, <1>3, <1>7, <3>1 DEF AwaitsBatch, MainReady
  <2>3. QED
    BY <2>1, <2>2
<1>8. QED
  BY <1>3, <1>6, <1>7 DEF WaitIsKept

(* A commit ends the wait for a write, and keeps a wait for a batch.       *)
LEMMA CommitIsNearer ==
  ASSUME Course, Course', Commit
  PROVE  ToGo' = ToGo /\ WaitIsKept
<1>1. /\ pc' = pc /\ step' = step /\ completed' = completed /\ tokensSeen' = tokensSeen
      /\ position' = position /\ queue' = queue
      /\ inflight # {} /\ inflight' = {}
  BY DEF Commit, legVars, queueVars
<1>2. /\ ToGo' = ToGo /\ (StagesNext' <=> StagesNext) /\ AwaitsBatch' = AwaitsBatch
  BY <1>1 DEF ToGo, StagesNext, WillCheckpoint, EndsTokenBudget, AwaitsBatch
<1>3. pc # "restore"
  BY <1>1 DEF Course, SavedInv, SavedSteps
<1>4. MainReady => MainReady'
  BY <1>1, <1>2, <1>3
     DEF MainReady, CanSave, WillCheckpoint, FinalSaveDue, HasBatch, NextRaises
<1>5. AwaitsWrite => AwaitsWrite' \/ MainReady'
  <2>1. GoesOn'
    BY AlwaysGoesOn, PTL
  <2>2. AwaitsWrite => ~AwaitsBatch'
    BY <1>1 DEF AwaitsWrite, AwaitsBatch
  <2>3. QED
    BY <2>1, <2>2 DEF GoesOn
<1>6. QED
  BY <1>1, <1>2, <1>4, <1>5 DEF WaitIsKept

(* What goes wrong in a leg brings its end nearer. *)
LEMMA FaultIsNearer ==
  ASSUME Course, pc # "down", Crash \/ Raises \/ WriteFails \/ DonorMissing
  PROVE  ToGo' < ToGo \/ (ToGo' = ToGo /\ WaitIsKept)
<1>1. /\ step \in Nat /\ Steps \in Nat /\ pc \in Points
      /\ pc \in LoopPoints => step <= Steps
  BY TrainRunAssumption DEF Course, SavedInv, TypeOK, SavedSteps
<1>2. CASE Crash \/ DonorMissing
  <2>1. pc' = "down"
    BY <1>2 DEF Crash, DonorMissing, Gone
  <2>2. QED
    BY <1>1, <2>1 DEF ToGo, Points, LoopPoints
<1>3. CASE (Raises \/ WriteFails) /\ pc # "closing"
  <2>1. pc \in LoopPoints /\ pc' = "closing"
    BY <1>3 DEF Raises, WriteFails, LoopPoints
  <2>2. QED
    BY <1>1, <2>1 DEF ToGo, LoopPoints
<1>4. CASE (Raises \/ WriteFails) /\ pc = "closing"
  <2>1. pc' = "closing" /\ inflight' = {}
    BY <1>4 DEF Raises, WriteFails
  <2>2. QED
    BY <1>4, <2>1 DEF ToGo, WaitIsKept, MainReady, AwaitsBatch
<1>5. QED
  BY <1>2, <1>3, <1>4

(* A leg never stops (train.py:952-1287): its main thread can go on, or it *)
(* waits for an entry of the queue that the fetch thread is about to put,  *)
(* or for a write that is under way.  In particular no interval save meets *)
(* a step that is saved already, and a thread that has ended has left its  *)
(* last entry in the queue.  And a leg ends: every step of the main thread *)
(* and every fault leaves less of it to go, and the steps of the other     *)
(* threads are what it waits for.                                          *)
THEOREM EveryLegEnds == Spec => [](GoesOn /\ ToGo \in Nat) /\ [][LegIsNearer]_vars
<1>1. Course => ToGo \in Nat
  BY TrainRunAssumption DEF Course, SavedInv, TypeOK, SavedSteps, LoopPoints, ToGo
<1>2. Course /\ Course' /\ [Next]_vars => [LegIsNearer]_vars
  BY MainIsNearer, ThreadIsNearer, CommitIsNearer, FaultIsNearer DEF Next, Fault, LegIsNearer
<1>3. QED
  BY <1>1, <1>2, AlwaysGoesOn, CourseHolds, PTL DEF Spec
================================================================================
