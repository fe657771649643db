------------------------------ MODULE ProducerPool -----------------------------
(***************************************************************************)
(* runtime.vision_data.ProcessPooledMixedIterator: producer processes over *)
(* disjoint shards, one multiprocessing.Queue, and the thread of the       *)
(* trainer that takes whole batches from it.                               *)
(*                                                                         *)
(* The queue is external.  put() takes one of Capacity slots and leaves    *)
(* the payload in the producer's own memory; a feeder thread of the        *)
(* producer takes the lock all producers share and writes the payload to a *)
(* pipe; get() reads it and frees the slot.  A batch is far larger than    *)
(* the pipe, so a write is under way until the consumer reads.  Whoever is *)
(* killed frees neither its slots nor the lock, nor does it finish its     *)
(* write.                                                                  *)
(*                                                                         *)
(* The payloads of a producer are numbered 1, 2, ... in the order of its   *)
(* puts; the last may be the report of its error.                          *)
(***************************************************************************)
EXTENDS Naturals, Sequences, FiniteSets

CONSTANTS
  Workers,   \* the producer processes
  Capacity,  \* maxsize of the queue, 2 * workers by default
  Room,      \* complete payloads the pipe takes without being read
  Nobody,    \* the holder of a free lock
  Asks,      \* bound: calls of next()
  MaxKills   \* bound: producers that are killed

ASSUME ProducerPoolAssumption ==
  /\ IsFiniteSet(Workers) /\ Workers # {}
  /\ Capacity \in Nat \ {0}
  /\ Room \in Nat
  /\ Nobody \notin Workers
  /\ Asks \in Nat
  /\ MaxKills \in Nat

VARIABLES
  stage,     \* stage[w]: the main thread of w: "build", "put", "report",
             \* "closing" (flushing its feeder at exit), or "gone"
  built,     \* built[w]: payloads w has put
  sent,      \* sent[w]: those of them its feeder has written
  reported,  \* reported[w]: the last payload of w is its error
  slots,     \* free slots, the queue's bounded semaphore
  writer,    \* who holds the write lock
  partial,   \* the pipe ends in an incomplete payload
  pipe,      \* the complete payloads, <<producer, number>>
  consumer,  \* "busy", in get "waiting" for bytes or "receiving" them,
             \* "checking" who is alive, or "raised"
  latest,    \* _latest: the number of the last batch returned, by producer
  blamed,    \* the producer whose report was raised
  asks, kills

producers == <<stage, built, sent, reported>>
queue == <<slots, writer, partial, pipe>>
trainer == <<consumer, latest, blamed, asks>>
vars == <<producers, queue, trainer, kills>>

Stages == {"build", "put", "report", "closing", "gone"}
InNext == {"waiting", "receiving", "checking"}
Somebody == Workers \cup {Nobody}

TypeOK ==
  /\ stage \in [Workers -> Stages]
  /\ built \in [Workers -> Nat]
  /\ sent \in [Workers -> Nat]
  /\ reported \in [Workers -> BOOLEAN]
  /\ slots \in 0 .. Capacity
  /\ writer \in Somebody
  /\ partial \in BOOLEAN
  /\ pipe \in Seq(Workers \X Nat)
  /\ consumer \in {"busy", "raised"} \cup InNext
  /\ latest \in [Workers -> Nat]
  /\ blamed \in Somebody
  /\ asks \in 0 .. Asks
  /\ kills \in 0 .. MaxKills

Init ==
  /\ stage = [w \in Workers |-> "build"]
  /\ built = [w \in Workers |-> 0]
  /\ sent = [w \in Workers |-> 0]
  /\ reported = [w \in Workers |-> FALSE]
  /\ slots = Capacity
  /\ writer = Nobody
  /\ partial = FALSE
  /\ pipe = <<>>
  /\ consumer = "busy"
  /\ latest = [w \in Workers |-> 0]
  /\ blamed = Nobody
  /\ asks = 0
  /\ kills = 0

--------------------------------------------------------------------------------
(* _producer_main *)

(* next(iterator) returns a batch, or raises.                              *)
Finish(w) ==
  /\ stage[w] = "build"
  /\ stage' = [stage EXCEPT ![w] = "put"]
  /\ UNCHANGED <<built, sent, reported, queue, trainer, kills>>

Fail(w) ==
  /\ stage[w] = "build"
  /\ stage' = [stage EXCEPT ![w] = "report"]
  /\ UNCHANGED <<built, sent, reported, queue, trainer, kills>>

TakeSlot(w) ==
  /\ slots > 0
  /\ slots' = slots - 1
  /\ built' = [built EXCEPT ![w] = @ + 1]

(* out.put of a batch, then of the error.                                  *)
PutBatch(w) ==
  /\ stage[w] = "put"
  /\ TakeSlot(w)
  /\ stage' = [stage EXCEPT ![w] = "build"]
  /\ UNCHANGED <<sent, reported, writer, partial, pipe, trainer, kills>>

PutReport(w) ==
  /\ stage[w] = "report"
  /\ TakeSlot(w)
  /\ reported' = [reported EXCEPT ![w] = TRUE]
  /\ stage' = [stage EXCEPT ![w] = "closing"]
  /\ UNCHANGED <<sent, writer, partial, pipe, trainer, kills>>

(* The process ends after its feeder has written everything.               *)
Exit(w) ==
  /\ stage[w] = "closing"
  /\ sent[w] = built[w]
  /\ stage' = [stage EXCEPT ![w] = "gone"]
  /\ UNCHANGED <<built, sent, reported, queue, trainer, kills>>

(* An OOM kill, a segfault, a SIGTERM: at any point.                       *)
Kill(w) ==
  /\ kills < MaxKills
  /\ kills' = kills + 1
  /\ stage[w] # "gone"
  /\ stage' = [stage EXCEPT ![w] = "gone"]
  /\ UNCHANGED <<built, sent, reported, queue, trainer>>

--------------------------------------------------------------------------------
(* The feeder thread of a producer *)

Lock(w) ==
  /\ stage[w] # "gone"
  /\ sent[w] < built[w]
  /\ writer = Nobody
  /\ writer' = w
  /\ UNCHANGED <<producers, slots, partial, pipe, trainer, kills>>

(* From here on get() sees bytes.                                          *)
BeginWrite(w) ==
  /\ stage[w] # "gone"
  /\ writer = w
  /\ ~partial
  /\ partial' = TRUE
  /\ UNCHANGED <<producers, slots, writer, pipe, trainer, kills>>

(* Fault: a payload that finds others in the pipe is dropped.              *)
EndWriteLossy(w) ==
  /\ stage[w] # "gone"
  /\ writer = w
  /\ partial
  /\ sent' = [sent EXCEPT ![w] = @ + 1]
  /\ pipe' = IF pipe = <<>> THEN <<<<w, sent[w] + 1>>>> ELSE pipe
  /\ partial' = FALSE
  /\ writer' = Nobody
  /\ UNCHANGED <<stage, built, reported, slots, trainer, kills>>

(* The last byte is written, into free room or to a reading consumer.      *)
EndWrite(w) ==
  /\ stage[w] # "gone"
  /\ writer = w
  /\ partial
  /\ Len(pipe) < Room \/ (consumer = "receiving" /\ pipe = <<>>)
  /\ sent' = [sent EXCEPT ![w] = @ + 1]
  /\ pipe' = Append(pipe, <<w, sent[w] + 1>>)
  /\ partial' = FALSE
  /\ writer' = Nobody
  /\ UNCHANGED <<stage, built, reported, slots, trainer, kills>>

--------------------------------------------------------------------------------
(* ProcessPooledMixedIterator.__next__ *)

Ask ==
  /\ consumer = "busy"
  /\ asks < Asks
  /\ asks' = asks + 1
  /\ consumer' = "waiting"
  /\ UNCHANGED <<producers, queue, latest, blamed, kills>>

(* The poll of get() succeeds: recv_bytes has no timeout.                  *)
Poll ==
  /\ consumer = "waiting"
  /\ pipe # <<>> \/ partial
  /\ consumer' = "receiving"
  /\ UNCHANGED <<producers, queue, latest, blamed, asks, kills>>

(* Fault: a failed producer's batches are taken for its report.            *)
IsReportOfWorker(w, n) == reported[w]

IsReport(w, n) == reported[w] /\ n = built[w]

(* A whole payload was read; an error is raised, a batch returned.         *)
Receive ==
  /\ consumer = "receiving"
  /\ pipe # <<>>
  /\ pipe' = Tail(pipe)
  /\ slots' = slots + 1
  /\ LET w == Head(pipe)[1]
         n == Head(pipe)[2]
     IN  \/ /\ IsReport(w, n)
            /\ consumer' = "raised"
            /\ blamed' = w
            /\ UNCHANGED latest
         \/ /\ ~IsReport(w, n)
            /\ consumer' = "busy"
            /\ latest' = [latest EXCEPT ![w] = n]
            /\ UNCHANGED blamed
  /\ UNCHANGED <<producers, writer, partial, asks, kills>>

(* Fault: a get that timed out gives a slot back as well.                  *)
TimeOutReleasing ==
  /\ consumer = "waiting"
  /\ pipe = <<>> /\ ~partial
  /\ consumer' = "checking"
  /\ slots' = IF slots < Capacity THEN slots + 1 ELSE slots
  /\ UNCHANGED <<producers, writer, partial, pipe, latest, blamed, asks, kills>>

(* No byte for _LIVENESS_POLL_SECONDS: get raises Empty.                   *)
TimeOut ==
  /\ consumer = "waiting"
  /\ pipe = <<>> /\ ~partial
  /\ consumer' = "checking"
  /\ UNCHANGED <<producers, queue, latest, blamed, asks, kills>>

Dead == {w \in Workers : stage[w] = "gone"}

(* Fault: Empty is answered by waiting again.                              *)
CheckNobody ==
  /\ consumer = "checking"
  /\ consumer' = "waiting"
  /\ UNCHANGED <<producers, queue, latest, blamed, asks, kills>>

(* is_alive() of every producer, some time after the Empty.                *)
Check ==
  /\ consumer = "checking"
  /\ consumer' = IF Dead # {} THEN "raised" ELSE "waiting"
  /\ UNCHANGED <<producers, queue, latest, blamed, asks, kills>>

Produce(w) == Finish(w) \/ PutBatch(w) \/ PutReport(w) \/ Exit(w)
Feed(w) == Lock(w) \/ BeginWrite(w) \/ EndWrite(w)
Consume == Poll \/ Receive \/ TimeOut \/ Check

Next ==
  \/ Ask \/ Consume
  \/ \E w \in Workers : Produce(w) \/ Feed(w) \/ Fail(w) \/ Kill(w)

(***************************************************************************)
(* Every thread that can run does; a source's next() returns or raises.    *)
(* Failures and deaths are never due, and neither is another call.         *)
(***************************************************************************)
Spec ==
  /\ Init /\ [][Next]_vars
  /\ WF_vars(Consume)
  /\ \A w \in Workers : WF_vars(Produce(w)) /\ WF_vars(Feed(w))

--------------------------------------------------------------------------------
(* The payloads that still own a slot, the lost ones of killed producers   *)
(* among them.                                                             *)
Outstanding ==
  {x \in UNION {{w} \X (1 .. built[w]) : w \in Workers} :
     latest[x[1]] < x[2] /\ ~(blamed = x[1] /\ x[2] = built[x[1]])}

(* No slot is freed twice or taken without being counted, whoever dies     *)
(* (vision_data.py:991): the trainer never holds more than Capacity        *)
(* batches of memory, and a dead producer costs its own slots only.        *)
SlotsAccounted == slots + Cardinality(Outstanding) = Capacity

(* The trainer sees the shards merged, each in order and without a gap,    *)
(* and raises only for a producer that failed or died                      *)
(* (vision_data.py:963-971, 1015-1036).                                    *)
Merge == INSTANCE ShardMerge WITH
  consumer <- IF consumer \in InNext THEN "waiting" ELSE consumer,
  failed <- {w \in Workers : stage[w] \in {"report", "closing", "gone"}}
MergeSpec == Merge!Spec

(* A reported error comes after every batch its producer made before it.   *)
ReportComesLast == blamed # Nobody => latest[blamed] + 1 = built[blamed]

(* A producer died while its bytes were in the pipe.                       *)
Torn == partial /\ stage[writer] = "gone"

(* A call returns or raises (vision_data.py:1008-1012), though a killed    *)
(* producer reports nothing, keeps its slots and may keep the lock; all    *)
(* but a producer that is killed in the middle of a write.                 *)
NextReturns == consumer \in InNext ~> (consumer \notin InNext \/ Torn)

================================================================================
