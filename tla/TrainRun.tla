-------------------------------- MODULE TrainRun -------------------------------
(***************************************************************************)
(* One training run: the main loop of train.run, the CheckpointIO it saves *)
(* through, the orbax directory behind that, and the data iterator, across *)
(* crashes, failures and relaunches with checkpoint.resume.                *)
(*                                                                         *)
(* The model weights are abstracted to what produced them: where they      *)
(* started and which batches updated them.  A batch is its number in the   *)
(* data source, so two legs trained on the same data exactly when their    *)
(* sequences of batch numbers agree.                                       *)
(***************************************************************************)
EXTENDS HostQueue, FiniteSets

CONSTANTS
  Steps,            \* experiment.steps
  Interval,         \* checkpoint.save_interval; 0 saves only at the end
  Keep,             \* checkpoint.keep
  Async,            \* checkpoint.async_save
  Resumable,        \* does the source answer get_state
  Budget,           \* experiment.token_budget; 0 stands for null
  TokensPerStep,    \* labels in a step when no label is masked
  TokenCounts,      \* the label counts a step may really have
  InitFromRun,      \* experiment.init_from_run is set
  MaxInterruptions  \* bound of the model: crashes and failed legs

ASSUME TrainRunAssumption ==
  /\ Steps \in Nat \ {0} /\ Interval \in Nat /\ Keep \in Nat \ {0}
  /\ Async \in BOOLEAN /\ Resumable \in BOOLEAN /\ InitFromRun \in BOOLEAN
  /\ Budget \in Nat /\ TokensPerStep \in Nat
  /\ TokenCounts \subseteq 0 .. TokensPerStep /\ TokenCounts # {}
  /\ Steps * TokensPerStep >= Budget           \* config.py:800-809
  /\ MaxInterruptions \in Nat

VARIABLES
  pc,             \* where the main thread is; "down" is no process
  startStep,      \* the step restore() returned
  step,           \* the loop variable
  completed,      \* completed_steps
  batch,          \* the staged batch, NoBatch for None
  weights,        \* the train state: [base, trained, updates]
  tokensSeen,     \* tokens_seen of this leg
  store,          \* committed checkpoints
  inflight,       \* the checkpoint being written, at most one
  outcome,        \* how the leg ends or the last one ended
  interruptions   \* model bound, counts crashes and failures

legVars == <<pc, startStep, step, completed, batch, weights, tokensSeen>>
storeVars == <<store, inflight>>
vars == <<queueVars, legVars, storeVars, outcome, interruptions>>

NoBatch == 0

(* The loop runs inside the try block at these points. *)
LoopPoints == {"head", "fetch", "train", "stage", "metrics", "evaluate", "saving", "final"}
Points == LoopPoints \cup {"down", "restore", "warm", "first", "closing", "exit"}

Weights == [base : {"fresh", "donor"}, trained : Seq(Nat), updates : Nat]
Checkpoint == [step : Nat, weights : Weights,
               iterator : [resumable : BOOLEAN, index : Nat]]

FreshWeights == [base |-> "fresh", trained |-> <<>>, updates |-> 0]

TypeOK ==
  /\ QueueTypeOK
  /\ pc \in Points
  /\ startStep \in Nat /\ step \in Nat /\ completed \in Nat
  /\ batch \in Nat /\ tokensSeen \in Nat
  /\ weights \in Weights
  /\ store \subseteq Checkpoint /\ inflight \subseteq Checkpoint
  /\ \A c, d \in inflight : c = d
  /\ outcome \in {"running", "raised", "done"}
  /\ interruptions \in Nat

(* No process, and nothing of one in memory. *)
Idle ==
  /\ position = 0 /\ worker = "exited" /\ hand = Stop /\ queue = <<>>
  /\ pc = "down" /\ startStep = 0 /\ step = 0 /\ completed = 0
  /\ batch = NoBatch /\ weights = FreshWeights /\ tokensSeen = 0

Init ==
  /\ Idle
  /\ store = {} /\ inflight = {}
  /\ outcome = "raised"      \* no leg has finished yet
  /\ interruptions = 0

--------------------------------------------------------------------------------
(* The data iterator as the main thread sees it. *)

(* next(data_iterator): from the queue if there is one, else the source.   *)
Receive(b) ==
  IF Depth > 0
    THEN Take(b)
    ELSE /\ b = IF position < Length THEN position + 1 ELSE Stop
         /\ position' = IF position < Length THEN position + 1 ELSE position
         /\ UNCHANGED <<worker, hand, queue>>

(* next(data_iterator) is about to raise. *)
NextRaises ==
  IF Depth > 0 THEN queue # <<>> /\ Head(queue) = Stop ELSE position >= Length

(* It returns a batch, which becomes the staged one. *)
StageBatch == \E b \in 1 .. Length : Receive(b) /\ batch' = b

(* get_state, or the stub written when it raises RuntimeError. *)
IteratorState == [resumable |-> Resumable, index |-> IF Resumable THEN position ELSE 0]

--------------------------------------------------------------------------------
(* The orbax directory. *)

Newest(c) == \A d \in store : d.step <= c.step

(* max_to_keep: only the newest Keep checkpoints stay. *)
Retained(S) == {c \in S : Cardinality({d \in S : d.step > c.step}) < Keep}

Snapshot(s) == [step |-> s, weights |-> weights, iterator |-> IteratorState]

(* manager.save: waits for the previous write, then starts this one. *)
BeginSave(s) ==
  /\ inflight = {}
  /\ \A c \in store : c.step # s
  /\ inflight' = {Snapshot(s)}

(* The write is finished and the directory takes its final name. *)
Commit ==
  /\ \E c \in inflight : store' = Retained(store \cup {c})
  /\ inflight' = {}
  /\ UNCHANGED <<queueVars, legVars, outcome, interruptions>>

(* The process ends: its memory, and what was not committed, is gone. *)
Gone ==
  /\ position' = 0 /\ worker' = "exited" /\ hand' = Stop /\ queue' = <<>>
  /\ pc' = "down" /\ startStep' = 0 /\ step' = 0 /\ completed' = 0
  /\ batch' = NoBatch /\ weights' = FreshWeights /\ tokensSeen' = 0
  /\ inflight' = {}
  /\ UNCHANGED store

--------------------------------------------------------------------------------
(* Start-up, train.py:744-873. *)

Launch ==
  /\ pc = "down"
  /\ pc' = "restore"
  /\ worker' = IF Depth > 0 THEN "read" ELSE "exited"
  /\ outcome' = "running"
  /\ UNCHANGED <<position, hand, queue, startStep, step, completed, batch, weights,
                 tokensSeen, storeVars, interruptions>>

(* Fault: the iterator position is not put back. *)
RestoreWeightsOnly ==
  /\ pc = "restore"
  /\ \/ store = {} /\ UNCHANGED <<startStep, weights, position>>
     \/ \E c \in store :
          /\ Newest(c)
          /\ startStep' = c.step /\ weights' = c.weights
          /\ UNCHANGED position
  /\ pc' = "warm"
  /\ UNCHANGED <<worker, hand, queue, step, completed, batch, tokensSeen, storeVars,
                 outcome, interruptions>>

(* CheckpointIO.restore: the newest committed step, weights and optimizer,  *)
(* and set_state unless the stored position is the unresumable stub.       *)
Restore ==
  /\ pc = "restore"
  /\ \/ store = {} /\ UNCHANGED <<startStep, weights, position>>
     \/ \E c \in store :
          /\ Newest(c)
          /\ startStep' = c.step
          /\ weights' = c.weights
          /\ position' = IF c.iterator.resumable THEN c.iterator.index ELSE position
  /\ pc' = "warm"
  /\ UNCHANGED <<worker, hand, queue, step, completed, batch, tokensSeen, storeVars,
                 outcome, interruptions>>

(* Fault: warm start on every launch, also over the run's own checkpoint.  *)
WarmStartAlways ==
  /\ pc = "warm"
  /\ weights' = IF InitFromRun
                  THEN [base |-> "donor", trained |-> <<>>, updates |-> 0]
                  ELSE weights
  /\ pc' = "first"
  /\ UNCHANGED <<queueVars, startStep, step, completed, batch, tokensSeen, storeVars,
                 outcome, interruptions>>

(* With nothing of its own to resume, take another run's weights and a     *)
(* fresh optimizer.                                                        *)
WarmStart ==
  /\ pc = "warm"
  /\ weights' = IF startStep = 0 /\ InitFromRun
                  THEN [base |-> "donor", trained |-> <<>>, updates |-> 0]
                  ELSE weights
  /\ pc' = "first"
  /\ UNCHANGED <<queueVars, startStep, step, completed, batch, tokensSeen, storeVars,
                 outcome, interruptions>>

(* The first batch, drawn before the loop whether or not it will be used.  *)
FirstFetch ==
  /\ pc = "first"
  /\ StageBatch
  /\ step' = startStep /\ completed' = startStep
  /\ pc' = "head"
  /\ UNCHANGED <<startStep, weights, tokensSeen, storeVars, outcome, interruptions>>

(* There is no first batch.  Outside the try block nothing is closed. *)
FirstFetchRaises ==
  /\ pc = "first" /\ NextRaises
  /\ Gone
  /\ outcome' = "raised"
  /\ UNCHANGED interruptions

--------------------------------------------------------------------------------
(* The loop, train.py:952-1262. *)

BeginStep ==
  /\ pc = "head" /\ step < Steps
  /\ step' = step + 1
  /\ pc' = IF batch = NoBatch THEN "fetch" ELSE "train"
  /\ UNCHANGED <<queueVars, startStep, completed, batch, weights, tokensSeen, storeVars,
                 outcome, interruptions>>

(* for step in range(start_step + 1, steps + 1) is exhausted. *)
EndLoop ==
  /\ pc = "head" /\ step >= Steps
  /\ pc' = "final"
  /\ UNCHANGED <<queueVars, startStep, step, completed, batch, weights, tokensSeen,
                 storeVars, outcome, interruptions>>

Fetch ==
  /\ pc = "fetch"
  /\ StageBatch
  /\ pc' = "train"
  /\ UNCHANGED <<startStep, step, completed, weights, tokensSeen, storeVars, outcome,
                 interruptions>>

Train ==
  /\ pc = "train"
  /\ weights' = [base |-> weights.base, trained |-> Append(weights.trained, batch),
                 updates |-> weights.updates + 1]
  /\ batch' = NoBatch
  /\ pc' = "stage"
  /\ UNCHANGED <<queueVars, startStep, step, completed, tokensSeen, storeVars, outcome,
                 interruptions>>

WillCheckpoint == Interval > 0 /\ step % Interval = 0
EndsTokenBudget == Budget > 0 /\ tokensSeen + TokensPerStep >= Budget
BudgetReached == Budget > 0 /\ tokensSeen >= Budget

(* Fault: the next batch is staged on saving steps too. *)
StagesNextAlways == step < Steps /\ ~EndsTokenBudget

(* Should the next batch be fetched while this step still computes? *)
StagesNext == step < Steps /\ ~WillCheckpoint /\ ~EndsTokenBudget

Stage ==
  /\ pc = "stage"
  /\ \/ ~StagesNext /\ UNCHANGED <<queueVars, batch>>
     \/ StagesNext /\ StageBatch
  /\ pc' = "metrics"
  /\ UNCHANGED <<startStep, step, completed, weights, tokensSeen, storeVars, outcome,
                 interruptions>>

(* The data iterator raises inside the loop: no save, straight to close. *)
DataEnds ==
  /\ pc = "fetch" \/ (pc = "stage" /\ StagesNext)
  /\ Receive(Stop)
  /\ pc' = "closing" /\ outcome' = "raised"
  /\ UNCHANGED <<startStep, step, completed, batch, weights, tokensSeen, storeVars,
                 interruptions>>

(* The step's metrics are read back; the step counts as completed. *)
Metrics ==
  /\ pc = "metrics"
  /\ \E t \in TokenCounts : tokensSeen' = tokensSeen + t
  /\ completed' = step
  /\ pc' = "evaluate"
  /\ UNCHANGED <<queueVars, startStep, step, batch, weights, storeVars, outcome,
                 interruptions>>

(* Fault: the save is skipped while the previous one is being written. *)
IntervalSaveSkips ==
  /\ pc = "evaluate"
  /\ IF WillCheckpoint /\ inflight = {} THEN BeginSave(step) ELSE UNCHANGED inflight
  /\ pc' = "saving"
  /\ UNCHANGED <<queueVars, startStep, step, completed, batch, weights, tokensSeen,
                 store, outcome, interruptions>>

(* The interval save, after evaluation, diagnostics and the harness. *)
IntervalSave ==
  /\ pc = "evaluate"
  /\ IF WillCheckpoint THEN BeginSave(step) ELSE UNCHANGED inflight
  /\ pc' = "saving"
  /\ UNCHANGED <<queueVars, startStep, step, completed, batch, weights, tokensSeen,
                 store, outcome, interruptions>>

(* save() has returned, which without async_save is after the commit. *)
EndStep ==
  /\ pc = "saving" /\ (Async \/ inflight = {})
  /\ pc' = IF BudgetReached THEN "final" ELSE "head"
  /\ UNCHANGED <<queueVars, startStep, step, completed, batch, weights, tokensSeen,
                 storeVars, outcome, interruptions>>

--------------------------------------------------------------------------------
(* The end of a leg, train.py:1263-1287. *)

(* Fault: force-save at the end whatever the last interval save was. *)
FinalSaveAlwaysDue == TRUE

(* The final save is skipped when the last interval save already has it. *)
FinalSaveDue == Interval = 0 \/ completed % Interval # 0

FinalSave ==
  /\ pc = "final"
  /\ IF FinalSaveDue THEN BeginSave(completed) ELSE UNCHANGED inflight
  /\ pc' = "closing"
  /\ UNCHANGED <<queueVars, startStep, step, completed, batch, weights, tokensSeen,
                 store, outcome, interruptions>>

(* orbax raises instead of overwriting a step the directory has. *)
FinalSaveRefused ==
  /\ pc = "final" /\ FinalSaveDue
  /\ inflight = {}
  /\ \E c \in store : c.step = completed
  /\ pc' = "closing" /\ outcome' = "raised"
  /\ UNCHANGED <<queueVars, startStep, step, completed, batch, weights, tokensSeen,
                 storeVars, interruptions>>

(* The finally block: checkpoint_io.close() waits for the write. *)
Close ==
  /\ pc = "closing" /\ inflight = {}
  /\ pc' = "exit"
  /\ UNCHANGED <<queueVars, startStep, step, completed, batch, weights, tokensSeen,
                 storeVars, outcome, interruptions>>

(* The summary is written and run() returns, or the exception leaves it. *)
Exit ==
  /\ pc = "exit"
  /\ outcome' = IF outcome = "running" THEN "done" ELSE outcome
  /\ Gone
  /\ UNCHANGED interruptions

--------------------------------------------------------------------------------
(* What goes wrong. *)

Interrupted ==
  /\ interruptions < MaxInterruptions
  /\ interruptions' = interruptions + 1

(* Preemption or a crash, at any point of a leg. *)
Crash ==
  /\ pc # "down"
  /\ Interrupted
  /\ Gone
  /\ outcome' = "raised"

(* An exception in the loop body: an unwrapped source that fails, a device *)
(* error, a non-finite loss, a failing evaluation.  No save is attempted.  *)
Raises ==
  /\ pc \in {"fetch", "train", "stage", "metrics", "evaluate"}
  /\ Interrupted
  /\ pc' = "closing" /\ outcome' = "raised"
  /\ UNCHANGED <<queueVars, startStep, step, completed, batch, weights, tokensSeen,
                 storeVars>>

(* The source fails under the fetch thread, which passes the error on. *)
SourceFails ==
  /\ worker = "read"
  /\ Interrupted
  /\ hand' = Stop /\ worker' = "put"
  /\ UNCHANGED <<position, queue, legVars, storeVars, outcome>>

(* The write of a checkpoint fails.  The main thread learns of it where it *)
(* waits for that write: in a synchronous save, before the next save, or   *)
(* in close().                                                             *)
WriteFails ==
  /\ inflight # {}
  /\ \/ pc = "saving" /\ ~Async
     \/ pc = "evaluate" /\ WillCheckpoint
     \/ pc = "final" /\ FinalSaveDue
     \/ pc = "closing"
  /\ Interrupted
  /\ inflight' = {}
  /\ pc' = "closing" /\ outcome' = "raised"
  /\ UNCHANGED <<queueVars, startStep, step, completed, batch, weights, tokensSeen, store>>

(* Before the try block nothing is closed, the process just ends: the      *)
(* donor run of a warm start has no checkpoint.                            *)
DonorMissing ==
  /\ pc = "warm" /\ startStep = 0 /\ InitFromRun
  /\ Interrupted
  /\ Gone
  /\ outcome' = "raised"

--------------------------------------------------------------------------------
Startup == Launch \/ Restore \/ WarmStart \/ FirstFetch \/ FirstFetchRaises
Loop ==
  \/ BeginStep \/ EndLoop \/ Fetch \/ Train \/ Stage \/ Metrics
  \/ IntervalSave \/ EndStep \/ DataEnds
Finish == FinalSave \/ FinalSaveRefused \/ Close \/ Exit
Fault == Crash \/ Raises \/ SourceFails \/ WriteFails \/ DonorMissing

Prefetching ==
  /\ Worker
  /\ UNCHANGED <<legVars, storeVars, outcome, interruptions>>

Main == Startup \/ Loop \/ Finish
Next == Main \/ Prefetching \/ Commit \/ Fault

(***************************************************************************)
(* The main thread, the fetch thread and the writer of a checkpoint run    *)
(* when they can, and a leg that ended badly is launched again.            *)
(***************************************************************************)
Spec ==
  /\ Init /\ [][Next]_vars
  /\ WF_vars(Main) /\ WF_vars(Prefetching) /\ WF_vars(Commit)

--------------------------------------------------------------------------------
(* Properties *)

(***************************************************************************)
(* An exactly resumable run is not disturbed by any number of crashes and  *)
(* relaunches: the weights have been trained on batches 1, 2, 3, ... of    *)
(* the source, each once and in order.  train.py:935-941 gates staging so  *)
(* that what is saved and what was consumed agree.                         *)
(***************************************************************************)
ExactReplay == \A i \in 1 .. Len(weights.trained) : weights.trained[i] = i

(***************************************************************************)
(* train.py:940-941: "so persisted and consumed positions always agree".   *)
(* A stored iterator position is the number of batches that went into the  *)
(* weights stored beside it, and that number is the step it is filed under.*)
(***************************************************************************)
PersistedAgrees ==
  \A c \in store \cup inflight :
    c.iterator.resumable => /\ c.iterator.index = Len(c.weights.trained)
                            /\ c.step = Len(c.weights.trained)

LatestStep == IF store = {} THEN 0 ELSE (CHOOSE c \in store : Newest(c)).step

(***************************************************************************)
(* A crash costs at most Interval updates, or twice that when saves are    *)
(* asynchronous: the next save waits for the one before it.                *)
(***************************************************************************)
BoundedLoss ==
  pc \in LoopPoints /\ Interval > 0 =>
    completed - LatestStep <= IF Async THEN 2 * Interval ELSE Interval

(***************************************************************************)
(* The optimizer's own update count, which drives the schedule on device,  *)
(* is the loop's step, which _learning_rate mirrors for the log            *)
(* (train.py:695-713), also after a resume and after a warm start.         *)
(***************************************************************************)
ScheduleInStep == pc = "train" => weights.updates = step - 1

(***************************************************************************)
(* train.py:1263-1267: the final save is skipped when the step is already  *)
(* saved, because orbax refuses to overwrite it and a run once "crashed in *)
(* its exit path after an otherwise clean finish".                         *)
(***************************************************************************)
NoOverwrite ==
  pc = "final" /\ FinalSaveDue => \A c \in store \cup inflight : c.step # completed

(* Within one leg an unresumable stream is read from its head, in order,   *)
(* with no batch skipped, also through the queue (train.py:426-434).       *)
LegReadsInOrder ==
  pc \in LoopPoints =>
    \A i \in startStep + 1 .. Len(weights.trained) : weights.trained[i] = i - startStep

(***************************************************************************)
(* Progress over legs: with finitely many interruptions the last step is   *)
(* trained and persisted, even when one pass of the stream is too short.   *)
(***************************************************************************)
Persists == <>(\E c \in store : c.step = Steps)

(* However it is interrupted, the run reaches its end. *)
Completes == <>(outcome = "done")

================================================================================
