------------------------------- MODULE TrainFleet ------------------------------
(***************************************************************************)
(* Pretraining on several hosts with checkpoints on the local disk of each *)
(* (runtime/checkpoints.py:81-127): the loop of train.run on every host,   *)
(* which share nothing but the train step, a collective.  Each host saves, *)
(* waits, retains and restores alone.                                      *)
(*                                                                         *)
(* What a host is, in detail, is TrainRun's business.  Here a checkpoint   *)
(* is its step, a stream is the number of batches it still has, and the    *)
(* token budget, which all hosts compute from the same sums, is left out.  *)
(* The collective is its counts: host h leaves its k-th train step once    *)
(* every host has joined k of this leg.                                    *)
(***************************************************************************)
EXTENDS Integers, FiniteSets

CONSTANTS
  N,          \* jax.process_count()
  Steps,      \* experiment.steps
  Interval,   \* checkpoint.save_interval
  Keep,       \* checkpoint.keep
  Lengths,    \* the batches a host's stream may have
  MaxDeaths   \* bound of the model: hosts that are lost

ASSUME TrainFleetAssumption ==
  /\ N \in Nat \ {0} /\ Steps \in Nat \ {0} /\ Interval \in Nat \ {0}
  /\ Keep \in Nat \ {0} /\ Lengths \subseteq Nat /\ MaxDeaths \in Nat

Hosts == 0 .. N - 1

VARIABLES
  async,      \* checkpoint.async_save, fixed
  supply,     \* the length of each host's stream, fixed
  pc,         \* where each host is; "down" is no process
  step,       \* completed_steps of each host
  drawn,      \* batches each host has drawn in this leg
  staged,     \* is a batch staged
  joined,     \* train steps each host has dispatched in this leg
  raised,     \* did the leg end by an exception
  disk,       \* committed steps on each host's disk
  inflight,   \* the step being written there, at most one
  agreed,     \* history: in every leg all hosts have restored one step
  deaths      \* model bound

inputs == <<async, supply>>
loopVars == <<pc, step, drawn, staged, joined, raised>>
diskVars == <<disk, inflight>>
vars == <<inputs, loopVars, diskVars, agreed, deaths>>

TypeOK ==
  /\ async \in BOOLEAN /\ supply \in [Hosts -> Lengths]
  /\ pc \in [Hosts -> {"restore", "first", "head", "fetch", "train", "stage", "block", "save",
                       "saving", "final", "closing", "exit", "down"}]
  /\ step \in [Hosts -> 0 .. Steps]
  /\ drawn \in [Hosts -> Nat] /\ joined \in [Hosts -> Nat]
  /\ staged \in [Hosts -> BOOLEAN] /\ raised \in [Hosts -> BOOLEAN]
  /\ disk \in [Hosts -> SUBSET (1 .. Steps)]
  /\ inflight \in [Hosts -> SUBSET (1 .. Steps)]
  /\ \A h \in Hosts : Cardinality(inflight[h]) <= 1
  /\ agreed \in BOOLEAN /\ deaths \in 0 .. MaxDeaths

(* All processes start, on whatever is on the disks. *)
Started ==
  /\ pc' = [h \in Hosts |-> "restore"]
  /\ step' = [h \in Hosts |-> 0] /\ drawn' = [h \in Hosts |-> 0]
  /\ joined' = [h \in Hosts |-> 0]
  /\ staged' = [h \in Hosts |-> FALSE] /\ raised' = [h \in Hosts |-> FALSE]

Init ==
  /\ async \in BOOLEAN /\ supply \in [Hosts -> Lengths]
  /\ pc = [h \in Hosts |-> "restore"]
  /\ step = [h \in Hosts |-> 0] /\ drawn = [h \in Hosts |-> 0]
  /\ joined = [h \in Hosts |-> 0]
  /\ staged = [h \in Hosts |-> FALSE] /\ raised = [h \in Hosts |-> FALSE]
  /\ disk = [h \in Hosts |-> {}] /\ inflight = [h \in Hosts |-> {}]
  /\ agreed = TRUE /\ deaths = 0

At(h, p) == pc[h] = p
Goto(h, p) == pc' = [pc EXCEPT ![h] = p]

--------------------------------------------------------------------------------
(* The disk of one host *)

(* latest_step(), 0 for None. *)
Newest(h) == CHOOSE s \in disk[h] \cup {0} : \A t \in disk[h] : t <= s

(* Fault: max_to_keep counts the checkpoint that is about to be replaced.  *)
RetainedShort(S) == {s \in S : Cardinality({t \in S : t > s}) < Keep - 1}

Retained(S) == {s \in S : Cardinality({t \in S : t > s}) < Keep}

(* Fault: a save is left out while the one before it is being written.     *)
BeginSaveSkips(h, s) ==
  /\ s \notin disk[h]
  /\ inflight' = [inflight EXCEPT ![h] = IF @ = {} THEN {s} ELSE @]

(* manager.save waits for the write before it, on this host only. *)
BeginSave(h, s) ==
  /\ inflight[h] = {} /\ s \notin disk[h]
  /\ inflight' = [inflight EXCEPT ![h] = {s}]

Commit(h) ==
  /\ inflight[h] # {}
  /\ disk' = [disk EXCEPT ![h] = Retained(@ \cup inflight[h])]
  /\ inflight' = [inflight EXCEPT ![h] = {}]
  /\ UNCHANGED <<inputs, loopVars, agreed, deaths>>

(* CheckpointIO.restore of this host's own newest step. *)
Restore(h) ==
  /\ At(h, "restore")
  /\ step' = [step EXCEPT ![h] = Newest(h)]
  /\ Goto(h, "first")
  /\ UNCHANGED <<inputs, drawn, staged, joined, raised, diskVars, agreed, deaths>>

--------------------------------------------------------------------------------
(* The loop *)

Draw(h) ==
  /\ drawn[h] < supply[h]
  /\ drawn' = [drawn EXCEPT ![h] = @ + 1]
  /\ staged' = [staged EXCEPT ![h] = TRUE]

(* next(data_iterator) before the loop, in the loop, and ahead of the step *)
(* that is running.                                                        *)
Fetch(h) ==
  /\ \/ At(h, "first") /\ Goto(h, "head")
     \/ At(h, "fetch") /\ Goto(h, "train")
     \/ At(h, "stage") /\ Goto(h, "block")
  /\ Draw(h)
  /\ UNCHANGED <<inputs, step, joined, raised, diskVars, agreed, deaths>>

(* The stream of this host has ended: it raises, alone. *)
DataEnds(h) ==
  /\ pc[h] \in {"first", "fetch", "stage"}
  /\ drawn[h] = supply[h]
  /\ raised' = [raised EXCEPT ![h] = TRUE]
  /\ Goto(h, "closing")
  /\ UNCHANGED <<inputs, step, drawn, staged, joined, diskVars, agreed, deaths>>

BeginStep(h) ==
  /\ At(h, "head") /\ step[h] < Steps
  /\ Goto(h, IF staged[h] THEN "train" ELSE "fetch")
  /\ UNCHANGED <<inputs, step, drawn, staged, joined, raised, diskVars, agreed, deaths>>

WillCheckpoint(s) == s % Interval = 0

(* Fault: a batch is staged beside the last step too. *)
StagesNextAlways(s) == ~WillCheckpoint(s)

StagesNext(s) == s < Steps /\ ~WillCheckpoint(s)

(* compiled_train_step is dispatched: this host has joined. *)
Dispatch(h) ==
  /\ At(h, "train")
  /\ joined' = [joined EXCEPT ![h] = @ + 1]
  /\ staged' = [staged EXCEPT ![h] = FALSE]
  /\ Goto(h, IF StagesNext(step[h] + 1) THEN "stage" ELSE "block")
  /\ UNCHANGED <<inputs, step, drawn, raised, diskVars, agreed, deaths>>

(* jax.block_until_ready returns once every host is in the step. *)
EndStep(h) ==
  /\ At(h, "block")
  /\ \A g \in Hosts : joined[g] >= joined[h]
  /\ step' = [step EXCEPT ![h] = @ + 1]
  /\ Goto(h, IF WillCheckpoint(step[h] + 1) THEN "save" ELSE "head")
  /\ UNCHANGED <<inputs, drawn, staged, joined, raised, diskVars, agreed, deaths>>

IntervalSave(h) ==
  /\ At(h, "save")
  /\ BeginSave(h, step[h])
  /\ Goto(h, "saving")
  /\ UNCHANGED <<inputs, step, drawn, staged, joined, raised, disk, agreed, deaths>>

(* save() returns, without async_save after the commit. *)
SaveReturns(h) ==
  /\ At(h, "saving")
  /\ async \/ inflight[h] = {}
  /\ Goto(h, "head")
  /\ UNCHANGED <<inputs, step, drawn, staged, joined, raised, diskVars, agreed, deaths>>

EndLoop(h) ==
  /\ At(h, "head") /\ step[h] = Steps
  /\ Goto(h, IF WillCheckpoint(step[h]) THEN "closing" ELSE "final")
  /\ UNCHANGED <<inputs, step, drawn, staged, joined, raised, diskVars, agreed, deaths>>

FinalSave(h) ==
  /\ At(h, "final")
  /\ BeginSave(h, step[h])
  /\ Goto(h, "closing")
  /\ UNCHANGED <<inputs, step, drawn, staged, joined, raised, disk, agreed, deaths>>

(* The step is on this disk already: orbax refuses. *)
FinalSaveRefused(h) ==
  /\ At(h, "final") /\ step[h] \in disk[h]
  /\ raised' = [raised EXCEPT ![h] = TRUE]
  /\ Goto(h, "closing")
  /\ UNCHANGED <<inputs, step, drawn, staged, joined, diskVars, agreed, deaths>>

(* The finally clause: close() waits for the write under way. *)
Close(h) ==
  /\ At(h, "closing") /\ inflight[h] = {}
  /\ Goto(h, IF raised[h] THEN "down" ELSE "exit")
  /\ UNCHANGED <<inputs, step, drawn, staged, joined, raised, diskVars, agreed, deaths>>

--------------------------------------------------------------------------------
(* Losses and relaunches *)

Running(h) == pc[h] \notin {"exit", "down"}

(* The process is gone, and the write under way with it. *)
Gone(h) ==
  /\ Running(h)
  /\ Goto(h, "down")
  /\ inflight' = [inflight EXCEPT ![h] = {}]
  /\ UNCHANGED <<inputs, step, drawn, staged, joined, raised, disk, agreed>>

Dies(h) ==
  /\ deaths < MaxDeaths
  /\ Gone(h)
  /\ deaths' = deaths + 1

(* The jax runtime ends a process that has lost another one. *)
TornDown(h) ==
  /\ \E g \in Hosts : At(g, "down")
  /\ Gone(h)
  /\ UNCHANGED deaths

(* A fleet of which no process is left, and which has not finished, is     *)
(* launched again on all hosts.                                            *)
Relaunch ==
  /\ \A h \in Hosts : ~Running(h)
  /\ \E h \in Hosts : At(h, "down")
  /\ Started
  /\ agreed' = (agreed /\ \A g, h \in Hosts : Newest(g) = Newest(h))
  /\ UNCHANGED <<inputs, diskVars, deaths>>

Advance(h) ==
  \/ Restore(h) \/ Fetch(h) \/ DataEnds(h) \/ BeginStep(h) \/ Dispatch(h) \/ EndStep(h)
  \/ IntervalSave(h) \/ SaveReturns(h) \/ EndLoop(h)
  \/ FinalSave(h) \/ FinalSaveRefused(h) \/ Close(h)

Next ==
  \/ \E h \in Hosts : Advance(h) \/ Commit(h) \/ Dies(h) \/ TornDown(h)
  \/ Relaunch

(* Every host's process runs, a collective returns once all are in it, and *)
(* a write under way ends.                                                 *)
Spec ==
  /\ Init /\ [][Next]_vars
  /\ \A h \in Hosts : WF_vars(Advance(h)) /\ WF_vars(Commit(h))

--------------------------------------------------------------------------------
(* Properties *)

(* The newest step of the host that is furthest behind. *)
Common(s) == (\A h \in Hosts : s <= Newest(h)) /\ \E h \in Hosts : s = Newest(h)

(* Saves a host can be ahead of another: one, and with async_save one more *)
(* that the other has begun and not committed.                             *)
Ahead == IF async THEN 2 ELSE 1

(***************************************************************************)
(* Nothing makes the hosts restore the same step (checkpoints.py:82-110,   *)
(* 166-169), and a loss between two commits leaves their disks at          *)
(* different ones.  Retention must not take away the step to which all of  *)
(* them could go back, at any instant, whoever is lost.  One checkpoint    *)
(* more than a host can be ahead is enough; keep = 2, the default, is for  *)
(* synchronous saves.                                                      *)
(***************************************************************************)
CommonStepKept ==
  agreed /\ Keep > Ahead =>
    \A s \in 0 .. Steps : Common(s) => s = 0 \/ \A h \in Hosts : s \in disk[h]

(***************************************************************************)
(* Going back to that step costs the fleet no more than a crash costs a    *)
(* single process: an interval of updates, two with async_save.            *)
(***************************************************************************)
FleetLossBounded ==
  agreed => \A s \in 0 .. Steps : Common(s) => \A h \in Hosts : step[h] <= s + Ahead * Interval

(***************************************************************************)
(* The loop has no collective end of data as fine-tuning has               *)
(* (train.py:952-990): it relies on every host making the same number of   *)
(* draws.  A host that exits has its last step on its disk and leaves      *)
(* nobody behind in a train step, and with streams as long as the run, and *)
(* no host lost, none raises.                                              *)
(***************************************************************************)
LongEnough == \A h \in Hosts : supply[h] >= Steps

EndsTogether ==
  /\ agreed =>
       \A h \in Hosts : At(h, "exit") =>
         Newest(h) = Steps /\ \A g \in Hosts : At(g, "block") => joined[g] <= joined[h]
  /\ LongEnough /\ deaths = 0 => \A h \in Hosts : ~raised[h]

(***************************************************************************)
(* With such streams, and no host lost, a leg that starts in agreement     *)
(* ends on all hosts.                                                      *)
(***************************************************************************)
LegStarts == \A h \in Hosts : At(h, "restore") /\ Newest(h) < Steps
LegEnds ==
  \A d \in 0 .. MaxDeaths :
    LegStarts /\ agreed /\ LongEnough /\ deaths = d
      ~> deaths > d \/ \A h \in Hosts : At(h, "exit")

================================================================================
