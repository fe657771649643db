-------------------------------- MODULE SftFleet -------------------------------
(***************************************************************************)
(* Supervised fine-tuning on several hosts: the loop of sft.train.main,    *)
(* whose allgather makes all hosts stop together, and the checkpoint       *)
(* directories that process 0 writes with save_sft_checkpoint.             *)
(*                                                                         *)
(* A collective is modelled by its counts: host h leaves its k-th          *)
(* allgather once every host has joined k of them, and its s-th train step *)
(* once every host has joined s of them.  A host that never joins leaves   *)
(* the others waiting.  What next(iterator) does behind its queue is       *)
(* Prefetch's business: here it returns a batch or is dry for good.        *)
(***************************************************************************)
EXTENDS Integers

CONSTANTS
  N,            \* jax.process_count()
  Steps,        \* experiment.steps
  Interval,     \* experiment.checkpoint.save_interval, a divisor here
  MaxShard,     \* bound of the model: batches a host's shard may hold
  MaxFailures   \* bound of the model: hosts that die

ASSUME SftFleetAssumption ==
  /\ N \in Nat \ {0} /\ Steps \in Nat \ {0} /\ Interval \in Nat \ {0}
  /\ MaxShard \in Nat /\ MaxFailures \in Nat

Hosts == 0 .. N - 1
Root == 0

VARIABLES
  shard,      \* batches each host's iterator yields, fixed
  badStep,    \* the step whose loss is not finite, 0 for none, fixed
  pc,         \* where each host is
  drawn,      \* batches each host has drawn
  rounds,     \* allgathers each host has joined
  step,       \* each host's step, also the train steps it has joined
  phase,      \* how far process 0 is in save_sft_checkpoint
  artefacts,  \* steps whose directory is complete under its final name
  tmp,        \* the directory named <step>.tmp
  saved,      \* history: steps that were ever under their final name
  failures    \* model bound

inputs == <<shard, badStep>>
loopVars == <<pc, drawn, rounds, step>>
saveVars == <<phase, artefacts, tmp, saved>>
vars == <<inputs, loopVars, saveVars, failures>>

NoTmp == [step |-> 0, whole |-> FALSE]

TypeOK ==
  /\ shard \in [Hosts -> 0 .. MaxShard]
  /\ badStep \in 0 .. Steps
  /\ pc \in [Hosts -> {"draw", "gather", "train", "save", "finish", "done", "raised", "dead"}]
  /\ drawn \in [Hosts -> Nat] /\ rounds \in [Hosts -> Nat]
  /\ step \in [Hosts -> 0 .. Steps]
  /\ phase \in {"idle", "write", "swap"}
  /\ artefacts \subseteq 0 .. Steps /\ saved \subseteq 0 .. Steps
  /\ tmp \in [step : 0 .. Steps, whole : BOOLEAN]
  /\ failures \in 0 .. MaxFailures

Init ==
  /\ shard \in [Hosts -> 0 .. MaxShard]
  /\ badStep \in 0 .. Steps
  /\ pc = [h \in Hosts |-> "draw"]
  /\ drawn = [h \in Hosts |-> 0]
  /\ rounds = [h \in Hosts |-> 0]
  /\ step = [h \in Hosts |-> 0]
  /\ phase = "idle" /\ artefacts = {} /\ tmp = NoTmp /\ saved = {}
  /\ failures = 0

--------------------------------------------------------------------------------
(* The loop. *)

(* next(iterator), then join the allgather with has_data. *)
Draw(h) ==
  /\ pc[h] = "draw"
  /\ drawn' = [drawn EXCEPT ![h] = IF @ < shard[h] THEN @ + 1 ELSE @]
  /\ rounds' = [rounds EXCEPT ![h] = @ + 1]
  /\ pc' = [pc EXCEPT ![h] = "gather"]
  /\ UNCHANGED <<inputs, step, saveVars, failures>>

(* The allgather of round k has returned: all hosts are in it. *)
Gathered(k) == \A g \in Hosts : rounds[g] >= k

(* flags.min(): a host is dry from the first round it has no batch for. *)
AllHaveData(k) == \A g \in Hosts : drawn[g] >= k

(* Go on to a train step, or leave the loop. *)
Decide(h, go) ==
  /\ step' = IF go THEN [step EXCEPT ![h] = @ + 1] ELSE step
  /\ pc' = [pc EXCEPT ![h] = IF go THEN "train" ELSE "finish"]
  /\ UNCHANGED <<inputs, drawn, rounds, saveVars, failures>>

(* Fault: each host looks at its own iterator only. *)
GatherOwn(h) ==
  /\ pc[h] = "gather"
  /\ Decide(h, drawn[h] >= rounds[h] /\ step[h] < Steps)

(* Fault: the maximum of the flags, going on while anyone has data. *)
GatherAny(h) ==
  /\ pc[h] = "gather"
  /\ Gathered(rounds[h])
  /\ Decide(h, (\E g \in Hosts : drawn[g] >= rounds[h]) /\ step[h] < Steps)

Gather(h) ==
  /\ pc[h] = "gather"
  /\ Gathered(rounds[h])
  /\ Decide(h, AllHaveData(rounds[h]) /\ step[h] < Steps)

(* save_sft_checkpoint returns at once on the other hosts. *)
SavesTo(h) == IF h = Root THEN "save" ELSE "draw"

(* The train step returns once every host is in it; its loss is the same   *)
(* on all of them.  Only process 0 does anything in save_sft_checkpoint.   *)
Train(h) ==
  /\ pc[h] = "train"
  /\ \A g \in Hosts : step[g] >= step[h]
  /\ pc' = [pc EXCEPT ![h] = IF step[h] = badStep THEN "raised"
                             ELSE IF step[h] % Interval = 0 THEN SavesTo(h)
                             ELSE "draw"]
  /\ UNCHANGED <<inputs, drawn, rounds, step, saveVars, failures>>

(* The final save returns at once on the other hosts. *)
Leave(h) ==
  /\ pc[h] = "finish" /\ h # Root
  /\ pc' = [pc EXCEPT ![h] = "done"]
  /\ UNCHANGED <<inputs, drawn, rounds, step, saveVars, failures>>

--------------------------------------------------------------------------------
(* save_sft_checkpoint on process 0. *)

Saving == pc[Root] \in {"save", "finish"}

(* Fault: the old directory is removed before the new one is written. *)
StartWriteDropsOld ==
  /\ Saving /\ phase = "idle"
  /\ tmp' = [step |-> step[Root], whole |-> FALSE]
  /\ artefacts' = artefacts \ {step[Root]}
  /\ phase' = "write"
  /\ UNCHANGED <<inputs, loopVars, saved, failures>>

(* <step>.tmp is emptied, or made, and its files are opened. *)
StartWrite ==
  /\ Saving /\ phase = "idle"
  /\ tmp' = [step |-> step[Root], whole |-> FALSE]
  /\ phase' = "write"
  /\ UNCHANGED <<inputs, loopVars, artefacts, saved, failures>>

EndWrite ==
  /\ phase = "write" /\ Saving
  /\ tmp' = [tmp EXCEPT !.whole = TRUE]
  /\ phase' = "swap"
  /\ UNCHANGED <<inputs, loopVars, artefacts, saved, failures>>

(* A directory of that step from an earlier save is removed first. *)
DropOld ==
  /\ phase = "swap" /\ Saving
  /\ step[Root] \in artefacts
  /\ artefacts' = artefacts \ {step[Root]}
  /\ UNCHANGED <<inputs, loopVars, phase, tmp, saved, failures>>

Rename ==
  /\ phase = "swap" /\ Saving
  /\ step[Root] \notin artefacts
  /\ artefacts' = artefacts \cup {step[Root]}
  /\ saved' = saved \cup {step[Root]}
  /\ tmp' = NoTmp
  /\ phase' = "idle"
  /\ pc' = [pc EXCEPT ![Root] = IF @ = "save" THEN "draw" ELSE "done"]
  /\ UNCHANGED <<inputs, drawn, rounds, step, failures>>

Save == StartWrite \/ EndWrite \/ DropOld \/ Rename

--------------------------------------------------------------------------------
(* Failures *)

Running(h) == pc[h] \notin {"done", "raised", "dead"}

(* A host is lost, or its iterator raises something else than the end of   *)
(* its data: it leaves alone.                                              *)
Dies(h) ==
  /\ Running(h)
  /\ failures < MaxFailures
  /\ pc' = [pc EXCEPT ![h] = "dead"]
  /\ failures' = failures + 1
  /\ UNCHANGED <<inputs, drawn, rounds, step, saveVars>>

(* The others may then be torn down with it, or wait for ever. *)
TornDown(h) ==
  /\ Running(h)
  /\ \E g \in Hosts : pc[g] = "dead"
  /\ pc' = [pc EXCEPT ![h] = "dead"]
  /\ UNCHANGED <<inputs, drawn, rounds, step, saveVars, failures>>

Advance(h) == Draw(h) \/ Gather(h) \/ Train(h) \/ Leave(h)

Next ==
  \/ \E h \in Hosts : Advance(h) \/ Dies(h) \/ TornDown(h)
  \/ Save

(* Every host's process runs; a collective returns once all are in it. *)
Spec ==
  /\ Init /\ [][Next]_vars
  /\ \A h \in Hosts : WF_vars(Advance(h))
  /\ WF_vars(Save)

--------------------------------------------------------------------------------
(* Properties *)

Out(h) == pc[h] \in {"finish", "done", "raised"}

(***************************************************************************)
(* sft/train.py:297-304: no host leaves the loop while another waits for   *)
(* it in a collective, the deadlock that cost a run its final save.        *)
(***************************************************************************)
NobodyStranded ==
  \A g, h \in Hosts :
    Out(g) =>
      /\ pc[h] = "gather" => rounds[g] >= rounds[h]
      /\ pc[h] = "train" => step[g] >= step[h]

(***************************************************************************)
(* All hosts stop at one step: the one the driest shard allows, no earlier *)
(* and no later, unless a loss is not finite first.                        *)
(***************************************************************************)
LastStep(s) ==
  /\ s <= Steps /\ \A g \in Hosts : s <= shard[g]
  /\ s = Steps \/ \E g \in Hosts : s = shard[g]

StopsWithTheDriest ==
  \A h \in Hosts :
    /\ pc[h] \in {"finish", "done"} => LastStep(step[h])
    /\ pc[h] = "raised" => step[h] = badStep

(* sft/train.py:303-304: "at most one drawn batch per surviving host is    *)
(* discarded".                                                             *)
DiscardsAtMostOne == \A h \in Hosts : Out(h) => drawn[h] - step[h] \in {0, 1}

(***************************************************************************)
(* A step once saved stays on disk, under its final name or whole in its   *)
(* .tmp directory, when the final save writes it again and dies half-way   *)
(* (sft/checkpoint.py:27-47).                                              *)
(***************************************************************************)
ArtefactKept ==
  \A s \in saved : s \in artefacts \/ (tmp.step = s /\ tmp.whole)

(* Unless a host is lost, every host leaves, and process 0 has then saved  *)
(* its last step.                                                          *)
Finishes ==
  <>(\/ failures > 0
     \/ \A h \in Hosts : pc[h] = "raised"
     \/ (\A h \in Hosts : pc[h] = "done") /\ step[Root] \in artefacts)

================================================================================
