----------------------------- MODULE SftFleetProofs ----------------------------
(***************************************************************************)
(* Theorems about fine-tuning on any number of hosts, with shards of any   *)
(* size, any step limit and any number of hosts that die.                  *)
(***************************************************************************)
EXTENDS SftFleet, TLAPS

(***************************************************************************)
(* The strengthening behind the four invariants.  A host that draws has    *)
(* joined as many train steps as allgathers; one that decides is one       *)
(* allgather ahead; nobody has trained a step some host had no batch for,  *)
(* nor gone past the step whose loss is not finite.                        *)
(***************************************************************************)
DryForGood(h) == drawn[h] = shard[h]

Pace(h) ==
  /\ drawn[h] <= rounds[h] /\ drawn[h] <= shard[h]
  /\ drawn[h] < rounds[h] => DryForGood(h)
  /\ pc[h] \in {"draw", "train", "save", "raised"} => rounds[h] = step[h]
  /\ pc[h] \in {"gather", "finish", "done"} => rounds[h] = step[h] + 1
  /\ pc[h] = "dead" => rounds[h] \in {step[h], step[h] + 1}
  /\ pc[h] = "train" => step[h] > 0
  /\ pc[h] = "raised" => step[h] = badStep /\ badStep > 0

StopReason(h) ==
  pc[h] \in {"finish", "done"} =>
    \/ step[h] = Steps
    \/ \E g \in Hosts : DryForGood(g) /\ drawn[g] < rounds[h]

BeforeBadStep(h) ==
  badStep > 0 =>
    /\ step[h] <= badStep
    /\ pc[h] \in {"draw", "gather", "save"} => step[h] < badStep

Lockstep ==
  /\ \A h \in Hosts : Pace(h) /\ StopReason(h) /\ BeforeBadStep(h)
  /\ \A g, h \in Hosts : step[h] <= drawn[g]

SaveProgress ==
  /\ phase # "idle" => /\ pc[Root] \in {"save", "finish", "dead"}
                        /\ tmp.step = step[Root]
  /\ phase \in {"idle", "write"} => saved \subseteq artefacts
  /\ phase = "swap" =>
       /\ saved \subseteq artefacts \cup {step[Root]}
       /\ tmp.whole

IInv == TypeOK /\ Lockstep /\ SaveProgress

(* Process 0 is one of the hosts. *)
LEMMA RootIsHost == Root \in Hosts
  BY SftFleetAssumption DEF Root, Hosts

(* The first states satisfy the strengthening. *)
LEMMA InitInv == Init => IInv
<1> SUFFICES ASSUME Init PROVE IInv
  OBVIOUS
<1> USE SftFleetAssumption, RootIsHost
<1>1. TypeOK
  BY DEF Init, TypeOK, NoTmp
<1>2. Lockstep
  BY DEF Init, Lockstep, Pace, StopReason, BeforeBadStep, DryForGood
<1>3. SaveProgress
  BY DEF Init, SaveProgress
<1>4. QED
  BY <1>1, <1>2, <1>3 DEF IInv

--------------------------------------------------------------------------------
(* Types *)

(* The loop keeps the types; Decide counts a step only below the limit. *)
LEMMA AdvanceType == ASSUME TypeOK, NEW h \in Hosts, Advance(h) PROVE TypeOK'
<1> USE SftFleetAssumption DEF inputs, saveVars
<1>1. CASE Draw(h)
  BY <1>1 DEF Draw, TypeOK
<1>2. CASE Gather(h)
  <2>1. step' \in [Hosts -> 0 .. Steps]
    <3>1. step[h] \in 0 .. Steps /\ (step' = step \/ (step[h] < Steps /\ step' = [step EXCEPT ![h] = @ + 1]))
      BY <1>2 DEF Gather, Decide, TypeOK
    <3>2. step[h] < Steps => step[h] + 1 \in 0 .. Steps
      BY <3>1
    <3>3. QED
      BY <3>1, <3>2 DEF TypeOK
  <2>2. pc' \in [Hosts -> {"draw", "gather", "train", "save", "finish", "done", "raised", "dead"}]
    BY <1>2 DEF Gather, Decide, TypeOK
  <2>3. QED
    BY <1>2, <2>1, <2>2 DEF Gather, Decide, TypeOK
<1>3. CASE Train(h)
  BY <1>3 DEF Train, SavesTo, TypeOK
<1>4. CASE Leave(h)
  BY <1>4 DEF Leave, TypeOK
<1>5. QED
  BY <1>1, <1>2, <1>3, <1>4 DEF Advance

(* Saving keeps the types. *)
LEMMA SaveType == TypeOK /\ Save => TypeOK'
<1> SUFFICES ASSUME TypeOK, Save PROVE TypeOK'
  OBVIOUS
<1> USE SftFleetAssumption DEF inputs, loopVars
<1>1. Root \in Hosts /\ step[Root] \in 0 .. Steps
  BY RootIsHost DEF TypeOK
<1>2. CASE StartWrite
  <2>1. [step |-> step[Root], whole |-> FALSE] \in [step : 0 .. Steps, whole : BOOLEAN]
    BY <1>1
  <2>2. QED
    BY <1>2, <2>1 DEF StartWrite, TypeOK
<1>3. CASE EndWrite
  BY <1>3 DEF EndWrite, TypeOK
<1>4. CASE DropOld
  BY <1>4 DEF DropOld, TypeOK
<1>5. CASE Rename
  <2>1. NoTmp \in [step : 0 .. Steps, whole : BOOLEAN]
    BY DEF NoTmp
  <2>2. pc' \in [Hosts -> {"draw", "gather", "train", "save", "finish", "done", "raised", "dead"}]
    BY <1>5 DEF Rename, TypeOK
  <2>3. /\ phase' = "idle" /\ tmp' = NoTmp
        /\ artefacts' = artefacts \cup {step[Root]} /\ saved' = saved \cup {step[Root]}
        /\ UNCHANGED <<shard, badStep, drawn, rounds, step, failures>>
    BY <1>5 DEF Rename
  <2>4. artefacts' \subseteq 0 .. Steps /\ saved' \subseteq 0 .. Steps
    BY <1>1, <2>3 DEF TypeOK
  <2>5. QED
    BY <2>1, <2>2, <2>3, <2>4, Zenon DEF TypeOK
<1>6. QED
  BY <1>2, <1>3, <1>4, <1>5 DEF Save

(* A host that is lost keeps the types. *)
LEMMA FailureType ==
  ASSUME TypeOK, NEW h \in Hosts, Dies(h) \/ TornDown(h) PROVE TypeOK'
<1>1. pc' = [pc EXCEPT ![h] = "dead"]
      /\ UNCHANGED <<shard, badStep, drawn, rounds, step, phase, artefacts, tmp, saved>>
  BY DEF Dies, TornDown, inputs, saveVars
<1>2. failures' \in 0 .. MaxFailures
  BY SftFleetAssumption DEF Dies, TornDown, TypeOK
<1>3. QED
  BY <1>1, <1>2 DEF TypeOK

--------------------------------------------------------------------------------
(* Lockstep *)

(* A draw takes a batch or finds the shard dry; nobody else moves.         *)
LEMMA DrawLockstep ==
  ASSUME IInv, NEW h \in Hosts, Draw(h) PROVE Lockstep'
<1>1. TypeOK /\ Lockstep
  BY DEF IInv
<1>2. /\ pc[h] = "draw" /\ UNCHANGED <<shard, badStep, step>>
      /\ drawn' = [drawn EXCEPT ![h] = IF @ < shard[h] THEN @ + 1 ELSE @]
      /\ rounds' = [rounds EXCEPT ![h] = @ + 1]
      /\ pc' = [pc EXCEPT ![h] = "gather"]
  BY DEF Draw, inputs
<1>3. \A g \in Hosts : /\ drawn[g] \in Nat /\ drawn'[g] \in Nat /\ shard[g] \in Nat
                       /\ drawn[g] <= drawn'[g]
                       /\ DryForGood(g) => drawn'[g] = drawn[g]
                       /\ step[g] \in Nat /\ rounds[g] \in Nat /\ badStep \in Nat
  BY <1>1, <1>2, SftFleetAssumption DEF TypeOK, DryForGood
<1>4. \A g, k \in Hosts : step'[k] <= drawn'[g]
  BY <1>1, <1>2, <1>3 DEF Lockstep
<1>5. ASSUME NEW g \in Hosts PROVE Pace(g)'
  <2>1. CASE g = h
    BY <1>1, <1>2, <1>3, <2>1 DEF Lockstep, Pace, DryForGood, TypeOK
  <2>2. CASE g # h
    BY <1>1, <1>2, <1>3, <2>2 DEF Lockstep, Pace, DryForGood, TypeOK
  <2>3. QED
    BY <2>1, <2>2
<1>6. ASSUME NEW g \in Hosts PROVE StopReason(g)'
  <2>1. CASE g = h
    BY <1>1, <1>2, <2>1 DEF StopReason, TypeOK
  <2>2. CASE g # h /\ step[g] # Steps /\ pc[g] \in {"finish", "done"}
    <3>1. PICK d \in Hosts : DryForGood(d) /\ drawn[d] < rounds[g]
      BY <1>1, <2>2 DEF Lockstep, StopReason
    <3>2. DryForGood(d)' /\ drawn'[d] < rounds'[g]
      BY <1>1, <1>2, <1>3, <2>2, <3>1 DEF DryForGood, TypeOK
    <3>3. QED
      BY <3>2 DEF StopReason
  <2>3. CASE g # h /\ (step[g] = Steps \/ pc[g] \notin {"finish", "done"})
    BY <1>1, <1>2, <2>3 DEF StopReason, TypeOK
  <2>4. QED
    BY <2>1, <2>2, <2>3
<1>7. ASSUME NEW g \in Hosts PROVE BeforeBadStep(g)'
  BY <1>1, <1>2 DEF Lockstep, BeforeBadStep, TypeOK
<1>8. QED
  BY <1>4, <1>5, <1>6, <1>7 DEF Lockstep

(* Going on is decided only when no host is dry, stopping only when one is *)
(* or the limit is reached.                                                *)
LEMMA GatherLockstep ==
  ASSUME IInv, NEW h \in Hosts, Gather(h) PROVE Lockstep'
<1>1. TypeOK /\ Lockstep
  BY DEF IInv
<1> DEFINE go == AllHaveData(rounds[h]) /\ step[h] < Steps
<1>2. /\ pc[h] = "gather" /\ UNCHANGED <<shard, badStep, drawn, rounds>>
      /\ Gathered(rounds[h])
      /\ step' = IF go THEN [step EXCEPT ![h] = @ + 1] ELSE step
      /\ pc' = [pc EXCEPT ![h] = IF go THEN "train" ELSE "finish"]
  BY DEF Gather, Decide, inputs
<1>3. \A g \in Hosts : /\ drawn[g] \in Nat /\ shard[g] \in Nat
                       /\ step[g] \in Nat /\ rounds[g] \in Nat /\ badStep \in Nat
                       /\ step[g] <= Steps /\ Steps \in Nat
  BY <1>1, SftFleetAssumption DEF TypeOK
<1>4. rounds[h] = step[h] + 1
  BY <1>1, <1>2 DEF Lockstep, Pace
<1>5. CASE go
  <2>1. /\ step' = [step EXCEPT ![h] = @ + 1] /\ pc' = [pc EXCEPT ![h] = "train"]
        /\ \A g \in Hosts : drawn[g] >= step[h] + 1
    BY <1>2, <1>4, <1>5 DEF AllHaveData
  <2>2. \A g, k \in Hosts : step'[k] <= drawn'[g]
    BY <1>1, <1>2, <1>3, <2>1 DEF Lockstep, TypeOK
  <2>3. ASSUME NEW g \in Hosts PROVE Pace(g)' /\ StopReason(g)' /\ BeforeBadStep(g)'
    <3>1. CASE g = h
      BY <1>1, <1>2, <1>3, <1>4, <2>1, <3>1
         DEF Lockstep, Pace, StopReason, BeforeBadStep, DryForGood, TypeOK
    <3>2. CASE g # h
      BY <1>1, <1>2, <1>3, <2>1, <3>2
         DEF Lockstep, Pace, StopReason, BeforeBadStep, DryForGood, TypeOK
    <3>3. QED
      BY <3>1, <3>2
  <2>4. QED
    BY <2>2, <2>3 DEF Lockstep
<1>6. CASE ~go
  <2>1. step' = step /\ pc' = [pc EXCEPT ![h] = "finish"]
    BY <1>2, <1>6
  <2>2. step[h] = Steps \/ \E g \in Hosts : DryForGood(g) /\ drawn[g] < rounds[h]
    <3>1. CASE step[h] < Steps
      <4>1. PICK g \in Hosts : ~(drawn[g] >= rounds[h])
        BY <1>6, <3>1 DEF AllHaveData
      <4>2. drawn[g] < rounds[h] /\ rounds[h] <= rounds[g]
        BY <1>2, <1>3, <4>1 DEF Gathered
      <4>3. DryForGood(g)
        BY <1>1, <1>3, <4>2 DEF Lockstep, Pace
      <4>4. QED
        BY <4>2, <4>3
    <3>2. CASE ~(step[h] < Steps)
      BY <1>3, <3>2
    <3>3. QED
      BY <3>1, <3>2
  <2>3. ASSUME NEW g \in Hosts PROVE Pace(g)' /\ StopReason(g)' /\ BeforeBadStep(g)'
    <3>1. CASE g = h
      BY <1>1, <1>2, <1>3, <1>4, <2>1, <2>2, <3>1
         DEF Lockstep, Pace, StopReason, BeforeBadStep, DryForGood, TypeOK
    <3>2. CASE g # h
      BY <1>1, <1>2, <1>3, <2>1, <3>2
         DEF Lockstep, Pace, StopReason, BeforeBadStep, DryForGood, TypeOK
    <3>3. QED
      BY <3>1, <3>2
  <2>4. QED
    BY <1>1, <1>2, <2>1, <2>3 DEF Lockstep
<1>7. QED
  BY <1>5, <1>6

(* The rest only moves hosts between points of equal pace. *)
LEMMA MoveLockstep ==
  ASSUME IInv, NEW h \in Hosts,
         Train(h) \/ Leave(h) \/ Dies(h) \/ TornDown(h)
  PROVE  Lockstep'
<1>1. TypeOK /\ Lockstep
  BY DEF IInv
<1>2. UNCHANGED <<shard, badStep, drawn, rounds, step>>
  BY DEF Train, Leave, Dies, TornDown, inputs
<1>3. \A g \in Hosts : step[g] \in Nat /\ badStep \in Nat
  BY <1>1, SftFleetAssumption DEF TypeOK
<1>4. CASE Train(h)
  <2>1. /\ pc[h] = "train"
        /\ pc' = [pc EXCEPT ![h] = IF step[h] = badStep THEN "raised"
                                   ELSE IF step[h] % Interval = 0 THEN SavesTo(h)
                                   ELSE "draw"]
    BY <1>4 DEF Train
  <2>2. /\ pc'[h] \in {"raised", "save", "draw"}
        /\ (pc'[h] = "raised") <=> (step[h] = badStep)
        /\ \A g \in Hosts : g # h => pc'[g] = pc[g]
    BY <1>1, <2>1 DEF TypeOK, SavesTo
  <2>3. ASSUME NEW g \in Hosts PROVE Pace(g)' /\ StopReason(g)' /\ BeforeBadStep(g)'
    <3>1. CASE g = h
      BY <1>1, <1>2, <1>3, <2>1, <2>2, <3>1
         DEF Lockstep, Pace, StopReason, BeforeBadStep, DryForGood
    <3>2. CASE g # h
      BY <1>1, <1>2, <2>2, <3>2 DEF Lockstep, Pace, StopReason, BeforeBadStep, DryForGood
    <3>3. QED
      BY <3>1, <3>2
  <2>4. QED
    BY <1>1, <1>2, <2>3 DEF Lockstep
<1>5. CASE Leave(h)
  <2>1. /\ pc[h] = "finish" /\ pc'[h] = "done"
        /\ \A g \in Hosts : g # h => pc'[g] = pc[g]
    BY <1>1, <1>5 DEF Leave, TypeOK
  <2>2. ASSUME NEW g \in Hosts PROVE Pace(g)' /\ StopReason(g)' /\ BeforeBadStep(g)'
    BY <1>1, <1>2, <2>1 DEF Lockstep, Pace, StopReason, BeforeBadStep, DryForGood
  <2>3. QED
    BY <1>1, <1>2, <2>2 DEF Lockstep
<1>6. CASE Dies(h) \/ TornDown(h)
  <2>1. pc[h] \notin {"done", "raised"} /\ pc'[h] = "dead"
        /\ \A g \in Hosts : g # h => pc'[g] = pc[g]
    BY <1>1, <1>6 DEF Dies, TornDown, Running, TypeOK
  <2>2. ASSUME NEW g \in Hosts PROVE Pace(g)' /\ StopReason(g)' /\ BeforeBadStep(g)'
    <3>1. CASE g = h
      BY <1>1, <1>2, <1>3, <2>1, <3>1
         DEF Lockstep, Pace, StopReason, BeforeBadStep, DryForGood, TypeOK
    <3>2. CASE g # h
      BY <1>1, <1>2, <2>1, <3>2 DEF Lockstep, Pace, StopReason, BeforeBadStep, DryForGood
    <3>3. QED
      BY <3>1, <3>2
  <2>3. QED
    BY <1>1, <1>2, <2>2 DEF Lockstep
<1>7. QED
  BY <1>4, <1>5, <1>6

(* Saving moves process 0 back into the loop, or out of the run. *)
LEMMA SaveLockstep == IInv /\ Save => Lockstep'
<1> SUFFICES ASSUME IInv, Save PROVE Lockstep'
  OBVIOUS
<1>1. TypeOK /\ Lockstep
  BY DEF IInv
<1>2. UNCHANGED <<shard, badStep, drawn, rounds, step>>
  BY DEF Save, StartWrite, EndWrite, DropOld, Rename, inputs, loopVars
<1>3. \/ pc' = pc
      \/ /\ pc[Root] \in {"save", "finish"}
         /\ pc'[Root] = IF pc[Root] = "save" THEN "draw" ELSE "done"
         /\ \A g \in Hosts : g # Root => pc'[g] = pc[g]
  BY <1>1, RootIsHost
     DEF Save, StartWrite, EndWrite, DropOld, Rename, loopVars, Saving, TypeOK
<1>4. ASSUME NEW g \in Hosts PROVE Pace(g)' /\ StopReason(g)' /\ BeforeBadStep(g)'
  BY <1>1, <1>2, <1>3 DEF Lockstep, Pace, StopReason, BeforeBadStep, DryForGood
<1>5. QED
  BY <1>1, <1>2, <1>4 DEF Lockstep

--------------------------------------------------------------------------------
(* Saving *)

(* Process 0 stays where it is while it saves, unless it dies. *)
LEMMA LoopSaving ==
  ASSUME IInv, NEW h \in Hosts, Advance(h) \/ Dies(h) \/ TornDown(h)
  PROVE  SaveProgress'
<1>1. TypeOK /\ SaveProgress
  BY DEF IInv
<1>2. UNCHANGED saveVars
  BY DEF Advance, Draw, Gather, Decide, Train, Leave, Dies, TornDown
<1>3. phase = "idle" \/ (step'[Root] = step[Root] /\ pc'[Root] \in {pc[Root], "dead"})
  <2> SUFFICES ASSUME phase # "idle"
               PROVE  step'[Root] = step[Root] /\ pc'[Root] \in {pc[Root], "dead"}
    OBVIOUS
  <2>1. pc[Root] \in {"save", "finish", "dead"}
    BY <1>1 DEF SaveProgress
  <2>2. QED
    BY <1>1, <2>1, RootIsHost
       DEF Advance, Draw, Gather, Decide, Train, Leave, Dies, TornDown, TypeOK
<1>4. QED
  BY <1>1, <1>2, <1>3 DEF SaveProgress, saveVars

(* The new directory is whole before the old one is removed. *)
LEMMA SaveSaving == IInv /\ Save => SaveProgress'
<1> SUFFICES ASSUME IInv, Save PROVE SaveProgress'
  OBVIOUS
<1>1. TypeOK /\ SaveProgress /\ Root \in Hosts
  BY RootIsHost DEF IInv
<1>2. CASE StartWrite
  BY <1>1, <1>2 DEF StartWrite, Saving, SaveProgress, loopVars
<1>3. CASE EndWrite
  BY <1>1, <1>3 DEF EndWrite, Saving, SaveProgress, loopVars, TypeOK
<1>4. CASE DropOld
  BY <1>1, <1>4 DEF DropOld, Saving, SaveProgress, loopVars
<1>5. CASE Rename
  BY <1>1, <1>5 DEF Rename, SaveProgress
<1>6. QED
  BY <1>2, <1>3, <1>4, <1>5 DEF Save

--------------------------------------------------------------------------------
(* The strengthening is inductive. *)
LEMMA Inductive == IInv /\ [Next]_vars => IInv'
<1> SUFFICES ASSUME IInv, [Next]_vars PROVE IInv'
  OBVIOUS
<1>1. TypeOK
  BY DEF IInv
<1>2. ASSUME NEW h \in Hosts, Advance(h) PROVE IInv'
  BY <1>1, <1>2, AdvanceType, DrawLockstep, GatherLockstep, MoveLockstep, LoopSaving
     DEF Advance, IInv
<1>3. ASSUME NEW h \in Hosts, Dies(h) \/ TornDown(h) PROVE IInv'
  BY <1>1, <1>3, FailureType, MoveLockstep, LoopSaving DEF IInv
<1>4. CASE Save
  BY <1>1, <1>4, SaveType, SaveLockstep, SaveSaving DEF IInv
<1>5. CASE UNCHANGED vars
  <2>1. TypeOK' /\ SaveProgress'
    BY <1>5 DEF IInv, TypeOK, SaveProgress, vars, inputs, loopVars, saveVars
  <2>2. Lockstep'
    BY <1>5 DEF IInv, Lockstep, Pace, StopReason, BeforeBadStep, DryForGood, vars, inputs,
                loopVars
  <2>3. QED
    BY <2>1, <2>2 DEF IInv
<1>6. QED
  BY <1>2, <1>3, <1>4, <1>5 DEF Next

(* It holds in every run. *)
LEMMA InvariantHolds == Spec => []IInv
  BY InitInv, Inductive, PTL DEF Spec

(* Every variable keeps its type in every run. *)
THEOREM TypeCorrect == Spec => []TypeOK
<1>1. IInv => TypeOK
  BY DEF IInv
<1>2. QED
  BY <1>1, InvariantHolds, PTL

(* The strengthening tells why nobody is left behind.                      *)
LEMMA NoneLeftBehind == IInv => NobodyStranded
<1> SUFFICES ASSUME IInv, NEW g \in Hosts, NEW h \in Hosts, Out(g)
             PROVE  /\ pc[h] = "gather" => rounds[g] >= rounds[h]
                    /\ pc[h] = "train" => step[g] >= step[h]
  BY DEF NobodyStranded
<1>1. /\ Lockstep /\ Steps \in Nat /\ badStep \in Nat
      /\ \A k \in Hosts : /\ drawn[k] \in Nat /\ step[k] \in Nat /\ rounds[k] \in Nat
                          /\ step[k] <= Steps
  BY SftFleetAssumption DEF IInv, TypeOK
<1>2. CASE pc[g] \in {"finish", "done"}
  <2>1. rounds[g] = step[g] + 1
    BY <1>1, <1>2 DEF Lockstep, Pace
  <2>2. step[h] <= step[g]
    <3>1. CASE step[g] = Steps
      BY <1>1, <3>1
    <3>2. CASE \E d \in Hosts : DryForGood(d) /\ drawn[d] < rounds[g]
      BY <1>1, <2>1, <3>2 DEF Lockstep
    <3>3. QED
      BY <1>1, <1>2, <3>1, <3>2 DEF Lockstep, StopReason
  <2>3. QED
    BY <1>1, <2>1, <2>2 DEF Lockstep, Pace
<1>3. CASE pc[g] = "raised"
  <2>1. rounds[g] = step[g] /\ step[g] = badStep /\ badStep > 0
    BY <1>1, <1>3 DEF Lockstep, Pace
  <2>2. step[h] <= badStep /\ (pc[h] = "gather" => step[h] < badStep)
    BY <1>1, <2>1 DEF Lockstep, BeforeBadStep
  <2>3. QED
    BY <1>1, <2>1, <2>2 DEF Lockstep, Pace
<1>4. QED
  BY <1>2, <1>3 DEF Out

(* No host leaves the loop while another waits for it in a collective,     *)
(* whatever the shards hold and whoever dies (sft/train.py:289-316).       *)
THEOREM NoHostStranded == Spec => []NobodyStranded
  BY NoneLeftBehind, InvariantHolds, PTL

(* Every host that leaves has trained exactly the steps that all shards    *)
(* had a batch for, up to the limit (sft/train.py:306-316).                *)
THEOREM StopsTogether == Spec => []StopsWithTheDriest
<1>1. IInv => StopsWithTheDriest
  <2> SUFFICES ASSUME IInv, NEW h \in Hosts
               PROVE  /\ pc[h] \in {"finish", "done"} => LastStep(step[h])
                      /\ pc[h] = "raised" => step[h] = badStep
    BY DEF StopsWithTheDriest
  <2>1. /\ Lockstep /\ Steps \in Nat
        /\ \A k \in Hosts : /\ drawn[k] \in Nat /\ step[k] \in Nat /\ rounds[k] \in Nat
                            /\ step[k] <= Steps /\ shard[k] \in Nat
    BY SftFleetAssumption DEF IInv, TypeOK
  <2>2. pc[h] = "raised" => step[h] = badStep
    BY <2>1 DEF Lockstep, Pace
  <2>3. ASSUME pc[h] \in {"finish", "done"} PROVE LastStep(step[h])
    <3>1. \A g \in Hosts : step[h] <= drawn[g] /\ drawn[g] <= shard[g]
      BY <2>1 DEF Lockstep, Pace
    <3>2. rounds[h] = step[h] + 1
      BY <2>1, <2>3 DEF Lockstep, Pace
    <3>3. step[h] = Steps \/ \E g \in Hosts : DryForGood(g) /\ drawn[g] < rounds[h]
      BY <2>1, <2>3 DEF Lockstep, StopReason
    <3>4. step[h] = Steps \/ \E g \in Hosts : step[h] = shard[g]
      BY <2>1, <3>1, <3>2, <3>3 DEF DryForGood
    <3>5. QED
      BY <2>1, <3>1, <3>4 DEF LastStep
  <2>4. QED
    BY <2>2, <2>3
<1>2. QED
  BY <1>1, InvariantHolds, PTL

(* A host that leaves has drawn at most one batch it did not train on      *)
(* (sft/train.py:303-304).                                                 *)
THEOREM AtMostOneDiscarded == Spec => []DiscardsAtMostOne
<1>1. IInv => DiscardsAtMostOne
  BY SftFleetAssumption DEF IInv, TypeOK, DiscardsAtMostOne, Lockstep, Pace, Out
<1>2. QED
  BY <1>1, InvariantHolds, PTL

(* What process 0 has saved once stays on disk at every instant of a later *)
(* save of the same step (sft/checkpoint.py:27-47).                        *)
THEOREM ArtefactsKept == Spec => []ArtefactKept
<1>1. IInv => ArtefactKept
  BY DEF IInv, TypeOK, SaveProgress, ArtefactKept
<1>2. QED
  BY <1>1, InvariantHolds, PTL

--------------------------------------------------------------------------------
(* What Finishes stands on, besides fairness: somebody can always go on,   *)
(* and nobody for ever.                                                    *)

(* The guards of Advance(h) and, on process 0, of Save. *)
Ready(h) ==
  \/ pc[h] = "draw"
  \/ pc[h] = "gather" /\ Gathered(rounds[h])
  \/ pc[h] = "train" /\ \A g \in Hosts : step[g] >= step[h]
  \/ pc[h] = "finish" /\ h # Root
  \/ h = Root /\ Saving

SomebodyMoves ==
  (\A h \in Hosts : pc[h] # "dead") =>
    (\E h \in Hosts : Ready(h)) \/ \A h \in Hosts : pc[h] \in {"done", "raised"}

(* The other hosts return from save_sft_checkpoint at once. *)
OnlyRootSaves == \A h \in Hosts : pc[h] = "save" => h = Root

(* The steps behind a host, and its way through the present one. *)
Rank(h) ==
  CASE pc[h] = "train"  -> 0
    [] pc[h] = "save"   -> 1
    [] pc[h] = "draw"   -> 5
    [] pc[h] = "gather" -> 6
    [] pc[h] = "finish" -> 7
    [] pc[h] = "dead"   -> 12
    [] OTHER            -> 11

Instant ==
  CASE phase = "idle"  -> 0
    [] phase = "write" -> 1
    [] OTHER           -> IF step[Root] \in artefacts THEN 2 ELSE 3

SaveDone(h) == IF h = Root /\ Saving THEN Instant ELSE 0

Work(h) == 13 * step[h] + Rank(h) + SaveDone(h)

OneWorks ==
  \E h \in Hosts : Work(h)' > Work(h) /\ \A g \in Hosts \ {h} : Work(g)' = Work(g)

WorkBounded == \A h \in Hosts : Work(h) \in 0 .. 13 * Steps + 12

(* The only way into a save is SavesTo. *)
LEMMA RootSaves == Spec => []OnlyRootSaves
<1>1. Init => OnlyRootSaves
  BY DEF Init, OnlyRootSaves
<1>2. TypeOK /\ OnlyRootSaves /\ [Next]_vars => OnlyRootSaves'
  <2> SUFFICES ASSUME TypeOK, OnlyRootSaves, [Next]_vars PROVE OnlyRootSaves'
    OBVIOUS
  <2> USE DEF OnlyRootSaves, TypeOK
  <2>1. ASSUME NEW h \in Hosts, Draw(h) \/ Gather(h) \/ Leave(h) PROVE OnlyRootSaves'
    BY <2>1 DEF Draw, Gather, Decide, Leave
  <2>2. ASSUME NEW h \in Hosts, Train(h) PROVE OnlyRootSaves'
    BY <2>2 DEF Train, SavesTo
  <2>3. ASSUME NEW h \in Hosts, Dies(h) \/ TornDown(h) PROVE OnlyRootSaves'
    BY <2>3 DEF Dies, TornDown
  <2>4. CASE Save
    BY <2>4 DEF Save, StartWrite, EndWrite, DropOld, Rename, loopVars
  <2>5. CASE UNCHANGED vars
    BY <2>5 DEF vars, loopVars
  <2>6. QED
    BY <2>1, <2>2, <2>3, <2>4, <2>5 DEF Next, Advance
<1>3. QED
  BY <1>1, <1>2, TypeCorrect, PTL DEF Spec

(* Whoever waits in a train step waits for a host in the allgather before   *)
(* it, which that host leaves: all have joined it.                         *)
LEMMA TrainIsJoined ==
  ASSUME IInv, NEW h \in Hosts, pc[h] = "train", ~Ready(h), \A k \in Hosts : pc[k] # "dead"
  PROVE  \E g \in Hosts : Ready(g)
<1>1. PICK g \in Hosts : step[g] < step[h]
  BY DEF Ready, IInv, TypeOK
<1>2. /\ Lockstep
      /\ \A k \in Hosts : drawn[k] \in Nat /\ step[k] \in Nat /\ rounds[k] \in Nat
  BY SftFleetAssumption DEF IInv, TypeOK
<1>3. \A k \in Hosts : step[h] <= rounds[k]
  BY <1>2 DEF Lockstep, Pace
<1>4. ~Out(g)
  BY <1>1, <1>2, NoneLeftBehind DEF NobodyStranded
<1>5. pc[g] = "gather" /\ rounds[g] = step[g] + 1
  <2>1. pc[g] \in {"draw", "gather", "train", "save"}
    BY <1>4 DEF Out, IInv, TypeOK
  <2>2. QED
    BY <1>1, <1>2, <1>3, <2>1 DEF Lockstep, Pace
<1>6. Gathered(rounds[g])
  BY <1>1, <1>2, <1>3, <1>5 DEF Gathered
<1>7. QED
  BY <1>5, <1>6 DEF Ready

(* Whoever waits in an allgather waits for a host that is on its way there. *)
LEMMA GatherIsJoined ==
  ASSUME IInv, OnlyRootSaves, NEW h \in Hosts, pc[h] = "gather", ~Ready(h),
         \A k \in Hosts : pc[k] # "dead"
  PROVE  \E g \in Hosts : Ready(g)
<1>1. /\ Lockstep
      /\ \A k \in Hosts : drawn[k] \in Nat /\ step[k] \in Nat /\ rounds[k] \in Nat
  BY SftFleetAssumption DEF IInv, TypeOK
<1>2. PICK g \in Hosts : rounds[g] < rounds[h]
  BY <1>1 DEF Ready, Gathered
<1>3. /\ rounds[h] = step[h] + 1
      /\ \A k \in Hosts : step[h] <= rounds[k]
  BY <1>1 DEF Lockstep, Pace
<1>4. rounds[g] = step[h]
  BY <1>1, <1>2, <1>3
<1>5. pc[g] \in {"draw", "gather", "train", "save"}
  BY <1>1, <1>2, NoneLeftBehind DEF NobodyStranded, Out, IInv, TypeOK
<1>6. CASE pc[g] = "draw"
  BY <1>6 DEF Ready
<1>7. CASE pc[g] = "gather"
  <2>1. Gathered(rounds[g])
    BY <1>1, <1>3, <1>4 DEF Gathered
  <2>2. QED
    BY <1>7, <2>1 DEF Ready
<1>8. CASE pc[g] = "train"
  BY <1>8, TrainIsJoined
<1>9. CASE pc[g] = "save"
  BY <1>9 DEF OnlyRootSaves, Ready, Saving
<1>10. QED
  BY <1>5, <1>6, <1>7, <1>8, <1>9

(* The deadlock that the allgather is there to prevent (sft/train.py:297-  *)
(* 304) cannot happen in any other way either: while no host is lost, all  *)
(* have left or some host can go on.                                       *)
THEOREM NeverAllWaiting == Spec => []SomebodyMoves
<1>1. IInv /\ OnlyRootSaves => SomebodyMoves
  <2> SUFFICES ASSUME IInv, OnlyRootSaves, \A k \in Hosts : pc[k] # "dead",
                      NEW h \in Hosts, pc[h] \notin {"done", "raised"}
               PROVE  \E g \in Hosts : Ready(g)
    BY DEF SomebodyMoves
  <2>1. pc[h] \in {"draw", "gather", "train", "save", "finish"}
    BY DEF IInv, TypeOK
  <2>2. CASE pc[h] = "gather"
    BY <2>2, GatherIsJoined
  <2>3. CASE pc[h] = "train"
    BY <2>3, TrainIsJoined
  <2>4. CASE pc[h] \in {"draw", "save", "finish"}
    BY <2>4 DEF Ready, OnlyRootSaves, Saving
  <2>5. QED
    BY <2>1, <2>2, <2>3, <2>4
<1>2. QED
  BY <1>1, InvariantHolds, RootSaves, PTL

(* A step of one host's loop is work of that host alone. *)
LEMMA LoopWorks ==
  ASSUME TypeOK, OnlyRootSaves, NEW h \in Hosts, Advance(h) \/ Dies(h) \/ TornDown(h)
  PROVE  OneWorks
<1>1. Work(h)' > Work(h)
  <2> USE DEF TypeOK, Work, SaveDone, Instant
  <2>1. CASE Draw(h)
    BY <2>1 DEF Draw, Rank, Saving, saveVars
  <2>2. CASE Gather(h)
    BY <2>2 DEF Gather, Decide, Rank, Saving, saveVars
  <2>3. CASE Train(h)
    BY <2>3 DEF Train, SavesTo, Rank, Saving, saveVars
  <2>4. CASE Leave(h)
    BY <2>4 DEF Leave, Rank, Saving, saveVars
  <2>5. CASE Dies(h) \/ TornDown(h)
    BY <2>5 DEF Dies, TornDown, Running, Rank, Saving, saveVars
  <2>6. QED
    BY <2>1, <2>2, <2>3, <2>4, <2>5 DEF Advance
<1>2. ASSUME NEW g \in Hosts \ {h} PROVE Work(g)' = Work(g)
  <2>1. pc'[g] = pc[g] /\ step'[g] = step[g] /\ UNCHANGED saveVars
    BY DEF TypeOK, Advance, Draw, Gather, Decide, Train, Leave, Dies, TornDown
  <2>2. Rank(g)' = Rank(g)
    BY <2>1 DEF Rank
  <2>3. SaveDone(g)' = SaveDone(g)
    BY <2>1 DEF SaveDone, Saving, Instant, saveVars
  <2>4. QED
    BY <2>1, <2>2, <2>3 DEF Work
<1>3. QED
  BY <1>1, <1>2 DEF OneWorks

(* A step of a save is work of process 0. *)
LEMMA SaveWorks == ASSUME TypeOK, Save PROVE OneWorks
<1>1. Work(Root)' > Work(Root)
  <2> USE RootIsHost DEF TypeOK, Work, SaveDone, Instant
  <2>1. CASE StartWrite \/ EndWrite \/ DropOld
    BY <2>1 DEF StartWrite, EndWrite, DropOld, Rank, Saving, loopVars
  <2>2. CASE Rename
    BY <2>2 DEF Rename, Rank, Saving
  <2>3. QED
    BY <2>1, <2>2 DEF Save
<1>2. ASSUME NEW g \in Hosts \ {Root} PROVE Work(g)' = Work(g)
  <2>1. pc'[g] = pc[g] /\ step'[g] = step[g]
    BY RootIsHost DEF TypeOK, Save, StartWrite, EndWrite, DropOld, Rename, loopVars
  <2>2. QED
    BY <2>1 DEF Work, Rank, SaveDone
<1>3. QED
  BY <1>1, <1>2, RootIsHost DEF OneWorks

(* No run goes on for ever: every step is the work of one host and takes   *)
(* back no other host's, and there is a bounded amount of it: the loop     *)
(* comes back to next(iterator) only with a step more (sft/train.py:       *)
(* 286-320).                                                               *)
THEOREM EveryStepCounts == Spec => []WorkBounded /\ [][OneWorks]_vars
<1>1. TypeOK => WorkBounded
  <2> SUFFICES ASSUME TypeOK, NEW h \in Hosts PROVE Work(h) \in 0 .. 13 * Steps + 12
    BY DEF WorkBounded
  <2>1. step[h] \in 0 .. Steps /\ Steps \in Nat
    BY SftFleetAssumption DEF TypeOK
  <2>2. Rank(h) + SaveDone(h) \in 0 .. 12
    BY DEF Rank, SaveDone, Saving, Instant
  <2>3. Rank(h) \in Int /\ SaveDone(h) \in Int
    BY DEF Rank, SaveDone, Instant
  <2>4. QED
    BY <2>1, <2>2, <2>3 DEF Work
<1>2. TypeOK /\ OnlyRootSaves /\ [Next]_vars => [OneWorks]_vars
  BY LoopWorks, SaveWorks DEF Next
<1>3. QED
  BY <1>1, <1>2, TypeCorrect, RootSaves, PTL DEF Spec

================================================================================
