---------------------------- MODULE TrainFleetProofs ---------------------------
(***************************************************************************)
(* Theorems about pretraining on any number of hosts, with checkpoints on  *)
(* the disk of each, for every number of steps, save interval, retention,  *)
(* stream lengths and number of hosts that are lost.                       *)
(***************************************************************************)
EXTENDS TrainFleet, TLAPS, FiniteSetTheorems

--------------------------------------------------------------------------------
(* The inductive invariant.  Its first part needs no agreement: what each  *)
(* host can say of itself.                                                 *)

HasTop(S) == \E s \in S \cup {0} : \A t \in S : t <= s

(* Inside a step there is a step to do, no more steps were joined than     *)
(* completed, and every batch drawn was trained on or is staged.           *)
Accounts(h) ==
  /\ HasTop(disk[h])
  /\ pc[h] \in {"fetch", "train", "stage", "block"} => step[h] < Steps
  /\ pc[h] = "stage" => step[h] + 1 < Steps
  /\ pc[h] \in {"restore", "first"} => joined[h] = 0
  /\ pc[h] \in {"head", "fetch", "train", "save", "saving"} => joined[h] <= step[h]
  /\ pc[h] \in {"stage", "block"} => joined[h] <= step[h] + 1
  /\ pc[h] \in {"save", "saving"} => step[h] > 0
  /\ pc[h] = "final" => step[h] = Steps
  /\ pc[h] = "save" => WillCheckpoint(step[h])
  /\ pc[h] \in {"restore", "first", "exit", "down"} => inflight[h] = {}
  /\ pc[h] = "exit" => ~raised[h]
  /\ drawn[h] = joined[h] + IF staged[h] THEN 1 ELSE 0
  /\ pc[h] \in {"restore", "first", "fetch", "stage"} => ~staged[h]
  /\ pc[h] = "train" => staged[h]

TypeInv == TypeOK /\ \A h \in Hosts : Accounts(h)

(* The second part is about a leg that all hosts began at step b.  The     *)
(* train steps it has joined say which step a host is in, whether it is    *)
(* still there or gone.                                                    *)
Place(b, h) == b + joined[h]

Phase(b, h) ==
  /\ pc[h] = "restore" => joined[h] = 0 /\ Newest(h) = b
  /\ pc[h] \in {"first", "head", "fetch", "train", "save", "saving", "final"} =>
       step[h] = Place(b, h)
  /\ pc[h] \in {"stage", "block"} => step[h] + 1 = Place(b, h)
  /\ pc[h] \in {"final", "exit"} \/ (pc[h] = "closing" /\ ~raised[h]) => Place(b, h) = Steps
  /\ Place(b, h) <= Steps

(* Nobody has finished, written or begun to write a step that some host    *)
(* has not joined.                                                         *)
Lockstep(b) ==
  \A g, h \in Hosts :
    /\ step[g] <= Place(b, h)
    /\ b <= Newest(g) /\ Newest(g) <= Place(b, h)
    /\ \A i \in inflight[g] : i <= Place(b, h)

Due(s) == WillCheckpoint(s) \/ s = Steps

(* What this leg wrote was due, and what is being written is the next.     *)
Saves(b, h) ==
  /\ \A s \in disk[h] : s <= b \/ Due(s)
  /\ \A i \in inflight[h] :
       /\ Newest(h) < i /\ Due(i)
       /\ \A m \in Nat : Newest(h) < m /\ m < i => ~WillCheckpoint(m)
  /\ ~async /\ inflight[h] # {} => pc[h] \in {"saving", "closing"}

(* Of the saves that were due none is missing but the one in flight ...    *)
Begun(h) == IF pc[h] \in {"save", "final"} THEN step[h] - 1 ELSE step[h]

Pending(h) ==
  pc[h] \in {"first", "head", "fetch", "train", "stage", "block", "save", "saving", "final"} =>
    \A m \in Nat : Newest(h) < m /\ m <= Begun(h) /\ WillCheckpoint(m) => m \in inflight[h]

(* ... so that a host that is lost is short of one at most, and of none    *)
(* when saves are synchronous.                                             *)
Lag(b, h) ==
  \A m, n \in Nat :
    /\ Newest(h) < m /\ m < Place(b, h) /\ WillCheckpoint(m)
    /\ Newest(h) < n /\ n < Place(b, h) /\ WillCheckpoint(n)
    => async /\ m = n

(* A run that is over has its last step on the disk, or soon will have.    *)
LastSaved(h) ==
  pc[h] \in {"closing", "exit"} /\ ~raised[h] => Newest(h) = Steps \/ Steps \in inflight[h]

(* Retention took a step of this leg only when no host needed it.          *)
Kept(b, h) ==
  \A t \in Nat :
    /\ 0 < t /\ b <= t /\ t <= Newest(h)
    /\ t = b \/ Due(t)
    => t \in disk[h] \/ \A g \in Hosts : t < Newest(g)

HostInv(b, h) == Phase(b, h) /\ Saves(b, h) /\ Pending(h) /\ Lag(b, h) /\ LastSaved(h)

LegInv(b) ==
  /\ Lockstep(b)
  /\ \A h \in Hosts : HostInv(b, h)
  /\ Keep > Ahead => \A h \in Hosts : Kept(b, h)

(* While nobody was lost the first leg is the only one.                    *)
FirstLeg ==
  LongEnough /\ deaths = 0 =>
    /\ agreed
    /\ \A h \in Hosts :
         /\ ~raised[h] /\ pc[h] # "down"
         /\ pc[h] = "final" => ~WillCheckpoint(Steps)
         /\ pc[h] \notin {"closing", "exit"} =>
              \A s \in disk[h] \cup inflight[h] : WillCheckpoint(s)

FleetInv ==
  /\ TypeInv
  /\ agreed => \E b \in 0 .. Steps : LegInv(b)
  /\ FirstLeg

--------------------------------------------------------------------------------
(* Disks *)

Top(S) == CHOOSE s \in S \cup {0} : \A t \in S : t <= s

(* A set of steps with a newest one has exactly one. *)
LEMMA TopIs ==
  ASSUME NEW S \in SUBSET Nat, HasTop(S)
  PROVE  /\ Top(S) \in S \cup {0} /\ Top(S) \in Nat
         /\ \A t \in S : t <= Top(S)
         /\ \A s \in S \cup {0} : (\A t \in S : t <= s) => Top(S) = s
<1>0. \A t \in S \cup {0} : t \in Nat
  OBVIOUS
<1>1. PICK s \in S \cup {0} : \A t \in S : t <= s
  BY DEF HasTop
<1>2. /\ Top(S) \in S \cup {0}
      /\ \A t \in S : t <= Top(S)
  BY <1>1 DEF Top
<1>3. Top(S) \in Nat
  BY <1>0, <1>2, Zenon
<1>4. ASSUME NEW m \in S \cup {0}, \A t \in S : t <= m
      PROVE  Top(S) = m
  <2>1. m \in Nat /\ (m \in S => m <= Top(S)) /\ (Top(S) \in S => Top(S) <= m)
    BY <1>0, <1>2, <1>4, Zenon
  <2>2. QED
    BY <1>2, <1>3, <2>1, <1>4
<1>5. QED
  BY <1>2, <1>3, <1>4

(* The step latest_step() finds on a host's disk. *)
LEMMA NewestIs ==
  ASSUME TypeInv, NEW h \in Hosts
  PROVE  /\ Newest(h) = Top(disk[h]) /\ HasTop(disk[h]) /\ disk[h] \subseteq 1 .. Steps
         /\ Newest(h) \in disk[h] \cup {0} /\ Newest(h) \in 0 .. Steps
         /\ \A t \in disk[h] : t \in Nat /\ t > 0 /\ t <= Newest(h)
<1>1. disk[h] \subseteq 1 .. Steps /\ disk[h] \in SUBSET Nat /\ HasTop(disk[h])
  BY TrainFleetAssumption DEF TypeInv, TypeOK, Accounts
<1>2. Newest(h) = Top(disk[h])
  BY DEF Newest, Top
<1>3. /\ Top(disk[h]) \in disk[h] \cup {0} /\ Top(disk[h]) \in Nat
      /\ \A t \in disk[h] : t <= Top(disk[h])
  BY <1>1, TopIs
<1>4. QED
  BY <1>1, <1>2, <1>3, TrainFleetAssumption

(* Retention keeps the newest step. *)
LEMMA RetainedTop ==
  ASSUME NEW S \in SUBSET Nat, HasTop(S)
  PROVE  /\ Retained(S) \subseteq S
         /\ \A m \in S : (\A t \in S : t <= m) => m \in Retained(S)
         /\ HasTop(Retained(S))
<1>1. Retained(S) \subseteq S
  BY DEF Retained
<1>2. ASSUME NEW m \in S, \A t \in S : t <= m
      PROVE  m \in Retained(S)
  <2>1. \A t \in S : ~(t > m)
    <3>1. m \in Nat /\ \A t \in S : t \in Nat /\ t <= m
      BY <1>2
    <3>2. QED
      BY <3>1
  <2>2. {t \in S : t > m} = {}
    BY <2>1
  <2>3. Cardinality({t \in S : t > m}) = 0
    BY <2>2, FS_EmptySet, Zenon
  <2>4. QED
    BY <1>2, <2>3, TrainFleetAssumption DEF Retained
<1>3. HasTop(Retained(S))
  BY <1>1, <1>2 DEF HasTop
<1>4. QED
  BY <1>1, <1>2, <1>3

(* A host writes one checkpoint at a time. *)
LEMMA OneWrite ==
  ASSUME TypeInv, NEW h \in Hosts
  PROVE  \A i, j \in inflight[h] : i = j
<1>1. inflight[h] \subseteq 1 .. Steps /\ Cardinality(inflight[h]) <= 1
  BY DEF TypeInv, TypeOK
<1>2. IsFiniteSet(1 .. Steps)
  BY FS_Interval, TrainFleetAssumption
<1>3. IsFiniteSet(inflight[h])
  BY <1>1, <1>2, FS_Subset
<1>4. CASE inflight[h] # {}
  <2>1. Cardinality(inflight[h]) \in Nat /\ Cardinality(inflight[h]) # 0
    BY <1>3, <1>4, FS_EmptySet, FS_CardinalityType
  <2>2. Cardinality(inflight[h]) = 1
    BY <1>1, <2>1
  <2>3. \E x : inflight[h] = {x}
    BY <1>3, <2>2, FS_Singleton
  <2>4. QED
    BY <2>3
<1>5. QED
  BY <1>4

(* What a commit leaves on a disk. *)
LEMMA CommitDisk ==
  ASSUME TypeInv, NEW h \in Hosts, Commit(h)
  PROVE  \E i \in 1 .. Steps :
           /\ inflight[h] = {i}
           /\ disk' = [disk EXCEPT ![h] = Retained(disk[h] \cup {i})]
           /\ disk'[h] \subseteq disk[h] \cup {i} /\ disk'[h] \subseteq 1 .. Steps
           /\ HasTop(disk'[h])
           /\ Newest(h) < i => i \in disk'[h] /\ Newest(h)' = i
<1>1. PICK i \in 1 .. Steps : inflight[h] = {i}
  <2>1. inflight[h] \subseteq 1 .. Steps /\ inflight[h] # {}
    BY DEF TypeInv, TypeOK, Commit
  <2>2. QED
    BY <2>1, OneWrite
<1> DEFINE S == disk[h] \cup {i}
<1>2. /\ disk' = [disk EXCEPT ![h] = Retained(S)] /\ disk'[h] = Retained(S)
  BY <1>1 DEF Commit, TypeInv, TypeOK
<1>3. /\ disk[h] \subseteq 1 .. Steps /\ Newest(h) \in disk[h] \cup {0} /\ Newest(h) \in Nat
      /\ \A t \in disk[h] : t <= Newest(h)
  BY NewestIs, TrainFleetAssumption
<1>4. S \in SUBSET Nat /\ S \subseteq 1 .. Steps /\ HasTop(S)
  BY <1>3, TrainFleetAssumption DEF HasTop
<1>5. Retained(S) \subseteq S /\ HasTop(Retained(S))
  BY <1>4, RetainedTop
<1>6. ASSUME Newest(h) < i PROVE i \in disk'[h] /\ Newest(h)' = i
  <2>1. \A t \in S : t <= i
    BY <1>3, <1>4, <1>6, TrainFleetAssumption
  <2>2. i \in Retained(S)
    BY <1>4, <2>1, RetainedTop
  <2>3. Top(Retained(S)) = i
    BY <1>4, <1>5, <2>1, <2>2, TopIs
  <2>4. QED
    BY <1>2, <2>2, <2>3 DEF Newest, Top
<1>7. QED
  BY <1>1, <1>2, <1>4, <1>5, <1>6

--------------------------------------------------------------------------------
(* Types and accounts *)

(* The fleet starts well typed. *)
LEMMA InitType == Init => TypeInv
<1> SUFFICES ASSUME Init PROVE TypeInv
  OBVIOUS
<1> USE TrainFleetAssumption
<1>1. TypeOK
  BY FS_EmptySet DEF Init, TypeOK
<1>2. \A h \in Hosts : Accounts(h)
  BY DEF Init, Accounts, HasTop
<1>3. QED
  BY <1>1, <1>2 DEF TypeInv

(* The loop keeps the types and the accounts. *)
LEMMA AdvanceType == ASSUME TypeInv, NEW h \in Hosts, Advance(h) PROVE TypeInv'
<1> USE TrainFleetAssumption DEF At, Goto, inputs, diskVars
<1>1. TypeOK /\ \A g \in Hosts : Accounts(g)
  BY DEF TypeInv
<1>2. CASE Restore(h)
  <2>1. Newest(h) \in 0 .. Steps
    BY NewestIs
  <2>2. TypeOK'
    BY <1>1, <1>2, <2>1 DEF Restore, TypeOK
  <2>3. \A g \in Hosts : Accounts(g)'
    BY <1>1, <1>2, <2>1 DEF Restore, TypeOK, Accounts
  <2>4. QED
    BY <2>2, <2>3 DEF TypeInv
<1>3. CASE Fetch(h)
  <2>1. TypeOK'
    BY <1>1, <1>3 DEF Fetch, Draw, TypeOK
  <2>2. \A g \in Hosts : Accounts(g)'
    BY <1>1, <1>3 DEF Fetch, Draw, TypeOK, Accounts
  <2>3. QED
    BY <2>1, <2>2 DEF TypeInv
<1>4. CASE DataEnds(h)
  <2>1. TypeOK'
    BY <1>1, <1>4 DEF DataEnds, TypeOK
  <2>2. \A g \in Hosts : Accounts(g)'
    BY <1>1, <1>4 DEF DataEnds, TypeOK, Accounts
  <2>3. QED
    BY <2>1, <2>2 DEF TypeInv
<1>5. CASE BeginStep(h)
  <2>1. TypeOK'
    BY <1>1, <1>5 DEF BeginStep, TypeOK
  <2>2. \A g \in Hosts : Accounts(g)'
    BY <1>1, <1>5 DEF BeginStep, TypeOK, Accounts
  <2>3. QED
    BY <2>1, <2>2 DEF TypeInv
<1>6. CASE Dispatch(h)
  <2>1. TypeOK'
    BY <1>1, <1>6 DEF Dispatch, StagesNext, TypeOK
  <2>2. \A g \in Hosts : Accounts(g)'
    BY <1>1, <1>6 DEF Dispatch, StagesNext, TypeOK, Accounts
  <2>3. QED
    BY <2>1, <2>2 DEF TypeInv
<1>7. CASE EndStep(h)
  <2>1. TypeOK'
    BY <1>1, <1>7 DEF EndStep, TypeOK, Accounts
  <2>2. \A g \in Hosts : Accounts(g)'
    BY <1>1, <1>7 DEF EndStep, TypeOK, Accounts
  <2>3. QED
    BY <2>1, <2>2 DEF TypeInv
<1>8. CASE SaveReturns(h)
  <2>1. TypeOK'
    BY <1>1, <1>8 DEF SaveReturns, TypeOK
  <2>2. \A g \in Hosts : Accounts(g)'
    BY <1>1, <1>8 DEF SaveReturns, TypeOK, Accounts
  <2>3. QED
    BY <2>1, <2>2 DEF TypeInv
<1>9. CASE EndLoop(h)
  <2>1. TypeOK'
    BY <1>1, <1>9 DEF EndLoop, TypeOK
  <2>2. \A g \in Hosts : Accounts(g)'
    BY <1>1, <1>9 DEF EndLoop, TypeOK, Accounts
  <2>3. QED
    BY <2>1, <2>2 DEF TypeInv
<1>10. CASE FinalSaveRefused(h)
  <2>1. TypeOK'
    BY <1>1, <1>10 DEF FinalSaveRefused, TypeOK
  <2>2. \A g \in Hosts : Accounts(g)'
    BY <1>1, <1>10 DEF FinalSaveRefused, TypeOK, Accounts
  <2>3. QED
    BY <2>1, <2>2 DEF TypeInv
<1>11. CASE Close(h)
  <2>1. TypeOK'
    BY <1>1, <1>11 DEF Close, TypeOK
  <2>2. \A g \in Hosts : Accounts(g)'
    BY <1>1, <1>11 DEF Close, TypeOK, Accounts
  <2>3. QED
    BY <2>1, <2>2 DEF TypeInv
<1>12. CASE IntervalSave(h)
  <2>0. Cardinality({step[h]}) = 1
    BY FS_Singleton, Zenon
  <2>1. step[h] \in 1 .. Steps
    BY <1>1, <1>12 DEF IntervalSave, TypeOK, Accounts
  <2>2. TypeOK'
    BY <1>1, <1>12, <2>0, <2>1 DEF IntervalSave, BeginSave, TypeOK
  <2>3. \A g \in Hosts : Accounts(g)'
    BY <1>1, <1>12 DEF IntervalSave, BeginSave, TypeOK, Accounts
  <2>4. QED
    BY <2>2, <2>3 DEF TypeInv
<1>13. CASE FinalSave(h)
  <2>0. Cardinality({step[h]}) = 1
    BY FS_Singleton, Zenon
  <2>1. step[h] \in 1 .. Steps
    BY <1>1, <1>13 DEF FinalSave, TypeOK, Accounts
  <2>2. TypeOK'
    BY <1>1, <1>13, <2>0, <2>1 DEF FinalSave, BeginSave, TypeOK
  <2>3. \A g \in Hosts : Accounts(g)'
    BY <1>1, <1>13 DEF FinalSave, BeginSave, TypeOK, Accounts
  <2>4. QED
    BY <2>2, <2>3 DEF TypeInv
<1>14. QED
  BY <1>2, <1>3, <1>4, <1>5, <1>6, <1>7, <1>8, <1>9, <1>10, <1>11, <1>12, <1>13 DEF Advance

(* A commit keeps them: retention leaves a newest step. *)
LEMMA CommitType == ASSUME TypeInv, NEW h \in Hosts, Commit(h) PROVE TypeInv'
<1> USE TrainFleetAssumption DEF inputs, loopVars
<1>1. TypeOK /\ \A g \in Hosts : Accounts(g)
  BY DEF TypeInv
<1>2. disk'[h] \subseteq 1 .. Steps /\ HasTop(disk'[h])
  BY CommitDisk
<1>3. /\ inflight' = [inflight EXCEPT ![h] = {}]
      /\ disk' = [disk EXCEPT ![h] = disk'[h]]
      /\ UNCHANGED <<async, supply, pc, step, drawn, staged, joined, raised, agreed, deaths>>
  BY <1>1 DEF Commit, TypeOK
<1>4. TypeOK'
  BY <1>1, <1>2, <1>3, FS_EmptySet DEF TypeOK
<1>5. \A g \in Hosts : Accounts(g)'
  BY <1>1, <1>2, <1>3 DEF TypeOK, Accounts
<1>6. QED
  BY <1>4, <1>5 DEF TypeInv

(* A host that is gone keeps them. *)
LEMMA GoneType ==
  ASSUME TypeInv, NEW h \in Hosts, Gone(h), deaths' \in 0 .. MaxDeaths PROVE TypeInv'
<1> USE TrainFleetAssumption DEF Goto, inputs
<1>1. TypeOK /\ \A g \in Hosts : Accounts(g)
  BY DEF TypeInv
<1>2. TypeOK'
  BY <1>1, FS_EmptySet DEF Gone, TypeOK
<1>3. \A g \in Hosts : Accounts(g)'
  BY <1>1 DEF Gone, TypeOK, Accounts
<1>4. QED
  BY <1>2, <1>3 DEF TypeInv

(* Before a relaunch nothing is being written. *)
LEMMA RelaunchType == TypeInv /\ Relaunch => TypeInv'
<1> SUFFICES ASSUME TypeInv, Relaunch PROVE TypeInv'
  OBVIOUS
<1> USE TrainFleetAssumption DEF inputs, diskVars
<1>1. TypeOK /\ \A g \in Hosts : Accounts(g)
  BY DEF TypeInv
<1>2. TypeOK'
  <2>1. agreed' \in BOOLEAN
    BY DEF Relaunch
  <2>2. QED
    BY <1>1, <2>1 DEF Relaunch, Started, TypeOK
<1>3. \A g \in Hosts : Accounts(g)'
  BY <1>1 DEF Relaunch, Started, Running, TypeOK, Accounts
<1>4. QED
  BY <1>2, <1>3 DEF TypeInv

(* Every step keeps the types and the accounts. *)
LEMMA TypeStep == TypeInv /\ [Next]_vars => TypeInv'
<1> SUFFICES ASSUME TypeInv, [Next]_vars PROVE TypeInv'
  OBVIOUS
<1>1. ASSUME NEW h \in Hosts, Advance(h) \/ Commit(h) PROVE TypeInv'
  BY <1>1, AdvanceType, CommitType
<1>2. ASSUME NEW h \in Hosts, Dies(h) \/ TornDown(h) PROVE TypeInv'
  <2>1. deaths' \in 0 .. MaxDeaths
    BY <1>2, TrainFleetAssumption DEF Dies, TornDown, TypeInv, TypeOK
  <2>2. Gone(h)
    BY <1>2 DEF Dies, TornDown
  <2>3. QED
    BY <2>1, <2>2, GoneType
<1>3. CASE UNCHANGED vars
  BY <1>3 DEF vars, inputs, loopVars, diskVars, TypeInv, TypeOK, Accounts
<1>4. QED
  BY <1>1, <1>2, <1>3, RelaunchType DEF Next

(* Type correctness of the fleet, for any number of hosts: no step past    *)
(* the last, and never two checkpoints being written on one disk           *)
(* (checkpoints.py:128-164).                                               *)
THEOREM TypeCorrect == Spec => []TypeOK
<1>1. TypeInv => TypeOK
  BY DEF TypeInv
<1>2. QED
  BY <1>1, InitType, TypeStep, PTL DEF Spec

--------------------------------------------------------------------------------
(* A leg that began in agreement *)

(* The loop keeps the agreement, whatever the hosts' order.  *)
LEMMA LoopLeg ==
  ASSUME TypeInv, NEW b \in 0 .. Steps, LegInv(b), NEW h \in Hosts, Advance(h),
         UNCHANGED diskVars
  PROVE  LegInv(b)'
<1> USE TrainFleetAssumption DEF At, Goto, inputs, diskVars
<1>1. /\ TypeOK /\ \A g \in Hosts : Accounts(g)
      /\ \A g \in Hosts : Newest(g) \in 0 .. Steps
      /\ \A g \in Hosts : \A i, j \in inflight[g] : i = j
  BY NewestIs, OneWrite DEF TypeInv
<1>2. /\ Lockstep(b)
      /\ \A g \in Hosts : Phase(b, g) /\ Saves(b, g) /\ Pending(g) /\ Lag(b, g) /\ LastSaved(g)
      /\ Keep > Ahead => \A g \in Hosts : Kept(b, g)
  BY DEF LegInv, HostInv
<1>3. UNCHANGED async /\ \A g \in Hosts : Newest(g)' = Newest(g)
  BY DEF Newest, Advance, Restore, Fetch, DataEnds, BeginStep, Dispatch, EndStep,
         IntervalSave, SaveReturns, EndLoop, FinalSave, FinalSaveRefused, Close
<1>4. Keep > Ahead' => \A g \in Hosts : Kept(b, g)'
  BY <1>2, <1>3 DEF Ahead, Kept
<1>5. CASE Restore(h)
  <2>1. Lockstep(b)'
    BY <1>1, <1>2, <1>3, <1>5 DEF Restore, TypeOK, Lockstep, Phase, Place
  <2>2. \A g \in Hosts : Phase(b, g)'
    BY <1>1, <1>2, <1>3, <1>5 DEF Restore, TypeOK, Accounts, Phase, Place
  <2>3. \A g \in Hosts : Saves(b, g)'
    BY <1>1, <1>2, <1>3, <1>5 DEF Restore, TypeOK, Saves
  <2>4. \A g \in Hosts : Pending(g)'
    BY <1>1, <1>2, <1>3, <1>5 DEF Restore, TypeOK, Pending, Begun
  <2>5. \A g \in Hosts : Lag(b, g)'
    BY <1>1, <1>2, <1>3, <1>5 DEF Restore, TypeOK, Lag, Place
  <2>6. \A g \in Hosts : LastSaved(g)'
    BY <1>1, <1>2, <1>3, <1>5 DEF Restore, TypeOK, LastSaved
  <2>7. QED
    BY <1>4, <2>1, <2>2, <2>3, <2>4, <2>5, <2>6 DEF LegInv, HostInv
<1>6. CASE Fetch(h)
  <2>1. Lockstep(b)'
    BY <1>1, <1>2, <1>3, <1>6 DEF Fetch, Draw, TypeOK, Lockstep, Phase, Place
  <2>2. \A g \in Hosts : Phase(b, g)'
    BY <1>1, <1>2, <1>3, <1>6 DEF Fetch, Draw, TypeOK, Accounts, Phase, Place
  <2>3. \A g \in Hosts : Saves(b, g)'
    BY <1>1, <1>2, <1>3, <1>6 DEF Fetch, Draw, TypeOK, Saves
  <2>4. \A g \in Hosts : Pending(g)'
    BY <1>1, <1>2, <1>3, <1>6 DEF Fetch, Draw, TypeOK, Pending, Begun
  <2>5. \A g \in Hosts : Lag(b, g)'
    BY <1>1, <1>2, <1>3, <1>6 DEF Fetch, Draw, TypeOK, Lag, Place
  <2>6. \A g \in Hosts : LastSaved(g)'
    BY <1>1, <1>2, <1>3, <1>6 DEF Fetch, Draw, TypeOK, LastSaved
  <2>7. QED
    BY <1>4, <2>1, <2>2, <2>3, <2>4, <2>5, <2>6 DEF LegInv, HostInv
<1>7. CASE DataEnds(h)
  <2>1. Lockstep(b)'
    BY <1>1, <1>2, <1>3, <1>7 DEF DataEnds, TypeOK, Lockstep, Phase, Place
  <2>2. \A g \in Hosts : Phase(b, g)'
    BY <1>1, <1>2, <1>3, <1>7 DEF DataEnds, TypeOK, Accounts, Phase, Place
  <2>3. \A g \in Hosts : Saves(b, g)'
    BY <1>1, <1>2, <1>3, <1>7 DEF DataEnds, TypeOK, Saves
  <2>4. \A g \in Hosts : Pending(g)'
    BY <1>1, <1>2, <1>3, <1>7 DEF DataEnds, TypeOK, Pending, Begun
  <2>5. \A g \in Hosts : Lag(b, g)'
    BY <1>1, <1>2, <1>3, <1>7 DEF DataEnds, TypeOK, Lag, Place
  <2>6. \A g \in Hosts : LastSaved(g)'
    BY <1>1, <1>2, <1>3, <1>7 DEF DataEnds, TypeOK, LastSaved
  <2>7. QED
    BY <1>4, <2>1, <2>2, <2>3, <2>4, <2>5, <2>6 DEF LegInv, HostInv
<1>8. CASE BeginStep(h)
  <2>1. Lockstep(b)'
    BY <1>1, <1>2, <1>3, <1>8 DEF BeginStep, TypeOK, Lockstep, Phase, Place
  <2>2. \A g \in Hosts : Phase(b, g)'
    BY <1>1, <1>2, <1>3, <1>8 DEF BeginStep, TypeOK, Accounts, Phase, Place
  <2>3. \A g \in Hosts : Saves(b, g)'
    BY <1>1, <1>2, <1>3, <1>8 DEF BeginStep, TypeOK, Saves
  <2>4. \A g \in Hosts : Pending(g)'
    BY <1>1, <1>2, <1>3, <1>8 DEF BeginStep, TypeOK, Pending, Begun
  <2>5. \A g \in Hosts : Lag(b, g)'
    BY <1>1, <1>2, <1>3, <1>8 DEF BeginStep, TypeOK, Lag, Place
  <2>6. \A g \in Hosts : LastSaved(g)'
    BY <1>1, <1>2, <1>3, <1>8 DEF BeginStep, TypeOK, LastSaved
  <2>7. QED
    BY <1>4, <2>1, <2>2, <2>3, <2>4, <2>5, <2>6 DEF LegInv, HostInv
<1>9. CASE Dispatch(h)
  <2>1. Lockstep(b)'
    BY <1>1, <1>2, <1>3, <1>9 DEF Dispatch, StagesNext, TypeOK, Lockstep, Phase, Place
  <2>2. \A g \in Hosts : Phase(b, g)'
    BY <1>1, <1>2, <1>3, <1>9 DEF Dispatch, StagesNext, TypeOK, Accounts, Phase, Place
  <2>3. \A g \in Hosts : Saves(b, g)'
    BY <1>1, <1>2, <1>3, <1>9 DEF Dispatch, StagesNext, TypeOK, Saves
  <2>4. \A g \in Hosts : Pending(g)'
    BY <1>1, <1>2, <1>3, <1>9 DEF Dispatch, StagesNext, TypeOK, Pending, Begun
  <2>5. \A g \in Hosts : Lag(b, g)'
    <3>1. \A g \in Hosts : Place(b, g)' = IF g = h THEN Place(b, h) + 1 ELSE Place(b, g)
      BY <1>1, <1>9 DEF Dispatch, TypeOK, Place
    <3>2. /\ Place(b, h) \in Nat /\ Place(b, h) = step[h] /\ Begun(h) = step[h]
          /\ ~async => inflight[h] = {}
      BY <1>1, <1>2, <1>9 DEF Dispatch, TypeOK, Phase, Place, Saves, Begun
    <3>3. \A m \in Nat : Newest(h) < m /\ m < Place(b, h) + 1 /\ WillCheckpoint(m) =>
            m \in inflight[h]
      BY <1>2, <1>9, <3>2 DEF Dispatch, Pending
    <3>4. UNCHANGED inflight
      BY <1>9 DEF Dispatch
    <3>5. ASSUME NEW g \in Hosts PROVE Lag(b, g)'
      <4>1. CASE g = h
        BY <1>1, <1>3, <3>1, <3>2, <3>3, <4>1 DEF Lag
      <4>2. CASE g # h
        BY <1>2, <1>3, <3>1, <4>2 DEF Lag
      <4>3. QED
        BY <4>1, <4>2
    <3>6. QED
      BY <3>5
  <2>6. \A g \in Hosts : LastSaved(g)'
    BY <1>1, <1>2, <1>3, <1>9 DEF Dispatch, StagesNext, TypeOK, LastSaved
  <2>7. QED
    BY <1>4, <2>1, <2>2, <2>3, <2>4, <2>5, <2>6 DEF LegInv, HostInv
<1>10. CASE EndStep(h)
  <2>1. Lockstep(b)'
    BY <1>1, <1>2, <1>3, <1>10 DEF EndStep, TypeOK, Lockstep, Phase, Place
  <2>2. \A g \in Hosts : Phase(b, g)'
    BY <1>1, <1>2, <1>3, <1>10 DEF EndStep, TypeOK, Accounts, Phase, Place
  <2>3. \A g \in Hosts : Saves(b, g)'
    BY <1>1, <1>2, <1>3, <1>10 DEF EndStep, TypeOK, Saves
  <2>4. \A g \in Hosts : Pending(g)'
    <3>1. /\ step[h] \in Nat /\ pc[h] = "block" /\ Begun(h) = step[h]
          /\ step' = [step EXCEPT ![h] = @ + 1]
          /\ pc' = [pc EXCEPT ![h] = IF WillCheckpoint(step[h] + 1) THEN "save" ELSE "head"]
          /\ UNCHANGED inflight
      BY <1>1, <1>10 DEF EndStep, TypeOK, Begun
    <3>2. step'[h] = step[h] + 1 /\ \A g \in Hosts : g # h => step'[g] = step[g] /\ pc'[g] = pc[g]
      BY <1>1, <3>1 DEF TypeOK
    <3>3. CASE WillCheckpoint(step[h] + 1)
      <4>1. pc'[h] = "save" /\ Begun(h)' = step[h]
        BY <1>1, <3>1, <3>2, <3>3 DEF TypeOK, Begun
      <4>2. QED
        BY <1>2, <1>3, <3>1, <3>2, <4>1 DEF Pending, Begun
    <3>4. CASE ~WillCheckpoint(step[h] + 1)
      <4>1. pc'[h] = "head" /\ Begun(h)' = step[h] + 1
        BY <1>1, <3>1, <3>2, <3>4 DEF TypeOK, Begun
      <4>2. \A m \in Nat : m <= step[h] + 1 /\ WillCheckpoint(m) => m <= step[h]
        BY <3>1, <3>4
      <4>3. QED
        BY <1>2, <1>3, <3>1, <3>2, <4>1, <4>2 DEF Pending, Begun
    <3>5. QED
      BY <3>3, <3>4
  <2>5. \A g \in Hosts : Lag(b, g)'
    BY <1>1, <1>2, <1>3, <1>10 DEF EndStep, TypeOK, Lag, Place
  <2>6. \A g \in Hosts : LastSaved(g)'
    BY <1>1, <1>2, <1>3, <1>10 DEF EndStep, TypeOK, LastSaved
  <2>7. QED
    BY <1>4, <2>1, <2>2, <2>3, <2>4, <2>5, <2>6 DEF LegInv, HostInv
<1>11. CASE SaveReturns(h)
  <2>1. Lockstep(b)'
    BY <1>1, <1>2, <1>3, <1>11 DEF SaveReturns, TypeOK, Lockstep, Phase, Place
  <2>2. \A g \in Hosts : Phase(b, g)'
    BY <1>1, <1>2, <1>3, <1>11 DEF SaveReturns, TypeOK, Accounts, Phase, Place
  <2>3. \A g \in Hosts : Saves(b, g)'
    BY <1>1, <1>2, <1>3, <1>11 DEF SaveReturns, TypeOK, Saves
  <2>4. \A g \in Hosts : Pending(g)'
    BY <1>1, <1>2, <1>3, <1>11 DEF SaveReturns, TypeOK, Pending, Begun
  <2>5. \A g \in Hosts : Lag(b, g)'
    BY <1>1, <1>2, <1>3, <1>11 DEF SaveReturns, TypeOK, Lag, Place
  <2>6. \A g \in Hosts : LastSaved(g)'
    BY <1>1, <1>2, <1>3, <1>11 DEF SaveReturns, TypeOK, LastSaved
  <2>7. QED
    BY <1>4, <2>1, <2>2, <2>3, <2>4, <2>5, <2>6 DEF LegInv, HostInv
<1>12. CASE EndLoop(h)
  <2>1. Lockstep(b)'
    BY <1>1, <1>2, <1>3, <1>12 DEF EndLoop, TypeOK, Lockstep, Phase, Place
  <2>2. \A g \in Hosts : Phase(b, g)'
    BY <1>1, <1>2, <1>3, <1>12 DEF EndLoop, TypeOK, Accounts, Phase, Place
  <2>3. \A g \in Hosts : Saves(b, g)'
    BY <1>1, <1>2, <1>3, <1>12 DEF EndLoop, TypeOK, Saves
  <2>4. \A g \in Hosts : Pending(g)'
    BY <1>1, <1>2, <1>3, <1>12 DEF EndLoop, TypeOK, Pending, Begun
  <2>5. \A g \in Hosts : Lag(b, g)'
    BY <1>1, <1>2, <1>3, <1>12 DEF EndLoop, TypeOK, Lag, Place
  <2>6. \A g \in Hosts : LastSaved(g)'
    <3>1. pc[h] = "head" /\ step[h] = Steps /\ Begun(h) = Steps /\ UNCHANGED <<raised, inflight>>
      BY <1>12 DEF EndLoop, Begun
    <3>2. WillCheckpoint(Steps) => Newest(h) = Steps \/ Steps \in inflight[h]
      BY <1>1, <1>2, <3>1 DEF Pending
    <3>3. ASSUME NEW g \in Hosts PROVE LastSaved(g)'
      <4>1. CASE g = h
        BY <1>1, <1>3, <1>12, <3>1, <3>2, <4>1 DEF EndLoop, TypeOK, LastSaved
      <4>2. CASE g # h
        BY <1>1, <1>2, <1>3, <1>12, <3>1, <4>2 DEF EndLoop, TypeOK, LastSaved
      <4>3. QED
        BY <4>1, <4>2
    <3>4. QED
      BY <3>3
  <2>7. QED
    BY <1>4, <2>1, <2>2, <2>3, <2>4, <2>5, <2>6 DEF LegInv, HostInv
<1>13. CASE FinalSaveRefused(h)
  <2>1. Lockstep(b)'
    BY <1>1, <1>2, <1>3, <1>13 DEF FinalSaveRefused, TypeOK, Lockstep, Phase, Place
  <2>2. \A g \in Hosts : Phase(b, g)'
    BY <1>1, <1>2, <1>3, <1>13 DEF FinalSaveRefused, TypeOK, Accounts, Phase, Place
  <2>3. \A g \in Hosts : Saves(b, g)'
    BY <1>1, <1>2, <1>3, <1>13 DEF FinalSaveRefused, TypeOK, Saves
  <2>4. \A g \in Hosts : Pending(g)'
    BY <1>1, <1>2, <1>3, <1>13 DEF FinalSaveRefused, TypeOK, Pending, Begun
  <2>5. \A g \in Hosts : Lag(b, g)'
    BY <1>1, <1>2, <1>3, <1>13 DEF FinalSaveRefused, TypeOK, Lag, Place
  <2>6. \A g \in Hosts : LastSaved(g)'
    BY <1>1, <1>2, <1>3, <1>13 DEF FinalSaveRefused, TypeOK, LastSaved
  <2>7. QED
    BY <1>4, <2>1, <2>2, <2>3, <2>4, <2>5, <2>6 DEF LegInv, HostInv
<1>14. CASE Close(h)
  <2>1. Lockstep(b)'
    BY <1>1, <1>2, <1>3, <1>14 DEF Close, TypeOK, Lockstep, Phase, Place
  <2>2. \A g \in Hosts : Phase(b, g)'
    BY <1>1, <1>2, <1>3, <1>14 DEF Close, TypeOK, Accounts, Phase, Place
  <2>3. \A g \in Hosts : Saves(b, g)'
    BY <1>1, <1>2, <1>3, <1>14 DEF Close, TypeOK, Saves
  <2>4. \A g \in Hosts : Pending(g)'
    BY <1>1, <1>2, <1>3, <1>14 DEF Close, TypeOK, Pending, Begun
  <2>5. \A g \in Hosts : Lag(b, g)'
    BY <1>1, <1>2, <1>3, <1>14 DEF Close, TypeOK, Lag, Place
  <2>6. \A g \in Hosts : LastSaved(g)'
    BY <1>1, <1>2, <1>3, <1>14 DEF Close, TypeOK, LastSaved
  <2>7. QED
    BY <1>4, <2>1, <2>2, <2>3, <2>4, <2>5, <2>6 DEF LegInv, HostInv
<1>15. ~IntervalSave(h) /\ ~FinalSave(h)
  BY <1>1 DEF IntervalSave, FinalSave, BeginSave, TypeOK
<1>16. QED
  BY <1>5, <1>6, <1>7, <1>8, <1>9, <1>10, <1>11, <1>12, <1>13, <1>14, <1>15 DEF Advance

(* A save begins with the next due step, as everything before it is on the *)
(* disk.                                                                   *)
LEMMA SaveLeg ==
  ASSUME TypeInv, NEW b \in 0 .. Steps, LegInv(b), NEW h \in Hosts,
         IntervalSave(h) \/ FinalSave(h)
  PROVE  LegInv(b)'
<1> USE TrainFleetAssumption DEF At, Goto, inputs
<1>1. /\ TypeOK /\ \A g \in Hosts : Accounts(g)
      /\ \A g \in Hosts : Newest(g) \in 0 .. Steps
  BY NewestIs DEF TypeInv
<1>2. /\ Lockstep(b)
      /\ \A g \in Hosts : Phase(b, g) /\ Saves(b, g) /\ Pending(g) /\ Lag(b, g) /\ LastSaved(g)
      /\ Keep > Ahead => \A g \in Hosts : Kept(b, g)
  BY DEF LegInv, HostInv
<1>3. /\ UNCHANGED <<async, disk, step, joined, raised>>
      /\ \A g \in Hosts : Newest(g)' = Newest(g)
  BY DEF Newest, IntervalSave, FinalSave
<1>4. /\ pc[h] \in {"save", "final"} /\ inflight[h] = {} /\ step[h] \notin disk[h]
      /\ inflight' = [inflight EXCEPT ![h] = {step[h]}]
      /\ pc' = [pc EXCEPT ![h] = IF pc[h] = "save" THEN "saving" ELSE "closing"]
  BY DEF IntervalSave, FinalSave, BeginSave
<1>5. /\ inflight'[h] = {step[h]}
      /\ pc'[h] = IF pc[h] = "save" THEN "saving" ELSE "closing"
      /\ \A g \in Hosts : g # h => inflight'[g] = inflight[g] /\ pc'[g] = pc[g]
  BY <1>1, <1>4 DEF TypeOK
<1>6. /\ step[h] \in Nat /\ step[h] = Place(b, h) /\ Begun(h) = step[h] - 1 /\ step[h] > 0
      /\ Due(step[h]) /\ (pc[h] = "final" => step[h] = Steps)
  BY <1>1, <1>2, <1>4 DEF TypeOK, Accounts, Phase, Begun, Due
<1>7. Newest(h) < step[h]
  <2>1. Newest(h) \in disk[h] \cup {0}
    BY NewestIs
  <2>2. Newest(h) # step[h] /\ Newest(h) <= step[h]
    BY <1>2, <1>4, <1>6, <2>1 DEF Lockstep
  <2>3. QED
    BY <1>1, <1>6, <2>2
<1>8. \A m \in Nat : Newest(h) < m /\ m < step[h] => ~WillCheckpoint(m)
  BY <1>2, <1>4, <1>6 DEF Pending
<1>9. Lockstep(b)'
  BY <1>1, <1>2, <1>3, <1>5 DEF Lockstep, Place
<1>10. \A g \in Hosts : Phase(b, g)'
  BY <1>1, <1>2, <1>3, <1>4, <1>5, <1>6 DEF Phase, Place
<1>11. \A g \in Hosts : Saves(b, g)'
  BY <1>2, <1>3, <1>4, <1>5, <1>6, <1>7, <1>8 DEF Saves
<1>12. \A g \in Hosts : Pending(g)'
  <2>1. ASSUME NEW g \in Hosts, g # h PROVE Pending(g)'
    BY <1>2, <1>3, <1>5, <2>1 DEF Pending, Begun
  <2>2. Pending(h)'
    <3>1. ASSUME pc'[h] = "saving" PROVE Begun(h)' = step[h]
      BY <1>3, <3>1 DEF Begun
    <3>2. \A m \in Nat : Newest(h) < m /\ m <= step[h] /\ WillCheckpoint(m) => m = step[h]
      BY <1>6, <1>8
    <3>3. QED
      BY <1>3, <1>4, <1>5, <3>1, <3>2 DEF Pending
  <2>3. QED
    BY <2>1, <2>2
<1>13. \A g \in Hosts : Lag(b, g)'
  BY <1>2, <1>3 DEF Lag, Place
<1>14. \A g \in Hosts : LastSaved(g)'
  BY <1>2, <1>3, <1>4, <1>5, <1>6 DEF LastSaved
<1>15. (Keep > Ahead)' => \A g \in Hosts : Kept(b, g)'
  BY <1>2, <1>3 DEF Ahead, Kept
<1>16. QED
  BY <1>9, <1>10, <1>11, <1>12, <1>13, <1>14, <1>15 DEF LegInv, HostInv

(* What a leg says about itself does not depend on who is still running.   *)
LEMMA GoneLeg ==
  ASSUME TypeInv, NEW b \in 0 .. Steps, LegInv(b), NEW h \in Hosts, Gone(h)
  PROVE  LegInv(b)'
<1> USE TrainFleetAssumption DEF Goto, inputs
<1>1. TypeOK
  BY DEF TypeInv
<1>2. /\ Lockstep(b)
      /\ \A g \in Hosts : Phase(b, g) /\ Saves(b, g) /\ Pending(g) /\ Lag(b, g) /\ LastSaved(g)
      /\ Keep > Ahead => \A g \in Hosts : Kept(b, g)
  BY DEF LegInv, HostInv
<1>3. /\ UNCHANGED <<async, disk, step, joined, raised>>
      /\ \A g \in Hosts : Newest(g)' = Newest(g)
      /\ pc'[h] = "down" /\ inflight'[h] = {}
      /\ \A g \in Hosts : g # h => inflight'[g] = inflight[g] /\ pc'[g] = pc[g]
  BY <1>1 DEF Gone, Newest, TypeOK
<1>4. Lockstep(b)'
  BY <1>2, <1>3 DEF Lockstep, Place
<1>5. \A g \in Hosts : HostInv(b, g)'
  <2>1. ASSUME NEW g \in Hosts, g # h PROVE HostInv(b, g)'
    <3>1. Phase(b, g)' /\ Lag(b, g)'
      BY <1>2, <1>3, <2>1 DEF Phase, Place, Lag
    <3>2. Saves(b, g)' /\ Pending(g)' /\ LastSaved(g)'
      BY <1>2, <1>3, <2>1 DEF Saves, Pending, Begun, LastSaved
    <3>3. QED
      BY <3>1, <3>2 DEF HostInv
  <2>2. HostInv(b, h)'
    BY <1>2, <1>3 DEF HostInv, Phase, Place, Lag, Saves, Pending, LastSaved
  <2>3. QED
    BY <2>1, <2>2
<1>6. (Keep > Ahead)' => \A g \in Hosts : Kept(b, g)'
  BY <1>2, <1>3 DEF Ahead, Kept
<1>7. QED
  BY <1>4, <1>5, <1>6 DEF LegInv

(* A set of at most two. *)
LEMMA PairCount ==
  ASSUME NEW a, NEW c, NEW T \in SUBSET {a, c}
  PROVE  /\ Cardinality(T) \in Nat /\ Cardinality(T) <= 2
         /\ a = c => Cardinality(T) <= 1
<1>1. IsFiniteSet({a}) /\ Cardinality({a}) = 1
  BY FS_Singleton
<1>2. IsFiniteSet({a} \cup {c}) /\ Cardinality({a} \cup {c}) \in {1, 2}
  BY <1>1, FS_AddElement
<1>3. {a} \cup {c} = {a, c} /\ (a = c => {a} \cup {c} = {a})
  OBVIOUS
<1>4. IsFiniteSet(T) /\ Cardinality(T) <= Cardinality({a, c})
  BY <1>2, <1>3, FS_Subset
<1>5. Cardinality(T) \in Nat
  BY <1>4, FS_CardinalityType
<1>6. QED
  BY <1>1, <1>2, <1>3, <1>4, <1>5

(* Of the steps beyond a host's newest one that this leg has written       *)
(* anywhere there are no more than a host can be ahead.                    *)
LEMMA FewAhead ==
  ASSUME TypeInv, NEW b \in 0 .. Steps, LegInv(b), NEW g, NEW h, g \in Hosts, h \in Hosts,
         NEW t \in Nat, Newest(g) <= t,
         NEW T, \A u \in T : u \in disk[h] \cup inflight[h] /\ t < u
  PROVE  Cardinality(T) \in Nat /\ Cardinality(T) <= Ahead
<1> DEFINE p == Place(b, g)
<1>1. /\ p \in Nat /\ p <= Steps /\ Newest(g) \in Nat /\ b <= Newest(g)
      /\ Lag(b, g)
  BY NewestIs, TrainFleetAssumption
     DEF TypeInv, TypeOK, LegInv, HostInv, Lockstep, Phase, Place
<1>2. \A u \in T : u \in Nat /\ u <= p /\ Due(u)
  <2>1. /\ \A u \in inflight[h] : u \in Nat /\ u <= p /\ Due(u)
        /\ \A u \in disk[h] : u \in Nat /\ u <= Newest(h) /\ (u <= b \/ Due(u))
        /\ Newest(h) <= p /\ Newest(h) \in Nat
    BY NewestIs, TrainFleetAssumption
       DEF TypeInv, TypeOK, LegInv, HostInv, Lockstep, Saves, Place
  <2>2. ASSUME NEW u \in T PROVE u \in Nat /\ u <= p /\ Due(u)
    <3>1. u \in disk[h] \cup inflight[h] /\ t < u
      OBVIOUS
    <3>2. QED
      BY <1>1, <2>1, <3>1
  <2>3. QED
    BY <2>2
<1>3. \A u \in T : u = p \/ (u < p /\ WillCheckpoint(u) /\ Newest(g) < u)
  <2>1. ASSUME NEW u \in T PROVE u = p \/ (u < p /\ WillCheckpoint(u) /\ Newest(g) < u)
    BY <1>1, <1>2, TrainFleetAssumption DEF Due
  <2>2. QED
    BY <2>1
<1> HIDE DEF p
<1>4. ASSUME NEW u, NEW v, u \in T, v \in T, u # p, v # p PROVE async /\ u = v
  BY <1>1, <1>2, <1>3, <1>4 DEF Lag, p
<1>5. CASE \A u \in T : u = p
  <2>1. T \in SUBSET {p, p}
    BY <1>5
  <2>2. Cardinality(T) \in Nat /\ Cardinality(T) <= 1
    BY <2>1, PairCount
  <2>3. QED
    BY <2>2 DEF Ahead
<1>6. CASE \E u \in T : u # p
  <2>1. PICK u \in T : u # p
    BY <1>6
  <2>2. async /\ T \in SUBSET {p, u}
    BY <1>4, <2>1
  <2>3. Cardinality(T) \in Nat /\ Cardinality(T) <= 2
    BY <2>2, PairCount
  <2>4. QED
    BY <2>2, <2>3 DEF Ahead
<1>7. QED
  BY <1>5, <1>6

(* A commit keeps the agreement: it makes the next due step a host's       *)
(* newest, and drops a step only when every host has a newer one.          *)
LEMMA CommitLeg ==
  ASSUME TypeInv, NEW b \in 0 .. Steps, LegInv(b), NEW h \in Hosts, Commit(h)
  PROVE  LegInv(b)'
<1> USE TrainFleetAssumption DEF inputs, loopVars
<1>1. /\ TypeOK /\ \A g \in Hosts : Accounts(g)
      /\ \A g \in Hosts : Newest(g) \in 0 .. Steps
  BY NewestIs DEF TypeInv
<1>2. /\ Lockstep(b)
      /\ \A g \in Hosts : Phase(b, g) /\ Saves(b, g) /\ Pending(g) /\ Lag(b, g) /\ LastSaved(g)
      /\ Keep > Ahead => \A g \in Hosts : Kept(b, g)
  BY DEF LegInv, HostInv
<1>3. PICK i \in 1 .. Steps :
        /\ inflight[h] = {i}
        /\ disk' = [disk EXCEPT ![h] = Retained(disk[h] \cup {i})]
        /\ disk'[h] \subseteq disk[h] \cup {i}
        /\ Newest(h) < i => i \in disk'[h] /\ Newest(h)' = i
  BY CommitDisk
<1>4. /\ UNCHANGED <<async, pc, step, joined, raised>>
      /\ inflight'[h] = {} /\ \A g \in Hosts : g # h => inflight'[g] = inflight[g]
      /\ disk'[h] = Retained(disk[h] \cup {i})
      /\ \A g \in Hosts : g # h => disk'[g] = disk[g] /\ Newest(g)' = Newest(g)
  BY <1>1, <1>3 DEF Commit, TypeOK, Newest
<1>5. /\ Newest(h) < i /\ Due(i) /\ \A g \in Hosts : i <= Place(b, g)
      /\ \A m \in Nat : Newest(h) < m /\ m < i => ~WillCheckpoint(m)
      /\ pc[h] # "restore"
  BY <1>1, <1>2, <1>3 DEF Saves, Lockstep, Accounts
<1>6. i \in disk'[h] /\ Newest(h)' = i
  BY <1>3, <1>5
<1>7. Lockstep(b)'
  <2>1. ASSUME NEW f \in Hosts, NEW g \in Hosts
        PROVE  /\ step'[f] <= Place(b, g)'
               /\ b <= Newest(f)' /\ Newest(f)' <= Place(b, g)'
               /\ \A j \in inflight'[f] : j <= Place(b, g)'
    <3>1. CASE f = h
      BY <1>1, <1>2, <1>4, <1>5, <1>6, <3>1 DEF Lockstep, Place
    <3>2. CASE f # h
      BY <1>2, <1>4, <3>2 DEF Lockstep, Place
    <3>3. QED
      BY <3>1, <3>2
  <2>2. QED
    BY <2>1 DEF Lockstep
<1>8. \A g \in Hosts : HostInv(b, g)'
  <2>1. ASSUME NEW g \in Hosts, g # h PROVE HostInv(b, g)'
    BY <1>2, <1>4, <2>1 DEF HostInv, Phase, Place, Saves, Pending, Begun, Lag, LastSaved
  <2>2. Phase(b, h)'
    BY <1>2, <1>4, <1>5 DEF Phase, Place
  <2>3. Saves(b, h)'
    BY <1>2, <1>3, <1>4, <1>5 DEF Saves
  <2>4. Pending(h)'
    BY <1>1, <1>2, <1>3, <1>4, <1>5, <1>6 DEF Pending, Begun
  <2>5. Lag(b, h)'
    BY <1>1, <1>2, <1>4, <1>5, <1>6 DEF Lag, Place
  <2>6. LastSaved(h)'
    BY <1>1, <1>2, <1>3, <1>4, <1>5, <1>6 DEF LastSaved
  <2>7. QED
    BY <2>1, <2>2, <2>3, <2>4, <2>5, <2>6 DEF HostInv
<1>9. ASSUME Keep > Ahead, NEW g \in Hosts PROVE Kept(b, g)'
  <2>1. \A f \in Hosts : Newest(f) <= Newest(f)'
    BY <1>1, <1>4, <1>5, <1>6
  <2>2. CASE g # h
    <3> SUFFICES ASSUME NEW t \in Nat, 0 < t, b <= t, t <= Newest(g), t = b \/ Due(t),
                        t \notin disk[g], NEW f \in Hosts
                 PROVE  t < Newest(f)'
      BY <1>4, <2>2 DEF Kept
    <3>1. t < Newest(f)
      BY <1>2, <1>9 DEF Kept
    <3>2. Newest(f)' \in Nat
      BY <1>1, <1>4, <1>6
    <3>3. QED
      BY <1>1, <2>1, <3>1, <3>2
  <2>3. CASE g = h
    <3> SUFFICES ASSUME NEW t \in Nat, 0 < t, b <= t, t <= i, t = b \/ Due(t), t \notin disk'[h],
                        NEW f \in Hosts, Newest(f)' <= t
                 PROVE  FALSE
      BY <1>1, <1>4, <1>6, <2>3 DEF Kept
    <3>1. t < i /\ f # h
      BY <1>6
    <3>2. t <= Newest(h)
      BY <1>1, <1>2, <1>5, <3>1 DEF Due, Lockstep
    <3>3. t \in disk[h]
      BY <1>1, <1>2, <1>4, <1>9, <3>1, <3>2 DEF Kept
    <3> DEFINE T == {u \in disk[h] \cup {i} : u > t}
    <3>4. Cardinality(T) \in Nat /\ Cardinality(T) <= Ahead
      <4>1. \A u \in T : u \in disk[h] \cup inflight[h] /\ t < u
        BY <1>3
      <4>2. Newest(f) <= t
        BY <1>4, <3>1
      <4>3. QED
        BY <4>1, <4>2, FewAhead
    <3>5. Cardinality(T) < Keep
      BY <1>9, <3>4 DEF Ahead
    <3>6. QED
      BY <1>4, <3>3, <3>5 DEF Retained
  <2>4. QED
    BY <2>2, <2>3
<1>10. (Keep > Ahead)' => \A g \in Hosts : Kept(b, g)'
  BY <1>4, <1>9 DEF Ahead
<1>11. QED
  BY <1>7, <1>8, <1>10 DEF LegInv

(* A fleet that is launched with the same newest step everywhere begins a  *)
(* leg in agreement, whatever its disks have gone through.                 *)
LEMMA RelaunchLeg ==
  ASSUME TypeInv, Relaunch, NEW b \in 0 .. Steps, \A g \in Hosts : Newest(g) = b
  PROVE  LegInv(b)'
<1> USE TrainFleetAssumption DEF inputs, diskVars
<1>1. TypeOK /\ \A g \in Hosts : Accounts(g)
  BY DEF TypeInv
<1>2. \A g \in Hosts : /\ pc'[g] = "restore" /\ step'[g] = 0 /\ joined'[g] = 0 /\ ~raised'[g]
                        /\ inflight'[g] = {} /\ disk'[g] = disk[g]
                        /\ Newest(g)' = b
  <2>1. \A g \in Hosts : pc[g] \in {"exit", "down"}
    BY DEF Relaunch, Running
  <2>2. \A g \in Hosts : inflight[g] = {}
    BY <1>1, <2>1 DEF Accounts
  <2>3. \A g \in Hosts : /\ pc'[g] = "restore" /\ step'[g] = 0 /\ joined'[g] = 0 /\ ~raised'[g]
    BY DEF Relaunch, Started
  <2>4. \A g \in Hosts : Newest(g)' = Newest(g)
    BY DEF Relaunch, Newest
  <2>5. QED
    BY <2>2, <2>3, <2>4 DEF Relaunch
<1>3. \A g \in Hosts : Place(b, g)' = b
  BY <1>2 DEF Place
<1>4. Lockstep(b)'
  BY <1>2, <1>3 DEF Lockstep
<1>5. \A g \in Hosts : \A s \in disk[g] : s <= b
  BY NewestIs
<1>6. \A g \in Hosts : HostInv(b, g)'
  BY <1>2, <1>3, <1>5 DEF HostInv, Phase, Saves, Pending, Lag, LastSaved
<1>7. \A g \in Hosts : Kept(b, g)'
  <2>1. \A g \in Hosts : b > 0 => b \in disk[g]
    BY NewestIs
  <2>2. QED
    BY <1>2, <2>1 DEF Kept
<1>8. QED
  BY <1>4, <1>6, <1>7 DEF LegInv

(* The first launch begins one too. *)
LEMMA InitLeg == Init => LegInv(0) /\ FirstLeg
<1> SUFFICES ASSUME Init PROVE LegInv(0) /\ FirstLeg
  OBVIOUS
<1> USE TrainFleetAssumption
<1>1. \A g \in Hosts : Newest(g) = 0 /\ Place(0, g) = 0
  <2>1. \A g \in Hosts : disk[g] = {} /\ joined[g] = 0
    BY DEF Init
  <2>2. QED
    BY <2>1 DEF Newest, Place
<1>2. Lockstep(0)
  BY <1>1 DEF Init, Lockstep
<1>3. \A g \in Hosts : HostInv(0, g)
  BY <1>1 DEF Init, HostInv, Phase, Saves, Pending, Lag, LastSaved
<1>4. \A g \in Hosts : Kept(0, g)
  BY <1>1 DEF Kept
<1>5. FirstLeg
  BY DEF Init, FirstLeg
<1>6. QED
  BY <1>2, <1>3, <1>4, <1>5 DEF LegInv

(* Every step keeps a leg in agreement, or begins one. *)
LEMMA LegStep ==
  TypeInv /\ (agreed => \E b \in 0 .. Steps : LegInv(b)) /\ [Next]_vars
    => (agreed => \E b \in 0 .. Steps : LegInv(b))'
<1> SUFFICES ASSUME TypeInv, agreed => \E b \in 0 .. Steps : LegInv(b), [Next]_vars, agreed'
             PROVE  \E b \in 0 .. Steps : LegInv(b)'
  OBVIOUS
<1> USE TrainFleetAssumption
<1>1. CASE Relaunch
  <2>1. \A g, h \in Hosts : Newest(g) = Newest(h)
    BY <1>1 DEF Relaunch
  <2>2. 0 \in Hosts /\ Newest(0) \in 0 .. Steps
    BY NewestIs DEF Hosts
  <2>3. QED
    BY <1>1, <2>1, <2>2, RelaunchLeg
<1>2. CASE \E h \in Hosts : Advance(h) \/ Commit(h) \/ Dies(h) \/ TornDown(h)
  <2>1. PICK h \in Hosts : Advance(h) \/ Commit(h) \/ Dies(h) \/ TornDown(h)
    BY <1>2
  <2>2. agreed' = agreed
    BY <2>1 DEF Advance, Restore, Fetch, DataEnds, BeginStep, Dispatch, EndStep, IntervalSave,
       SaveReturns, EndLoop, FinalSave, FinalSaveRefused, Close, Commit, Dies, TornDown, Gone
  <2>3. PICK b \in 0 .. Steps : LegInv(b)
    BY <2>2
  <2>4. CASE Advance(h)
    <3>1. UNCHANGED diskVars \/ IntervalSave(h) \/ FinalSave(h)
      BY <2>4 DEF Advance, Restore, Fetch, DataEnds, BeginStep, Dispatch, EndStep,
         SaveReturns, EndLoop, FinalSaveRefused, Close
    <3>2. QED
      BY <2>3, <2>4, <3>1, LoopLeg, SaveLeg
  <2>5. CASE Commit(h)
    BY <2>3, <2>5, CommitLeg
  <2>6. CASE Dies(h) \/ TornDown(h)
    <3>1. Gone(h)
      BY <2>6 DEF Dies, TornDown
    <3>2. QED
      BY <2>3, <3>1, GoneLeg
  <2>7. QED
    BY <2>1, <2>4, <2>5, <2>6
<1>3. CASE UNCHANGED vars
  <2>1. PICK b \in 0 .. Steps : LegInv(b)
    BY <1>3 DEF vars
  <2>2. LegInv(b)'
    <3>1. /\ UNCHANGED <<async, pc, step, joined, raised, disk, inflight>>
          /\ \A g \in Hosts : Newest(g)' = Newest(g)
      BY <1>3 DEF vars, inputs, loopVars, diskVars, Newest
    <3>2. Lockstep(b)'
      BY <2>1, <3>1 DEF LegInv, Lockstep, Place
    <3>3. \A g \in Hosts : HostInv(b, g)'
      BY <2>1, <3>1
         DEF LegInv, HostInv, Phase, Place, Saves, Pending, Begun, Lag, LastSaved
    <3>4. (Keep > Ahead)' => \A g \in Hosts : Kept(b, g)'
      BY <2>1, <3>1 DEF LegInv, Ahead, Kept
    <3>5. QED
      BY <3>2, <3>3, <3>4 DEF LegInv
  <2>3. QED
    BY <2>2
<1>4. QED
  BY <1>1, <1>2, <1>3 DEF Next

--------------------------------------------------------------------------------
(* The first leg *)

(* With streams as long as the run no host lacks a batch it asks for. *)
LEMMA NoneLacksData ==
  ASSUME TypeInv, NEW h \in Hosts, LongEnough PROVE ~DataEnds(h)
<1> SUFFICES ASSUME DataEnds(h) PROVE FALSE
  OBVIOUS
<1>1. /\ pc[h] \in {"first", "fetch", "stage"} /\ drawn[h] = supply[h]
      /\ drawn[h] \in Nat /\ joined[h] \in Nat /\ step[h] \in Nat /\ supply[h] \in Nat
      /\ supply[h] >= Steps /\ Steps \in Nat \ {0}
  BY TrainFleetAssumption DEF DataEnds, TypeInv, TypeOK, LongEnough
<1>2. drawn[h] = joined[h]
  BY <1>1 DEF TypeInv, Accounts
<1>3. joined[h] < Steps
  BY <1>1 DEF TypeInv, Accounts
<1>4. QED
  BY <1>1, <1>2, <1>3

(* While nobody is lost no host raises, and none is down. *)
LEMMA FirstLegStep ==
  TypeInv /\ FirstLeg /\ [Next]_vars => FirstLeg'
<1> SUFFICES ASSUME TypeInv, FirstLeg, [Next]_vars, LongEnough', deaths' = 0
             PROVE  /\ agreed'
                    /\ \A g \in Hosts :
                         /\ ~raised'[g] /\ pc'[g] # "down"
                         /\ pc'[g] = "final" => ~WillCheckpoint(Steps)
                         /\ pc'[g] \notin {"closing", "exit"} =>
                              \A s \in disk'[g] \cup inflight'[g] : WillCheckpoint(s)
  BY DEF FirstLeg
<1> USE TrainFleetAssumption DEF At, Goto, inputs, loopVars, diskVars
<1>1. /\ TypeOK /\ \A g \in Hosts : Accounts(g)
      /\ UNCHANGED supply /\ deaths = 0
  <2>1. UNCHANGED supply
    BY DEF Next, Advance, Restore, Fetch, DataEnds, BeginStep, Dispatch, EndStep, IntervalSave,
       SaveReturns, EndLoop, FinalSave, FinalSaveRefused, Close, Commit, Dies, TornDown, Gone,
       Relaunch, vars
  <2>2. UNCHANGED deaths \/ deaths' = deaths + 1
    BY DEF Next, Advance, Restore, Fetch, DataEnds, BeginStep, Dispatch, EndStep, IntervalSave,
       SaveReturns, EndLoop, FinalSave, FinalSaveRefused, Close, Commit, Dies, TornDown, Gone,
       Relaunch, vars
  <2>3. deaths \in Nat
    BY DEF TypeInv, TypeOK
  <2>4. QED
    BY <2>1, <2>2, <2>3 DEF TypeInv
<1>2. LongEnough
  BY <1>1 DEF LongEnough
<1>3. /\ agreed
      /\ \A g \in Hosts :
           /\ ~raised[g] /\ pc[g] # "down"
           /\ pc[g] = "final" => ~WillCheckpoint(Steps)
           /\ pc[g] \notin {"closing", "exit"} =>
                \A s \in disk[g] \cup inflight[g] : WillCheckpoint(s)
  BY <1>1, <1>2 DEF FirstLeg
<1>4. ~Relaunch /\ \A h \in Hosts : ~TornDown(h) /\ ~Dies(h) /\ ~DataEnds(h)
  BY <1>1, <1>2, <1>3, NoneLacksData DEF Relaunch, TornDown, Dies
<1>5. CASE \E h \in Hosts : Commit(h)
  <2>1. PICK h \in Hosts : Commit(h)
    BY <1>5
  <2>2. PICK i \in 1 .. Steps : /\ inflight[h] = {i}
                                /\ disk' = [disk EXCEPT ![h] = Retained(disk[h] \cup {i})]
                                /\ disk'[h] \subseteq disk[h] \cup {i}
    BY <2>1, CommitDisk
  <2>3. \A g \in Hosts : disk'[g] \cup inflight'[g] \subseteq disk[g] \cup inflight[g]
    BY <1>1, <2>1, <2>2 DEF Commit, TypeOK
  <2>4. QED
    BY <1>3, <2>1, <2>3 DEF Commit
<1>6. CASE \E h \in Hosts : Advance(h)
  <2>1. PICK h \in Hosts : Advance(h)
    BY <1>6
  <2>2. CASE Restore(h)
    BY <1>1, <1>3, <2>2 DEF Restore, TypeOK
  <2>3. CASE Fetch(h)
    BY <1>1, <1>3, <2>3 DEF Fetch, Draw, TypeOK
  <2>4. CASE BeginStep(h)
    BY <1>1, <1>3, <2>4 DEF BeginStep, TypeOK
  <2>5. CASE Dispatch(h)
    BY <1>1, <1>3, <2>5 DEF Dispatch, TypeOK
  <2>6. CASE EndStep(h)
    BY <1>1, <1>3, <2>6 DEF EndStep, TypeOK
  <2>7. CASE SaveReturns(h)
    BY <1>1, <1>3, <2>7 DEF SaveReturns, TypeOK
  <2>8. CASE EndLoop(h)
    BY <1>1, <1>3, <2>8 DEF EndLoop, TypeOK
  <2>9. CASE Close(h)
    BY <1>1, <1>3, <2>9 DEF Close, TypeOK
  <2>10. CASE IntervalSave(h)
    <3>1. WillCheckpoint(step[h]) /\ inflight' = [inflight EXCEPT ![h] = {step[h]}]
      BY <1>1, <2>10 DEF IntervalSave, BeginSave, Accounts
    <3>2. QED
      BY <1>1, <1>3, <2>10, <3>1 DEF IntervalSave, TypeOK
  <2>11. CASE FinalSave(h)
    BY <1>1, <1>3, <2>11 DEF FinalSave, BeginSave, TypeOK
  <2>12. ~FinalSaveRefused(h)
    BY <1>1, <1>3 DEF FinalSaveRefused, Accounts
  <2>13. QED
    BY <1>4, <2>1, <2>2, <2>3, <2>4, <2>5, <2>6, <2>7, <2>8, <2>9, <2>10, <2>11, <2>12 DEF Advance
<1>7. CASE UNCHANGED vars
  BY <1>3, <1>7 DEF vars
<1>8. QED
  BY <1>4, <1>5, <1>6, <1>7 DEF Next

--------------------------------------------------------------------------------
(* The invariant *)

(* The strengthening holds of every behaviour of the fleet. *)
THEOREM FleetInvariant == Spec => []FleetInv
<1>1. Init => FleetInv
  <2>1. 0 \in 0 .. Steps
    BY TrainFleetAssumption
  <2>2. QED
    BY <2>1, InitType, InitLeg DEF FleetInv
<1>2. FleetInv /\ [Next]_vars => FleetInv'
  BY TypeStep, LegStep, FirstLegStep DEF FleetInv
<1>3. QED
  BY <1>1, <1>2, PTL DEF Spec

(* A multiple of n leaves no rest. *)
LEMMA MultipleHasNoRest ==
  ASSUME NEW n \in Nat \ {0}, NEW k \in Nat
  PROVE  (n * k) % n = 0
<1> DEFINE d == (n * k) \div n
           r == (n * k) % n
<1>1. n * k \in Nat /\ d \in Nat /\ r \in 0 .. n - 1 /\ n * k = n * d + r
  OBVIOUS
<1> HIDE DEF d, r
<1>2. n * (k - d) = r
  BY <1>1
<1>3. CASE k - d >= 1
  <2>1. n * (k - d - 1) >= 0
    BY <1>1, <1>3
  <2>2. QED
    BY <1>1, <1>2, <2>1
<1>4. CASE k - d <= -1
  <2>1. n * (d - k - 1) >= 0
    BY <1>1, <1>4
  <2>2. QED
    BY <1>1, <1>2, <2>1
<1>5. CASE k = d
  <2>1. r = 0
    BY <1>1, <1>5
  <2>2. QED
    BY <2>1 DEF r
<1>6. QED
  BY <1>1, <1>3, <1>4, <1>5

(* Among any n steps in a row there is a multiple of n. *)
LEMMA MultipleBetween ==
  ASSUME NEW a \in Nat, NEW n \in Nat \ {0}
  PROVE  \E m \in Nat : a < m /\ m <= a + n /\ m % n = 0
<1> DEFINE f == a + n
           q == f \div n
           m == n * q
<1>1. f \in Nat /\ q \in Nat /\ f % n \in 0 .. n - 1
  OBVIOUS
<1>2. f = n * q + (f % n)
  OBVIOUS
<1>3. m \in Nat /\ m <= a + n /\ a < m
  BY <1>1, <1>2
<1>4. m % n = 0
  BY <1>1, MultipleHasNoRest
<1>5. QED
  BY <1>3, <1>4

(* Whoever is lost, the step to which all hosts could go back is on the    *)
(* disk of each, when retention is wider than what a host can be ahead     *)
(* (checkpoints.py:82-110).                                                *)
THEOREM CommonStepIsKept == Spec => []CommonStepKept
<1>1. FleetInv => CommonStepKept
  <2> SUFFICES ASSUME FleetInv, agreed, Keep > Ahead, NEW s \in 0 .. Steps, Common(s), s # 0,
                      NEW h \in Hosts
               PROVE  s \in disk[h]
    BY DEF CommonStepKept
  <2>1. TypeInv /\ \A g \in Hosts : Newest(g) \in 0 .. Steps
    BY NewestIs DEF FleetInv
  <2>2. PICK b \in 0 .. Steps : LegInv(b)
    BY DEF FleetInv
  <2>3. PICK g \in Hosts : s = Newest(g)
    BY DEF Common
  <2>4. s <= Newest(h) /\ b <= s /\ s \in Nat /\ s > 0
    BY <2>2, <2>3, TrainFleetAssumption DEF Common, LegInv, Lockstep
  <2>5. s \in disk[g]
    BY <2>1, <2>3, NewestIs
  <2>6. s = b \/ Due(s)
    <3>1. s <= b \/ Due(s)
      BY <2>2, <2>5 DEF LegInv, HostInv, Saves
    <3>2. QED
      BY <2>4, <3>1
  <2>7. s \in disk[h] \/ s < Newest(g)
    BY <2>2, <2>4, <2>6 DEF LegInv, Kept
  <2>8. QED
    BY <2>3, <2>4, <2>7
<1>2. QED
  BY <1>1, FleetInvariant, PTL

(* Nobody is more than an interval of updates beyond the step to which all *)
(* can go back, two intervals with async_save (train.py:1248-1262).        *)
THEOREM FleetLossIsBounded == Spec => []FleetLossBounded
<1>1. FleetInv => FleetLossBounded
  <2> SUFFICES ASSUME FleetInv, agreed, NEW s \in 0 .. Steps, Common(s), NEW h \in Hosts
               PROVE  step[h] <= s + Ahead * Interval
    BY DEF FleetLossBounded
  <2>1. PICK b \in 0 .. Steps : LegInv(b)
    BY DEF FleetInv
  <2>2. PICK g \in Hosts : s = Newest(g)
    BY DEF Common
  <2>3. /\ step[h] \in Nat /\ Place(b, g) \in Nat /\ s \in Nat
        /\ step[h] <= Place(b, g) /\ Lag(b, g) /\ Interval \in Nat \ {0}
    BY <2>1, TrainFleetAssumption
       DEF FleetInv, TypeInv, TypeOK, LegInv, HostInv, Lockstep, Place
  <2>4. PICK m \in Nat : s < m /\ m <= s + Interval /\ WillCheckpoint(m)
    BY <2>3, MultipleBetween DEF WillCheckpoint
  <2>5. PICK n \in Nat : m < n /\ n <= m + Interval /\ WillCheckpoint(n)
    BY <2>3, MultipleBetween DEF WillCheckpoint
  <2>6. CASE Place(b, g) <= m
    <3>1. step[h] <= s + Interval
      BY <2>3, <2>4, <2>6
    <3>2. QED
      BY <2>3, <3>1 DEF Ahead
  <2>7. CASE m < Place(b, g)
    <3>1. async
      BY <2>2, <2>3, <2>4, <2>7 DEF Lag
    <3>2. ~(n < Place(b, g))
      BY <2>2, <2>3, <2>4, <2>5, <2>7 DEF Lag
    <3>3. step[h] <= s + Interval + Interval
      BY <2>3, <2>4, <2>5, <3>2
    <3>4. QED
      BY <2>3, <3>1, <3>3 DEF Ahead
  <2>8. QED
    BY <2>3, <2>4, <2>6, <2>7
<1>2. QED
  BY <1>1, FleetInvariant, PTL

(* A host that exits has its last step on the disk and leaves nobody in a  *)
(* train step; with streams as long as the run none raises while nobody is *)
(* lost (train.py:952-990).                                                *)
THEOREM FleetEndsTogether == Spec => []EndsTogether
<1>1. FleetInv => EndsTogether
  <2>1. ASSUME FleetInv, agreed, NEW h \in Hosts, pc[h] = "exit"
        PROVE  /\ Newest(h) = Steps
               /\ \A g \in Hosts : pc[g] = "block" => joined[g] <= joined[h]
    <3>1. PICK b \in 0 .. Steps : LegInv(b)
      BY <2>1 DEF FleetInv
    <3>2. ~raised[h] /\ inflight[h] = {}
      BY <2>1 DEF FleetInv, TypeInv, Accounts
    <3>3. Newest(h) = Steps
      BY <2>1, <3>1, <3>2 DEF LegInv, HostInv, LastSaved
    <3>4. Place(b, h) = Steps /\ \A g \in Hosts : Place(b, g) <= Steps
      BY <2>1, <3>1 DEF LegInv, HostInv, Phase
    <3>5. \A g \in Hosts : joined[g] \in Nat
      BY <2>1 DEF FleetInv, TypeInv, TypeOK
    <3>6. QED
      BY <3>3, <3>4, <3>5, TrainFleetAssumption DEF Place
  <2>2. FleetInv /\ LongEnough /\ deaths = 0 => \A h \in Hosts : ~raised[h]
    BY DEF FleetInv, FirstLeg
  <2>3. QED
    BY <2>1, <2>2 DEF EndsTogether, At
<1>2. QED
  BY <1>1, FleetInvariant, PTL

--------------------------------------------------------------------------------
(* What LegEnds stands on, besides fairness: in a leg that began in        *)
(* agreement some host can always go on, and no leg goes on for ever.      *)

(* The guards of Advance(h) and Commit(h). *)
Ready(h) ==
  \/ pc[h] \in {"restore", "head", "train"}
  \/ pc[h] \in {"first", "fetch", "stage"} /\ drawn[h] <= supply[h]
  \/ pc[h] = "block" /\ \A g \in Hosts : joined[g] >= joined[h]
  \/ pc[h] = "save" /\ inflight[h] = {} /\ step[h] \notin disk[h]
  \/ pc[h] = "saving" /\ (async \/ inflight[h] = {})
  \/ pc[h] = "final" /\ (inflight[h] = {} \/ step[h] \in disk[h])
  \/ pc[h] = "closing" /\ inflight[h] = {}
  \/ inflight[h] # {}

SomebodyMoves ==
  agreed /\ (\A h \in Hosts : ~At(h, "down")) =>
    (\E h \in Hosts : Ready(h)) \/ \A h \in Hosts : At(h, "exit")

(* A host's own disk is never ahead of its own steps, whatever the others   *)
(* did.                                                                    *)
Own(h) ==
  /\ drawn[h] <= supply[h] /\ joined[h] <= Steps
  /\ pc[h] \in {"first", "head", "fetch", "train", "stage", "block", "save", "saving", "final"} =>
       \A s \in disk[h] \cup inflight[h] : s <= step[h]
  /\ pc[h] = "save" => \A s \in disk[h] \cup inflight[h] : s < step[h]

EachOwn == \A h \in Hosts : Own(h)

(* The train steps behind a host, and its way through the present one.     *)
Rank(h) ==
  CASE pc[h] = "restore" -> 0
    [] pc[h] = "first"   -> 1
    [] pc[h] = "stage"   -> 2
    [] pc[h] = "block"   -> 3
    [] pc[h] = "save"    -> 4
    [] pc[h] = "saving"  -> 5
    [] pc[h] = "head"    -> 6
    [] pc[h] = "fetch"   -> 7
    [] pc[h] = "train"   -> 8
    [] pc[h] = "final"   -> 9
    [] pc[h] = "closing" -> 10
    [] OTHER             -> 11

Work(h) == 24 * joined[h] + 2 * Rank(h) + IF inflight[h] = {} THEN 1 ELSE 0

OneWorks ==
  \E h \in Hosts : Work(h)' > Work(h) /\ \A g \in Hosts \ {h} : Work(g)' = Work(g)

WorkBounded == \A h \in Hosts : Work(h) \in 0 .. 24 * Steps + 23

(* One host's step keeps its own disk behind its own steps. *)
LEMMA OwnAdvance ==
  ASSUME TypeInv, EachOwn, NEW h \in Hosts, Advance(h) PROVE EachOwn'
<1> USE TrainFleetAssumption DEF At, Goto, inputs, diskVars
<1>1. /\ TypeOK /\ Accounts(h) /\ Own(h)
      /\ step[h] \in Nat /\ joined[h] \in Nat /\ drawn[h] \in Nat /\ supply[h] \in Nat
      /\ disk[h] \subseteq 1 .. Steps /\ inflight[h] \subseteq 1 .. Steps
  <2>1. TypeOK /\ Accounts(h) /\ Own(h)
    BY DEF TypeInv, EachOwn
  <2>2. supply[h] \in Nat
    <3>1. supply[h] \in Lengths
      BY <2>1 DEF TypeOK
    <3>2. QED
      BY <3>1
  <2>3. step[h] \in Nat /\ joined[h] \in Nat /\ drawn[h] \in Nat
    BY <2>1 DEF TypeOK
  <2>4. disk[h] \subseteq 1 .. Steps /\ inflight[h] \subseteq 1 .. Steps
    BY <2>1 DEF TypeOK
  <2>5. QED
    BY <2>1, <2>2, <2>3, <2>4
<1>2. ASSUME NEW g \in Hosts, g # h PROVE Own(g)'
  <2>1. Own(g)
    BY DEF EachOwn
  <2>2. /\ pc'[g] = pc[g] /\ step'[g] = step[g] /\ drawn'[g] = drawn[g]
        /\ joined'[g] = joined[g] /\ supply' = supply /\ disk'[g] = disk[g]
        /\ inflight'[g] = inflight[g]
    BY <1>1, <1>2 DEF TypeOK, Advance, Restore, Fetch, Draw, DataEnds, BeginStep, Dispatch, EndStep,
       IntervalSave, BeginSave, SaveReturns, EndLoop, FinalSave, FinalSaveRefused, Close
  <2>3. QED
    BY <2>1, <2>2 DEF Own
<1>3. Own(h)'
  <2>1. CASE Restore(h)
    <3>1. \A s \in disk[h] : s <= Newest(h)
      BY NewestIs
    <3>2. QED
      BY <1>1, <2>1, <3>1 DEF Restore, TypeOK, Accounts, Own
  <2>2. CASE Fetch(h)
    BY <1>1, <2>2 DEF Fetch, Draw, TypeOK, Own
  <2>3. CASE DataEnds(h)
    BY <1>1, <2>3 DEF DataEnds, TypeOK, Own
  <2>4. CASE BeginStep(h)
    BY <1>1, <2>4 DEF BeginStep, TypeOK, Own
  <2>5. CASE Dispatch(h)
    BY <1>1, <2>5 DEF Dispatch, TypeOK, Accounts, Own
  <2>6. CASE EndStep(h)
    BY <1>1, <2>6 DEF EndStep, TypeOK, Own
  <2>7. CASE IntervalSave(h)
    BY <1>1, <2>7 DEF IntervalSave, BeginSave, TypeOK, Own
  <2>8. CASE SaveReturns(h)
    BY <1>1, <2>8 DEF SaveReturns, TypeOK, Own
  <2>9. CASE EndLoop(h)
    BY <1>1, <2>9 DEF EndLoop, TypeOK, Own
  <2>10. CASE FinalSave(h)
    BY <1>1, <2>10 DEF FinalSave, BeginSave, TypeOK, Own
  <2>11. CASE FinalSaveRefused(h)
    BY <1>1, <2>11 DEF FinalSaveRefused, TypeOK, Own
  <2>12. CASE Close(h)
    BY <1>1, <2>12 DEF Close, TypeOK, Own
  <2>13. QED
    BY <2>1, <2>2, <2>3, <2>4, <2>5, <2>6, <2>7, <2>8, <2>9, <2>10, <2>11, <2>12 DEF Advance
<1>4. QED
  BY <1>2, <1>3 DEF EachOwn

(* It holds in every behaviour. *)
LEMMA OwnHolds == Spec => []EachOwn
<1>1. Init => EachOwn
  <2> SUFFICES ASSUME Init, NEW h \in Hosts PROVE Own(h)
    BY DEF EachOwn
  <2>1. supply[h] \in Nat /\ Steps \in Nat
    BY TrainFleetAssumption DEF Init
  <2>2. /\ drawn[h] = 0 /\ joined[h] = 0 /\ pc[h] = "restore"
    BY DEF Init
  <2>3. QED
    BY <2>1, <2>2 DEF Own
<1>2. FleetInv /\ EachOwn /\ [Next]_vars => EachOwn'
  <2> SUFFICES ASSUME TypeInv, EachOwn, [Next]_vars PROVE EachOwn'
    BY DEF FleetInv
  <2> USE DEF At, Goto, inputs, loopVars, diskVars
  <2>0. TypeOK
    BY DEF TypeInv
  <2>1. ASSUME NEW h \in Hosts, Advance(h) PROVE EachOwn'
    BY <2>1, OwnAdvance
  <2>2. ASSUME NEW h \in Hosts, Commit(h) PROVE EachOwn'
    <3>1. PICK i \in 1 .. Steps : /\ inflight[h] = {i}
                                  /\ disk' = [disk EXCEPT ![h] = Retained(disk[h] \cup {i})]
                                  /\ disk'[h] \subseteq disk[h] \cup {i}
      BY <2>2, CommitDisk
    <3>2. \A g \in Hosts : disk'[g] \cup inflight'[g] \subseteq disk[g] \cup inflight[g]
      BY <2>0, <2>2, <3>1 DEF Commit, TypeOK
    <3>3. QED
      BY <2>2, <3>2 DEF Commit, EachOwn, Own
  <2>3. ASSUME NEW h \in Hosts, Dies(h) \/ TornDown(h) PROVE EachOwn'
    BY <2>0, <2>3 DEF Dies, TornDown, Gone, TypeOK, EachOwn, Own
  <2>4. CASE Relaunch
    <3> SUFFICES ASSUME NEW h \in Hosts PROVE Own(h)'
      BY DEF EachOwn
    <3>1. supply[h] \in Nat /\ Steps \in Nat /\ supply' = supply
      <4>1. supply[h] \in Lengths /\ supply' = supply
        BY <2>0, <2>4 DEF Relaunch, TypeOK
      <4>2. QED
        BY <4>1, TrainFleetAssumption
    <3>2. drawn'[h] = 0 /\ joined'[h] = 0 /\ pc'[h] = "restore"
      BY <2>4 DEF Relaunch, Started
    <3>3. QED
      BY <3>1, <3>2 DEF Own
  <2>5. CASE UNCHANGED vars
    BY <2>5 DEF vars, EachOwn, Own
  <2>6. QED
    BY <2>1, <2>2, <2>3, <2>4, <2>5 DEF Next
<1>3. QED
  BY <1>1, <1>2, FleetInvariant, PTL DEF Spec

(* A host that is not in the train step and has not finished can go on. *)
LEMMA OnlyTheStepWaits ==
  ASSUME FleetInv, EachOwn, NEW h \in Hosts, pc[h] \notin {"block", "exit", "down"}
  PROVE  Ready(h)
<1>1. pc[h] \in {"restore", "first", "head", "fetch", "train", "stage", "save", "saving", "final",
                 "closing"}
  BY DEF FleetInv, TypeInv, TypeOK
<1>2. Own(h) /\ step[h] \in Nat
  BY DEF EachOwn, FleetInv, TypeInv, TypeOK
<1>3. pc[h] = "save" => step[h] \notin disk[h]
  BY <1>2 DEF Own
<1>4. QED
  BY <1>1, <1>2, <1>3 DEF Own, Ready

(* While the hosts agree, nothing makes the ones that wait in a train step *)
(* wait for each other, nor for one that has finished; only the loss of a  *)
(* host, or the end of its data, after which it is down, can leave them    *)
(* there (train.py:979-990).                                               *)
THEOREM NeverAllWaiting == Spec => []SomebodyMoves
<1>1. FleetInv /\ EachOwn => SomebodyMoves
  <2> SUFFICES ASSUME FleetInv, EachOwn, agreed, \A g \in Hosts : pc[g] # "down",
                      NEW h \in Hosts, pc[h] # "exit"
               PROVE  \E g \in Hosts : Ready(g)
    BY DEF SomebodyMoves, At
  <2>1. PICK b \in 0 .. Steps : LegInv(b)
    BY DEF FleetInv
  <2>2. \A g \in Hosts : joined[g] \in Nat /\ step[g] \in Nat /\ Place(b, g) = b + joined[g]
    BY DEF FleetInv, TypeInv, TypeOK, Place
  <2>3. SUFFICES ASSUME pc[h] = "block", ~Ready(h) PROVE \E g \in Hosts : Ready(g)
    BY OnlyTheStepWaits
  <2>4. PICK g \in Hosts : joined[g] < joined[h]
    BY <2>2, <2>3 DEF Ready
  <2>5. pc[g] # "exit"
    BY <2>1, <2>2, <2>4, TrainFleetAssumption DEF LegInv, HostInv, Phase
  <2>6. ASSUME pc[g] = "block" PROVE Ready(g)
    <3>1. step[h] + 1 = Place(b, h)
      BY <2>1, <2>3 DEF LegInv, HostInv, Phase
    <3>2. \A k \in Hosts : step[h] <= Place(b, k)
      BY <2>1 DEF LegInv, Lockstep
    <3>3. \A k \in Hosts : joined[k] >= joined[g]
      BY <2>2, <2>4, <3>1, <3>2
    <3>4. QED
      BY <2>6, <3>3 DEF Ready
  <2>7. QED
    BY <2>5, <2>6, OnlyTheStepWaits
<1>2. QED
  BY <1>1, FleetInvariant, OwnHolds, PTL

(* A step is work of one host, unless it is the next launch. *)
LEMMA StepWorks ==
  ASSUME TypeInv, [Next]_vars PROVE [Relaunch \/ OneWorks]_vars
<1> USE DEF At, Goto, inputs, loopVars, diskVars
<1>1. TypeOK /\ \A g \in Hosts : joined[g] \in Nat
  BY DEF TypeInv, TypeOK
<1>2. ASSUME NEW h \in Hosts, Advance(h) \/ Commit(h) \/ Dies(h) \/ TornDown(h)
      PROVE  OneWorks
  <2>1. Work(h)' > Work(h)
    <3> USE <1>1 DEF TypeOK, Work, Rank
    <3>1. CASE Restore(h) \/ BeginStep(h) \/ EndLoop(h) \/ EndStep(h)
      BY <3>1 DEF Restore, BeginStep, EndLoop, EndStep
    <3>2. CASE Fetch(h) \/ DataEnds(h)
      BY <3>2 DEF Fetch, Draw, DataEnds
    <3>3. CASE Dispatch(h)
      BY <3>3 DEF Dispatch
    <3>4. CASE IntervalSave(h) \/ SaveReturns(h)
      BY <3>4 DEF IntervalSave, BeginSave, SaveReturns
    <3>5. CASE FinalSave(h) \/ FinalSaveRefused(h) \/ Close(h)
      BY <3>5 DEF FinalSave, BeginSave, FinalSaveRefused, Close
    <3>6. CASE Commit(h)
      BY <3>6 DEF Commit
    <3>7. CASE Dies(h) \/ TornDown(h)
      BY <3>7 DEF Dies, TornDown, Gone, Running
    <3>8. QED
      BY <1>2, <3>1, <3>2, <3>3, <3>4, <3>5, <3>6, <3>7 DEF Advance
  <2>2. ASSUME NEW g \in Hosts \ {h} PROVE Work(g)' = Work(g)
    <3>1. pc'[g] = pc[g] /\ joined'[g] = joined[g] /\ inflight'[g] = inflight[g]
      BY <1>1, <1>2 DEF TypeOK, Advance, Restore, Fetch, Draw, DataEnds, BeginStep, Dispatch, EndStep,
         IntervalSave, BeginSave, SaveReturns, EndLoop, FinalSave, FinalSaveRefused, Close, Commit,
         Dies, TornDown, Gone
    <3>2. QED
      BY <3>1 DEF Work, Rank
  <2>3. QED
    BY <2>1, <2>2 DEF OneWorks
<1>3. QED
  BY <1>2 DEF Next

(* No leg goes on for ever: between two launches every step is the work of *)
(* one host and takes back no other host's, and there is a bounded amount  *)
(* of it (train.py:952-992).                                               *)
THEOREM EveryStepCounts == Spec => []WorkBounded /\ [][Relaunch \/ OneWorks]_vars
<1>1. FleetInv /\ EachOwn => WorkBounded
  <2> SUFFICES ASSUME FleetInv, EachOwn, NEW h \in Hosts PROVE Work(h) \in 0 .. 24 * Steps + 23
    BY DEF WorkBounded
  <2>1. joined[h] \in Nat /\ joined[h] <= Steps /\ Steps \in Nat
    BY TrainFleetAssumption DEF FleetInv, TypeInv, TypeOK, EachOwn, Own
  <2>2. Rank(h) \in 0 .. 11
    BY DEF Rank
  <2>3. QED
    BY <2>1, <2>2 DEF Work
<1>2. FleetInv /\ [Next]_vars => [Relaunch \/ OneWorks]_vars
  BY StepWorks DEF FleetInv
<1>3. QED
  BY <1>1, <1>2, FleetInvariant, OwnHolds, PTL DEF Spec

================================================================================
