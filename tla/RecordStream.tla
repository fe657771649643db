------------------------------ MODULE RecordStream -----------------------------
(***************************************************************************)
(* The streaming source of pretraining text on every host of a slice:      *)
(* runtime.data._ResilientRecordStream over a Hugging Face streaming       *)
(* dataset that StreamingHuggingFaceIterator shuffles with one seed and    *)
(* splits by process index.                                                *)
(*                                                                         *)
(* The seed and the epoch fix the order of a whole epoch, the same on      *)
(* every host; a host reads the places of that order that are its own.  A  *)
(* transient failure is answered by a rebuild: the host moves to the next  *)
(* epoch, alone, and reads it from its head.                               *)
(***************************************************************************)
EXTENDS Naturals, Sequences

CONSTANTS
  N,          \* process_count
  Records,    \* documents in the dataset, numbered 1 .. Records
  Shuffles,   \* the orders an epoch can have
  Attempts,   \* _STREAM_REBUILD_ATTEMPTS
  MaxFaults   \* bound: transient failures in a behaviour

Hosts == 0 .. N - 1
Documents == 1 .. Records
Places == 1 .. Records
Epochs == 0 .. MaxFaults

ASSUME RecordStreamAssumption ==
  /\ N \in Nat \ {0}
  /\ Records \in Nat
  /\ Attempts \in Nat \ {0}
  /\ MaxFaults \in Nat
  /\ Shuffles \subseteq [Places -> Documents]
  /\ \A f \in Shuffles : \A p, q \in Places : f[p] = f[q] => p = q

VARIABLES
  order,      \* order[e]: the document at each place of epoch e
  rebuilds,   \* rebuilds[h]: also the epoch host h is reading
  given,      \* given[h][e]: the places host h was given in epoch e
  attempt,    \* attempt[h]: rebuilds of the incident under way, 0 for none
  streak,     \* history: failures of host h since its last record
  faults      \* transient failures so far

recordVars == <<order, rebuilds, given, attempt, streak, faults>>

RecordTypeOK ==
  /\ order \in [Epochs -> Shuffles]
  /\ rebuilds \in [Hosts -> Epochs]
  /\ given \in [Hosts -> [Epochs -> SUBSET Places]]
  /\ attempt \in [Hosts -> 0 .. Attempts]
  /\ streak \in [Hosts -> Nat]
  /\ faults \in Epochs

RecordInit ==
  /\ order \in [Epochs -> Shuffles]
  /\ rebuilds = [h \in Hosts |-> 0]
  /\ given = [h \in Hosts |-> [e \in Epochs |-> {}]]
  /\ attempt = [h \in Hosts |-> 0]
  /\ streak = [h \in Hosts |-> 0]
  /\ faults = 0

(* Fault: one place is split off to two hosts.                             *)
ShareOverlapping(h) == {p \in Places : (p - 1) % N = h \/ p = N}

(* split_dataset_by_node: every N-th place of the epoch, from the rank on. *)
Share(h) == {p \in Places : (p - 1) % N = h}

Left(h) == Share(h) \ given[h][rebuilds[h]]

(* Fault: the budget of rebuilds is spent by all incidents together.       *)
ServeKeepingAttempt(h, p) ==
  /\ p \in Left(h)
  /\ \A q \in Left(h) : p <= q
  /\ given' = [given EXCEPT ![h][rebuilds[h]] = @ \cup {p}]
  /\ streak' = [streak EXCEPT ![h] = 0]
  /\ UNCHANGED <<order, rebuilds, attempt, faults>>

(* next() of the current iterator returns the record at place p; one that  *)
(* a rebuild was waiting for ends the incident.                            *)
Serve(h, p) ==
  /\ p \in Left(h)
  /\ \A q \in Left(h) : p <= q
  /\ given' = [given EXCEPT ![h][rebuilds[h]] = @ \cup {p}]
  /\ attempt' = [attempt EXCEPT ![h] = 0]
  /\ streak' = [streak EXCEPT ![h] = 0]
  /\ UNCHANGED <<order, rebuilds, faults>>

Fails(h) ==
  /\ faults < MaxFaults
  /\ faults' = faults + 1
  /\ streak' = [streak EXCEPT ![h] = @ + 1]

(* A transient failure, of the stream or of the iterator a rebuild has     *)
(* just made, with attempts left: new sessions, set_epoch, iter().         *)
Rebuild(h) ==
  /\ Fails(h)
  /\ attempt[h] < Attempts
  /\ attempt' = [attempt EXCEPT ![h] = @ + 1]
  /\ rebuilds' = [rebuilds EXCEPT ![h] = @ + 1]
  /\ UNCHANGED <<order, given>>

(* The last rebuild of an incident fails as well: the error is raised.     *)
GiveUp(h) ==
  /\ Fails(h)
  /\ attempt[h] = Attempts
  /\ UNCHANGED <<order, rebuilds, given, attempt>>

(* next() raises StopIteration, or an error no rebuild would cure.         *)
Exhausted(h) == Left(h) = {} /\ UNCHANGED recordVars
Broken == UNCHANGED recordVars

--------------------------------------------------------------------------------
(* Hosts that read the same epoch are never given the same document.       *)
EpochDisjoint ==
  \A e \in Epochs : \A h, k \in Hosts :
    h # k => \A p \in given[h][e], q \in given[k][e] : order[e][p] # order[e][q]

(* The promise of data.py:828-829, of data.py:662-665 and of               *)
(* train.py:731-732: the stream is split disjointly over the hosts.        *)
HostsDisjoint ==
  \A e, f \in Epochs : \A h, k \in Hosts :
    h # k => \A p \in given[h][e], q \in given[k][f] : order[e][p] # order[f][q]

================================================================================
