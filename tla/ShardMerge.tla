------------------------------- MODULE ShardMerge ------------------------------
(***************************************************************************)
(* What a pool of producers promises the training loop: every next()       *)
(* returns the batch that follows the last one of some producer's shard,   *)
(* and it raises only when a producer has failed.                          *)
(***************************************************************************)
EXTENDS Naturals

CONSTANT Workers

VARIABLES
  consumer,  \* "busy", "waiting" inside next(), or "raised"
  latest,    \* latest[w]: how many batches of w's shard were returned
  failed     \* the producers that are gone or on their way out

vars == <<consumer, latest, failed>>

Init ==
  /\ consumer = "busy"
  /\ latest = [w \in Workers |-> 0]
  /\ failed = {}

Fail(w) ==
  /\ failed' = failed \cup {w}
  /\ UNCHANGED <<consumer, latest>>

Ask ==
  /\ consumer = "busy"
  /\ consumer' = "waiting"
  /\ UNCHANGED <<latest, failed>>

Deliver(w) ==
  /\ consumer = "waiting"
  /\ latest' = [latest EXCEPT ![w] = @ + 1]
  /\ consumer' = "busy"
  /\ UNCHANGED failed

Raise ==
  /\ consumer = "waiting"
  /\ failed # {}
  /\ consumer' = "raised"
  /\ UNCHANGED <<latest, failed>>

Next == Ask \/ Raise \/ \E w \in Workers : Fail(w) \/ Deliver(w)

Spec == Init /\ [][Next]_vars

================================================================================
