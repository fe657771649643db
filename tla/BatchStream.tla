------------------------------ MODULE BatchStream ------------------------------
(***************************************************************************)
(* What any training data iterator promises its consumer: next() returns   *)
(* the source's batches one by one, in order, and raises once they are     *)
(* gone.  This is the iterator without a queue in front of it, the         *)
(* behaviour the prefetching wrappers claim to leave unchanged.            *)
(***************************************************************************)
EXTENDS Naturals, Sequences

CONSTANT Length

VARIABLES
  consumer,   \* "busy", "waiting" inside next(), or "stopped" by its raise
  delivered   \* the batches returned so far

vars == <<consumer, delivered>>

Init ==
  /\ consumer = "busy"
  /\ delivered = <<>>

Ask ==
  /\ consumer = "busy"
  /\ consumer' = "waiting"
  /\ UNCHANGED delivered

Deliver ==
  /\ consumer = "waiting"
  /\ Len(delivered) < Length
  /\ delivered' = Append(delivered, Len(delivered) + 1)
  /\ consumer' = "busy"

Raise ==
  /\ consumer = "waiting"
  /\ Len(delivered) >= Length
  /\ consumer' = "stopped"
  /\ UNCHANGED delivered

Next == Ask \/ Deliver \/ Raise

SafeSpec == Init /\ [][Next]_vars

Spec == SafeSpec /\ WF_vars(Deliver \/ Raise)

================================================================================
