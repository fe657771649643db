-------------------------------- MODULE Prefetch -------------------------------
(***************************************************************************)
(* A prefetching iterator and its consumer.  The consumer is a training    *)
(* loop: it calls next() when it likes, never twice at once, and never     *)
(* again once next() has raised (train.run leaves its loop, sft.train ends *)
(* its own).  That restraint matters: the thread puts its sentinel once,   *)
(* so a further call would block for ever.                                 *)
(***************************************************************************)
EXTENDS HostQueue

VARIABLES
  consumer,   \* "busy", "waiting" or "stopped"
  delivered   \* history: the batches next() has returned

prefetchVars == <<position, worker, hand, queue, consumer, delivered>>

PrefetchTypeOK ==
  /\ QueueTypeOK
  /\ consumer \in {"busy", "waiting", "stopped"}
  /\ delivered \in Seq(Nat)

(* The iterator is made for a depth of one or more, and starts its thread at once. *)
PrefetchInit ==
  /\ Depth >= 1
  /\ position = 0
  /\ worker = "read"
  /\ hand = Stop
  /\ queue = <<>>
  /\ consumer = "busy"
  /\ delivered = <<>>

(* The consumer enters next(). *)
Ask ==
  /\ consumer = "busy"
  /\ consumer' = "waiting"
  /\ UNCHANGED <<queueVars, delivered>>

(* Fault: the failure is raised as soon as the thread has died, ahead of   *)
(* the batches still queued.                                               *)
AnswerErrorFirst ==
  /\ consumer = "waiting"
  /\ \E entry \in 0 .. Length :
       /\ Take(entry)
       /\ consumer' = IF worker = "exited" THEN "stopped" ELSE "busy"
       /\ delivered' = IF worker = "exited" THEN delivered
                                            ELSE Append(delivered, entry)

(* next() returns the oldest entry, or raises when that is the sentinel. *)
Answer ==
  /\ consumer = "waiting"
  /\ \E entry \in 0 .. Length :
       /\ Take(entry)
       /\ IF entry = Stop
            THEN consumer' = "stopped" /\ UNCHANGED delivered
            ELSE consumer' = "busy" /\ delivered' = Append(delivered, entry)

FetchThread == Worker /\ UNCHANGED <<consumer, delivered>>

PrefetchNext == FetchThread \/ Ask \/ Answer

(***************************************************************************)
(* The thread is a running thread and a get() returns once an entry is     *)
(* there.  Nothing obliges the consumer to ask.                            *)
(***************************************************************************)
PrefetchSpec == PrefetchInit /\ [][PrefetchNext]_prefetchVars /\ WF_prefetchVars(FetchThread) /\ WF_prefetchVars(Answer)

--------------------------------------------------------------------------------
(* The order promise of train.py:428-434: behind the queue the consumer    *)
(* sees exactly the unqueued iterator, including that a failure surfaces   *)
(* only after every batch fetched before it, and that a call returns.      *)
Stream == INSTANCE BatchStream WITH
  Length <- Length, consumer <- consumer, delivered <- delivered
StreamSpec == Stream!Spec

(* How far a position read with get_state can run ahead of consumption:    *)
(* the whole queue and the one batch a blocked put holds, data.py:761-768. *)
LookaheadBound == position - Len(delivered) <= Depth + 1

================================================================================
