------------------------------ MODULE SourceFetcher -----------------------------
(***************************************************************************)
(* One stream of a MixedVisionTextIterator and its fetch thread            *)
(* (runtime/vision_data.py:262-303, 452-487): the thread draws a record    *)
(* from the shard, reopening it on failure and on exhaustion, prepares     *)
(* rows from it and puts them into a bounded queue; the packer takes them. *)
(*                                                                         *)
(* A record is its place in the shard, and docs says how many rows it      *)
(* yields, none when it is skipped.  Rows are numbered as they are put.    *)
(* The stream is a generator: after it has raised it is finished, and the  *)
(* next read of it says StopIteration.  An open either succeeds or raises, *)
(* with the retries of open_streaming_dataset already spent.               *)
(***************************************************************************)
EXTENDS Integers, Sequences

CONSTANTS
  Name,       \* the stream's name
  Shard,      \* records of the shard
  MaxDocs,    \* rows a record yields at most
  Allowance,  \* failures after which a draw raises (6 in the code)
  RowBuffer,  \* capacity of the queue
  Asks,       \* bound: calls of get()
  MaxFaults   \* bound: failures of the network

ASSUME SourceFetcherAssumption ==
  /\ Shard \in Nat \ {0} /\ MaxDocs \in Nat \ {0}
  /\ Allowance \in Nat \ {0}
  /\ RowBuffer \in Nat \ {0}
  /\ Asks \in Nat /\ MaxFaults \in Nat

VARIABLES
  docs,      \* what the records of the shard yield
  live,      \* the generator has not raised yet
  left,      \* records it has still to give
  seen,      \* history: places given since the last StopIteration
  failures,  \* of the draw under way
  thread,    \* where the fetch thread is
  hand,      \* rows of the record in hand that are still to be put
  sent,      \* rows put so far
  queue,     \* the bounded queue
  consumer,  \* "busy", "waiting" in get(), or "raised"
  got,       \* the last row that get() returned
  asks,      \* calls so far
  faults     \* failures so far

shard == <<docs, live, left, seen>>
packer == <<consumer, got, asks>>
vars == <<shard, failures, thread, hand, sent, queue, packer, faults>>

(* The entry that says the thread has died: _SENTINEL.                     *)
Stop == 0

(* "rewind" is the open after StopIteration, "reopen" the one after a      *)
(* failed draw, "fault" the thread with an error to report.                *)
ThreadStates == {"draw", "rewind", "reopen", "put", "fault", "gone"}

TypeOK ==
  /\ docs \in [1 .. Shard -> 0 .. MaxDocs]
  /\ live \in BOOLEAN
  /\ left \in 0 .. Shard
  /\ seen \subseteq 1 .. Shard
  /\ failures \in 0 .. Allowance
  /\ thread \in ThreadStates
  /\ hand \in 0 .. MaxDocs
  /\ sent \in Nat
  /\ queue \in Seq(Nat) /\ Len(queue) <= RowBuffer
  /\ consumer \in {"busy", "waiting", "raised"}
  /\ got \in Nat
  /\ asks \in 0 .. Asks
  /\ faults \in 0 .. MaxFaults

(* The streams are opened, and the thread started, by the constructor.     *)
Init ==
  /\ docs \in [1 .. Shard -> 0 .. MaxDocs]
  /\ \E p \in 1 .. Shard : docs[p] > 0
  /\ live = TRUE /\ left = Shard /\ seen = {}
  /\ failures = 0
  /\ thread = "draw"
  /\ hand = 0 /\ sent = 0 /\ queue = <<>>
  /\ consumer = "busy" /\ got = 0 /\ asks = 0
  /\ faults = 0

--------------------------------------------------------------------------------
(* _draw *)

(* next(stream) gives a record, the draw returns and prepare makes rows.   *)
Serve ==
  /\ thread = "draw"
  /\ live /\ left > 0
  /\ LET place == Shard - left + 1
     IN  /\ seen' = seen \cup {place}
         /\ hand' = docs[place]
         /\ thread' = IF docs[place] = 0 THEN "draw" ELSE "put"
  /\ left' = left - 1
  /\ failures' = 0
  /\ UNCHANGED <<docs, live, sent, queue, packer, faults>>

(* It says StopIteration, at the shard's end or because it is finished.    *)
Exhaust ==
  /\ thread = "draw"
  /\ ~live \/ left = 0
  /\ live' = FALSE
  /\ seen' = {}
  /\ thread' = "rewind"
  /\ UNCHANGED <<docs, left, failures, hand, sent, queue, packer, faults>>

(* It fails.  The last failure of the allowance is raised.                 *)
Break ==
  /\ thread = "draw"
  /\ live
  /\ faults < MaxFaults /\ faults' = faults + 1
  /\ live' = FALSE
  /\ failures' = failures + 1
  /\ thread' = IF failures + 1 >= Allowance THEN "fault" ELSE "reopen"
  /\ UNCHANGED <<docs, left, seen, hand, sent, queue, packer>>

(* Fault: the reopened stream goes on behind the record it failed on.      *)
OpenPastFailure ==
  /\ thread \in {"rewind", "reopen"}
  /\ live' = TRUE
  /\ left' = IF thread = "reopen" /\ left > 0 THEN left - 1 ELSE Shard
  /\ thread' = "draw"
  /\ UNCHANGED <<docs, seen, failures, hand, sent, queue, packer, faults>>

(* The stream is opened again, from the head of its shard.                 *)
Open ==
  /\ thread \in {"rewind", "reopen"}
  /\ live' = TRUE
  /\ left' = Shard
  /\ thread' = "draw"
  /\ UNCHANGED <<docs, seen, failures, hand, sent, queue, packer, faults>>

(* The open after a failed draw raises: it is passed over, and the draw    *)
(* goes back to the finished stream.                                       *)
ReopenRaises ==
  /\ thread = "reopen"
  /\ faults < MaxFaults /\ faults' = faults + 1
  /\ thread' = "draw"
  /\ UNCHANGED <<shard, failures, hand, sent, queue, packer>>

(* The open after StopIteration raises: nothing holds that.                *)
RewindRaises ==
  /\ thread = "rewind"
  /\ faults < MaxFaults /\ faults' = faults + 1
  /\ thread' = "fault"
  /\ UNCHANGED <<shard, failures, hand, sent, queue, packer>>

(* An exception escapes prepare, after a draw that succeeded.              *)
PrepareRaises ==
  /\ thread = "draw"
  /\ live /\ left > 0
  /\ seen' = seen \cup {Shard - left + 1}
  /\ left' = left - 1
  /\ failures' = 0
  /\ thread' = "fault"
  /\ UNCHANGED <<docs, live, hand, sent, queue, packer, faults>>

--------------------------------------------------------------------------------
(* _SourceFetcher._run and get *)

(* Fault: a put that does not wait for room and loses the row.             *)
PutLossy ==
  /\ thread = "put"
  /\ queue' = IF Len(queue) < RowBuffer THEN Append(queue, sent + 1) ELSE queue
  /\ sent' = sent + 1
  /\ hand' = hand - 1
  /\ thread' = IF hand = 1 THEN "draw" ELSE "put"
  /\ UNCHANGED <<shard, failures, packer, faults>>

Put ==
  /\ thread = "put"
  /\ Len(queue) < RowBuffer
  /\ queue' = Append(queue, sent + 1)
  /\ sent' = sent + 1
  /\ hand' = hand - 1
  /\ thread' = IF hand = 1 THEN "draw" ELSE "put"
  /\ UNCHANGED <<shard, failures, packer, faults>>

(* Fault: the thread does not wait for room to report its error.           *)
ReportNowait ==
  /\ thread = "fault"
  /\ queue' = IF Len(queue) < RowBuffer THEN Append(queue, Stop) ELSE queue
  /\ thread' = "gone"
  /\ UNCHANGED <<shard, failures, hand, sent, packer, faults>>

(* The error is stored, and the last entry of the queue is the sentinel.   *)
Report ==
  /\ thread = "fault"
  /\ Len(queue) < RowBuffer
  /\ queue' = Append(queue, Stop)
  /\ thread' = "gone"
  /\ UNCHANGED <<shard, failures, hand, sent, packer, faults>>

(* The packer chooses this stream.                                         *)
Ask ==
  /\ consumer = "busy"
  /\ asks < Asks /\ asks' = asks + 1
  /\ consumer' = "waiting"
  /\ UNCHANGED <<shard, failures, thread, hand, sent, queue, got, faults>>

(* Fault: a stored error is raised ahead of the rows still queued.         *)
AnswerErrorFirst ==
  /\ consumer = "waiting"
  /\ queue # <<>>
  /\ queue' = Tail(queue)
  /\ IF thread = "gone"
       THEN consumer' = "raised" /\ UNCHANGED got
       ELSE consumer' = "busy" /\ got' = Head(queue)
  /\ UNCHANGED <<shard, failures, thread, hand, sent, asks, faults>>

(* get() returns the oldest row, or raises when it finds the sentinel.     *)
Answer ==
  /\ consumer = "waiting"
  /\ queue # <<>>
  /\ queue' = Tail(queue)
  /\ IF Head(queue) = Stop
       THEN consumer' = "raised" /\ UNCHANGED got
       ELSE consumer' = "busy" /\ got' = Head(queue)
  /\ UNCHANGED <<shard, failures, thread, hand, sent, asks, faults>>

Draw == Serve \/ Exhaust \/ Open
Faults == Break \/ ReopenRaises \/ RewindRaises \/ PrepareRaises
Run == Draw \/ Faults \/ Put \/ Report

Next == Run \/ Ask \/ Answer

(* The thread runs, and get() returns once there is an entry.              *)
Spec == Init /\ [][Next]_vars /\ WF_vars(Run) /\ WF_vars(Answer)

--------------------------------------------------------------------------------
(* Properties *)

(***************************************************************************)
(* For the packer the stream is what ShardMerge says of a shard: get()     *)
(* returns the rows in the order they were put, without a gap, and raises  *)
(* only if the thread has failed (vision_data.py:263-270, 299-303).        *)
(***************************************************************************)
Merge == INSTANCE ShardMerge WITH
  Workers <- {Name},
  latest <- [w \in {Name} |-> got],
  failed <- IF thread \in {"fault", "gone"} THEN {Name} ELSE {}
MergeSpec == Merge!Spec

(***************************************************************************)
(* The thread's error reaches the packer behind every row it put before    *)
(* (vision_data.py:295-302).                                               *)
(***************************************************************************)
RowsBeforeError == consumer = "raised" => got = sent

(***************************************************************************)
(* A failure repeats records and never loses one: what a shard has given   *)
(* since it was last at its end is a prefix of it, however often it was    *)
(* reopened (vision_data.py:458-460).                                      *)
(***************************************************************************)
NothingSkipped == \E k \in 0 .. Shard : seen = 1 .. k

(***************************************************************************)
(* get() returns a row or raises (vision_data.py:287-303): a               *)
(* shard with a row to give and a network that does not fail for ever      *)
(* never leave the packer waiting.                                         *)
(***************************************************************************)
GetReturns == consumer = "waiting" ~> consumer # "waiting"

(***************************************************************************)
(* "Only six consecutive failures on one stream raise"                     *)
(* (vision_data.py:460-461), of the draws, not of prepare.                 *)
(***************************************************************************)
OnlyAllowanceRaises ==
  [][thread # "fault" /\ thread' = "fault" => PrepareRaises \/ failures' >= Allowance]_vars

================================================================================
