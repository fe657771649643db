-------------------------------- MODULE RowPacker ------------------------------
(***************************************************************************)
(* The whole-conversation packer of fine-tuning: _refill, _assemble_row    *)
(* and __next__ of sft.data.StreamingSFTIterator (pack_whole) and of       *)
(* sft.mephisto.MephistoIterator.  Records are drawn from a stream, those  *)
(* that are malformed or too long are dropped, the rest wait in a pool;    *)
(* rows take the first record of the pool that still fits.                 *)
(*                                                                         *)
(* A record is its place in the stream.  The pool is refilled only when it *)
(* is empty, and in stream order, so its first fitting record is the       *)
(* lowest-numbered one and a set says as much as the list.  The stream is  *)
(* all epochs, one after the other, in the order each is shuffled into.    *)
(***************************************************************************)
EXTENDS Integers, Sequences, FiniteSets

CONSTANTS
  Capacity,        \* tokens of a row, sequence_length + 1
  RowsPerBatch,    \* process_batch
  BufferRows,      \* buffer_rows
  MaxRender,       \* max_render_tokens
  Limited,         \* is there a max_render_tokens at all
  MaxRecords,      \* bound of the model: records in the stream
  MaxSize          \* bound of the model: tokens of a record

ASSUME RowPackerAssumption ==
  /\ Capacity \in Nat \ {0} /\ RowsPerBatch \in Nat \ {0} /\ BufferRows \in Nat \ {0}
  /\ MaxRender \in Nat /\ Limited \in BOOLEAN
  /\ MaxRecords \in Nat /\ MaxSize \in Nat

VARIABLES
  length,     \* records in the stream, fixed
  size,       \* tokens of each, 0 for one a filter or the renderer drops, fixed
  iterator,   \* "streaming" or "mephisto", the class, fixed
  pc,         \* "idle" between calls of next(), "row", "refill" or "stopped"
  drawn,      \* records taken from the stream
  buffer,     \* records of the refill under way
  pool,       \* rendered records not yet in a row
  exhausted,  \* _exhausted
  row,        \* records of the row under way
  filled,     \* their tokens
  rows,       \* rows of the batch under way: [records, filled]
  emitted     \* history: the rows of all batches returned

inputs == <<length, size, iterator>>
refillVars == <<drawn, buffer>>
rowVars == <<row, filled>>
batchVars == <<rows, emitted>>
vars == <<inputs, pc, refillVars, pool, exhausted, rowVars, batchVars>>

Records == 1 .. MaxRecords
Rows == [records : SUBSET Records, filled : 0 .. Capacity]

TypeOK ==
  /\ length \in 0 .. MaxRecords /\ size \in [Records -> 0 .. MaxSize]
  /\ iterator \in {"streaming", "mephisto"}
  /\ pc \in {"idle", "row", "refill", "stopped"}
  /\ drawn \in 0 .. length
  /\ buffer \subseteq 1 .. drawn /\ pool \subseteq 1 .. drawn /\ row \subseteq 1 .. drawn
  /\ exhausted \in BOOLEAN
  /\ filled \in 0 .. Capacity
  /\ rows \in Seq(Rows) /\ emitted \in Seq(Rows)

Init ==
  /\ length \in 0 .. MaxRecords
  /\ size \in {s \in [Records -> 0 .. MaxSize] : \A i \in Records : i > length => s[i] = 0}
  /\ iterator \in {"streaming", "mephisto"}
  /\ pc = "idle"
  /\ drawn = 0 /\ buffer = {} /\ pool = {} /\ exhausted = FALSE
  /\ row = {} /\ filled = 0 /\ rows = <<>> /\ emitted = <<>>

Oversize(i) == Limited /\ size[i] > MaxRender

--------------------------------------------------------------------------------
(* _refill *)

(* Does the record count against buffer_rows?  StreamingSFTIterator fills  *)
(* its buffer before it renders and drops the oversize ones afterwards,    *)
(* MephistoIterator renders each record as it comes.                       *)
Buffered(i) == size[i] > 0 /\ (iterator = "streaming" \/ ~Oversize(i))

BufferFull == Cardinality(buffer) >= BufferRows

DrawRecord ==
  /\ pc = "refill" /\ ~BufferFull /\ drawn < length
  /\ drawn' = drawn + 1
  /\ buffer' = IF Buffered(drawn + 1) THEN buffer \cup {drawn + 1} ELSE buffer
  /\ UNCHANGED <<inputs, pc, pool, exhausted, rowVars, batchVars>>

(* Fault: a buffer of which nothing is left is taken for the stream's end. *)
EndRefillOnAllDropped ==
  /\ pc = "refill" /\ (BufferFull \/ drawn = length)
  /\ LET rendered == {i \in buffer : ~Oversize(i)}
     IN  /\ pool' = pool \cup rendered
         /\ exhausted' = (exhausted \/ rendered = {})
  /\ buffer' = {}
  /\ pc' = "row"
  /\ UNCHANGED <<inputs, drawn, rowVars, batchVars>>

(* Fault: the end of the stream is not remembered. *)
EndRefillForgets ==
  /\ pc = "refill" /\ (BufferFull \/ drawn = length)
  /\ pool' = pool \cup {i \in buffer : ~Oversize(i)}
  /\ buffer' = {}
  /\ pc' = "row"
  /\ UNCHANGED <<inputs, drawn, exhausted, rowVars, batchVars>>

(* The buffer is rendered into the pool.  Only an empty one makes _refill  *)
(* return False, on which the caller notes the end of the stream.          *)
EndRefill ==
  /\ pc = "refill" /\ (BufferFull \/ drawn = length)
  /\ pool' = pool \cup {i \in buffer : ~Oversize(i)}
  /\ exhausted' = (exhausted \/ buffer = {})
  /\ buffer' = {}
  /\ pc' = "row"
  /\ UNCHANGED <<inputs, drawn, rowVars, batchVars>>

--------------------------------------------------------------------------------
(* _assemble_row and __next__ *)

(* next() is called: a batch is begun. *)
Ask ==
  /\ pc = "idle"
  /\ pc' = "row"
  /\ rows' = <<>>
  /\ UNCHANGED <<inputs, refillVars, pool, exhausted, rowVars, emitted>>

Fits(i) == size[i] <= Capacity - filled
Fitting == {i \in pool : Fits(i)}

(* The first record of the pool that fits. *)
Pick ==
  /\ pc = "row" /\ filled < Capacity
  /\ \E i \in Fitting :
       /\ \A j \in Fitting : i <= j
       /\ row' = row \cup {i}
       /\ filled' = filled + size[i]
       /\ pool' = pool \ {i}
  /\ UNCHANGED <<inputs, pc, refillVars, exhausted, batchVars>>

StartRefill ==
  /\ pc = "row" /\ filled < Capacity
  /\ pool = {} /\ ~exhausted
  /\ pc' = "refill"
  /\ UNCHANGED <<inputs, refillVars, pool, exhausted, rowVars, batchVars>>

(* Fault: a row is closed as soon as the pool has nothing for it. *)
RowIsOverEarly ==
  \/ filled >= Capacity
  \/ Fitting = {} /\ (row # {} \/ exhausted)

(* The row is full, or no record is left for it. *)
RowIsOver ==
  \/ filled >= Capacity
  \/ Fitting = {} /\ (pool # {} \/ exhausted)

ClosedRow == [records |-> row, filled |-> filled]

(* Fault: the last row of a batch is not handed out. *)
CloseRowShort ==
  /\ pc = "row" /\ RowIsOver /\ row # {}
  /\ row' = {} /\ filled' = 0
  /\ IF Len(rows) + 1 < RowsPerBatch
       THEN rows' = Append(rows, ClosedRow) /\ UNCHANGED <<pc, emitted>>
       ELSE /\ rows' = <<>> /\ emitted' = emitted \o rows
            /\ pc' = "idle"
  /\ UNCHANGED <<inputs, refillVars, pool, exhausted>>

(* The row joins the batch, and a complete batch is returned. *)
CloseRow ==
  /\ pc = "row" /\ RowIsOver /\ row # {}
  /\ row' = {} /\ filled' = 0
  /\ IF Len(rows) + 1 < RowsPerBatch
       THEN rows' = Append(rows, ClosedRow) /\ UNCHANGED <<pc, emitted>>
       ELSE /\ rows' = <<>> /\ emitted' = emitted \o Append(rows, ClosedRow)
            /\ pc' = "idle"
  /\ UNCHANGED <<inputs, refillVars, pool, exhausted>>

(* The row is empty: StopIteration, and the rows of this batch are lost. *)
Stops ==
  /\ pc = "row" /\ RowIsOver /\ row = {}
  /\ pc' = "stopped"
  /\ UNCHANGED <<inputs, refillVars, pool, exhausted, rowVars, batchVars>>

Work == DrawRecord \/ EndRefill \/ Pick \/ StartRefill \/ CloseRow \/ Stops
Next == Ask \/ Work

(* The iterator is sequential code and runs once it is called. *)
Spec == Init /\ [][Next]_vars /\ WF_vars(Work)

--------------------------------------------------------------------------------
(* Properties *)

(* Every row of the run so far, in order. *)
Closed == emitted \o rows
Kept(i) == size[i] > 0 /\ ~Oversize(i)

(***************************************************************************)
(* test_sft_ultradata.py:157: what was drawn and not dropped is somewhere, *)
(* and only once: waiting, or in exactly one row.  The rows of a batch the *)
(* stream's end leaves incomplete are not returned.                        *)
(***************************************************************************)
Waiting == buffer \cup pool \cup row

EveryRecordOnce ==
  /\ \A i \in 1 .. drawn : Kept(i) =>
       i \in Waiting \/ \E k \in 1 .. Len(Closed) : i \in Closed[k].records
  /\ \A k \in 1 .. Len(Closed) :
       /\ Closed[k].records \cap Waiting = {}
       /\ \A l \in 1 .. k - 1 : Closed[k].records \cap Closed[l].records = {}

(* The tokens of the records in S, added up in stream order.               *)
Tokens(S) ==
  LET upTo[i \in 0 .. MaxRecords] ==
        IF i = 0 THEN 0 ELSE upTo[i - 1] + (IF i \in S THEN size[i] ELSE 0)
  IN  upTo[MaxRecords]

(***************************************************************************)
(* A row holds whole records only and no more than fit: its fill level is  *)
(* the sum of its records' sizes (sft/data.py:330-335, mephisto.py:75-77). *)
(***************************************************************************)
RowsAreWhole ==
  \A k \in 1 .. Len(Closed) :
    Tokens(Closed[k].records) = Closed[k].filled /\ Closed[k].filled <= Capacity

(***************************************************************************)
(* Rows are padded only for want of a record that fits: two rows in a row  *)
(* always hold more tokens than one row takes, so first-fit wastes less    *)
(* than half.  A refill in the middle of a row must not close it.          *)
(***************************************************************************)
NeighboursOverfill ==
  \A k \in 1 .. Len(Closed) - 1 : Closed[k].filled + Closed[k + 1].filled > Capacity

(* sft/data.py:332-334: refilling only an empty pool keeps "pool memory    *)
(* bounded at one refill buffer".                                          *)
PoolBounded == Cardinality(pool) <= BufferRows

(* sft/data.py:334-335: _assemble_row returns None, which ends the         *)
(* iterator, "once the stream and pool are dry", not before.               *)
StopsOnlyWhenDry == pc = "stopped" => pool = {} /\ drawn = length

(* A call of next() returns or raises, whatever the stream's records are.  *)
CallsReturn == pc \in {"row", "refill"} ~> pc \in {"idle", "stopped"}

================================================================================
