---------------------------- MODULE RowPackerProofs ----------------------------
(***************************************************************************)
(* Proofs about RowPacker, for every row capacity, batch, buffer and       *)
(* stream, and for both iterators that pack this way.                      *)
(***************************************************************************)
EXTENDS RowPacker, FiniteSetTheorems, TLAPS

--------------------------------------------------------------------------------
(***************************************************************************)
(* The strengthening behind the invariants.  Nothing is in two places,     *)
(* records are at least a token long, and the row under way, or the first  *)
(* that can still join it, does not fit beside the row closed before it.   *)
(***************************************************************************)
Places ==
  /\ pool \cap row = {} /\ buffer \cap (pool \cup row) = {}
  /\ \A i \in buffer \cup pool \cup row : size[i] > 0
  /\ \A i \in pool : ~Oversize(i)
  /\ filled = 0 <=> row = {}
  /\ pc # "refill" => buffer = {}
  /\ pc = "refill" => pool = {} /\ ~exhausted /\ filled < Capacity
  /\ pc = "idle" => row = {} /\ rows = <<>>
  /\ exhausted => pool = {} /\ drawn = length

(* What has been closed was drawn. *)
ClosedWereDrawn == \A k \in 1 .. Len(Closed) : Closed[k].records \subseteq 1 .. drawn

(* How the pool and the row stand to the last closed row. *)
LastRow ==
  Len(Closed) > 0 =>
    LET last == Closed[Len(Closed)].filled
    IN  /\ row # {} => last + filled > Capacity
        /\ row = {} => /\ \A i \in pool : last + size[i] > Capacity
                       /\ pool = {} => exhausted \/ last >= Capacity

--------------------------------------------------------------------------------
(* Sequences of rows *)

(* One more row at the end leaves the rows before it where they were.      *)
LEMMA OneMoreRow ==
  ASSUME NEW S, NEW e \in Seq(S), NEW r \in Seq(S), NEW x \in S
  PROVE  LET old == e \o r
             new == e \o Append(r, x)
         IN  /\ old \in Seq(S) /\ new \in Seq(S)
             /\ Len(new) = Len(old) + 1
             /\ new[Len(new)] = x
             /\ \A k \in 1 .. Len(old) : new[k] = old[k]
  OBVIOUS

(* Nothing is added by an empty rest. *)
LEMMA NoMoreRows ==
  ASSUME NEW S, NEW e \in Seq(S)
  PROVE  e \o <<>> = e
  OBVIOUS

--------------------------------------------------------------------------------
(* Types *)

LEMMA InitType == Init => TypeOK
<1> SUFFICES ASSUME Init PROVE TypeOK
  OBVIOUS
<1> USE RowPackerAssumption
<1>1. length \in 0 .. MaxRecords /\ size \in [Records -> 0 .. MaxSize]
  BY DEF Init
<1>2. drawn \in 0 .. length /\ filled \in 0 .. Capacity
  BY <1>1 DEF Init
<1>3. rows \in Seq(Rows) /\ emitted \in Seq(Rows)
  BY DEF Init
<1>4. iterator \in {"streaming", "mephisto"} /\ pc = "idle" /\ exhausted = FALSE
  BY DEF Init
<1>5. buffer = {} /\ pool = {} /\ row = {}
  BY DEF Init
<1> QED BY <1>1, <1>2, <1>3, <1>4, <1>5 DEF TypeOK

LEMMA TypeStep == TypeOK /\ [Next]_vars => TypeOK'
<1> SUFFICES ASSUME TypeOK, [Next]_vars PROVE TypeOK'
  OBVIOUS
<1> USE RowPackerAssumption
<1>1. CASE Ask
  BY <1>1 DEF TypeOK, Ask, inputs, refillVars, rowVars, Rows
<1>2. CASE DrawRecord
  <2>1. drawn' \in 0 .. length /\ 1 .. drawn \subseteq 1 .. drawn' /\ drawn + 1 \in 1 .. drawn'
    BY <1>2 DEF TypeOK, DrawRecord
  <2>2. buffer' \subseteq 1 .. drawn'
    BY <1>2, <2>1 DEF TypeOK, DrawRecord
  <2> QED
    BY <1>2, <2>1, <2>2 DEF TypeOK, DrawRecord, inputs, rowVars, batchVars
<1>3. CASE EndRefill
  <2>1. pool' \subseteq 1 .. drawn
    BY <1>3 DEF TypeOK, EndRefill
  <2> QED
    BY <1>3, <2>1 DEF TypeOK, EndRefill, inputs, rowVars, batchVars
<1>4. CASE Pick
  <2>1. PICK i \in Fitting : /\ row' = row \cup {i}
                             /\ filled' = filled + size[i]
                             /\ pool' = pool \ {i}
    BY <1>4 DEF Pick
  <2>2. i \in pool /\ i \in Records /\ size[i] \in 0 .. MaxSize /\ size[i] <= Capacity - filled
    BY <2>1 DEF TypeOK, Fitting, Fits, Records
  <2>3. filled' \in 0 .. Capacity
    BY <2>1, <2>2 DEF TypeOK
  <2> QED
    BY <1>4, <2>1, <2>2, <2>3 DEF TypeOK, Pick, inputs, refillVars, batchVars
<1>5. CASE StartRefill
  BY <1>5 DEF TypeOK, StartRefill, inputs, refillVars, rowVars, batchVars
<1>6. CASE CloseRow
  <2>1. ClosedRow \in Rows
    BY DEF TypeOK, ClosedRow, Rows, Records
  <2>2. rows' \in Seq(Rows) /\ emitted' \in Seq(Rows)
    <3> DEFINE new == Append(rows, ClosedRow)
    <3>1. rows \in Seq(Rows) /\ emitted \in Seq(Rows) /\ new \in Seq(Rows)
      BY <2>1 DEF TypeOK
    <3>2. emitted \o new \in Seq(Rows) /\ <<>> \in Seq(Rows)
      BY <3>1
    <3>3. \/ rows' = new /\ emitted' = emitted
          \/ rows' = <<>> /\ emitted' = emitted \o new
      BY <1>6 DEF CloseRow
    <3> QED BY <3>1, <3>2, <3>3
  <2> QED
    BY <1>6, <2>2 DEF TypeOK, CloseRow, inputs, refillVars
<1>7. CASE Stops
  BY <1>7 DEF TypeOK, Stops, inputs, refillVars, rowVars, batchVars
<1>8. CASE UNCHANGED vars
  BY <1>8 DEF TypeOK, vars, inputs, refillVars, rowVars, batchVars
<1> QED
  BY <1>1, <1>2, <1>3, <1>4, <1>5, <1>6, <1>7, <1>8 DEF Next, Work

(* RowPacker's types, a row that never overflows among them, hold always.  *)
THEOREM TypeCorrect == Spec => []TypeOK
<1> QED BY InitType, TypeStep, PTL DEF Spec

--------------------------------------------------------------------------------
(* Where the records are *)

LEMMA InitPlaces == Init => Places
  BY RowPackerAssumption DEF Init, Places

LEMMA PlacesStep == TypeOK /\ Places /\ [Next]_vars => Places'
<1> SUFFICES ASSUME TypeOK, Places, [Next]_vars PROVE Places'
  OBVIOUS
<1> USE RowPackerAssumption
<1>1. CASE Ask
  BY <1>1 DEF Places, Ask, inputs, refillVars, rowVars, Oversize
<1>2. CASE DrawRecord
  <2>1. drawn + 1 \notin 1 .. drawn
    BY DEF TypeOK
  <2>2. buffer' \cap (pool \cup row) = {}
    BY <1>2, <2>1 DEF Places, TypeOK, DrawRecord
  <2>3. \A i \in buffer' : size[i] > 0
    BY <1>2 DEF Places, DrawRecord, Buffered
  <2> QED
    BY <1>2, <2>2, <2>3 DEF Places, DrawRecord, inputs, rowVars, batchVars, Oversize
<1>3. CASE EndRefill
  <2>1. buffer = {} => drawn = length
    <3>1. Cardinality({}) = 0
      BY FS_EmptySet
    <3> QED BY <1>3, <3>1 DEF EndRefill, BufferFull
  <2>2. pool = {} /\ ~exhausted
    BY <1>3 DEF Places, EndRefill
  <2>3. exhausted' => pool' = {} /\ drawn' = length'
    BY <1>3, <2>1, <2>2 DEF EndRefill, inputs
  <2> QED
    BY <1>3, <2>2, <2>3 DEF Places, EndRefill, inputs, rowVars, batchVars, Oversize
<1>4. CASE Pick
  <2>1. PICK i \in Fitting : /\ row' = row \cup {i}
                             /\ filled' = filled + size[i]
                             /\ pool' = pool \ {i}
    BY <1>4 DEF Pick
  <2>2. i \in pool /\ size[i] > 0 /\ size[i] \in Nat /\ filled \in Nat
    BY <2>1 DEF Fitting, Places, TypeOK, Records
  <2>3. filled' > 0 /\ row' # {}
    BY <2>1, <2>2
  <2> QED
    BY <1>4, <2>1, <2>2, <2>3 DEF Places, Pick, inputs, refillVars, batchVars, Oversize
<1>5. CASE StartRefill
  BY <1>5 DEF Places, StartRefill, inputs, refillVars, rowVars, batchVars, Oversize
<1>6. CASE CloseRow
  BY <1>6 DEF Places, CloseRow, inputs, refillVars, Oversize
<1>7. CASE Stops
  BY <1>7 DEF Places, Stops, inputs, refillVars, rowVars, batchVars, Oversize
<1>8. CASE UNCHANGED vars
  BY <1>8 DEF Places, vars, inputs, refillVars, rowVars, batchVars, Oversize
<1> QED
  BY <1>1, <1>2, <1>3, <1>4, <1>5, <1>6, <1>7, <1>8 DEF Next, Work

LEMMA PlacesHold == Spec => [](TypeOK /\ Places)
<1>1. Init => TypeOK /\ Places
  BY InitType, InitPlaces
<1>2. TypeOK /\ Places /\ [Next]_vars => (TypeOK /\ Places)'
  BY TypeStep, PlacesStep
<1> QED BY <1>1, <1>2, PTL DEF Spec

(* An action leaves the closed rows alone or adds the row under way.       *)
LEMMA ClosedSame ==
  ASSUME TypeOK, Places, Ask \/ DrawRecord \/ EndRefill \/ Pick \/ StartRefill \/ Stops
                         \/ UNCHANGED vars
  PROVE  Closed' = Closed
<1>1. CASE Ask
  BY <1>1 DEF Places, Ask, Closed
<1>2. CASE ~Ask
  BY <1>2 DEF DrawRecord, EndRefill, Pick, StartRefill, Stops, vars, batchVars, Closed
<1> QED BY <1>1, <1>2

LEMMA ClosedGrows ==
  ASSUME TypeOK, CloseRow
  PROVE  /\ Closed \in Seq(Rows) /\ Closed' \in Seq(Rows)
         /\ Len(Closed') = Len(Closed) + 1
         /\ Closed'[Len(Closed) + 1] = ClosedRow
         /\ \A k \in 1 .. Len(Closed) : Closed'[k] = Closed[k]
<1> DEFINE new == emitted \o Append(rows, ClosedRow)
<1>1. rows \in Seq(Rows) /\ emitted \in Seq(Rows) /\ ClosedRow \in Rows
  <2>1. ClosedRow \in Rows
    BY RowPackerAssumption DEF TypeOK, ClosedRow, Rows, Records
  <2> QED BY <2>1 DEF TypeOK
<1>2. /\ Closed \in Seq(Rows) /\ new \in Seq(Rows)
      /\ Len(new) = Len(Closed) + 1
      /\ new[Len(new)] = ClosedRow
      /\ \A k \in 1 .. Len(Closed) : new[k] = Closed[k]
  BY <1>1, OneMoreRow DEF Closed
<1>3. Closed' = new
  <2>1. \/ rows' = Append(rows, ClosedRow) /\ emitted' = emitted
        \/ rows' = <<>> /\ emitted' = new
    BY DEF CloseRow
  <2>2. new \o <<>> = new
    BY <1>2, NoMoreRows
  <2> HIDE DEF new
  <2>3. CASE rows' = <<>> /\ emitted' = new
    BY <2>2, <2>3 DEF Closed
  <2>4. CASE rows' = Append(rows, ClosedRow) /\ emitted' = emitted
    BY <2>4 DEF Closed, new
  <2> QED BY <2>1, <2>3, <2>4
<1> QED BY <1>2, <1>3

--------------------------------------------------------------------------------
(* Each record once *)

Once == ClosedWereDrawn /\ EveryRecordOnce

LEMMA InitOnce == Init => Once
<1> SUFFICES ASSUME Init PROVE Once
  OBVIOUS
<1>1. emitted = <<>> /\ rows = <<>> /\ drawn = 0
  BY DEF Init
<1>2. Len(Closed) = 0
  BY <1>1 DEF Closed
<1> QED BY <1>1, <1>2 DEF Once, ClosedWereDrawn, EveryRecordOnce

(* A step that closes no row and loses none of the records that wait.      *)
LEMMA OnceKept ==
  ASSUME TypeOK, Once, Closed' = Closed, size' = size, drawn' = drawn,
         \A i \in Waiting : i \in Waiting' \/ ~Kept(i),
         Waiting' \subseteq Waiting
  PROVE  Once'
<1>1. ClosedWereDrawn'
  BY DEF Once, ClosedWereDrawn
<1>2. \A i : Kept(i)' <=> Kept(i)
  BY DEF Kept, Oversize
<1>3. EveryRecordOnce'
  BY <1>2 DEF Once, EveryRecordOnce
<1> QED BY <1>1, <1>3 DEF Once

LEMMA OnceStep == TypeOK /\ Places /\ Once /\ [Next]_vars => Once'
<1> SUFFICES ASSUME TypeOK, Places, Once, [Next]_vars PROVE Once'
  OBVIOUS
<1>1. CASE Ask
  BY <1>1, ClosedSame, OnceKept DEF Ask, inputs, refillVars, rowVars, Waiting
<1>2. CASE DrawRecord
  <2>1. Closed' = Closed /\ size' = size /\ drawn' = drawn + 1 /\ drawn \in Nat
    BY <1>2, ClosedSame DEF DrawRecord, inputs, TypeOK
  <2>2. ClosedWereDrawn'
    BY <2>1 DEF Once, ClosedWereDrawn
  <2>3. Waiting \subseteq Waiting' /\ Waiting' \subseteq Waiting \cup {drawn + 1}
    BY <1>2 DEF DrawRecord, rowVars, Waiting
  <2>4. \A k \in 1 .. Len(Closed) : Closed[k].records \cap Waiting' = {}
    BY <2>1, <2>3 DEF Once, ClosedWereDrawn, EveryRecordOnce
  <2>5. ASSUME NEW i \in 1 .. drawn', Kept(i)'
        PROVE  i \in Waiting' \/ \E k \in 1 .. Len(Closed) : i \in Closed[k].records
    <3>1. Kept(i)
      BY <2>1, <2>5 DEF Kept, Oversize
    <3>2. CASE i = drawn + 1
      BY <1>2, <3>1, <3>2 DEF DrawRecord, Buffered, Kept, Waiting
    <3>3. CASE i # drawn + 1
      <4>1. i \in 1 .. drawn
        BY <2>1, <3>3
      <4> QED BY <2>3, <3>1, <4>1 DEF Once, EveryRecordOnce
    <3> QED BY <3>2, <3>3
  <2>6. EveryRecordOnce'
    BY <2>1, <2>4, <2>5 DEF Once, EveryRecordOnce
  <2> QED BY <2>2, <2>6 DEF Once
<1>3. CASE EndRefill
  <2>1. Waiting' \subseteq Waiting
    BY <1>3 DEF EndRefill, rowVars, Waiting
  <2>2. \A i \in Waiting : i \in Waiting' \/ ~Kept(i)
    BY <1>3 DEF EndRefill, rowVars, Waiting, Kept
  <2> QED BY <1>3, <2>1, <2>2, ClosedSame, OnceKept DEF EndRefill, inputs
<1>4. CASE Pick
  <2>1. Waiting' = Waiting
    BY <1>4 DEF Pick, refillVars, Waiting, Fitting
  <2> QED BY <1>4, <2>1, ClosedSame, OnceKept DEF Pick, inputs, refillVars
<1>5. CASE StartRefill
  BY <1>5, ClosedSame, OnceKept DEF StartRefill, inputs, refillVars, rowVars, Waiting
<1>6. CASE CloseRow
  <2>1. /\ Len(Closed') = Len(Closed) + 1 /\ Len(Closed) \in Nat
        /\ Closed'[Len(Closed) + 1].records = row
        /\ \A k \in 1 .. Len(Closed) : Closed'[k] = Closed[k]
    BY <1>6, ClosedGrows DEF ClosedRow
  <2>2. size' = size /\ drawn' = drawn /\ Waiting = Waiting' \cup row
    BY <1>6 DEF CloseRow, inputs, refillVars, Waiting
  <2>3. row \cap Waiting' = {} /\ row \subseteq 1 .. drawn
    BY <1>6 DEF CloseRow, refillVars, Waiting, Places, TypeOK
  <2>4. ClosedWereDrawn'
    <3>1. ASSUME NEW k \in 1 .. Len(Closed') PROVE Closed'[k].records \subseteq 1 .. drawn'
      <4>1. CASE k = Len(Closed) + 1
        BY <2>1, <2>2, <2>3, <4>1
      <4>2. CASE k # Len(Closed) + 1
        <5>1. k \in 1 .. Len(Closed)
          BY <2>1, <4>2
        <5> QED BY <2>1, <2>2, <5>1 DEF Once, ClosedWereDrawn
      <4> QED BY <4>1, <4>2
    <3> QED BY <3>1 DEF ClosedWereDrawn
  <2>5. ASSUME NEW k \in 1 .. Len(Closed')
        PROVE  /\ Closed'[k].records \cap Waiting' = {}
               /\ \A l \in 1 .. k - 1 : Closed'[k].records \cap Closed'[l].records = {}
    <3>1. CASE k = Len(Closed) + 1
      <4>1. \A l \in 1 .. k - 1 : l \in 1 .. Len(Closed)
        BY <2>1, <3>1
      <4> QED BY <2>1, <2>2, <2>3, <3>1, <4>1 DEF Once, EveryRecordOnce
    <3>2. CASE k # Len(Closed) + 1
      <4>1. k \in 1 .. Len(Closed) /\ \A l \in 1 .. k - 1 : l \in 1 .. Len(Closed)
        BY <2>1, <3>2
      <4> QED BY <2>1, <2>2, <4>1 DEF Once, EveryRecordOnce
    <3> QED BY <3>1, <3>2
  <2>6. ASSUME NEW i \in 1 .. drawn', Kept(i)'
        PROVE  i \in Waiting' \/ \E k \in 1 .. Len(Closed') : i \in Closed'[k].records
    <3>1. Kept(i) /\ i \in 1 .. drawn
      BY <2>2, <2>6 DEF Kept, Oversize
    <3>2. CASE i \in Waiting
      <4>1. Len(Closed) + 1 \in 1 .. Len(Closed')
        BY <2>1
      <4> QED BY <2>1, <2>2, <3>2, <4>1
    <3>3. CASE i \notin Waiting
      <4>1. PICK k \in 1 .. Len(Closed) : i \in Closed[k].records
        BY <3>1, <3>3 DEF Once, EveryRecordOnce
      <4>2. k \in 1 .. Len(Closed')
        BY <2>1
      <4>3. i \in Closed'[k].records
        BY <2>1, <4>1
      <4> QED BY <4>2, <4>3
    <3> QED BY <3>2, <3>3
  <2>7. EveryRecordOnce'
    BY <2>5, <2>6 DEF EveryRecordOnce
  <2> QED BY <2>4, <2>7 DEF Once
<1>7. CASE Stops
  BY <1>7, ClosedSame, OnceKept DEF Stops, inputs, refillVars, rowVars, Waiting
<1>8. CASE UNCHANGED vars
  BY <1>8, ClosedSame, OnceKept DEF vars, inputs, refillVars, rowVars, Waiting
<1> QED
  BY <1>1, <1>2, <1>3, <1>4, <1>5, <1>6, <1>7, <1>8 DEF Next, Work

(* No record is lost, cut or packed twice on its way through buffer, pool  *)
(* and rows (sft/data.py:254-365).                                         *)
THEOREM PacksEachRecordOnce == Spec => []EveryRecordOnce
<1>1. TypeOK /\ Places /\ [Next]_vars /\ Once => Once'
  BY OnceStep
<1>2. Once => EveryRecordOnce
  BY DEF Once
<1> QED BY InitOnce, PlacesHold, <1>1, <1>2, PTL DEF Spec

--------------------------------------------------------------------------------
(* Padding *)

Padding == NeighboursOverfill /\ LastRow

LEMMA InitPadding == Init => Padding
<1> SUFFICES ASSUME Init PROVE Padding
  OBVIOUS
<1>1. emitted = <<>> /\ rows = <<>>
  BY DEF Init
<1>2. Len(Closed) = 0
  BY <1>1 DEF Closed
<1> QED BY <1>2 DEF Padding, NeighboursOverfill, LastRow

(* The level of the last closed row is a number. *)
LEMMA ClosedType ==
  ASSUME TypeOK
  PROVE  /\ Closed \in Seq(Rows)
         /\ \A k \in 1 .. Len(Closed) : Closed[k].filled \in 0 .. Capacity
<1>1. Closed \in Seq(Rows)
  BY DEF TypeOK, Closed
<1>2. \A k \in 1 .. Len(Closed) : Closed[k] \in Rows
  BY <1>1
<1> QED BY <1>1, <1>2 DEF Rows

LEMMA PaddingStep == TypeOK /\ Places /\ Padding /\ [Next]_vars => Padding'
<1> SUFFICES ASSUME TypeOK, Places, Padding, [Next]_vars PROVE Padding'
  OBVIOUS
<1> USE RowPackerAssumption
<1> DEFINE last == Closed[Len(Closed)].filled
<1>0. Len(Closed) > 0 => last \in Nat
  BY ClosedType
<1>a. filled \in Nat /\ Capacity \in Nat /\ \A i \in Records : size[i] \in Nat
  BY DEF TypeOK
<1>1. CASE Ask
  BY <1>1, ClosedSame DEF Ask, Padding, NeighboursOverfill, LastRow, inputs, refillVars, rowVars
<1>2. CASE DrawRecord
  BY <1>2, ClosedSame DEF DrawRecord, Padding, NeighboursOverfill, LastRow, inputs, rowVars,
     batchVars
<1>3. CASE EndRefill
  <2>1. Closed' = Closed /\ row' = row /\ filled' = filled /\ size' = size
    BY <1>3, ClosedSame DEF EndRefill, inputs, rowVars
  <2>2. pool = {} /\ ~exhausted
    BY <1>3 DEF Places, EndRefill
  <2>3. ASSUME Len(Closed) > 0, row = {}
        PROVE  /\ \A i \in pool' : last + size[i] > Capacity
               /\ pool' = {} => exhausted' \/ last >= Capacity
    <3>1. last >= Capacity
      BY <2>2, <2>3 DEF Padding, LastRow
    <3>2. \A i \in pool' : size[i] > 0 /\ size[i] \in Nat
      BY <1>3, <1>a, <2>2 DEF EndRefill, Places, TypeOK, Records
    <3> QED BY <1>0, <1>a, <2>3, <3>1, <3>2
  <2>4. LastRow'
    BY <2>1, <2>3 DEF Padding, LastRow
  <2> QED BY <2>1, <2>4 DEF Padding, NeighboursOverfill
<1>4. CASE Pick
  <2>1. PICK i \in Fitting : /\ row' = row \cup {i}
                             /\ filled' = filled + size[i]
                             /\ pool' = pool \ {i}
    BY <1>4 DEF Pick
  <2>2. i \in pool /\ size[i] > 0 /\ size[i] \in Nat
    BY <1>a, <2>1 DEF Fitting, Places, TypeOK, Records
  <2>3. Closed' = Closed
    BY <1>4, ClosedSame
  <2>4. ASSUME Len(Closed) > 0 PROVE last + filled' > Capacity
    <3>1. CASE row = {}
      <4>1. filled = 0 /\ last + size[i] > Capacity
        BY <2>2, <2>4, <3>1 DEF Places, Padding, LastRow
      <4> QED BY <2>1, <2>2, <4>1
    <3>2. CASE row # {}
      <4>1. last + filled > Capacity
        BY <2>4, <3>2 DEF Padding, LastRow
      <4> QED BY <1>0, <1>a, <2>1, <2>2, <2>4, <4>1
    <3> QED BY <3>1, <3>2
  <2>5. LastRow'
    BY <2>1, <2>3, <2>4 DEF LastRow
  <2> QED BY <2>3, <2>5 DEF Padding, NeighboursOverfill
<1>5. CASE StartRefill
  BY <1>5, ClosedSame DEF StartRefill, Padding, NeighboursOverfill, LastRow, inputs, refillVars,
     rowVars
<1>6. CASE CloseRow
  <2>1. /\ Len(Closed') = Len(Closed) + 1 /\ Len(Closed) \in Nat
        /\ Closed'[Len(Closed) + 1].filled = filled
        /\ \A k \in 1 .. Len(Closed) : Closed'[k] = Closed[k]
    BY <1>6, ClosedGrows DEF ClosedRow
  <2>2. row # {} /\ row' = {} /\ pool' = pool /\ size' = size /\ exhausted' = exhausted
    BY <1>6 DEF CloseRow, inputs
  <2>3. ASSUME NEW k \in 1 .. Len(Closed') - 1
        PROVE  Closed'[k].filled + Closed'[k + 1].filled > Capacity
    <3>1. CASE k = Len(Closed)
      <4>1. Closed'[k].filled = last /\ Closed'[k + 1].filled = filled
        BY <2>1, <3>1
      <4>2. last + filled > Capacity
        BY <2>1, <2>2, <3>1 DEF Padding, LastRow
      <4> QED BY <4>1, <4>2
    <3>2. CASE k # Len(Closed)
      <4>1. k \in 1 .. Len(Closed) - 1 /\ k \in 1 .. Len(Closed) /\ k + 1 \in 1 .. Len(Closed)
        BY <2>1, <3>2
      <4>2. Closed'[k] = Closed[k] /\ Closed'[k + 1] = Closed[k + 1]
        BY <2>1, <4>1
      <4>3. Closed[k].filled + Closed[k + 1].filled > Capacity
        BY <4>1 DEF Padding, NeighboursOverfill
      <4> QED BY <4>2, <4>3
    <3> QED BY <3>1, <3>2
  <2>4. \A i \in pool : filled + size[i] > Capacity
    <3>1. ASSUME NEW i \in pool PROVE filled + size[i] > Capacity
      <4>1. size[i] \in Nat /\ size[i] > 0
        BY <1>a DEF Places, TypeOK, Records
      <4>2. CASE filled >= Capacity
        BY <1>a, <4>1, <4>2
      <4>3. CASE Fitting = {}
        <5>1. ~(size[i] <= Capacity - filled)
          BY <4>3 DEF Fitting, Fits
        <5> QED BY <1>a, <4>1, <5>1
      <4> QED BY <1>6, <4>2, <4>3 DEF CloseRow, RowIsOver
    <3> QED BY <3>1
  <2>5. pool = {} => exhausted \/ filled >= Capacity
    BY <1>6 DEF CloseRow, RowIsOver
  <2>6. LastRow'
    BY <2>1, <2>2, <2>4, <2>5 DEF LastRow
  <2> QED BY <2>3, <2>6 DEF Padding, NeighboursOverfill
<1>7. CASE Stops
  BY <1>7, ClosedSame DEF Stops, Padding, NeighboursOverfill, LastRow, inputs, refillVars, rowVars
<1>8. CASE UNCHANGED vars
  BY <1>8, ClosedSame DEF vars, Padding, NeighboursOverfill, LastRow, inputs, refillVars, rowVars
<1> QED
  BY <1>1, <1>2, <1>3, <1>4, <1>5, <1>6, <1>7, <1>8 DEF Next, Work

(* Two neighbouring rows hold more than one row's tokens, so padding never *)
(* takes half of them (sft/data.py:329-358).                               *)
THEOREM PadsLessThanHalf == Spec => []NeighboursOverfill
<1>1. TypeOK /\ Places /\ [Next]_vars /\ Padding => Padding'
  BY PaddingStep
<1>2. Padding => NeighboursOverfill
  BY DEF Padding
<1> QED BY InitPadding, PlacesHold, <1>1, <1>2, PTL DEF Spec

--------------------------------------------------------------------------------
(* The end of the stream *)

(* What sft/train.py's option must give: a limit no longer than a row.     *)
EveryRecordFits == Limited /\ MaxRender <= Capacity

LEMMA DryStep ==
  ASSUME EveryRecordFits, TypeOK, Places, StopsOnlyWhenDry, [Next]_vars
  PROVE  StopsOnlyWhenDry'
<1> USE RowPackerAssumption
<1>1. CASE Stops
  <2>1. filled = 0 /\ pool' = pool /\ drawn' = drawn /\ length' = length
    BY <1>1 DEF Stops, Places, inputs, refillVars
  <2>2. Fitting = {} /\ (pool # {} \/ exhausted)
    BY <1>1, <2>1 DEF Stops, RowIsOver
  <2>3. ASSUME NEW i \in pool PROVE FALSE
    <3>1. size[i] \in Nat /\ size[i] <= MaxRender
      BY DEF EveryRecordFits, Places, Oversize, TypeOK, Records
    <3>2. i \in Fitting
      BY <2>1, <3>1 DEF EveryRecordFits, Fitting, Fits
    <3> QED BY <2>2, <3>2
  <2> QED BY <2>1, <2>2, <2>3 DEF StopsOnlyWhenDry, Places
<1>2. CASE UNCHANGED vars
  BY <1>2 DEF vars, inputs, refillVars, StopsOnlyWhenDry
<1>3. CASE Next /\ ~Stops
  <2>1. pc' # "stopped"
    BY <1>3 DEF Next, Work, Ask, DrawRecord, EndRefill, Pick, StartRefill, CloseRow
  <2> QED BY <2>1 DEF StopsOnlyWhenDry
<1> QED BY <1>1, <1>2, <1>3

(* With a token limit no longer than a row the iterator ends only when the *)
(* stream and the pool are dry (sft/data.py:334-335).                      *)
THEOREM EndsWhenDry == EveryRecordFits => (Spec => []StopsOnlyWhenDry)
<1> SUFFICES ASSUME EveryRecordFits PROVE Spec => []StopsOnlyWhenDry
  OBVIOUS
<1>1. Init => StopsOnlyWhenDry
  BY DEF Init, StopsOnlyWhenDry
<1>2. TypeOK /\ Places /\ StopsOnlyWhenDry /\ [Next]_vars => StopsOnlyWhenDry'
  BY DryStep
<1> QED BY PlacesHold, <1>1, <1>2, PTL DEF Spec

--------------------------------------------------------------------------------
(* The pool *)

Small(S) == IsFiniteSet(S) /\ Cardinality(S) <= BufferRows
Sizes == Small(buffer) /\ Small(pool)

LEMMA SmallerIsSmall ==
  ASSUME NEW S, NEW R \in SUBSET S, Small(S)
  PROVE  Small(R)
<1>1. IsFiniteSet(R) /\ Cardinality(R) <= Cardinality(S)
  BY FS_Subset DEF Small
<1>2. Cardinality(R) \in Nat /\ Cardinality(S) \in Nat
  BY <1>1, FS_CardinalityType DEF Small
<1> QED BY <1>1, <1>2, RowPackerAssumption DEF Small

LEMMA NothingIsSmall == Small({})
  BY FS_EmptySet, RowPackerAssumption DEF Small

LEMMA SizesStep == TypeOK /\ Places /\ Sizes /\ [Next]_vars => Sizes'
<1> SUFFICES ASSUME TypeOK, Places, Sizes, [Next]_vars PROVE Sizes'
  OBVIOUS
<1>1. CASE DrawRecord
  <2>1. ~BufferFull /\ pool' = pool
    BY <1>1 DEF DrawRecord
  <2>2. Small(buffer \cup {drawn + 1})
    <3>1. IsFiniteSet(buffer) /\ Cardinality(buffer) \in Nat
      BY FS_CardinalityType DEF Sizes, Small
    <3>2. /\ IsFiniteSet(buffer \cup {drawn + 1})
          /\ Cardinality(buffer \cup {drawn + 1}) \in {Cardinality(buffer), Cardinality(buffer) + 1}
      BY <3>1, FS_AddElement
    <3> QED BY <2>1, <3>1, <3>2, RowPackerAssumption DEF BufferFull, Small
  <2> QED BY <1>1, <2>1, <2>2 DEF DrawRecord, Sizes
<1>2. CASE EndRefill
  <2>1. pool' \subseteq buffer /\ buffer' = {}
    BY <1>2 DEF EndRefill, Places
  <2> QED BY <2>1, SmallerIsSmall, NothingIsSmall DEF Sizes
<1>3. CASE Pick
  <2>1. pool' \subseteq pool /\ buffer' = buffer
    BY <1>3 DEF Pick, refillVars
  <2> QED BY <2>1, SmallerIsSmall DEF Sizes
<1>4. CASE Ask \/ StartRefill \/ CloseRow \/ Stops \/ UNCHANGED vars
  <2>1. pool' = pool /\ buffer' = buffer
    BY <1>4 DEF Ask, StartRefill, CloseRow, Stops, vars, refillVars
  <2> QED BY <2>1 DEF Sizes
<1> QED BY <1>1, <1>2, <1>3, <1>4 DEF Next, Work

(* The pool never holds more than one refill buffer (sft/data.py:332-334). *)
THEOREM PoolStaysSmall == Spec => []PoolBounded
<1>1. Init => Sizes
  BY NothingIsSmall DEF Init, Sizes
<1>2. TypeOK /\ Places /\ [Next]_vars /\ Sizes => Sizes'
  BY SizesStep
<1>3. Sizes => PoolBounded
  BY DEF Sizes, Small, PoolBounded
<1> QED BY PlacesHold, <1>1, <1>2, <1>3, PTL DEF Spec

--------------------------------------------------------------------------------
(* Whole records *)

(* Every set of numbers that is not empty has a least one.                 *)
LEMMA LeastNumber ==
  ASSUME NEW T \in SUBSET Nat, T # {}
  PROVE  \E m \in T : \A k \in T : m <= k
<1> DEFINE Below(k) == 0 .. k
           B == {Below(k) : k \in T}
<1>1. \A k \in T : Below(k) \in FiniteSubsetsOf(Nat)
  BY FS_Interval, \A k \in T : Below(k) \subseteq Nat DEF FiniteSubsetsOf
<1>2. B \subseteq FiniteSubsetsOf(Nat) /\ B # {}
  BY <1>1
<1>3. PICK b \in B : \A c \in B : ~(<<c, b>> \in StrictSubsetOrdering(Nat))
  BY <1>2, FS_StrictSubsetOrderingWellFounded, WFMin
<1>4. PICK m \in T : b = Below(m)
  OBVIOUS
<1>5. ASSUME NEW k \in T, k < m PROVE FALSE
  <2>1. Below(k) \subseteq Below(m) /\ Below(k) # Below(m)
    BY <1>5
  <2>2. <<Below(k), b>> \in StrictSubsetOrdering(Nat)
    BY <1>4, <2>1 DEF StrictSubsetOrdering
  <2> QED BY <1>3, <2>2
<1> QED BY <1>5

(* f counts the tokens of S from the head of the stream.                   *)
Counts(f, S) ==
  /\ f \in [0 .. MaxRecords -> Nat]
  /\ f[0] = 0
  /\ \A i \in 1 .. MaxRecords : f[i] = f[i - 1] + (IF i \in S THEN size[i] ELSE 0)

(* The tokens of the records in S are n.                                   *)
Whole(S, n) == \E f \in [0 .. MaxRecords -> Nat] : Counts(f, S) /\ f[MaxRecords] = n

(* The sum that Tokens computes is the only one: two counts cannot differ  *)
(* for the first time anywhere.                                            *)
LEMMA WholeIsTokens ==
  ASSUME TypeOK, NEW S, NEW n, Whole(S, n)
  PROVE  Tokens(S) = n
<1> USE RowPackerAssumption
<1>1. PICK f \in [0 .. MaxRecords -> Nat] : Counts(f, S) /\ f[MaxRecords] = n
  BY DEF Whole
<1> DEFINE Step(u) == [i \in 0 .. MaxRecords |->
                         IF i = 0 THEN 0 ELSE u[i - 1] + (IF i \in S THEN size[i] ELSE 0)]
           u == CHOOSE g : g = Step(g)
<1>2. f = Step(f)
  BY <1>1 DEF Counts
<1>3. u = Step(u)
  <2> HIDE DEF Step
  <2> QED BY <1>2
<1>4. Tokens(S) = u[MaxRecords]
  BY DEF Tokens
<1> HIDE DEF u
<1>5. u[0] = 0 /\ \A i \in 1 .. MaxRecords : u[i] = u[i - 1] + (IF i \in S THEN size[i] ELSE 0)
  BY <1>3
<1>6. ASSUME u[MaxRecords] # f[MaxRecords] PROVE FALSE
  <2> DEFINE T == {i \in 0 .. MaxRecords : u[i] # f[i]}
  <2>1. T \in SUBSET Nat
    OBVIOUS
  <2>2. MaxRecords \in T
    BY <1>6
  <2> HIDE DEF T
  <2>3. PICK m \in T : \A k \in T : m <= k
    BY <2>1, <2>2, LeastNumber
  <2>4. m \in 1 .. MaxRecords /\ m - 1 \in 0 .. MaxRecords /\ m - 1 \notin T
    BY <1>1, <1>5, <2>1, <2>3 DEF T, Counts
  <2> QED BY <1>1, <1>5, <2>3, <2>4 DEF T, Counts
<1> QED BY <1>1, <1>4, <1>6

(* No records, no tokens. *)
LEMMA NothingIsWhole == Whole({}, 0)
<1> DEFINE f == [i \in 0 .. MaxRecords |-> 0]
<1>1. f \in [0 .. MaxRecords -> Nat] /\ Counts(f, {}) /\ f[MaxRecords] = 0
  BY RowPackerAssumption DEF Counts
<1> QED BY <1>1 DEF Whole

(* One more record adds its tokens. *)
LEMMA OneMoreRecord ==
  ASSUME TypeOK, NEW S, NEW n, Whole(S, n), NEW r \in Records, r \notin S
  PROVE  Whole(S \cup {r}, n + size[r])
<1> USE RowPackerAssumption
<1>1. PICK f \in [0 .. MaxRecords -> Nat] : Counts(f, S) /\ f[MaxRecords] = n
  BY DEF Whole
<1>2. size[r] \in Nat /\ r \in 1 .. MaxRecords
  BY DEF TypeOK, Records
<1> DEFINE g == [i \in 0 .. MaxRecords |-> IF i >= r THEN f[i] + size[r] ELSE f[i]]
<1>3. g \in [0 .. MaxRecords -> Nat] /\ g[0] = 0 /\ g[MaxRecords] = n + size[r]
  BY <1>1, <1>2 DEF Counts
<1>4. ASSUME NEW i \in 1 .. MaxRecords
      PROVE  g[i] = g[i - 1] + (IF i \in S \cup {r} THEN size[i] ELSE 0)
  <2>1. /\ f[i] = f[i - 1] + (IF i \in S THEN size[i] ELSE 0)
        /\ f[i] \in Nat /\ f[i - 1] \in Nat /\ size[i] \in Nat
    BY <1>1, <1>4 DEF Counts, TypeOK, Records
  <2>2. /\ g[i] = IF i >= r THEN f[i] + size[r] ELSE f[i]
        /\ g[i - 1] = IF i - 1 >= r THEN f[i - 1] + size[r] ELSE f[i - 1]
    BY <1>4
  <2> HIDE DEF g
  <2>3. CASE i = r
    BY <1>2, <2>1, <2>2, <2>3
  <2>4. CASE i < r
    BY <1>2, <2>1, <2>2, <2>4
  <2>5. CASE i > r
    BY <1>2, <2>1, <2>2, <2>5
  <2> QED BY <1>2, <2>3, <2>4, <2>5
<1> QED BY <1>3, <1>4 DEF Whole, Counts

AllWhole ==
  /\ Whole(row, filled)
  /\ \A k \in 1 .. Len(Closed) : Whole(Closed[k].records, Closed[k].filled)

(* Every step leaves the closed rows and the row under way whole. *)
LEMMA WholeStep == TypeOK /\ Places /\ AllWhole /\ [Next]_vars => AllWhole'
<1> SUFFICES ASSUME TypeOK, Places, AllWhole, [Next]_vars PROVE AllWhole'
  OBVIOUS
<1>1. size' = size
  BY DEF Next, Work, Ask, DrawRecord, EndRefill, Pick, StartRefill, CloseRow, Stops, inputs, vars
<1>3. CASE Ask \/ DrawRecord \/ EndRefill \/ StartRefill \/ Stops \/ UNCHANGED vars
  <2>1. Closed' = Closed /\ row' = row /\ filled' = filled
    BY <1>3, ClosedSame
       DEF Ask, DrawRecord, EndRefill, StartRefill, Stops, vars, rowVars
  <2> QED BY <1>1, <2>1 DEF AllWhole, Whole, Counts
<1>4. CASE Pick
  <2>1. Closed' = Closed
    BY <1>4, ClosedSame
  <2>2. PICK i \in pool : row' = row \cup {i} /\ filled' = filled + size[i]
    BY <1>4 DEF Pick, Fitting
  <2>3. i \in Records
    BY <2>2, RowPackerAssumption DEF TypeOK, Records
  <2>5. i \notin row
    BY <2>2 DEF Places
  <2>4. Whole(row \cup {i}, filled + size[i])
    BY <2>3, <2>5, OneMoreRecord DEF AllWhole
  <2> QED BY <1>1, <2>1, <2>2, <2>4 DEF AllWhole, Whole, Counts
<1>5. CASE CloseRow
  <2>1. row' = {} /\ filled' = 0
    BY <1>5 DEF CloseRow
  <2>2. Whole(row, filled)'
    BY <1>1, <2>1, NothingIsWhole DEF Whole, Counts
  <2>3. /\ Len(Closed) \in Nat /\ Len(Closed') = Len(Closed) + 1
        /\ Closed'[Len(Closed) + 1].records = row
        /\ Closed'[Len(Closed) + 1].filled = filled
        /\ \A k \in 1 .. Len(Closed) : Closed'[k] = Closed[k]
    BY <1>5, ClosedGrows DEF ClosedRow
  <2>4. \A k \in 1 .. Len(Closed) + 1 : Whole(Closed'[k].records, Closed'[k].filled)
    BY <2>3 DEF AllWhole
  <2>5. \A k \in 1 .. Len(Closed') : Whole(Closed[k].records, Closed[k].filled)'
    BY <1>1, <2>3, <2>4 DEF Whole, Counts
  <2> QED BY <2>2, <2>5 DEF AllWhole
<1> QED BY <1>3, <1>4, <1>5 DEF Next, Work

(* A row's fill level is the sum of its records' sizes, and never more     *)
(* than a row takes (sft/data.py:330-335, mephisto.py:75-77).              *)
THEOREM PacksWholeRecords == Spec => []RowsAreWhole
<1>1. Init => AllWhole
  <2> SUFFICES ASSUME Init PROVE AllWhole
    OBVIOUS
  <2>1. row = {} /\ filled = 0 /\ emitted = <<>> /\ rows = <<>>
    BY DEF Init
  <2>2. Len(Closed) = 0
    BY <2>1 DEF Closed
  <2> QED BY <2>1, <2>2, NothingIsWhole DEF AllWhole
<1>2. TypeOK /\ Places /\ [Next]_vars /\ AllWhole => AllWhole'
  BY WholeStep
<1>3. TypeOK /\ AllWhole => RowsAreWhole
  BY ClosedType, WholeIsTokens, RowPackerAssumption DEF AllWhole, RowsAreWhole
<1> QED BY PlacesHold, <1>1, <1>2, <1>3, PTL DEF Spec

--------------------------------------------------------------------------------
(* What CallsReturn stands on, besides fairness: a call can always go on,  *)
(* and not for ever.                                                       *)

(* The guards of Work: those of Pick, of StartRefill, of CloseRow and      *)
(* Stops together, and of the refill.                                      *)
Ready ==
  \/ pc = "row" /\ filled < Capacity /\ \E i \in Fitting : \A j \in Fitting : i <= j
  \/ pc = "row" /\ filled < Capacity /\ pool = {} /\ ~exhausted
  \/ pc = "row" /\ RowIsOver
  \/ pc = "refill" /\ ((~BufferFull /\ drawn < length) \/ BufferFull \/ drawn = length)

CallGoesOn == pc \in {"row", "refill"} => Ready

(* A refill that has found something, the row it is for, and the refill    *)
(* after that, which draws a record or notes the end of the stream.        *)
Stage ==
  IF pc = "refill" THEN (IF buffer = {} THEN 1 ELSE 3) ELSE (IF pc = "row" THEN 2 ELSE 0)

(* The parts of the order come first to last: the stream is read on, its   *)
(* end is noted, the stages follow each other, the pool is used up, and    *)
(* the row under way is closed.                                            *)
Nearer ==
  \/ drawn < drawn'
  \/ drawn' = drawn /\ ~exhausted /\ exhausted'
  \/ /\ drawn' = drawn /\ exhausted' = exhausted
     /\ \/ Stage' < Stage
        \/ Stage' = Stage /\ pool' \subseteq pool /\ pool' # pool
        \/ Stage' = Stage /\ pool' = pool /\ row # {} /\ row' = {}

(* A call of next() is never stuck, and every step of it brings it nearer  *)
(* to its end: there are finitely many records to draw, and a pool of      *)
(* finitely many to place (sft/data.py:329-405).                           *)
THEOREM CallsEnd == Spec => []CallGoesOn /\ [][pc # "idle" => Nearer]_vars
<1>1. TypeOK => CallGoesOn
  <2> SUFFICES ASSUME TypeOK, pc \in {"row", "refill"} PROVE Ready
    BY DEF CallGoesOn
  <2> USE RowPackerAssumption
  <2>1. CASE pc = "refill"
    <3>1. drawn \in Nat /\ length \in Nat /\ drawn <= length
      BY DEF TypeOK
    <3>2. QED
      BY <2>1, <3>1 DEF Ready
  <2>2. CASE pc = "row" /\ filled < Capacity /\ Fitting # {}
    <3>1. Fitting \in SUBSET Nat
      <4>1. Fitting \subseteq pool /\ pool \subseteq 1 .. drawn
        BY DEF Fitting, TypeOK
      <4>2. QED
        BY <4>1
    <3>2. QED
      BY <2>2, <3>1, LeastNumber DEF Ready
  <2>3. CASE pc = "row" /\ filled < Capacity /\ Fitting = {}
    BY <2>3 DEF Ready, RowIsOver
  <2>4. CASE pc = "row" /\ ~(filled < Capacity)
    <3>1. filled \in Nat /\ Capacity \in Nat
      BY DEF TypeOK
    <3>2. QED
      BY <2>4, <3>1 DEF Ready, RowIsOver
  <2>5. QED
    BY <2>1, <2>2, <2>3, <2>4
<1>2. TypeOK /\ Places /\ [Next]_vars => [pc # "idle" => Nearer]_vars
  <2> SUFFICES ASSUME TypeOK, Places, pc # "idle", Work PROVE Nearer
    BY DEF Next, Ask
  <2> USE RowPackerAssumption DEF inputs, refillVars, rowVars, batchVars
  <2>0. drawn \in Nat /\ length \in Nat /\ drawn <= length /\ exhausted \in BOOLEAN
    BY DEF TypeOK
  <2>1. CASE DrawRecord
    BY <2>0, <2>1 DEF DrawRecord, Nearer
  <2>2. CASE EndRefill
    <3>1. CASE buffer = {}
      BY <2>2, <3>1 DEF EndRefill, Places, Nearer
    <3>2. CASE buffer # {}
      BY <2>0, <2>2, <3>2 DEF EndRefill, Stage, Nearer
    <3>3. QED
      BY <3>1, <3>2
  <2>3. CASE Pick
    BY <2>3 DEF Pick, Fitting, Stage, Nearer
  <2>4. CASE StartRefill
    BY <2>4 DEF StartRefill, Places, Stage, Nearer
  <2>5. CASE CloseRow
    BY <2>5 DEF CloseRow, Stage, Nearer
  <2>6. CASE Stops
    BY <2>6 DEF Stops, Stage, Nearer
  <2>7. QED
    BY <2>1, <2>2, <2>3, <2>4, <2>5, <2>6 DEF Work
<1>3. QED
  BY <1>1, <1>2, PlacesHold, PTL DEF Spec

================================================================================
