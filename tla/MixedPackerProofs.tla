---------------------------- MODULE MixedPackerProofs ---------------------------
(***************************************************************************)
(* For all streams, budgets and row sizes: the types hold, an example is   *)
(* padded only for want of a row that fits, every row taken is in one      *)
(* place, no kept row is overtaken by more than one example, and pack_rows *)
(* never finds an example over budget.                                     *)
(***************************************************************************)
EXTENDS MixedPacker, FiniteSetTheorems, TLAPS

(* A row is no empty slot.                                                 *)
LEMMA RowIsReal ==
  ASSUME NEW r \in Row
  PROVE  /\ r # NoRow /\ r.stream \in Streams /\ r.stream # Nobody
         /\ r.number \in Nat /\ r.number > 0
         /\ r.tokens \in RowSizes /\ r.tokens \in 1 .. Capacity
         /\ r.images \in 0 .. MaxImages
         /\ (r.images > 0 <=> r.stream = Vision)
<1>1. /\ r.stream \in Streams /\ r.number \in Nat \ {0} /\ r.tokens \in RowSizes
      /\ r.images \in 0 .. MaxImages /\ (r.images > 0 <=> r.stream = Vision)
  BY DEF Row
<1>2. r.stream # Nobody /\ r.tokens \in 1 .. Capacity
  BY <1>1, MixedPackerAssumption
<1>3. NoRow.stream = Nobody
  BY DEF NoRow
<1>4. r # NoRow
  BY <1>2, <1>3
<1> QED BY <1>1, <1>2, <1>4

(* What a stream answers is a row of it.                                   *)
LEMMA AnswerIsRow ==
  ASSUME NEW s \in Streams, NEW n \in Nat \ {0}, NEW r \in RowsOf(s, n)
  PROVE  r \in Row /\ r.stream = s /\ r.number = n
  BY DEF RowsOf, Row

(* What putting a row at the end of a sequence adds.                       *)
LEMMA AppendRow ==
  ASSUME NEW S, NEW q \in Seq(S), NEW e \in S
  PROVE  /\ Append(q, e) \in Seq(S)
         /\ Len(q) \in Nat /\ Len(Append(q, e)) = Len(q) + 1
         /\ Append(q, e) # <<>>
         /\ \A i \in 1 .. Len(q) : Append(q, e)[i] = q[i] /\ q[i] \in S
         /\ Append(q, e)[Len(q) + 1] = e
  OBVIOUS

--------------------------------------------------------------------------------
(* Types and shape *)

NoRoom(r) == used + r.tokens > Capacity \/ imageCount + r.images > MaxImages

(* What the two loops know where.                                          *)
Shape ==
  /\ pc \notin {"main", "fill"} => choice = Nobody
  /\ pc = "idle" => rows = <<>>
  /\ rows = <<>> => used = 0 /\ imageCount = 0
  /\ pc = "main" => ~Full
  /\ pc = "main" /\ pending # NoRow => rows = <<>>
  /\ pc = "main" /\ choice # Nobody => pending = NoRow /\ pendingFill = NoRow
  /\ pc = "fill" =>
       /\ pendingFill = NoRow /\ pending # NoRow /\ NoRoom(pending)
       /\ ~Full /\ rows # <<>> /\ Text # {}
       /\ choice \in Text \cup {Nobody}
  /\ PaddedForCause

(* A row that fits is added to the example.                                *)
Added(r) ==
  /\ rows' = Append(rows, r)
  /\ used' = used + r.tokens /\ used' \in 0 .. Capacity
  /\ imageCount' = imageCount + r.images /\ imageCount' \in 0 .. MaxImages
  /\ packed' = packed /\ choice' = Nobody

(* One that does not is kept, and the example stays.                       *)
Kept == rows' = rows /\ used' = used /\ imageCount' = imageCount /\ packed' = packed
        /\ choice' = Nobody

(* Where the next row of a stream comes from.                              *)
New(r) ==
  /\ r \in Row /\ r.number = taken[r.stream] + 1
  /\ taken' = [taken EXCEPT ![r.stream] = @ + 1]

(* The moves that the steps of the packer make.                            *)
AddPending ==
  /\ pc = "main" /\ pending # NoRow /\ rows = <<>> /\ Added(pending)
  /\ pending' = NoRow /\ pendingFill' = pendingFill /\ taken' = taken
AddFill ==
  /\ pc = "main" /\ pending = NoRow /\ pendingFill # NoRow /\ Added(pendingFill)
  /\ pending' = NoRow /\ pendingFill' = NoRow /\ taken' = taken
KeepFill ==
  /\ pc = "main" /\ pending = NoRow /\ pendingFill # NoRow /\ Kept /\ NoRoom(pendingFill)
  /\ pending' = pendingFill /\ pendingFill' = NoRow /\ taken' = taken
AddNew(r) ==
  /\ pc = "main" /\ pending = NoRow /\ pendingFill = NoRow /\ Added(r) /\ New(r)
  /\ pending' = NoRow /\ pendingFill' = NoRow
KeepNew(r) ==
  /\ pc = "main" /\ pending = NoRow /\ pendingFill = NoRow /\ Kept /\ NoRoom(r) /\ New(r)
  /\ pending' = r /\ pendingFill' = NoRow
FillNew(r) ==
  /\ pc = "fill" /\ pendingFill = NoRow /\ Added(r) /\ New(r) /\ r.images = 0
  /\ pending' = pending /\ pendingFill' = NoRow
  /\ pc' = IF used' < Capacity - Slack THEN "fill" ELSE "pack"
EndFill(r) ==
  /\ pc = "fill" /\ pendingFill = NoRow /\ Kept /\ New(r) /\ r.stream # Vision
  /\ used + r.tokens > Capacity
  /\ pending' = pending /\ pendingFill' = r
  /\ pc' = "pack"
Waits ==
  /\ UNCHANGED <<taken, pending, pendingFill, packed, rows, used, imageCount>>
  /\ \/ pc = "idle" /\ pc' = "main" /\ choice' = Nobody
     \/ pc' = "raised" /\ choice' = Nobody
     \/ pc' = pc /\ pc = "main" /\ choice' \in Streams /\ pending = NoRow /\ pendingFill = NoRow
     \/ pc' = pc /\ pc = "fill" /\ choice' \in Text
     \/ pc' = pc /\ choice' = choice
Packs ==
  /\ pc = "pack" /\ pc' = "idle" /\ choice' = choice
  /\ packed' = Append(packed, Names(rows))
  /\ rows' = <<>> /\ used' = 0 /\ imageCount' = 0
  /\ UNCHANGED <<taken, pending, pendingFill>>

MainAdds == pc' = IF used' >= Capacity - Slack THEN "pack" ELSE "main"
MainEnds == pc' = AfterMain

Move ==
  \/ (AddPending \/ AddFill \/ \E r \in Row : AddNew(r)) /\ MainAdds
  \/ (KeepFill \/ \E r \in Row : KeepNew(r)) /\ MainEnds
  \/ \E r \in Row : FillNew(r) \/ EndFill(r)
  \/ Waits
  \/ Packs

(* A row placed by the main loop is added or kept.                         *)
LEMMA PlaceMoves ==
  ASSUME TypeOK, NEW r \in Row, NEW fill, Place(r, fill), packed' = packed, choice' = Nobody
  PROVE  /\ pendingFill' = fill
         /\ \/ Fits(r) /\ Added(r) /\ pending' = NoRow /\ MainAdds
            \/ ~Fits(r) /\ NoRoom(r) /\ Kept /\ pending' = r /\ MainEnds
<1>1. /\ used \in 0 .. Capacity /\ imageCount \in 0 .. MaxImages
      /\ r.tokens \in 1 .. Capacity /\ r.images \in 0 .. MaxImages
      /\ Capacity \in Nat /\ MaxImages \in Nat
  BY RowIsReal, MixedPackerAssumption DEF TypeOK
<1>2. CASE Fits(r)
  <2>1. /\ rows' = Append(rows, r) /\ used' = used + r.tokens
        /\ imageCount' = imageCount + r.images
        /\ pending' = NoRow /\ pendingFill' = fill /\ MainAdds
    BY <1>2 DEF Place, Add, MainAdds
  <2>2. used' \in 0 .. Capacity /\ imageCount' \in 0 .. MaxImages
    BY <1>1, <1>2, <2>1 DEF Fits
  <2> QED BY <1>2, <2>1, <2>2 DEF Added
<1>3. CASE ~Fits(r)
  <2>1. /\ pending' = r /\ pendingFill' = fill /\ MainEnds
        /\ UNCHANGED <<rows, used, imageCount>>
    BY <1>3 DEF Place, MainEnds, example
  <2>2. NoRoom(r)
    BY <1>1, <1>3 DEF Fits, NoRoom
  <2> QED BY <1>3, <2>1, <2>2 DEF Kept
<1> QED BY <1>2, <1>3

(* Every step of the packer is one of the moves.                           *)
LEMMA StepsAreMoves == TypeOK /\ Shape /\ [Next]_vars => Move
<1> SUFFICES ASSUME TypeOK, Shape, [Next]_vars PROVE Move
  OBVIOUS
<1> USE MixedPackerAssumption
<1>1. CASE Begin
  <2>1. /\ pc = "idle" /\ pc' = "main" /\ rows' = <<>> /\ used' = 0 /\ imageCount' = 0
        /\ UNCHANGED <<choice, taken, pending, pendingFill, packed>>
    BY <1>1 DEF Begin, held
  <2>2. rows = <<>> /\ used = 0 /\ imageCount = 0 /\ choice = Nobody
    BY <2>1 DEF Shape
  <2>3. Waits
    BY <2>1, <2>2 DEF Waits
  <2> QED BY <2>3 DEF Move
<1>2. CASE TakePending
  <2>1. /\ pc = "main" /\ choice' = Nobody /\ pending # NoRow /\ pending \in Row
        /\ Place(pending, pendingFill) /\ taken' = taken /\ packed' = packed
    BY <1>2 DEF TakePending, TypeOK
  <2>2. rows = <<>> /\ used = 0 /\ imageCount = 0
    BY <2>1 DEF Shape
  <2>3. Fits(pending)
    <3>1. pending.tokens \in 1 .. Capacity /\ pending.images \in 0 .. MaxImages
      BY <2>1, RowIsReal
    <3> QED BY <2>2, <3>1 DEF Fits
  <2>4. Added(pending) /\ pending' = NoRow /\ pendingFill' = pendingFill /\ MainAdds
    BY <2>1, <2>3, PlaceMoves
  <2>5. AddPending
    BY <2>1, <2>2, <2>4 DEF AddPending
  <2> QED BY <2>4, <2>5 DEF Move
<1>3. CASE TakePendingFill
  <2>1. /\ pc = "main" /\ choice' = Nobody /\ pending = NoRow /\ pendingFill # NoRow
        /\ pendingFill \in Row
        /\ Place(pendingFill, NoRow) /\ taken' = taken /\ packed' = packed
    BY <1>3 DEF TakePendingFill, TypeOK
  <2>2. /\ pendingFill' = NoRow
        /\ \/ Added(pendingFill) /\ pending' = NoRow /\ MainAdds
           \/ NoRoom(pendingFill) /\ Kept /\ pending' = pendingFill /\ MainEnds
    BY <2>1, PlaceMoves
  <2>3. CASE Added(pendingFill) /\ pending' = NoRow /\ MainAdds
    <3>1. AddFill
      BY <2>1, <2>2, <2>3 DEF AddFill
    <3> QED BY <2>3, <3>1 DEF Move
  <2>4. CASE NoRoom(pendingFill) /\ Kept /\ pending' = pendingFill /\ MainEnds
    <3>1. KeepFill
      BY <2>1, <2>2, <2>4 DEF KeepFill
    <3> QED BY <2>4, <3>1 DEF Move
  <2> QED BY <2>2, <2>3, <2>4
<1>4. CASE Choose
  <2>1. Waits
    BY <1>4 DEF Choose, Waits, held, example
  <2> QED BY <2>1 DEF Move
<1>5. CASE FillTurn
  <2>1. pc = "fill" /\ pendingFill = NoRow
    BY <1>5 DEF FillTurn, Shape
  <2>2. Waits
    BY <1>5, <2>1 DEF FillTurn, Waits, example
  <2> QED BY <2>2 DEF Move
<1>6. CASE Receive
  <2>1. PICK r \in RowsOf(choice, taken[choice] + 1) :
          IF pc = "main" THEN Place(r, pendingFill) ELSE FillUp(r) /\ UNCHANGED pending
    BY <1>6 DEF Receive
  <2>2. /\ choice \in Streams /\ taken[choice] \in Nat /\ choice' = Nobody
        /\ packed' = packed /\ taken' = [taken EXCEPT ![choice] = @ + 1]
        /\ pc \in {"main", "fill"}
    BY <1>6 DEF Receive, TypeOK, Shape
  <2>3. r \in Row /\ r.stream = choice /\ r.number = taken[choice] + 1
    BY <2>2, AnswerIsRow
  <2>4. New(r)
    BY <2>2, <2>3 DEF New
  <2>5. CASE pc = "main"
    <3>1. pending = NoRow /\ pendingFill = NoRow
      BY <1>6, <2>5 DEF Receive, Shape
    <3>2. /\ pendingFill' = NoRow
          /\ \/ Added(r) /\ pending' = NoRow /\ MainAdds
             \/ NoRoom(r) /\ Kept /\ pending' = r /\ MainEnds
      BY <2>1, <2>2, <2>3, <2>5, <3>1, PlaceMoves
    <3>3. CASE Added(r) /\ pending' = NoRow /\ MainAdds
      <4>1. AddNew(r)
        BY <2>4, <2>5, <3>1, <3>2, <3>3 DEF AddNew
      <4> QED BY <2>3, <3>3, <4>1 DEF Move
    <3>4. CASE NoRoom(r) /\ Kept /\ pending' = r /\ MainEnds
      <4>1. KeepNew(r)
        BY <2>4, <2>5, <3>1, <3>2, <3>4 DEF KeepNew
      <4> QED BY <2>3, <3>4, <4>1 DEF Move
    <3> QED BY <3>2, <3>3, <3>4
  <2>6. CASE pc = "fill"
    <3>1. pendingFill = NoRow /\ choice \in Text /\ r.stream # Vision
      BY <1>6, <2>3, <2>6 DEF Receive, Shape
    <3>2. r.images = 0 /\ r.tokens \in 1 .. Capacity
      BY <2>3, <3>1, RowIsReal
    <3>3. FillUp(r) /\ pending' = pending
      BY <2>1, <2>6
    <3>4. CASE used + r.tokens <= Capacity
      <4>1. /\ rows' = Append(rows, r) /\ used' = used + r.tokens /\ imageCount' = imageCount
            /\ pendingFill' = NoRow
            /\ pc' = IF used' < Capacity - Slack THEN "fill" ELSE "pack"
        BY <3>3, <3>4 DEF FillUp
      <4>2. used' \in 0 .. Capacity /\ imageCount' = imageCount + r.images
            /\ imageCount' \in 0 .. MaxImages
        BY <3>2, <3>4, <4>1 DEF TypeOK
      <4>3. FillNew(r)
        BY <2>2, <2>4, <2>6, <3>1, <3>2, <3>3, <4>1, <4>2 DEF FillNew, Added
      <4> QED BY <2>3, <4>3 DEF Move
    <3>5. CASE ~(used + r.tokens <= Capacity)
      <4>1. pendingFill' = r /\ pc' = "pack" /\ UNCHANGED <<rows, used, imageCount>>
        BY <3>3, <3>5 DEF FillUp, example
      <4>2. used + r.tokens > Capacity
        BY <3>2, <3>5 DEF TypeOK
      <4>3. EndFill(r)
        BY <2>2, <2>4, <2>6, <3>1, <3>3, <4>1, <4>2 DEF EndFill, Kept
      <4> QED BY <2>3, <4>3 DEF Move
    <3> QED BY <3>4, <3>5
  <2> QED BY <2>2, <2>5, <2>6
<1>7. CASE Dies
  <2>1. Waits
    BY <1>7 DEF Dies, Waits, held, example
  <2> QED BY <2>1 DEF Move
<1>8. CASE Pack
  <2>1. Packs
    BY <1>8 DEF Pack, Packs, held
  <2> QED BY <2>1 DEF Move
<1>9. CASE UNCHANGED vars
  <2>1. Waits
    BY <1>9 DEF vars, Waits, held, example
  <2> QED BY <2>1 DEF Move
<1> QED BY <1>1, <1>2, <1>3, <1>4, <1>5, <1>6, <1>7, <1>8, <1>9 DEF Next, Main, Answer

--------------------------------------------------------------------------------
(* Every move keeps types and shape *)

LEMMA InitFine == Init => TypeOK /\ Shape
<1> SUFFICES ASSUME Init PROVE TypeOK /\ Shape
  OBVIOUS
<1>1. TypeOK
  BY MixedPackerAssumption DEF Init, TypeOK
<1>2. Shape
  BY DEF Init, Shape, PaddedForCause
<1> QED BY <1>1, <1>2

(* A stream that has given a row has still given a number of them.         *)
LEMMA NewTypes ==
  ASSUME TypeOK, NEW r \in Row, New(r)
  PROVE  /\ taken' \in [Streams -> Nat]
         /\ taken'[r.stream] = r.number
         /\ \A s \in Streams : taken[s] \in Nat /\ taken[s] <= taken'[s]
         /\ \A s \in Streams : s # r.stream => taken'[s] = taken[s]
<1>1. r.stream \in Streams
  BY RowIsReal
<1>2. taken \in [Streams -> Nat] /\ taken' = [taken EXCEPT ![r.stream] = @ + 1]
      /\ r.number = taken[r.stream] + 1
  BY DEF TypeOK, New
<1> QED BY <1>1, <1>2

(* What the moves of the main loop, and of the fill loop, set.             *)
Sets ==
  /\ rows' \in Seq(Row) /\ used' \in 0 .. Capacity /\ imageCount' \in 0 .. MaxImages
  /\ packed' = packed /\ choice' = Nobody

LEMMA AddedSets ==
  ASSUME TypeOK, NEW r \in Row, Added(r)
  PROVE  Sets /\ rows' # <<>> /\ packed' = packed
  BY AppendRow DEF TypeOK, Added, Sets

LEMMA KeptSets ==
  ASSUME TypeOK, Kept
  PROVE  Sets
  BY DEF TypeOK, Kept, Sets

(* Types of a step that only fills or ends the example under way.          *)
LEMMA SetsType ==
  ASSUME TypeOK, Sets, taken' \in [Streams -> Nat],
         pending' \in Row \cup {NoRow},
         pendingFill' \in {r \in Row : r.stream # Vision} \cup {NoRow},
         pc' \in {"main", "fill", "pack"}
  PROVE  TypeOK'
  BY DEF TypeOK, Sets

LEMMA NamesOfRows ==
  ASSUME TypeOK
  PROVE  Names(rows) \in SUBSET (Streams \X Nat)
<1> SUFFICES ASSUME NEW i \in 1 .. Len(rows) PROVE Name(rows[i]) \in Streams \X Nat
  BY DEF Names
<1>1. rows[i] \in Row
  BY DEF TypeOK
<1> QED BY <1>1, RowIsReal DEF Name

(* Every step keeps the types. *)
LEMMA TypeStep == TypeOK /\ Shape /\ [Next]_vars => TypeOK'
<1> SUFFICES ASSUME TypeOK, Move PROVE TypeOK'
  BY StepsAreMoves
<1>0. /\ taken \in [Streams -> Nat] /\ pending \in Row \cup {NoRow}
      /\ pendingFill \in {r \in Row : r.stream # Vision} \cup {NoRow}
  BY DEF TypeOK
<1>1. CASE (AddPending \/ AddFill) /\ MainAdds
  <2>1. /\ Sets /\ taken' = taken /\ pc' \in {"main", "pack"} /\ pending' = NoRow
        /\ pendingFill' \in {pendingFill, NoRow}
    BY <1>0, <1>1, AddedSets DEF AddPending, AddFill, MainAdds
  <2> QED BY <1>0, <2>1, SetsType
<1>2. CASE \E r \in Row : AddNew(r) /\ MainAdds
  <2>1. PICK r \in Row : AddNew(r) /\ MainAdds
    BY <1>2
  <2>2. /\ Sets /\ New(r) /\ pc' \in {"main", "pack"} /\ pending' = NoRow /\ pendingFill' = NoRow
    BY <2>1, AddedSets DEF AddNew, MainAdds
  <2> QED BY <2>2, NewTypes, SetsType
<1>3. CASE KeepFill /\ MainEnds
  <2>1. /\ Sets /\ taken' = taken /\ pc' \in {"fill", "pack"} /\ pending' = pendingFill
        /\ pendingFill' = NoRow
    BY <1>3, KeptSets DEF KeepFill, MainEnds, AfterMain
  <2> QED BY <1>0, <2>1, SetsType
<1>4. CASE \E r \in Row : KeepNew(r) /\ MainEnds
  <2>1. PICK r \in Row : KeepNew(r) /\ MainEnds
    BY <1>4
  <2>2. /\ Sets /\ New(r) /\ pc' \in {"fill", "pack"} /\ pending' = r /\ pendingFill' = NoRow
    BY <2>1, KeptSets DEF KeepNew, MainEnds, AfterMain
  <2> QED BY <2>2, NewTypes, SetsType
<1>5. CASE \E r \in Row : FillNew(r)
  <2>1. PICK r \in Row : FillNew(r)
    BY <1>5
  <2>2. /\ Sets /\ New(r) /\ pc' \in {"fill", "pack"} /\ pending' = pending
        /\ pendingFill' = NoRow
    BY <2>1, AddedSets DEF FillNew
  <2> QED BY <1>0, <2>2, NewTypes, SetsType
<1>6. CASE \E r \in Row : EndFill(r)
  <2>1. PICK r \in Row : EndFill(r)
    BY <1>6
  <2>2. /\ Sets /\ New(r) /\ pc' = "pack" /\ pending' = pending /\ pendingFill' = r
        /\ r.stream # Vision
    BY <2>1, KeptSets DEF EndFill
  <2> QED BY <1>0, <2>2, NewTypes, SetsType
<1>7. CASE Waits
  <2>1. /\ UNCHANGED <<taken, pending, pendingFill, packed, rows, used, imageCount>>
        /\ pc' \in {pc, "main", "raised"} /\ choice' \in Streams \cup {choice, Nobody}
    BY <1>7 DEF Waits, Streams
  <2> QED BY <2>1 DEF TypeOK
<1>8. CASE Packs
  <2>1. packed' \in Seq(SUBSET (Streams \X Nat))
    BY <1>8, NamesOfRows, AppendRow DEF Packs, TypeOK
  <2>2. /\ rows' = <<>> /\ used' = 0 /\ imageCount' = 0 /\ pc' = "idle"
        /\ UNCHANGED <<choice, taken, pending, pendingFill>>
    BY <1>8 DEF Packs
  <2> QED BY <2>1, <2>2, MixedPackerAssumption DEF TypeOK
<1> QED BY <1>1, <1>2, <1>3, <1>4, <1>5, <1>6, <1>7, <1>8 DEF Move

(* The main loop adds a row and goes on while there is room.               *)
LEMMA MainAddsShape ==
  ASSUME TypeOK, NEW r \in Row, Added(r), pending' = NoRow, MainAdds
  PROVE  Shape'
<1>1. rows' # <<>> /\ choice' = Nobody
  BY AddedSets DEF Added
<1>2. used' \in Nat /\ Capacity - Slack \in Int
  BY MixedPackerAssumption DEF Added
<1>3. CASE used' >= Capacity - Slack
  <2>1. pc' = "pack"
    BY <1>3 DEF MainAdds
  <2>2. Full'
    BY <1>3 DEF Full
  <2> QED BY <1>1, <2>1, <2>2 DEF Shape, PaddedForCause
<1>4. CASE ~(used' >= Capacity - Slack)
  <2>1. pc' = "main"
    BY <1>4 DEF MainAdds
  <2>2. ~Full'
    BY <1>4 DEF Full
  <2> QED BY <1>1, <2>1, <2>2 DEF Shape, PaddedForCause
<1> QED BY <1>3, <1>4

(* A row that has no room ends the main loop of an example with rows.      *)
LEMMA MainEndsShape ==
  ASSUME TypeOK, Shape, NEW r \in Row, Kept, NoRoom(r),
         pending' = r, pendingFill' = NoRow, MainEnds
  PROVE  Shape'
<1>1. /\ rows' = rows /\ used' = used /\ imageCount' = imageCount /\ choice' = Nobody
      /\ pc' = AfterMain /\ r # NoRow
  BY RowIsReal DEF Kept, MainEnds
<1>2. rows # <<>>
  <2>1. SUFFICES ASSUME used = 0, imageCount = 0 PROVE FALSE
    BY DEF Shape
  <2>2. r.tokens \in 1 .. Capacity /\ r.images \in 0 .. MaxImages
    BY RowIsReal
  <2> QED BY <2>1, <2>2, MixedPackerAssumption DEF NoRoom
<1>3. NoRoom(pending)'
  BY <1>1 DEF NoRoom
<1>4. Full' = Full
  BY <1>1 DEF Full
<1>5. CASE Text # {} /\ ~Full
  <2>1. pc' = "fill"
    BY <1>1, <1>5 DEF AfterMain
  <2> QED BY <1>1, <1>2, <1>3, <1>4, <1>5, <2>1 DEF Shape, PaddedForCause
<1>6. CASE ~(Text # {} /\ ~Full)
  <2>1. pc' = "pack"
    BY <1>1, <1>6 DEF AfterMain
  <2>2. PaddedForCause'
    BY <1>1, <1>2, <1>3, <1>4, <1>6 DEF PaddedForCause, NoRoom
  <2>3. rows' # <<>>
    BY <1>1, <1>2
  <2> QED BY <1>1, <2>1, <2>2, <2>3 DEF Shape
<1> QED BY <1>5, <1>6

(* Every step keeps the shape. *)
LEMMA ShapeStep == TypeOK /\ Shape /\ [Next]_vars => Shape'
<1> SUFFICES ASSUME TypeOK, Shape, Move PROVE Shape'
  BY StepsAreMoves
<1>0. /\ pending \in Row \cup {NoRow} /\ pendingFill \in Row \cup {NoRow}
      /\ used \in 0 .. Capacity /\ imageCount \in 0 .. MaxImages
      /\ Capacity \in Nat /\ Slack \in Nat /\ MaxImages \in Nat
  BY MixedPackerAssumption DEF TypeOK
<1>1. CASE (AddPending \/ AddFill) /\ MainAdds
  <2>1. PICK r \in Row : Added(r) /\ pending' = NoRow /\ MainAdds
    BY <1>0, <1>1 DEF AddPending, AddFill
  <2> QED BY <2>1, MainAddsShape
<1>2. CASE \E r \in Row : AddNew(r) /\ MainAdds
  <2>1. PICK r \in Row : Added(r) /\ pending' = NoRow /\ MainAdds
    BY <1>2 DEF AddNew
  <2> QED BY <2>1, MainAddsShape
<1>3. CASE (KeepFill \/ \E r \in Row : KeepNew(r)) /\ MainEnds
  <2>1. PICK r \in Row : Kept /\ NoRoom(r) /\ pending' = r /\ pendingFill' = NoRow /\ MainEnds
    BY <1>0, <1>3 DEF KeepFill, KeepNew
  <2> QED BY <2>1, MainEndsShape
<1>4. CASE \E r \in Row : FillNew(r)
  <2>1. PICK r \in Row : FillNew(r)
    BY <1>4
  <2>2. /\ pending' = pending /\ pending # NoRow /\ pendingFill' = NoRow
        /\ pending \in Row /\ NoRoom(pending) /\ Text # {}
        /\ pc' = IF used' < Capacity - Slack THEN "fill" ELSE "pack"
    BY <1>0, <2>1 DEF FillNew, Shape
  <2>3. /\ choice' = Nobody /\ rows' # <<>>
        /\ used' = used + r.tokens /\ imageCount' = imageCount /\ r.tokens \in Nat
        /\ used' \in 0 .. Capacity
    BY <1>0, <2>1, AddedSets, RowIsReal DEF FillNew, Added
  <2>4. NoRoom(pending)'
    <3>1. pending.tokens \in Nat /\ pending.images \in Nat
      BY <2>2, RowIsReal
    <3> QED BY <1>0, <2>2, <2>3, <3>1 DEF NoRoom
  <2>5. CASE used' < Capacity - Slack
    <3>1. pc' = "fill" /\ ~Full'
      BY <1>0, <2>2, <2>3, <2>5 DEF Full
    <3> QED BY <2>2, <2>3, <2>4, <3>1 DEF Shape, PaddedForCause
  <2>6. CASE ~(used' < Capacity - Slack)
    <3>1. pc' = "pack" /\ Full'
      BY <1>0, <2>2, <2>3, <2>6 DEF Full
    <3> QED BY <2>2, <2>3, <3>1 DEF Shape, PaddedForCause
  <2> QED BY <2>5, <2>6
<1>5. CASE \E r \in Row : EndFill(r)
  <2>1. PICK r \in Row : EndFill(r)
    BY <1>5
  <2>2. /\ pending' = pending /\ pending # NoRow /\ pendingFill' = r /\ r # NoRow
        /\ NoRoom(pending) /\ rows # <<>> /\ pc' = "pack" /\ choice' = Nobody
        /\ UNCHANGED <<rows, used, imageCount>> /\ used + r.tokens > Capacity
    BY <2>1, RowIsReal DEF EndFill, Kept, Shape
  <2>3. PaddedForCause'
    BY <2>2 DEF PaddedForCause, NoRoom
  <2> QED BY <2>2, <2>3 DEF Shape
<1>6. CASE Waits
  <2>1. UNCHANGED <<pending, pendingFill, rows, used, imageCount>>
    BY <1>6 DEF Waits
  <2>2. (NoRoom(pending) <=> NoRoom(pending)') /\ (Full <=> Full')
    BY <2>1 DEF NoRoom, Full
  <2>3. CASE pc = "idle" /\ pc' = "main" /\ choice' = Nobody
    <3>1. rows = <<>> /\ used = 0 /\ ~Full'
      BY <1>0, <2>1, <2>3, MixedPackerAssumption DEF Shape, Full
    <3> QED BY <2>1, <2>3, <3>1 DEF Shape, PaddedForCause
  <2>4. CASE pc' = "raised" /\ choice' = Nobody
    BY <2>1, <2>4 DEF Shape, PaddedForCause
  <2>5. CASE pc' = pc /\ pc = "main" /\ pending = NoRow /\ pendingFill = NoRow
    BY <2>1, <2>2, <2>5 DEF Shape, PaddedForCause
  <2>6. CASE pc' = pc /\ pc = "fill" /\ choice' \in Text
    BY <2>1, <2>2, <2>6 DEF Shape, PaddedForCause
  <2>7. CASE pc' = pc /\ choice' = choice
    BY <2>1, <2>2, <2>7 DEF Shape, PaddedForCause
  <2> QED BY <1>6, <2>3, <2>4, <2>5, <2>6, <2>7 DEF Waits
<1>7. CASE Packs
  <2>1. pc' = "idle" /\ choice' = Nobody /\ rows' = <<>> /\ used' = 0 /\ imageCount' = 0
    BY <1>7 DEF Packs, Shape
  <2> QED BY <2>1 DEF Shape, PaddedForCause
<1> QED BY <1>1, <1>2, <1>3, <1>4, <1>5, <1>6, <1>7 DEF Move

(* TypeOK holds throughout: the example under way stays within the budgets. *)
THEOREM TypeCorrect == Spec => []TypeOK
  BY InitFine, TypeStep, ShapeStep, PTL DEF Spec

(* An example is padded only when nothing at hand fits                     *)
(* (vision_data.py:655-671).                                               *)
THEOREM PaddingHasACause == Spec => []PaddedForCause
<1>1. Shape => PaddedForCause
  BY DEF Shape
<1> QED BY <1>1, InitFine, TypeStep, ShapeStep, PTL DEF Spec

--------------------------------------------------------------------------------
(* Every row is in one place *)

(* The name a slot holds, if it holds a row.                               *)
Slot(r) == IF r = NoRow THEN {} ELSE {Name(r)}

(* The names of all the rows taken.                                        *)
Known == {x \in Streams \X Nat : x[2] > 0 /\ x[2] <= taken[x[1]]}

Distinct == \A i, j \in 1 .. Len(rows) : Name(rows[i]) = Name(rows[j]) => i = j

(* The example and the two slots share no row.                             *)
Apart ==
  /\ Names(rows) \cap Slot(pending) = {}
  /\ Names(rows) \cap Slot(pendingFill) = {}
  /\ Slot(pending) \cap Slot(pendingFill) = {}

(* The rows not yet in a finished example.                                 *)
InHand == Names(rows) \cup Slot(pending) \cup Slot(pendingFill)

InPacked == {x \in Streams \X Nat : \E k \in 1 .. Len(packed) : x \in packed[k]}

Places ==
  /\ Distinct
  /\ Apart
  /\ \A k \in 1 .. Len(packed) : packed[k] \cap InHand = {}
  /\ \A k, l \in 1 .. Len(packed) : k # l => packed[k] \cap packed[l] = {}
  /\ Known = InHand \cup InPacked

LEMMA InitPlaces == Init => Places
<1> SUFFICES ASSUME Init PROVE Places
  OBVIOUS
<1>1. rows = <<>> /\ packed = <<>> /\ pending = NoRow /\ pendingFill = NoRow
      /\ taken = [s \in Streams |-> 0]
  BY DEF Init
<1>2. Names(rows) = {} /\ Slot(pending) = {} /\ Slot(pendingFill) = {} /\ InPacked = {}
  BY <1>1 DEF Names, Slot, InPacked
<1>3. Known = {}
  BY <1>1 DEF Known
<1> QED BY <1>1, <1>2, <1>3 DEF Places, Distinct, Apart, InHand

(* One more row in the example is one more name, and a new one keeps names *)
(* apart.                                                                  *)
LEMMA AddedNames ==
  ASSUME TypeOK, NEW r \in Row, rows' = Append(rows, r)
  PROVE  /\ Names(rows)' = Names(rows) \cup {Name(r)}
         /\ Distinct /\ Name(r) \notin Names(rows) => Distinct'
<1>1. /\ Len(rows) \in Nat /\ Len(rows') = Len(rows) + 1 /\ rows'[Len(rows) + 1] = r
      /\ \A i \in 1 .. Len(rows) : rows'[i] = rows[i]
  BY AppendRow DEF TypeOK
<1>2. 1 .. Len(rows') = 1 .. Len(rows) \cup {Len(rows) + 1}
  BY <1>1
<1>3. Names(rows)' = Names(rows) \cup {Name(r)}
  BY <1>1, <1>2 DEF Names
<1>4. ASSUME Distinct, Name(r) \notin Names(rows) PROVE Distinct'
  <2> SUFFICES ASSUME NEW i \in 1 .. Len(rows'), NEW j \in 1 .. Len(rows'),
                      Name(rows'[i]) = Name(rows'[j])
               PROVE  i = j
    BY DEF Distinct
  <2>1. \A m \in 1 .. Len(rows) : Name(rows[m]) # Name(r)
    BY <1>4 DEF Names
  <2>2. CASE i \in 1 .. Len(rows) /\ j \in 1 .. Len(rows)
    BY <1>1, <1>4, <2>2 DEF Distinct
  <2>3. CASE i = Len(rows) + 1 /\ j \in 1 .. Len(rows)
    BY <1>1, <2>1, <2>3
  <2>4. CASE j = Len(rows) + 1 /\ i \in 1 .. Len(rows)
    BY <1>1, <2>1, <2>4
  <2> QED BY <1>2, <2>2, <2>3, <2>4
<1> QED BY <1>3, <1>4

(* A row just taken was not known, and is now.                             *)
LEMMA NewIsKnown ==
  ASSUME TypeOK, NEW r \in Row, New(r)
  PROVE  /\ Name(r) \notin Known /\ Slot(r) = {Name(r)}
         /\ Known' = Known \cup {Name(r)}
<1>1. /\ taken \in [Streams -> Nat] /\ r.stream \in Streams /\ r.number \in Nat /\ r.number > 0
      /\ r.number = taken[r.stream] + 1 /\ taken' = [taken EXCEPT ![r.stream] = @ + 1]
      /\ r # NoRow
  BY RowIsReal DEF TypeOK, New
<1>2. /\ \A s \in Streams : taken[s] \in Nat
      /\ \A s \in Streams : taken'[s] = IF s = r.stream THEN r.number ELSE taken[s]
  BY <1>1
<1>3. Name(r) = <<r.stream, r.number>> /\ Name(r) \in Streams \X Nat
  BY <1>1 DEF Name
<1>4. Name(r) \notin Known
  BY <1>1, <1>2, <1>3 DEF Known
<1>5. ASSUME NEW x \in Streams \X Nat
      PROVE  x \in Known' <=> x \in Known \/ x = Name(r)
  <2>1. PICK s \in Streams, n \in Nat : x = <<s, n>>
    OBVIOUS
  <2>2. /\ x \in Known <=> n > 0 /\ n <= taken[s]
        /\ x \in Known' <=> n > 0 /\ n <= taken'[s]
        /\ x = Name(r) <=> s = r.stream /\ n = r.number
    BY <1>3, <2>1 DEF Known
  <2>3. CASE s = r.stream
    BY <1>1, <1>2, <2>1, <2>2, <2>3
  <2>4. CASE s # r.stream
    BY <1>2, <2>1, <2>2, <2>4
  <2> QED BY <2>3, <2>4
<1>6. Known \subseteq Streams \X Nat /\ Known' \subseteq Streams \X Nat
  BY DEF Known
<1> QED BY <1>1, <1>3, <1>4, <1>5, <1>6 DEF Slot

(* A move inside an example: rows go from one place in hand to another,    *)
(* and at most one new row comes in.                                       *)
LEMMA InHandStep ==
  ASSUME TypeOK, Places, packed' = packed, Distinct', Apart',
         NEW N, N \cap Known = {}, Known' = Known \cup N, InHand' = InHand \cup N
  PROVE  Places'
<1>1. InPacked' = InPacked
  BY DEF InPacked
<1>2. \A k \in 1 .. Len(packed) : packed[k] \cap N = {}
  <2> SUFFICES ASSUME NEW k \in 1 .. Len(packed), NEW x \in packed[k], x \in N PROVE FALSE
    OBVIOUS
  <2>1. x \notin Known /\ x \in Streams \X Nat
    BY DEF TypeOK
  <2> QED BY <2>1 DEF Places, InPacked
<1> QED BY <1>1, <1>2 DEF Places

(* The same without a new row. *)
LEMMA InHandSame ==
  ASSUME TypeOK, Places, packed' = packed, Distinct', Apart', Known' = Known, InHand' = InHand
  PROVE  Places'
<1>1. {} \cap Known = {} /\ Known' = Known \cup {} /\ InHand' = InHand \cup {}
  OBVIOUS
<1> QED BY <1>1, InHandStep

(* Every step keeps each row in one place. *)
LEMMA PlacesStep == TypeOK /\ Shape /\ Places /\ [Next]_vars => Places'
<1> SUFFICES ASSUME TypeOK, Shape, Places, Move PROVE Places'
  BY StepsAreMoves
<1>0. /\ pending \in Row \cup {NoRow} /\ pendingFill \in Row \cup {NoRow}
      /\ Distinct /\ Apart /\ Slot(NoRow) = {}
  BY DEF TypeOK, Places, Slot
<1>1. CASE AddPending
  <2>1. /\ pending \in Row /\ rows' = Append(rows, pending) /\ pending' = NoRow
        /\ pendingFill' = pendingFill /\ taken' = taken /\ packed' = packed
        /\ Slot(pending) = {Name(pending)}
    BY <1>0, <1>1 DEF AddPending, Added, Slot
  <2>2. Names(rows)' = Names(rows) \cup Slot(pending) /\ Distinct'
    BY <1>0, <2>1, AddedNames DEF Apart
  <2>3. Slot(pending)' = {} /\ Slot(pendingFill)' = Slot(pendingFill) /\ Known' = Known
    BY <2>1 DEF Slot, Known
  <2>4. Apart' /\ InHand' = InHand
    BY <1>0, <2>2, <2>3 DEF Apart, InHand
  <2> QED BY <2>1, <2>2, <2>3, <2>4, InHandSame
<1>2. CASE AddFill
  <2>1. /\ pendingFill \in Row /\ rows' = Append(rows, pendingFill)
        /\ pending = NoRow /\ pending' = NoRow
        /\ pendingFill' = NoRow /\ taken' = taken /\ packed' = packed
        /\ Slot(pendingFill) = {Name(pendingFill)}
    BY <1>0, <1>2 DEF AddFill, Added, Slot
  <2>2. Names(rows)' = Names(rows) \cup Slot(pendingFill) /\ Distinct'
    BY <1>0, <2>1, AddedNames DEF Apart
  <2>3. /\ Slot(pending)' = {} /\ Slot(pending) = {} /\ Slot(pendingFill)' = {}
        /\ Known' = Known
    BY <2>1 DEF Slot, Known
  <2>4. Apart' /\ InHand' = InHand
    BY <2>2, <2>3 DEF Apart, InHand
  <2> QED BY <2>1, <2>2, <2>3, <2>4, InHandSame
<1>3. CASE KeepFill
  <2>1. /\ rows' = rows /\ pending = NoRow /\ pending' = pendingFill
        /\ pendingFill' = NoRow /\ taken' = taken /\ packed' = packed
    BY <1>3 DEF KeepFill, Kept
  <2>2. Names(rows)' = Names(rows) /\ Distinct' /\ Known' = Known
    BY <1>0, <2>1 DEF Names, Distinct, Known
  <2>3. /\ Slot(pending) = {} /\ Slot(pending)' = Slot(pendingFill) /\ Slot(pendingFill)' = {}
    BY <2>1 DEF Slot
  <2>4. Apart' /\ InHand' = InHand
    BY <1>0, <2>2, <2>3 DEF Apart, InHand
  <2> QED BY <2>1, <2>2, <2>4, InHandSame
<1>4. CASE \E r \in Row : AddNew(r) \/ FillNew(r)
  <2>1. PICK r \in Row : AddNew(r) \/ FillNew(r)
    BY <1>4
  <2>2. /\ rows' = Append(rows, r) /\ pending' = pending /\ pendingFill' = pendingFill
        /\ packed' = packed /\ New(r)
    BY <2>1 DEF AddNew, FillNew, Added
  <2>3. Name(r) \notin Known /\ Known' = Known \cup {Name(r)}
    BY <2>2, NewIsKnown
  <2>4. Name(r) \notin InHand
    BY <2>3 DEF Places
  <2>5. Names(rows)' = Names(rows) \cup {Name(r)} /\ Distinct'
    BY <1>0, <2>2, <2>4, AddedNames DEF InHand
  <2>6. Slot(pending)' = Slot(pending) /\ Slot(pendingFill)' = Slot(pendingFill)
    BY <2>2 DEF Slot
  <2>7. Apart' /\ InHand' = InHand \cup {Name(r)}
    BY <1>0, <2>4, <2>5, <2>6 DEF Apart, InHand
  <2> QED BY <2>2, <2>3, <2>5, <2>7, InHandStep
<1>5. CASE \E r \in Row : KeepNew(r)
  <2>1. PICK r \in Row : KeepNew(r)
    BY <1>5
  <2>2. /\ rows' = rows /\ pending = NoRow /\ pendingFill = NoRow
        /\ pending' = r /\ pendingFill' = NoRow
        /\ packed' = packed /\ New(r)
    BY <2>1 DEF KeepNew, Kept
  <2>3. /\ Name(r) \notin Known /\ Known' = Known \cup {Name(r)} /\ Slot(r) = {Name(r)}
    BY <2>2, NewIsKnown
  <2>4. Name(r) \notin InHand
    BY <2>3 DEF Places
  <2>5. Names(rows)' = Names(rows) /\ Distinct'
    BY <1>0, <2>2 DEF Names, Distinct
  <2>6. /\ Slot(pending) = {} /\ Slot(pendingFill) = {}
        /\ Slot(pending)' = {Name(r)} /\ Slot(pendingFill)' = {}
    BY <2>2, <2>3 DEF Slot
  <2>7. Apart' /\ InHand' = InHand \cup {Name(r)}
    BY <2>4, <2>5, <2>6 DEF Apart, InHand
  <2> QED BY <2>2, <2>3, <2>5, <2>7, InHandStep
<1>6. CASE \E r \in Row : EndFill(r)
  <2>1. PICK r \in Row : EndFill(r)
    BY <1>6
  <2>2. /\ rows' = rows /\ pendingFill = NoRow
        /\ pending' = pending /\ pendingFill' = r
        /\ packed' = packed /\ New(r)
    BY <2>1 DEF EndFill, Kept
  <2>3. /\ Name(r) \notin Known /\ Known' = Known \cup {Name(r)} /\ Slot(r) = {Name(r)}
    BY <2>2, NewIsKnown
  <2>4. Name(r) \notin InHand
    BY <2>3 DEF Places
  <2>5. Names(rows)' = Names(rows) /\ Distinct'
    BY <1>0, <2>2 DEF Names, Distinct
  <2>6. /\ Slot(pendingFill) = {} /\ Slot(pending)' = Slot(pending)
        /\ Slot(pendingFill)' = {Name(r)}
    BY <2>2, <2>3 DEF Slot
  <2>7. Apart' /\ InHand' = InHand \cup {Name(r)}
    BY <1>0, <2>4, <2>5, <2>6 DEF Apart, InHand
  <2> QED BY <2>2, <2>3, <2>5, <2>7, InHandStep
<1>7. CASE Waits
  <2>1. UNCHANGED <<taken, pending, pendingFill, packed, rows>>
    BY <1>7 DEF Waits
  <2> QED BY <2>1 DEF Places, Distinct, Apart, InHand, InPacked, Known, Names, Slot
<1>8. CASE Packs
  <2>1. /\ packed' = Append(packed, Names(rows)) /\ rows' = <<>>
        /\ UNCHANGED <<taken, pending, pendingFill>>
    BY <1>8 DEF Packs
  <2>2. /\ Len(packed) \in Nat /\ Len(packed') = Len(packed) + 1
        /\ packed'[Len(packed) + 1] = Names(rows)
        /\ \A k \in 1 .. Len(packed) : packed'[k] = packed[k]
    BY <2>1, NamesOfRows, AppendRow DEF TypeOK
  <2>3. 1 .. Len(packed') = 1 .. Len(packed) \cup {Len(packed) + 1}
    BY <2>2
  <2>4. Names(rows)' = {} /\ Distinct'
    BY <2>1 DEF Names, Distinct
  <2>5. /\ Slot(pending)' = Slot(pending) /\ Slot(pendingFill)' = Slot(pendingFill)
        /\ Known' = Known
    BY <2>1 DEF Slot, Known
  <2>6. Apart' /\ InHand = InHand' \cup Names(rows) /\ InHand' \cap Names(rows) = {}
    BY <1>0, <2>4, <2>5 DEF Apart, InHand
  <2>7. InPacked' = InPacked \cup Names(rows)
    BY <2>2, <2>3, NamesOfRows DEF InPacked
  <2>8. \A k \in 1 .. Len(packed) : packed[k] \cap InHand = {}
    BY DEF Places
  <2>9. \A k \in 1 .. Len(packed') : packed'[k] \cap InHand' = {}
    BY <2>2, <2>3, <2>6, <2>8
  <2>10. \A k, l \in 1 .. Len(packed') : k # l => packed'[k] \cap packed'[l] = {}
    <3>1. \A k, l \in 1 .. Len(packed) : k # l => packed[k] \cap packed[l] = {}
      BY DEF Places
    <3>2. \A k \in 1 .. Len(packed) : packed[k] \cap Names(rows) = {}
      BY <2>6, <2>8
    <3> QED BY <2>2, <2>3, <3>1, <3>2
  <2>11. Known' = InHand' \cup InPacked'
    BY <2>5, <2>6, <2>7 DEF Places
  <2> QED BY <2>4, <2>6, <2>9, <2>10, <2>11 DEF Places
<1> QED BY <1>1, <1>2, <1>3, <1>4, <1>5, <1>6, <1>7, <1>8 DEF Move

(* Every row taken is in one example, in the one under way or in one slot  *)
(* (vision_data.py:639-648, 665-671).                                      *)
THEOREM RowsAreKept == Spec => []EveryRowKept
<1>1. TypeOK /\ Places => EveryRowKept
  <2> SUFFICES ASSUME TypeOK, Places PROVE EveryRowKept
    OBVIOUS
  <2>1. \A i, j \in 1 .. Len(rows) : Name(rows[i]) = Name(rows[j]) => i = j
    BY DEF Places, Distinct
  <2>2. ASSUME NEW s \in Streams, NEW n \in 1 .. taken[s]
        PROVE  LET inRows == <<s, n>> \in Names(rows)
                   isPending == Name(pending) = <<s, n>>
                   isFill == Name(pendingFill) = <<s, n>>
               IN  \/ \E k \in Placed(<<s, n>>) :
                        Placed(<<s, n>>) = {k} /\ ~inRows /\ ~isPending /\ ~isFill
                   \/ Placed(<<s, n>>) = {} /\ inRows /\ ~isPending /\ ~isFill
                   \/ Placed(<<s, n>>) = {} /\ ~inRows /\ isPending # isFill
    <3> DEFINE x == <<s, n>>
    <3>1. x \in Known /\ s # Nobody
      BY MixedPackerAssumption DEF TypeOK, Known
    <3>2. /\ (Name(pending) = x) = (x \in Slot(pending))
          /\ (Name(pendingFill) = x) = (x \in Slot(pendingFill))
      <4>1. Name(NoRow) # x
        BY <3>1 DEF Name, NoRow
      <4>2. ASSUME NEW r PROVE (Name(r) = x) = (x \in Slot(r))
        <5> HIDE DEF x
        <5>1. CASE r = NoRow
          BY <4>1, <5>1 DEF Slot
        <5>2. CASE r # NoRow
          BY <5>2 DEF Slot
        <5> QED BY <5>1, <5>2
      <4> QED BY <4>2
    <3> HIDE DEF x
    <3>3. x \in InHand \/ \E k \in 1 .. Len(packed) : x \in packed[k]
      BY <3>1 DEF Places, InPacked
    <3>4. CASE x \in InHand
      <4>1. Placed(x) = {}
        BY <3>4 DEF Places, Placed
      <4>2. /\ x \in Names(rows) => x \notin Slot(pending) /\ x \notin Slot(pendingFill)
            /\ x \in Slot(pending) => x \notin Slot(pendingFill)
            /\ x \in Names(rows) \/ x \in Slot(pending) \/ x \in Slot(pendingFill)
        BY <3>4 DEF Places, Apart, InHand
      <4> QED BY <3>2, <4>1, <4>2 DEF x
    <3>5. CASE \E k \in 1 .. Len(packed) : x \in packed[k]
      <4>1. PICK k \in 1 .. Len(packed) : x \in packed[k]
        BY <3>5
      <4>2. Placed(x) = {k} /\ k \in Placed(x)
        BY <4>1 DEF Places, Placed
      <4>3. x \notin InHand
        BY <4>1 DEF Places
      <4> QED BY <3>2, <4>2, <4>3 DEF InHand, x
    <3> QED BY <3>3, <3>4, <3>5
  <2> QED BY <2>1, <2>2 DEF EveryRowKept
<1> QED BY <1>1, InitFine, TypeStep, ShapeStep, InitPlaces, PlacesStep, PTL DEF Spec

--------------------------------------------------------------------------------
(* A kept row is overtaken by one example at most *)

(* The examples that hold a younger row of the stream of x.                *)
Overtakers(x) == {l \in 1 .. Len(packed) : \E a \in packed[l] : a[1] = x[1] /\ x[2] < a[2]}

(* Only the last example holds rows younger than those in hand, and none   *)
(* is younger than a row that is kept from the one under way.              *)
Order ==
  /\ \A k \in 1 .. Len(packed) : \A x \in packed[k] : \A l \in Overtakers(x) : k <= l + 1
  /\ \A x \in Names(rows) : \A l \in Overtakers(x) : l = Len(packed)
  /\ pc \in {"idle", "main"} => \A x \in Slot(pending) : \A l \in Overtakers(x) : l = Len(packed)
  /\ pc \in {"fill", "pack"} => \A x \in Slot(pending) : Overtakers(x) = {}
  /\ pendingFill # NoRow => pendingFill.number = taken[pendingFill.stream]

LEMMA InitOrder == Init => Order
  BY DEF Init, Order, Names, Slot

(* Nothing overtakes the newest row of a stream.                           *)
LEMMA NewestIsFirst ==
  ASSUME TypeOK, Places, NEW r \in Row, r.number >= taken[r.stream]
  PROVE  Overtakers(Name(r)) = {}
<1> SUFFICES ASSUME NEW l \in 1 .. Len(packed), NEW a \in packed[l],
                    a[1] = Name(r)[1], Name(r)[2] < a[2]
             PROVE  FALSE
  BY DEF Overtakers
<1>1. a \in Streams \X Nat
  BY DEF TypeOK
<1>2. a \in Known
  BY <1>1 DEF Places, InPacked
<1>3. a[2] \in Nat /\ a[2] <= taken[a[1]] /\ a[1] = r.stream /\ r.number < a[2]
  BY <1>1, <1>2 DEF Known, Name
<1>4. taken[r.stream] \in Nat /\ r.number \in Nat
  BY RowIsReal DEF TypeOK
<1> QED BY <1>3, <1>4

(* Every step keeps the order. *)
LEMMA OrderStep == TypeOK /\ Shape /\ Places /\ Order /\ [Next]_vars => Order'
<1> SUFFICES ASSUME TypeOK, Shape, Places, Order, Move PROVE Order'
  BY StepsAreMoves
<1>0. /\ pending \in Row \cup {NoRow} /\ pendingFill \in Row \cup {NoRow}
      /\ Slot(NoRow) = {}
      /\ \A r \in Row : r.stream \in Streams /\ r.number \in Nat /\ Slot(r) = {Name(r)}
      /\ \A s \in Streams : taken[s] \in Nat
  BY RowIsReal DEF TypeOK, Slot
<1>a. ASSUME packed' = packed
      PROVE  /\ \A x : Overtakers(x)' = Overtakers(x)
             /\ Len(packed') = Len(packed)
             /\ \A k \in 1 .. Len(packed') : \A x \in packed'[k] :
                  \A l \in Overtakers(x)' : k <= l + 1
  BY <1>a DEF Overtakers, Order
<1>b. ASSUME NEW r \in Row, New(r)
      PROVE  /\ Overtakers(Name(r)) = {} /\ r.number = taken'[r.stream]
  <2>1. r.number = taken[r.stream] + 1 /\ r.number = taken'[r.stream]
    BY <1>b, NewTypes DEF New
  <2> QED BY <1>0, <2>1, NewestIsFirst
<1>1. CASE AddPending /\ MainAdds
  <2>1. /\ pending \in Row /\ rows' = Append(rows, pending) /\ pending' = NoRow
        /\ pendingFill' = pendingFill /\ taken' = taken /\ packed' = packed
        /\ pc = "main"
    BY <1>0, <1>1 DEF AddPending, Added
  <2>2. Names(rows)' = Names(rows) \cup {Name(pending)}
    BY <2>1, AddedNames
  <2>3. \A x \in Slot(pending) : \A l \in Overtakers(x) : l = Len(packed)
    BY <2>1 DEF Order
  <2>4. \A x \in Names(rows)' : \A l \in Overtakers(x) : l = Len(packed)
    BY <1>0, <2>1, <2>2, <2>3 DEF Order
  <2>5. Slot(pending)' = {}
    BY <2>1 DEF Slot
  <2>6. pendingFill' # NoRow => pendingFill'.number = taken'[pendingFill'.stream]
    BY <2>1 DEF Order
  <2> QED BY <1>a, <2>1, <2>4, <2>5, <2>6 DEF Order
<1>2. CASE AddFill /\ MainAdds
  <2>1. /\ pendingFill \in Row /\ rows' = Append(rows, pendingFill) /\ pending' = NoRow
        /\ pendingFill' = NoRow /\ packed' = packed
        /\ pendingFill # NoRow
    BY <1>0, <1>2 DEF AddFill, Added
  <2>2. Names(rows)' = Names(rows) \cup {Name(pendingFill)}
    BY <2>1, AddedNames
  <2>3. pendingFill.number = taken[pendingFill.stream]
    BY <2>1 DEF Order
  <2>4. Overtakers(Name(pendingFill)) = {}
    BY <1>0, <2>1, <2>3, NewestIsFirst
  <2>5. \A x \in Names(rows)' : \A l \in Overtakers(x) : l = Len(packed)
    BY <2>2, <2>4 DEF Order
  <2>6. Slot(pending)' = {}
    BY <2>1 DEF Slot
  <2> QED BY <1>a, <2>1, <2>5, <2>6 DEF Order
<1>3. CASE KeepFill /\ MainEnds
  <2>1. /\ pendingFill \in Row /\ rows' = rows /\ pending' = pendingFill
        /\ pendingFill' = NoRow /\ packed' = packed /\ pendingFill # NoRow
        /\ pc' \in {"fill", "pack"}
    BY <1>0, <1>3 DEF KeepFill, Kept, MainEnds, AfterMain
  <2>2. pendingFill.number = taken[pendingFill.stream]
    BY <2>1 DEF Order
  <2>3. Overtakers(Name(pendingFill)) = {}
    BY <1>0, <2>1, <2>2, NewestIsFirst
  <2>4. Names(rows)' = Names(rows) /\ Slot(pending)' = {Name(pendingFill)}
    BY <1>0, <2>1 DEF Names, Slot
  <2>5. \A x \in Names(rows)' : \A l \in Overtakers(x) : l = Len(packed)
    BY <2>4 DEF Order
  <2> QED BY <1>a, <2>1, <2>3, <2>4, <2>5 DEF Order
<1>4. CASE \E r \in Row : AddNew(r) /\ MainAdds
  <2>1. PICK r \in Row : AddNew(r) /\ MainAdds
    BY <1>4
  <2>2. /\ rows' = Append(rows, r) /\ pending' = NoRow /\ pendingFill' = NoRow
        /\ packed' = packed /\ New(r)
    BY <2>1 DEF AddNew, Added
  <2>3. Names(rows)' = Names(rows) \cup {Name(r)} /\ Overtakers(Name(r)) = {}
    BY <1>b, <2>2, AddedNames
  <2>4. \A x \in Names(rows)' : \A l \in Overtakers(x) : l = Len(packed)
    BY <2>3 DEF Order
  <2>5. Slot(pending)' = {}
    BY <2>2 DEF Slot
  <2> QED BY <1>a, <2>2, <2>4, <2>5 DEF Order
<1>5. CASE \E r \in Row : KeepNew(r) /\ MainEnds
  <2>1. PICK r \in Row : KeepNew(r) /\ MainEnds
    BY <1>5
  <2>2. /\ rows' = rows /\ pending' = r /\ pendingFill' = NoRow
        /\ packed' = packed /\ New(r) /\ pc' \in {"fill", "pack"}
    BY <2>1 DEF KeepNew, Kept, MainEnds, AfterMain
  <2>3. Names(rows)' = Names(rows) /\ Slot(pending)' = {Name(r)} /\ Overtakers(Name(r)) = {}
    BY <1>b, <2>2, RowIsReal DEF Names, Slot
  <2>4. \A x \in Names(rows)' : \A l \in Overtakers(x) : l = Len(packed)
    BY <2>3 DEF Order
  <2> QED BY <1>a, <2>2, <2>3, <2>4 DEF Order
<1>6. CASE \E r \in Row : FillNew(r)
  <2>1. PICK r \in Row : FillNew(r)
    BY <1>6
  <2>2. /\ rows' = Append(rows, r) /\ pending' = pending /\ pendingFill' = NoRow
        /\ packed' = packed /\ New(r) /\ pc = "fill" /\ pc' \in {"fill", "pack"}
    BY <2>1 DEF FillNew, Added
  <2>3. Names(rows)' = Names(rows) \cup {Name(r)} /\ Overtakers(Name(r)) = {}
    BY <1>b, <2>2, AddedNames
  <2>4. \A x \in Names(rows)' : \A l \in Overtakers(x) : l = Len(packed)
    BY <2>3 DEF Order
  <2>5. Slot(pending)' = Slot(pending) /\ \A x \in Slot(pending) : Overtakers(x) = {}
    BY <2>2 DEF Slot, Order
  <2> QED BY <1>a, <2>2, <2>4, <2>5 DEF Order
<1>7. CASE \E r \in Row : EndFill(r)
  <2>1. PICK r \in Row : EndFill(r)
    BY <1>7
  <2>2. /\ rows' = rows /\ pending' = pending /\ pendingFill' = r
        /\ packed' = packed /\ New(r) /\ pc = "fill" /\ pc' = "pack"
    BY <2>1 DEF EndFill, Kept
  <2>3. Names(rows)' = Names(rows) /\ r.number = taken'[r.stream]
    BY <1>b, <2>2 DEF Names
  <2>4. \A x \in Names(rows)' : \A l \in Overtakers(x) : l = Len(packed)
    BY <2>3 DEF Order
  <2>5. Slot(pending)' = Slot(pending) /\ \A x \in Slot(pending) : Overtakers(x) = {}
    BY <2>2 DEF Slot, Order
  <2> QED BY <1>a, <2>2, <2>3, <2>4, <2>5 DEF Order
<1>8. CASE Waits
  <2>1. UNCHANGED <<taken, pending, pendingFill, packed, rows>>
    BY <1>8 DEF Waits
  <2>0. \/ pc' = pc \/ (pc = "idle" /\ pc' = "main")
        \/ pc' = "raised"
    BY <1>8 DEF Waits
  <2>2. Names(rows)' = Names(rows) /\ Slot(pending)' = Slot(pending)
    BY <2>1 DEF Names, Slot
  <2>3. \A x \in Names(rows)' : \A l \in Overtakers(x) : l = Len(packed)
    BY <2>2 DEF Order
  <2>4. pendingFill' # NoRow => pendingFill'.number = taken'[pendingFill'.stream]
    BY <2>1 DEF Order
  <2>5. CASE pc' = pc \/ (pc = "idle" /\ pc' = "main")
    <3>1. pc' \in {"idle", "main"} => pc \in {"idle", "main"}
      BY <2>5
    <3>2. pc' \in {"fill", "pack"} => pc \in {"fill", "pack"}
      BY <2>5
    <3>3. /\ pc' \in {"idle", "main"} => \A x \in Slot(pending) : \A l \in Overtakers(x) : l = Len(packed)
          /\ pc' \in {"fill", "pack"} => \A x \in Slot(pending) : Overtakers(x) = {}
      BY <3>1, <3>2 DEF Order
    <3> QED BY <1>a, <2>1, <2>2, <2>3, <2>4, <3>3 DEF Order
  <2>6. CASE pc' = "raised"
    BY <1>a, <2>1, <2>2, <2>3, <2>4, <2>6 DEF Order
  <2> QED BY <2>0, <2>5, <2>6
<1>9. CASE Packs
  <2>1. /\ packed' = Append(packed, Names(rows)) /\ rows' = <<>>
        /\ UNCHANGED <<taken, pending, pendingFill>> /\ pc = "pack" /\ pc' = "idle"
    BY <1>9 DEF Packs
  <2>2. /\ Len(packed) \in Nat /\ Len(packed') = Len(packed) + 1
        /\ packed'[Len(packed) + 1] = Names(rows)
        /\ \A k \in 1 .. Len(packed) : packed'[k] = packed[k]
    BY <2>1, NamesOfRows, AppendRow DEF TypeOK
  <2>3. 1 .. Len(packed') = 1 .. Len(packed) \cup {Len(packed) + 1}
    BY <2>2
  <2>4. ASSUME NEW x PROVE Overtakers(x)' \subseteq Overtakers(x) \cup {Len(packed')}
    BY <2>2, <2>3 DEF Overtakers
  <2>5. \A x : \A l \in Overtakers(x) : l \in 1 .. Len(packed)
    BY DEF Overtakers
  <2>6. ASSUME NEW k \in 1 .. Len(packed'), NEW x \in packed'[k], NEW l \in Overtakers(x)'
        PROVE  k <= l + 1
    <3>1. CASE l = Len(packed')
      BY <2>2, <2>3, <3>1
    <3>2. CASE l \in Overtakers(x) /\ k \in 1 .. Len(packed)
      BY <2>2, <3>2 DEF Order
    <3>3. CASE l \in Overtakers(x) /\ k = Len(packed) + 1
      <4>1. l = Len(packed)
        BY <2>2, <3>3 DEF Order
      <4> QED BY <2>2, <3>3, <4>1
    <3> QED BY <2>3, <2>4, <3>1, <3>2, <3>3
  <2>7. Names(rows)' = {} /\ Slot(pending)' = Slot(pending)
    BY <2>1 DEF Names, Slot
  <2>8. \A x \in Slot(pending) : \A l \in Overtakers(x)' : l = Len(packed')
    <3>1. \A x \in Slot(pending) : Overtakers(x) = {}
      BY <2>1 DEF Order
    <3> QED BY <2>4, <3>1
  <2>9. pendingFill' # NoRow => pendingFill'.number = taken'[pendingFill'.stream]
    BY <2>1 DEF Order
  <2> QED BY <2>1, <2>6, <2>7, <2>8, <2>9 DEF Order
<1> QED BY <1>1, <1>2, <1>3, <1>4, <1>5, <1>6, <1>7, <1>8, <1>9 DEF Move

(* A kept row is at most one example behind a younger row of its stream    *)
(* (vision_data.py:661-662).                                               *)
THEOREM KeptRowsComeNext == Spec => []OvertakenByOne
<1>1. Order => OvertakenByOne
  <2> SUFFICES ASSUME Order, NEW k \in 1 .. Len(packed), NEW l \in 1 .. Len(packed),
                      NEW a \in packed[k], NEW b \in packed[l], a[1] = b[1], a[2] < b[2]
               PROVE  k <= l + 1
    BY DEF OvertakenByOne
  <2>1. l \in Overtakers(a)
    BY DEF Overtakers
  <2> QED BY <2>1 DEF Order
<1> QED BY <1>1, InitFine, TypeStep, ShapeStep, InitPlaces, PlacesStep, InitOrder, OrderStep, PTL
        DEF Spec

--------------------------------------------------------------------------------
(* Tokens and images are counted right *)

(* Every set of numbers that is not empty has a least one.                 *)
LEMMA LeastNumber ==
  ASSUME NEW T \in SUBSET Nat, T # {}
  PROVE  \E m \in T : \A k \in T : m <= k
<1> DEFINE Below(k) == 0 .. k
           B == {Below(k) : k \in T}
<1>1. \A k \in T : Below(k) \in FiniteSubsetsOf(Nat)
  BY FS_Interval, \A k \in T : Below(k) \subseteq Nat DEF FiniteSubsetsOf
<1>2. B \subseteq FiniteSubsetsOf(Nat) /\ B # {}
  BY <1>1
<1>3. PICK b \in B : \A c \in B : ~(<<c, b>> \in StrictSubsetOrdering(Nat))
  BY <1>2, FS_StrictSubsetOrderingWellFounded, WFMin
<1>4. PICK m \in T : b = Below(m)
  OBVIOUS
<1>5. ASSUME NEW k \in T, k < m PROVE FALSE
  <2>1. Below(k) \subseteq Below(m) /\ Below(k) # Below(m)
    BY <1>5
  <2>2. <<Below(k), b>> \in StrictSubsetOrdering(Nat)
    BY <1>4, <2>1 DEF StrictSubsetOrdering
  <2> QED BY <1>3, <2>2
<1> QED BY <1>5

(* f counts v up from nothing.                                             *)
Counts(f, v) ==
  /\ f \in [0 .. Len(v) -> Nat]
  /\ f[0] = 0
  /\ \A i \in 1 .. Len(v) : f[i] = f[i - 1] + v[i]

Sum(v, n) == \E f \in [0 .. Len(v) -> Nat] : Counts(f, v) /\ f[Len(v)] = n

(* What a function that is built up from itself is at each place.          *)
LEMMA CountsUp ==
  ASSUME NEW v, NEW u, Len(v) \in Nat,
         u = [i \in 0 .. Len(v) |-> IF i = 0 THEN 0 ELSE u[i - 1] + v[i]]
  PROVE  u[0] = 0 /\ \A i \in 1 .. Len(v) : u[i] = u[i - 1] + v[i]
<1> DEFINE s == [i \in 0 .. Len(v) |-> IF i = 0 THEN 0 ELSE u[i - 1] + v[i]]
<1>1. s[0] = 0 /\ \A i \in 1 .. Len(v) : s[i] = u[i - 1] + v[i]
  OBVIOUS
<1> HIDE DEF s
<1>2. u = s
  BY DEF s
<1> QED BY <1>1, <1>2

(* Two counts of the same numbers cannot differ for the first time.        *)
LEMMA SumIsTotal ==
  ASSUME NEW v \in Seq(Nat), NEW n, Sum(v, n)
  PROVE  Total(v) = n
<1>0. Len(v) \in Nat
  OBVIOUS
<1>1. PICK f \in [0 .. Len(v) -> Nat] : Counts(f, v) /\ f[Len(v)] = n
  BY DEF Sum
<1> DEFINE Step(u) == [i \in 0 .. Len(v) |-> IF i = 0 THEN 0 ELSE u[i - 1] + v[i]]
           u == CHOOSE g : g = Step(g)
<1>2. f = Step(f)
  BY <1>1 DEF Counts
<1>3. u = Step(u)
  <2> HIDE DEF Step
  <2> QED BY <1>2
<1>4. Total(v) = u[Len(v)]
  BY DEF Total
<1> HIDE DEF u
<1>5. u[0] = 0 /\ \A i \in 1 .. Len(v) : u[i] = u[i - 1] + v[i]
  <2>1. u = [i \in 0 .. Len(v) |-> IF i = 0 THEN 0 ELSE u[i - 1] + v[i]]
    BY <1>3
  <2> HIDE DEF Step
  <2> QED BY <1>0, <2>1, CountsUp
<1>6. ASSUME u[Len(v)] # f[Len(v)] PROVE FALSE
  <2> DEFINE T == {i \in 0 .. Len(v) : u[i] # f[i]}
  <2>1. T \in SUBSET Nat
    OBVIOUS
  <2>2. Len(v) \in T
    BY <1>0, <1>6
  <2> HIDE DEF T
  <2>3. PICK m \in T : \A k \in T : m <= k
    BY <2>1, <2>2, LeastNumber
  <2>4. m \in 1 .. Len(v) /\ m - 1 \in 0 .. Len(v) /\ m - 1 \notin T
    BY <1>0, <1>1, <1>5, <2>1, <2>3 DEF T, Counts
  <2> QED BY <1>1, <1>5, <2>3, <2>4 DEF T, Counts
<1> QED BY <1>1, <1>4, <1>6

(* The sum of one number more. *)
LEMMA SumGrows ==
  ASSUME NEW v \in Seq(Nat), NEW n, Sum(v, n), NEW e \in Nat
  PROVE  Sum(Append(v, e), n + e)
<1> DEFINE w == Append(v, e)
<1>1. /\ Len(v) \in Nat /\ Len(w) = Len(v) + 1 /\ w[Len(v) + 1] = e
      /\ \A i \in 1 .. Len(v) : w[i] = v[i] /\ v[i] \in Nat
  BY AppendRow
<1> HIDE DEF w
<1>2. PICK f \in [0 .. Len(v) -> Nat] : Counts(f, v) /\ f[Len(v)] = n
  BY DEF Sum
<1> DEFINE g == [i \in 0 .. Len(w) |-> IF i = Len(w) THEN n + e ELSE f[i]]
<1>3. n \in Nat
  BY <1>1, <1>2
<1>4. g \in [0 .. Len(w) -> Nat] /\ g[0] = 0 /\ g[Len(w)] = n + e
  BY <1>1, <1>2, <1>3 DEF Counts
<1>5. ASSUME NEW i \in 1 .. Len(w) PROVE g[i] = g[i - 1] + w[i]
  <2>1. CASE i \in 1 .. Len(v)
    <3>1. i - 1 \in 0 .. Len(w) /\ i - 1 # Len(w) /\ i # Len(w) /\ i \in 0 .. Len(w)
      BY <1>1, <2>1
    <3>2. f[i] = f[i - 1] + v[i] /\ w[i] = v[i]
      BY <1>1, <1>2, <2>1 DEF Counts
    <3> QED BY <3>1, <3>2
  <2>2. CASE i = Len(w)
    <3>1. i - 1 = Len(v) /\ i - 1 \in 0 .. Len(w) /\ i - 1 # Len(w) /\ w[i] = e
      BY <1>1, <2>2
    <3> QED BY <1>2, <1>4, <2>2, <3>1
  <2> QED BY <1>1, <2>1, <2>2
<1>6. Counts(g, w)
  BY <1>4, <1>5 DEF Counts
<1>7. Sum(w, n + e)
  BY <1>4, <1>6 DEF Sum
<1> QED BY <1>7 DEF w

(* What pack_rows counts.                                                  *)
TokensOf == [i \in 1 .. Len(rows) |-> rows[i].tokens]
ImagesOf == [i \in 1 .. Len(rows) |-> rows[i].images]

Counted == Sum(TokensOf, used) /\ Sum(ImagesOf, imageCount)

LEMMA RowCounts ==
  ASSUME TypeOK
  PROVE  TokensOf \in Seq(Nat) /\ ImagesOf \in Seq(Nat)
<1>1. \A i \in 1 .. Len(rows) : rows[i].tokens \in Nat /\ rows[i].images \in Nat
  <2> SUFFICES ASSUME NEW i \in 1 .. Len(rows)
               PROVE  rows[i].tokens \in Nat /\ rows[i].images \in Nat
    OBVIOUS
  <2>1. rows[i] \in Row
    BY DEF TypeOK
  <2> QED BY <2>1, RowIsReal
<1>2. Len(rows) \in Nat
  BY DEF TypeOK
<1> QED BY <1>1, <1>2 DEF TokensOf, ImagesOf

(* Counting no rows.                                                       *)
LEMMA NothingCounts == Sum(<<>>, 0)
<1> DEFINE f == [i \in 0 .. 0 |-> 0]
<1>1. f \in [0 .. Len(<<>>) -> Nat] /\ Counts(f, <<>>) /\ f[Len(<<>>)] = 0
  BY DEF Counts
<1> QED BY <1>1 DEF Sum

(* Counting one more.                                                      *)
LEMMA AddedCounts ==
  ASSUME TypeOK, Counted, NEW r \in Row, Added(r)
  PROVE  Counted'
<1>1. /\ Len(rows) \in Nat /\ rows' = Append(rows, r)
      /\ Len(rows') = Len(rows) + 1 /\ rows'[Len(rows) + 1] = r
      /\ \A i \in 1 .. Len(rows) : rows'[i] = rows[i]
      /\ used' = used + r.tokens /\ imageCount' = imageCount + r.images
  BY AppendRow DEF TypeOK, Added
<1>2. r.tokens \in Nat /\ r.images \in Nat
  BY RowIsReal
<1>3. TokensOf' = Append(TokensOf, r.tokens)
  BY <1>1 DEF TokensOf
<1>4. ImagesOf' = Append(ImagesOf, r.images)
  BY <1>1 DEF ImagesOf
<1> QED BY <1>1, <1>2, <1>3, <1>4, RowCounts, SumGrows DEF Counted

(* Every step keeps the counts. *)
LEMMA CountedStep == TypeOK /\ Shape /\ Counted /\ [Next]_vars => Counted'
<1> SUFFICES ASSUME TypeOK, Shape, Counted, Move PROVE Counted'
  BY StepsAreMoves
<1>1. CASE \E r \in Row : Added(r)
  BY <1>1, AddedCounts
<1>2. CASE UNCHANGED <<rows, used, imageCount>>
  BY <1>2 DEF Counted, TokensOf, ImagesOf
<1>3. CASE Packs
  <2>1. rows' = <<>> /\ used' = 0 /\ imageCount' = 0
    BY <1>3 DEF Packs
  <2>2. TokensOf' = <<>> /\ ImagesOf' = <<>>
    BY <2>1 DEF TokensOf, ImagesOf
  <2> QED BY <2>1, <2>2, NothingCounts DEF Counted
<1>4. pending \in Row \cup {NoRow} /\ pendingFill \in Row \cup {NoRow}
  BY DEF TypeOK
<1>5. AddPending \/ AddFill \/ (\E r \in Row : AddNew(r) \/ FillNew(r)) => \E r \in Row : Added(r)
  BY <1>4 DEF AddPending, AddFill, AddNew, FillNew
<1>6. KeepFill \/ (\E r \in Row : KeepNew(r) \/ EndFill(r)) \/ Waits
        => UNCHANGED <<rows, used, imageCount>>
  BY DEF KeepFill, KeepNew, EndFill, Waits, Kept
<1> QED BY <1>1, <1>2, <1>3, <1>5, <1>6 DEF Move

(* pack_rows never finds an example over budget (vision_data.py:150-154).  *)
THEOREM ExamplesAreInBudget == Spec => []ExamplesFit
<1>1. TypeOK /\ Counted => ExamplesFit
  <2> SUFFICES ASSUME TypeOK, Counted PROVE ExamplesFit
    OBVIOUS
  <2>1. Total(TokensOf) = used /\ Total(ImagesOf) = imageCount
    BY RowCounts, SumIsTotal DEF Counted
  <2>2. used <= Capacity /\ imageCount <= MaxImages
    BY MixedPackerAssumption DEF TypeOK
  <2> QED BY <2>1, <2>2 DEF ExamplesFit, TokensOf, ImagesOf
<1>2. Init => Counted
  <2> SUFFICES ASSUME Init PROVE Counted
    OBVIOUS
  <2>1. rows = <<>> /\ used = 0 /\ imageCount = 0
    BY DEF Init
  <2>2. TokensOf = <<>> /\ ImagesOf = <<>>
    BY <2>1 DEF TokensOf, ImagesOf
  <2> QED BY <2>1, <2>2, NothingCounts DEF Counted
<1> QED BY <1>1, <1>2, InitFine, TypeStep, ShapeStep, CountedStep, PTL DEF Spec

--------------------------------------------------------------------------------
(* What ExampleEnds stands on, besides fairness: the packer can always go  *)
(* on, and neither loop turns for ever.                                    *)

(* The guards of Next, get() being able to raise at any time.              *)
Ready ==
  \/ pc \in {"idle", "main", "pack"} \/ choice # Nobody
  \/ pc = "fill" /\ (pendingFill # NoRow \/ Text # {})

Asked == IF choice = Nobody THEN 0 ELSE 1

Stage ==
  CASE pc = "main" -> 0
    [] pc = "fill" -> 1
    [] pc = "pack" -> 2
    [] OTHER       -> 3

(* The next loop is reached, or the example is fuller, or its next row has *)
(* been asked for.                                                         *)
Nearer ==
  \/ Stage < Stage'
  \/ Stage' = Stage /\ 2 * used' + Asked' > 2 * used + Asked

LEMMA ShapeHolds == Spec => [](TypeOK /\ Shape)
<1>1. TypeOK /\ Shape /\ [Next]_vars => (TypeOK /\ Shape)'
  BY TypeStep, ShapeStep
<1> QED BY <1>1, InitFine, PTL DEF Spec

(* A row that is placed fills the example or ends the main loop.           *)
LEMMA PlaceIsNearer ==
  ASSUME TypeOK, pc = "main", NEW r \in Row, NEW fill, Place(r, fill), choice' = Nobody,
         choice = Nobody \/ choice \in Streams
  PROVE  Nearer
<1>1. used \in Nat /\ r.tokens \in Nat /\ r.tokens > 0
  BY RowIsReal, MixedPackerAssumption DEF TypeOK
<1>2. CASE Fits(r)
  <2>1. used' = used + r.tokens /\ (pc' = "main" \/ pc' = "pack")
    BY <1>2 DEF Place, Add
  <2> QED BY <1>1, <2>1 DEF Nearer, Stage, Asked
<1>3. CASE ~Fits(r)
  <2>1. pc' = "fill" \/ pc' = "pack"
    BY <1>3 DEF Place, AfterMain
  <2> QED BY <2>1 DEF Nearer, Stage
<1> QED BY <1>2, <1>3

(* So does one in the fill loop.                                           *)
LEMMA FillIsNearer ==
  ASSUME TypeOK, pc = "fill", NEW r \in Row, FillUp(r), choice' = Nobody
  PROVE  Nearer
<1>1. used \in Nat /\ r.tokens \in Nat /\ r.tokens > 0
  BY RowIsReal, MixedPackerAssumption DEF TypeOK
<1>2. CASE used + r.tokens <= Capacity
  <2>1. used' = used + r.tokens /\ (pc' = "fill" \/ pc' = "pack")
    BY <1>2 DEF FillUp
  <2> QED BY <1>1, <2>1 DEF Nearer, Stage, Asked
<1>3. CASE ~(used + r.tokens <= Capacity)
  <2>1. pc' = "pack"
    BY <1>3 DEF FillUp
  <2> QED BY <2>1 DEF Nearer, Stage
<1> QED BY <1>2, <1>3

(* The packer is never stuck before it has raised, and every step of an    *)
(* example brings it nearer to its end: no row is kept and tried for ever  *)
(* (vision_data.py:625-671).                                               *)
THEOREM ExamplesEnd == Spec => [](pc # "raised" => Ready) /\ [][pc # "idle" => Nearer]_vars
<1>1. TypeOK /\ Shape => (pc # "raised" => Ready)
  BY DEF TypeOK, Shape, Ready
<1>2. TypeOK /\ Shape /\ [Next]_vars => [pc # "idle" => Nearer]_vars
  <2> SUFFICES ASSUME TypeOK, Shape, pc # "idle", Next PROVE Nearer
    OBVIOUS
  <2> USE DEF held, example
  <2>0. /\ Nobody \notin Streams /\ choice \in Streams \cup {Nobody} /\ used \in Nat
        /\ Text \subseteq Streams
    BY MixedPackerAssumption DEF TypeOK, Streams
  <2>1. CASE TakePending
    <3>1. pending \in Row
      BY <2>1 DEF TakePending, TypeOK
    <3> QED BY <2>0, <2>1, <3>1, PlaceIsNearer DEF TakePending
  <2>2. CASE TakePendingFill
    <3>1. pendingFill \in Row
      BY <2>2 DEF TakePendingFill, TypeOK
    <3> QED BY <2>0, <2>2, <3>1, PlaceIsNearer DEF TakePendingFill
  <2>3. CASE Choose
    BY <2>0, <2>3 DEF Choose, Nearer, Stage, Asked
  <2>4. CASE FillTurn
    <3>1. pc = "fill" /\ pendingFill = NoRow /\ choice = Nobody
      BY <2>4 DEF FillTurn, Shape
    <3> QED BY <2>0, <2>4, <3>1 DEF FillTurn, Nearer, Stage, Asked
  <2>5. CASE Receive
    <3>1. choice \in Streams /\ choice' = Nobody /\ taken[choice] + 1 \in Nat \ {0}
      BY <2>0, <2>5 DEF Receive, TypeOK
    <3>2. pc \in {"main", "fill"}
      BY <2>5 DEF Receive, Shape, TypeOK
    <3>3. PICK r \in RowsOf(choice, taken[choice] + 1) :
            IF pc = "main" THEN Place(r, pendingFill) ELSE FillUp(r)
      BY <2>5 DEF Receive
    <3>4. r \in Row
      BY <3>1, AnswerIsRow
    <3>5. CASE pc = "main"
      BY <3>1, <3>3, <3>4, <3>5, PlaceIsNearer
    <3>6. CASE pc = "fill"
      BY <3>1, <3>3, <3>4, <3>6, FillIsNearer
    <3> QED BY <3>2, <3>5, <3>6
  <2>6. CASE Dies
    BY <2>6 DEF Dies, Shape, TypeOK, Nearer, Stage
  <2>7. CASE Pack
    BY <2>7 DEF Pack, Nearer, Stage
  <2> QED BY <2>1, <2>2, <2>3, <2>4, <2>5, <2>6, <2>7 DEF Next, Main, Answer, Begin
<1> QED BY <1>1, <1>2, ShapeHolds, PTL DEF Spec

================================================================================
