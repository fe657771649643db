------------------------------ MODULE MixedPacker ------------------------------
(***************************************************************************)
(* How MixedVisionTextIterator packs rows of a vision stream and of text   *)
(* streams into training examples (runtime/vision_data.py:634-694).  A     *)
(* row is never split.  The one that does not fit is kept for the next     *)
(* example, and the tail it leaves is filled with text, which needs no     *)
(* image slot; the text row that does not fit there is kept as well.       *)
(*                                                                         *)
(* The rows of a stream are numbered in the order in which its fetch       *)
(* thread hands them over.  That order, and that a dead fetch thread is    *)
(* heard of, is the business of SourceFetcher.                             *)
(***************************************************************************)
EXTENDS Integers, Sequences

CONSTANTS
  Text,      \* the text streams
  Vision,    \* the vision stream
  Capacity,  \* tokens of an example: sequence_length + 1
  Slack,     \* an example with no more room than this is full (8 in the code)
  MaxImages, \* images of an example: spec.max_images
  RowSizes,  \* the sizes rows come in
  MaxRows    \* bound: rows taken from each stream

Streams == Text \cup {Vision}
Nobody == "nobody"

ASSUME MixedPackerAssumption ==
  /\ Vision \notin Text
  /\ Nobody \notin Streams
  /\ Capacity \in Nat /\ Slack \in 0 .. Capacity - 1
  /\ MaxImages \in Nat \ {0}
  /\ RowSizes \subseteq 1 .. Capacity
  /\ MaxRows \in Nat

VARIABLES
  pc,          \* "idle", "main", "fill", "pack" or "raised"
  choice,      \* the stream whose fetch thread is being asked, or Nobody
  taken,       \* rows taken from each stream
  rows,        \* the rows of the example under way
  used,        \* their tokens, as counted on the way
  imageCount,  \* and their images
  pending,     \* the row that ended the main loop, or NoRow
  pendingFill, \* the text row that ended the fill loop, or NoRow
  packed       \* history: which rows each finished example holds

held == <<pending, pendingFill>>
example == <<rows, used, imageCount>>
vars == <<pc, choice, taken, example, held, packed>>

(* Images need a slot each, text needs none; a vision row has 1 or more.   *)
Row == {r \in [stream : Streams, number : Nat \ {0}, tokens : RowSizes, images : 0 .. MaxImages] :
          r.images > 0 <=> r.stream = Vision}

(* What row n of a stream can be.                                          *)
RowsOf(s, n) ==
  {r \in [stream : {s}, number : {n}, tokens : RowSizes, images : 0 .. MaxImages] :
     r.images > 0 <=> s = Vision}

(* No row: None.                                                           *)
NoRow == [stream |-> Nobody, number |-> 0, tokens |-> 0, images |-> 0]

Name(r) == <<r.stream, r.number>>
Names(S) == {Name(S[i]) : i \in 1 .. Len(S)}

TypeOK ==
  /\ pc \in {"idle", "main", "fill", "pack", "raised"}
  /\ choice \in Streams \cup {Nobody}
  /\ taken \in [Streams -> Nat]
  /\ rows \in Seq(Row)
  /\ used \in 0 .. Capacity
  /\ imageCount \in 0 .. MaxImages
  /\ pending \in Row \cup {NoRow}
  /\ pendingFill \in {r \in Row : r.stream # Vision} \cup {NoRow}
  /\ packed \in Seq(SUBSET (Streams \X Nat))

Init ==
  /\ pc = "idle"
  /\ choice = Nobody
  /\ taken = [s \in Streams |-> 0]
  /\ rows = <<>> /\ used = 0 /\ imageCount = 0
  /\ pending = NoRow
  /\ pendingFill = NoRow
  /\ packed = <<>>

--------------------------------------------------------------------------------
(* Rows and the room for them *)

Full == used >= Capacity - Slack

(* Fault: a row that fits exactly does not fit.                            *)
FitsStrictly(r) == used + r.tokens < Capacity /\ imageCount + r.images <= MaxImages

(* Room for r in the main loop: tokens and image slots.                    *)
Fits(r) == used + r.tokens <= Capacity /\ imageCount + r.images <= MaxImages

(* rows.append(row), with the counts.                                      *)
Add(r) ==
  /\ rows' = Append(rows, r)
  /\ used' = used + r.tokens
  /\ imageCount' = imageCount + r.images

(* Where a row that does not fit leads: to the fill loop, if its condition *)
(* holds, and to pack_rows.                                                *)
AfterMain == IF Text # {} /\ ~Full THEN "fill" ELSE "pack"

--------------------------------------------------------------------------------
(* The main loop *)

(* Fault: the row that does not fit is forgotten.                          *)
PlaceForgetful(r, fill) ==
  IF Fits(r)
    THEN /\ Add(r)
         /\ pending' = NoRow
         /\ pendingFill' = fill
         /\ pc' = IF used' >= Capacity - Slack THEN "pack" ELSE "main"
    ELSE /\ pending' = NoRow
         /\ pendingFill' = fill
         /\ pc' = AfterMain
         /\ UNCHANGED example

(* One row in the main loop; fill is what pendingFill keeps.               *)
Place(r, fill) ==
  IF Fits(r)
    THEN /\ Add(r)
         /\ pending' = NoRow
         /\ pendingFill' = fill
         /\ pc' = IF used' >= Capacity - Slack THEN "pack" ELSE "main"
    ELSE /\ pending' = r
         /\ pendingFill' = fill
         /\ pc' = AfterMain
         /\ UNCHANGED example

Begin ==
  /\ pc = "idle"
  /\ pc' = "main"
  /\ rows' = <<>> /\ used' = 0 /\ imageCount' = 0
  /\ UNCHANGED <<choice, taken, held, packed>>

(* Fault: the row kept by the fill loop goes first, and the row kept by    *)
(* the main loop waits for as long as there is one.                        *)
TakePendingLast ==
  /\ pc = "main" /\ choice = Nobody
  /\ pending # NoRow
  /\ IF pendingFill # NoRow /\ Fits(pendingFill)
       THEN /\ Add(pendingFill)
            /\ pendingFill' = NoRow
            /\ pc' = IF used' >= Capacity - Slack THEN "pack" ELSE "main"
            /\ UNCHANGED pending
       ELSE Place(pending, pendingFill)
  /\ UNCHANGED <<choice, taken, packed>>

(* The row kept from the last example is the first of this one.            *)
TakePending ==
  /\ pc = "main" /\ choice = Nobody
  /\ pending # NoRow
  /\ Place(pending, pendingFill)
  /\ UNCHANGED <<choice, taken, packed>>

(* Then comes the one its fill loop kept.                                  *)
TakePendingFill ==
  /\ pc = "main" /\ choice = Nobody
  /\ pending = NoRow /\ pendingFill # NoRow
  /\ Place(pendingFill, NoRow)
  /\ UNCHANGED <<choice, taken, packed>>

(* Then new rows: vision, or one of the text streams by its weight.        *)
Choose ==
  /\ pc = "main" /\ choice = Nobody
  /\ held = <<NoRow, NoRow>>
  /\ choice' \in Streams
  /\ UNCHANGED <<pc, taken, example, held, packed>>

--------------------------------------------------------------------------------
(* The fill loop *)

(* Fault: the fill loop goes on after a row that does not fit.             *)
FillUpNoBreak(r) ==
  IF used + r.tokens <= Capacity
    THEN /\ Add(r)
         /\ pendingFill' = NoRow
         /\ pc' = IF used' < Capacity - Slack THEN "fill" ELSE "pack"
    ELSE /\ pendingFill' = r
         /\ UNCHANGED <<pc, example>>

(* Fault: the fill loop checks the room after it has added the row.        *)
FillUpOver(r) ==
  /\ Add(r)
  /\ pendingFill' = NoRow
  /\ pc' = IF used' < Capacity - Slack THEN "fill" ELSE "pack"

(* One row in the fill loop.  It is text, so it adds no image.             *)
FillUp(r) ==
  IF used + r.tokens <= Capacity
    THEN /\ rows' = Append(rows, r)
         /\ used' = used + r.tokens
         /\ UNCHANGED imageCount
         /\ pendingFill' = NoRow
         /\ pc' = IF used' < Capacity - Slack THEN "fill" ELSE "pack"
    ELSE /\ pendingFill' = r
         /\ pc' = "pack"
         /\ UNCHANGED example

(* A turn of the loop: the kept text row if there is one, else a new one.  *)
(* (There never is one: the main loop has used it up or ended before.)     *)
FillTurn ==
  /\ pc = "fill" /\ choice = Nobody
  /\ IF pendingFill # NoRow
       THEN FillUp(pendingFill) /\ UNCHANGED choice
       ELSE choice' \in Text /\ UNCHANGED <<pc, example, pendingFill>>
  /\ UNCHANGED <<taken, pending, packed>>

--------------------------------------------------------------------------------
(* What the chosen stream answers *)

(* fetcher.get() returns the stream's next row.                            *)
Receive ==
  /\ choice # Nobody
  /\ taken[choice] < MaxRows
  /\ \E r \in RowsOf(choice, taken[choice] + 1) :
       IF pc = "main" THEN Place(r, pendingFill) ELSE FillUp(r) /\ UNCHANGED pending
  /\ taken' = [taken EXCEPT ![choice] = @ + 1]
  /\ choice' = Nobody
  /\ UNCHANGED packed

(* It raises: the stream's fetch thread has died.  The example under way   *)
(* is lost with its rows, and the producer ends.                           *)
Dies ==
  /\ choice # Nobody
  /\ pc' = "raised"
  /\ choice' = Nobody
  /\ UNCHANGED <<taken, example, held, packed>>

(* pack_rows, and the example is handed on.                                *)
Pack ==
  /\ pc = "pack"
  /\ packed' = Append(packed, Names(rows))
  /\ pc' = "idle"
  /\ rows' = <<>> /\ used' = 0 /\ imageCount' = 0
  /\ UNCHANGED <<choice, taken, held>>

Main == Begin \/ TakePending \/ TakePendingFill \/ Choose
Answer == Receive \/ Dies

Next == Main \/ FillTurn \/ Answer \/ Pack

(* The packer's thread runs, and get() returns or raises.                  *)
Spec == Init /\ [][Next]_vars /\ WF_vars(Next)

--------------------------------------------------------------------------------
(* Properties *)

(* The example under way is example number Len(packed) + 1.                *)
Placed(name) == {k \in 1 .. Len(packed) : name \in packed[k]}

(***************************************************************************)
(* Every row taken from a stream is in one place: an example, the one      *)
(* under way, or one of the two slots for kept rows.  No row is packed     *)
(* twice, and none is dropped when it does not fit (vision_data.py:639-648,*)
(* 665-671; "stashed rather than dropped", tests/test_vision_tower.py:399).*)
(***************************************************************************)
EveryRowKept ==
  /\ \A i, j \in 1 .. Len(rows) : Name(rows[i]) = Name(rows[j]) => i = j
  /\ \A s \in Streams : \A n \in 1 .. taken[s] :
       LET inRows == <<s, n>> \in Names(rows)
           isPending == Name(pending) = <<s, n>>
           isFill == Name(pendingFill) = <<s, n>>
       IN  \/ \E k \in Placed(<<s, n>>) :
                Placed(<<s, n>>) = {k} /\ ~inRows /\ ~isPending /\ ~isFill
           \/ Placed(<<s, n>>) = {} /\ inRows /\ ~isPending /\ ~isFill
           \/ Placed(<<s, n>>) = {} /\ ~inRows /\ isPending # isFill

(* The sum of a sequence of numbers.                                       *)
Total(v) ==
  LET upTo[i \in 0 .. Len(v)] == IF i = 0 THEN 0 ELSE upTo[i - 1] + v[i]
  IN  upTo[Len(v)]

(***************************************************************************)
(* pack_rows counts tokens and images itself and raises a ValueError over  *)
(* budget (vision_data.py:150-154).  It never does, although the fill loop *)
(* looks at tokens only.                                                   *)
(***************************************************************************)
ExamplesFit ==
  /\ Total([i \in 1 .. Len(rows) |-> rows[i].tokens]) <= Capacity
  /\ Total([i \in 1 .. Len(rows) |-> rows[i].images]) <= MaxImages

(***************************************************************************)
(* An example is padded by more than the slack only when nothing at hand   *)
(* fits: the kept row lacks tokens or image slots, and so, with text       *)
(* streams, does a text row (vision_data.py:655-671).  In particular no    *)
(* example is empty.                                                       *)
(***************************************************************************)
PaddedForCause ==
  pc = "pack" /\ ~Full =>
    /\ rows # <<>>
    /\ pending # NoRow
    /\ used + pending.tokens > Capacity \/ imageCount + pending.images > MaxImages
    /\ Text # {} => pendingFill # NoRow /\ used + pendingFill.tokens > Capacity

(***************************************************************************)
(* Keeping a row back lets later rows of its stream overtake it, but by    *)
(* one example at most: a kept row opens the next one ("opens a later      *)
(* sequence", vision_data.py:661-662).                                     *)
(***************************************************************************)
OvertakenByOne ==
  \A k, l \in 1 .. Len(packed) : \A a \in packed[k], b \in packed[l] :
    a[1] = b[1] /\ a[2] < b[2] => k <= l + 1

(***************************************************************************)
(* _next_example returns or raises, whatever is kept and however the rows  *)
(* fall: neither loop turns for ever on a row that does not fit.           *)
(***************************************************************************)
ExampleEnds == pc = "main" ~> pc \in {"idle", "raised"}

================================================================================
