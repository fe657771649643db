------------------------------ MODULE MCTokenStream ----------------------------
(* Four documents of one to three tokens, in their order or reversed.      *)
EXTENDS TokenStream

Ascending == [p \in Places |-> p]
Descending == [p \in Places |-> Records + 1 - p]
MCShuffles == {Ascending, Descending}
MCReservations == {{}, {1, 4}}
MCSize == [d \in Documents |-> 1 + (d % 3)]

================================================================================
