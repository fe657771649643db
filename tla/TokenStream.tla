------------------------------- MODULE TokenStream -----------------------------
(***************************************************************************)
(* The batches of pretraining text: on every host a PackedTokenBatcher     *)
(* with packing "concat" over the host's RecordStream.  It collects the    *)
(* documents of its partition until a tokenizer batch is full, tokenizes   *)
(* them in one call, appends their tokens to the buffer and cuts windows   *)
(* of a fixed number of tokens from its front.  The fetch thread of the    *)
(* prefetching iterator asks for the next batch as soon as it has one.     *)
(*                                                                         *)
(* Token i of the n-th document a host selected is <<n, i>>.  append_eos   *)
(* is on, its default, so no document is empty.                            *)
(***************************************************************************)
EXTENDS RecordStream

CONSTANTS
  Size,           \* tokens of each document, the end token included
  Required,       \* tokens of a batch: global_batch_size * (sequence_length + 1)
  TokenizeBatch,  \* tokenize_batch_size
  Reservations,   \* the validation partitions the content hash may produce
  Validation      \* the iterator serves the held-out partition

ASSUME TokenStreamAssumption ==
  /\ Size \in [Documents -> Nat \ {0}]
  /\ Required \in Nat \ {0}
  /\ TokenizeBatch \in Nat \ {0}
  /\ Reservations \subseteq SUBSET Documents
  /\ Validation \in BOOLEAN

VARIABLES
  reserved,   \* documents whose text hashes into the validation partition
  phase,      \* where host h is: "collect" or "append" in _fill, or how it ended
  selected,   \* history: <<document, epoch, place>> in order of selection
  tokenized,  \* how many of them have been tokenized and appended
  buffer,     \* _chunks, joined
  emitted     \* history: the tokens of all batches returned, in order

batchVars == <<phase, selected, tokenized, buffer, emitted>>
vars == <<recordVars, reserved, batchVars>>

Ended == {"exhausted", "outage", "broken"}
Entries == Documents \X Epochs \X Places
Tokens == Nat \X Nat

TypeOK ==
  /\ RecordTypeOK
  /\ reserved \in Reservations
  /\ phase \in [Hosts -> {"collect", "append"} \cup Ended]
  /\ selected \in [Hosts -> Seq(Entries)]
  /\ tokenized \in [Hosts -> Nat]
  /\ buffer \in [Hosts -> Seq(Tokens)]
  /\ emitted \in [Hosts -> Seq(Tokens)]
  /\ \A h \in Hosts : tokenized[h] <= Len(selected[h])

Init ==
  /\ RecordInit
  /\ reserved \in Reservations
  /\ phase = [h \in Hosts |-> "collect"]
  /\ selected = [h \in Hosts |-> <<>>]
  /\ tokenized = [h \in Hosts |-> 0]
  /\ buffer = [h \in Hosts |-> <<>>]
  /\ emitted = [h \in Hosts |-> <<>>]

(* _is_validation_record decides by the text alone, on every host alike.   *)
Wanted(d) == (d \in reserved) = Validation

(* The texts of the tokenizer batch that is being collected.               *)
Texts(h) == Len(selected[h]) - tokenized[h]

(* _fill is in its inner loop, waiting for a record.                       *)
Collecting(h) == phase[h] = "collect" /\ Len(buffer[h]) < Required

(* One record: skipped when it belongs to the other partition; the         *)
(* tokenizer is called when the batch of texts is full.                    *)
Collect(h) ==
  /\ Collecting(h)
  /\ \E p \in Places :
       /\ Serve(h, p)
       /\ LET d == order[rebuilds[h]][p] IN
          IF Wanted(d)
            THEN /\ selected' = [selected EXCEPT ![h] = Append(@, <<d, rebuilds[h], p>>)]
                 /\ phase' = [phase EXCEPT ![h] = IF Texts(h) + 1 = TokenizeBatch
                                                    THEN "append" ELSE @]
            ELSE UNCHANGED <<selected, phase>>
  /\ UNCHANGED <<reserved, tokenized, buffer, emitted>>

(* The tokens of the n-th selected document.                               *)
Chunk(h, n) == [i \in 1 .. Size[selected[h][n][1]] |-> <<n, i>>]

(* The loop over the encoded texts, one document a step.                   *)
AppendChunk(h) ==
  /\ phase[h] = "append"
  /\ tokenized' = [tokenized EXCEPT ![h] = @ + 1]
  /\ buffer' = [buffer EXCEPT ![h] = @ \o Chunk(h, tokenized[h] + 1)]
  /\ phase' = [phase EXCEPT ![h] = IF Texts(h) = 1 THEN "collect" ELSE @]
  /\ UNCHANGED <<recordVars, reserved, selected, emitted>>

(* The loop raises: the tokenizer's call does, or a token id of the text   *)
(* is beyond the padded vocabulary.  What was appended before is not used. *)
Reject(h) ==
  /\ phase[h] = "append"
  /\ phase' = [phase EXCEPT ![h] = "broken"]
  /\ UNCHANGED <<recordVars, reserved, selected, tokenized, buffer, emitted>>

(* Fault: the last token of a window opens the next one as well.           *)
EmitOverlapping(h) ==
  /\ phase[h] = "collect"
  /\ Len(buffer[h]) >= Required
  /\ emitted' = [emitted EXCEPT ![h] = @ \o SubSeq(buffer[h], 1, Required)]
  /\ buffer' = [buffer EXCEPT ![h] =
       SubSeq(@, IF Required > 1 THEN Required ELSE 2, Len(@))]
  /\ UNCHANGED <<recordVars, reserved, phase, selected, tokenized>>

(* __next__ after _fill: the front of the joined chunks is the batch.      *)
Emit(h) ==
  /\ phase[h] = "collect"
  /\ Len(buffer[h]) >= Required
  /\ emitted' = [emitted EXCEPT ![h] = @ \o SubSeq(buffer[h], 1, Required)]
  /\ buffer' = [buffer EXCEPT ![h] = SubSeq(@, Required + 1, Len(@))]
  /\ UNCHANGED <<recordVars, reserved, phase, selected, tokenized>>

(* Fault: the rebuild is done by the batcher, which starts afresh.         *)
RecoverForgetful(h) ==
  /\ Collecting(h)
  /\ Rebuild(h)
  /\ selected' = [selected EXCEPT ![h] = SubSeq(@, 1, tokenized[h])]
  /\ UNCHANGED <<reserved, phase, tokenized, buffer, emitted>>

(* A failed read that is recovered underneath the batcher.                 *)
Recover(h) ==
  /\ Collecting(h)
  /\ Rebuild(h)
  /\ UNCHANGED <<reserved, batchVars>>

Stop(h, how) ==
  /\ Collecting(h)
  /\ phase' = [phase EXCEPT ![h] = how]
  /\ UNCHANGED <<reserved, selected, tokenized, buffer, emitted>>

(* Fault: a StopIteration inside a tokenizer batch is swallowed.           *)
ExhaustBetweenBatches(h) ==
  /\ Texts(h) = 0
  /\ Stop(h, "exhausted")
  /\ Exhausted(h)

(* Fault: the end of the data ends the iterator with windows left to cut.  *)
ExhaustEarly(h) ==
  /\ phase[h] = "collect"
  /\ phase' = [phase EXCEPT ![h] = "exhausted"]
  /\ Exhausted(h)
  /\ UNCHANGED <<reserved, selected, tokenized, buffer, emitted>>

(* StopIteration, or an error: it passes through _fill and __next__.  A    *)
(* record without a text ends the iterator as Break does; its partition is *)
(* not known, so it is not counted as given.                               *)
Exhaust(h) == Stop(h, "exhausted") /\ Exhausted(h)
Outage(h) == Stop(h, "outage") /\ GiveUp(h)
Break(h) == Stop(h, "broken") /\ Broken

Read(h) == Collect(h) \/ AppendChunk(h) \/ Emit(h) \/ Exhaust(h)
Failure(h) == Recover(h) \/ Outage(h) \/ Break(h) \/ Reject(h)

Next == \E h \in Hosts : Read(h) \/ Failure(h)

(***************************************************************************)
(* Every host's fetch thread runs, and a read that does not fail returns.  *)
(* Nothing obliges a read to fail.                                         *)
(***************************************************************************)
Spec == Init /\ [][Next]_vars /\ \A h \in Hosts : WF_vars(Read(h))

--------------------------------------------------------------------------------
(* After(h, t) is the token that follows t in the stream.                  *)
After(h, t) ==
  IF t[2] < Size[selected[h][t[1]][1]] THEN <<t[1], t[2] + 1>> ELSE <<t[1] + 1, 1>>

(* The batches and the buffer behind them are the tokens of the documents  *)
(* tokenized so far: each once, in order, none missing (data.py:283-311).  *)
Stream(h) == emitted[h] \o buffer[h]

TokensInOrder(h) ==
  LET s == Stream(h) IN
  /\ (s = <<>>) <=> (tokenized[h] = 0)
  /\ s # <<>> =>
       /\ s[1] = <<1, 1>>
       /\ s[Len(s)] = <<tokenized[h], Size[selected[h][tokenized[h]][1]]>>
  /\ \A i \in 1 .. Len(s) - 1 : s[i + 1] = After(h, s[i])

WindowsInOrder == \A h \in Hosts : TokensInOrder(h)

(* What a host trains on is what its stream gave it, through every rebuild:*)
(* each record of its partition is selected once each time it is given,    *)
(* and nothing else is (data.py:581-584: the partial accumulation          *)
(* "survives untouched").                                                  *)
SelectedOnce ==
  \A h \in Hosts :
    /\ \A m, n \in 1 .. Len(selected[h]) : selected[h][m] = selected[h][n] => m = n
    /\ \A n \in 1 .. Len(selected[h]) :
         /\ Wanted(selected[h][n][1])
         /\ selected[h][n][3] \in given[h][selected[h][n][2]]
         /\ selected[h][n][1] = order[selected[h][n][2]][selected[h][n][3]]
    /\ \A e \in Epochs : \A p \in given[h][e] :
         Wanted(order[e][p]) => \E n \in 1 .. Len(selected[h]) :
                                   selected[h][n] = <<order[e][p], e, p>>

(* What the end of the data costs: the texts of a tokenizer batch that did *)
(* not fill and less than a batch of tokens, after all of the host's share *)
(* of the last epoch was read (data.py:266).                               *)
TailLoss ==
  \A h \in Hosts : phase[h] = "exhausted" =>
    /\ Texts(h) < TokenizeBatch
    /\ Len(buffer[h]) < Required
    /\ given[h][rebuilds[h]] = Share(h)

(* "The retry budget is per incident" (data.py:589): a host gives up only  *)
(* after one failure and Attempts failed rebuilds with no record between.  *)
BudgetPerIncident ==
  \A h \in Hosts : phase[h] = "outage" => streak[h] = Attempts + 1

(* Every host comes to the end of its data or to an error: no host spins   *)
(* in its recovery and none waits with a window to cut.                    *)
Finishes == \A h \in Hosts : <>(phase[h] \in Ended)

================================================================================
