---------------------------- MODULE TokenStreamProofs --------------------------
(***************************************************************************)
(* Theorems about the text stream on any number of hosts, with any         *)
(* dataset, any orders of its epochs, any batch sizes and any number of    *)
(* failures.                                                               *)
(***************************************************************************)
EXTENDS TokenStream, SequenceTheorems, FiniteSetTheorems, TLAPS

(* A host is given places of its own only, and an epoch is entered by a    *)
(* failure.                                                                *)
OwnPlaces ==
  /\ \A h \in Hosts : \A e \in Epochs : given[h][e] \subseteq Share(h)
  /\ \A h \in Hosts : rebuilds[h] <= faults

(* The failures since the last record are the rebuilds of the incident,    *)
(* and one more when the host has given up.                                *)
Incident ==
  \A h \in Hosts :
    streak[h] = IF phase[h] = "outage" THEN Attempts + 1 ELSE attempt[h]

(* A tokenizer batch is full exactly when it is being appended, or was     *)
(* when an error ended that.                                               *)
TextsBounded ==
  \A h \in Hosts :
    /\ phase[h] = "append" => Texts(h) \in 1 .. TokenizeBatch
    /\ phase[h] \notin {"append", "broken"} => Texts(h) \in 0 .. TokenizeBatch - 1

(* The tokens cut or waiting are tokens of tokenized documents.            *)
TokensInRange ==
  \A h \in Hosts : \A i \in 1 .. Len(Stream(h)) :
    /\ Stream(h)[i][1] \in 1 .. tokenized[h]
    /\ Stream(h)[i][2] \in 1 .. Size[selected[h][Stream(h)[i][1]][1]]

IInv ==
  /\ TypeOK
  /\ OwnPlaces
  /\ Incident
  /\ TextsBounded
  /\ SelectedOnce
  /\ WindowsInOrder
  /\ TokensInRange
  /\ TailLoss

(* The first states satisfy the strengthening. *)
LEMMA InitInv == Init => IInv
<1> SUFFICES ASSUME Init PROVE IInv
  OBVIOUS
<1> USE RecordStreamAssumption, TokenStreamAssumption
<1>1. TypeOK
  BY DEF Init, RecordInit, TypeOK, RecordTypeOK, Epochs, Entries, Tokens
<1>2. OwnPlaces
  BY DEF Init, RecordInit, OwnPlaces
<1>3. Incident /\ TextsBounded /\ TailLoss
  BY DEF Init, RecordInit, Incident, TextsBounded, TailLoss, Texts
<1>4. SelectedOnce
  BY DEF Init, RecordInit, SelectedOnce
<1>5. ASSUME NEW h \in Hosts PROVE Stream(h) = <<>>
  BY DEF Init, Stream
<1>6. WindowsInOrder /\ TokensInRange
  BY <1>5 DEF Init, WindowsInOrder, TokensInOrder, TokensInRange
<1>7. QED
  BY <1>1, <1>2, <1>3, <1>4, <1>6 DEF IInv

--------------------------------------------------------------------------------
(* Types *)

(* A record that is served keeps the record stream's types. *)
LEMMA ServeType ==
  ASSUME RecordTypeOK, NEW h \in Hosts, NEW p \in Places, Serve(h, p)
  PROVE  RecordTypeOK'
<1> USE RecordStreamAssumption
<1>1. rebuilds[h] \in Epochs /\ given[h] \in [Epochs -> SUBSET Places]
  BY DEF RecordTypeOK
<1>2. given' = [given EXCEPT ![h] = [given[h] EXCEPT ![rebuilds[h]] = @ \cup {p}]]
  BY DEF Serve
<1>3. [given[h] EXCEPT ![rebuilds[h]] = @ \cup {p}] \in [Epochs -> SUBSET Places]
  BY <1>1
<1>4. given' \in [Hosts -> [Epochs -> SUBSET Places]]
  BY <1>2, <1>3 DEF RecordTypeOK
<1>5. QED
  BY <1>4 DEF Serve, RecordTypeOK

(* A rebuild moves to an epoch there is an order for.                      *)
LEMMA RebuildType ==
  ASSUME RecordTypeOK, OwnPlaces, NEW h \in Hosts, Rebuild(h)
  PROVE  RecordTypeOK'
<1> USE RecordStreamAssumption
<1>1. rebuilds[h] + 1 \in Epochs /\ faults + 1 \in Epochs
  BY DEF Rebuild, Fails, RecordTypeOK, OwnPlaces, Epochs
<1>2. attempt[h] + 1 \in 0 .. Attempts
  BY DEF Rebuild, RecordTypeOK
<1>3. QED
  BY <1>1, <1>2 DEF Rebuild, Fails, RecordTypeOK

LEMMA GiveUpType ==
  ASSUME RecordTypeOK, NEW h \in Hosts, GiveUp(h)
  PROVE  RecordTypeOK'
<1>1. faults + 1 \in Epochs
  BY RecordStreamAssumption DEF GiveUp, Fails, RecordTypeOK, Epochs
<1>2. QED
  BY <1>1 DEF GiveUp, Fails, RecordTypeOK

(* What a place of an epoch holds is a document. *)
LEMMA OrderType ==
  ASSUME RecordTypeOK, NEW e \in Epochs, NEW p \in Places
  PROVE  order[e][p] \in Documents
  BY RecordStreamAssumption DEF RecordTypeOK

(* The chunk of a selected document is a sequence of tokens.               *)
LEMMA ChunkType ==
  ASSUME TypeOK, NEW h \in Hosts, NEW n \in 1 .. Len(selected[h])
  PROVE  /\ Size[selected[h][n][1]] \in Nat \ {0}
         /\ Chunk(h, n) \in Seq(Tokens)
         /\ Len(Chunk(h, n)) = Size[selected[h][n][1]]
         /\ \A i \in 1 .. Len(Chunk(h, n)) : Chunk(h, n)[i] = <<n, i>>
<1>1. selected[h] \in Seq(Entries)
  BY DEF TypeOK
<1>2. selected[h][n] \in Entries
  BY <1>1, ElementOfSeq
<1>3. Size[selected[h][n][1]] \in Nat \ {0}
  BY <1>2, TokenStreamAssumption DEF Entries
<1>4. n \in Nat
  BY <1>1, LenProperties
<1>5. \A i \in 1 .. Size[selected[h][n][1]] : <<n, i>> \in Tokens
  BY <1>3, <1>4 DEF Tokens
<1>6. QED
  BY <1>3, <1>5 DEF Chunk

(* The sequences stay sequences when a host collects. *)
LEMMA CollectType ==
  ASSUME TypeOK, NEW h \in Hosts, Collect(h)
  PROVE  TypeOK'
<1> USE RecordStreamAssumption, TokenStreamAssumption
<1>1. PICK p \in Places :
        /\ Serve(h, p)
        /\ LET d == order[rebuilds[h]][p] IN
           IF Wanted(d)
             THEN /\ selected' = [selected EXCEPT ![h] = Append(@, <<d, rebuilds[h], p>>)]
                  /\ phase' = [phase EXCEPT ![h] = IF Texts(h) + 1 = TokenizeBatch
                                                     THEN "append" ELSE @]
             ELSE UNCHANGED <<selected, phase>>
  BY DEF Collect
<1>2. RecordTypeOK'
  BY <1>1, ServeType DEF TypeOK
<1>3. <<order[rebuilds[h]][p], rebuilds[h], p>> \in Entries
  BY <1>1, OrderType DEF TypeOK, RecordTypeOK, Entries
<1>4. selected' \in [Hosts -> Seq(Entries)]
      /\ \A g \in Hosts : tokenized[g] <= Len(selected'[g])
  <2>1. CASE UNCHANGED selected
    BY <2>1 DEF TypeOK
  <2>2. CASE selected' = [selected EXCEPT ![h] = Append(@, <<order[rebuilds[h]][p], rebuilds[h], p>>)]
    <3>1. selected[h] \in Seq(Entries) /\ tokenized[h] \in Nat /\ tokenized[h] <= Len(selected[h])
      BY DEF TypeOK
    <3>2. /\ Append(selected[h], <<order[rebuilds[h]][p], rebuilds[h], p>>) \in Seq(Entries)
          /\ Len(Append(selected[h], <<order[rebuilds[h]][p], rebuilds[h], p>>)) = Len(selected[h]) + 1
      BY <1>3, <3>1
    <3>3. QED
      BY <2>2, <3>1, <3>2 DEF TypeOK
  <2>3. QED
    BY <1>1, <2>1, <2>2
<1>5. phase' \in [Hosts -> {"collect", "append"} \cup Ended]
  BY <1>1 DEF TypeOK
<1>6. UNCHANGED <<reserved, tokenized, buffer, emitted>>
  BY DEF Collect
<1>7. QED
  BY <1>2, <1>4, <1>5, <1>6 DEF TypeOK

LEMMA AppendChunkType ==
  ASSUME TypeOK, TextsBounded, NEW h \in Hosts, AppendChunk(h)
  PROVE  TypeOK'
<1>1. tokenized[h] + 1 \in 1 .. Len(selected[h])
  BY DEF AppendChunk, TypeOK, TextsBounded, Texts
<1>2. Chunk(h, tokenized[h] + 1) \in Seq(Tokens)
  BY <1>1, ChunkType
<1>3. buffer' \in [Hosts -> Seq(Tokens)]
  BY <1>2, ConcatProperties DEF AppendChunk, TypeOK
<1>4. RecordTypeOK'
  BY DEF AppendChunk, TypeOK, RecordTypeOK, recordVars
<1>5. tokenized' \in [Hosts -> Nat] /\ \A g \in Hosts : tokenized'[g] <= Len(selected[g])
  BY <1>1 DEF AppendChunk, TypeOK
<1>6. phase' \in [Hosts -> {"collect", "append"} \cup Ended]
  BY DEF AppendChunk, TypeOK
<1>7. QED
  BY <1>3, <1>4, <1>5, <1>6 DEF AppendChunk, TypeOK

(* A window and what is left of the buffer. *)
LEMMA Cut ==
  ASSUME NEW s \in Seq(Tokens), NEW r \in Seq(Tokens), Len(s) >= Required
  PROVE  /\ SubSeq(s, 1, Required) \in Seq(Tokens)
         /\ SubSeq(s, Required + 1, Len(s)) \in Seq(Tokens)
         /\ (r \o SubSeq(s, 1, Required)) \o SubSeq(s, Required + 1, Len(s)) = r \o s
<1>1. Required \in Nat \ {0} /\ Len(s) \in Nat
  BY TokenStreamAssumption, LenProperties
<1>2. \A i \in 1 .. Len(s) : s[i] \in Tokens
  BY ElementOfSeq
<1>3. SubSeq(s, 1, Required) \in Seq(Tokens)
  BY <1>1, <1>2, SubSeqProperties
<1>4. SubSeq(s, Required + 1, Len(s)) \in Seq(Tokens)
  BY <1>1, <1>2, SubSeqProperties
<1>5. SubSeq(s, 1, Required) \o SubSeq(s, Required + 1, Len(s)) = SubSeq(s, 1, Len(s))
  <2>1. 1 \in 1 .. Len(s) + 1 /\ Required \in 1 - 1 .. Len(s) /\ Len(s) \in Required .. Len(s)
    BY <1>1
  <2>2. QED
    BY <2>1, ConcatAdjacentSubSeq
<1>6. SubSeq(s, 1, Len(s)) = s
  BY SubSeqFull
<1>7. ASSUME NEW a \in Seq(Tokens), NEW b \in Seq(Tokens), a \o b = s
      PROVE  (r \o a) \o b = r \o s
  <2>1. (r \o a) \o b = r \o (a \o b)
    BY ConcatAssociative
  <2>2. QED
    BY <1>7, <2>1, Zenon
<1>8. SubSeq(s, 1, Required) \o SubSeq(s, Required + 1, Len(s)) = s
  BY <1>5, <1>6, Zenon
<1>9. QED
  BY <1>3, <1>4, <1>7, <1>8, Zenon

(* A window cut keeps the types. *)
LEMMA EmitType ==
  ASSUME TypeOK, NEW h \in Hosts, Emit(h)
  PROVE  TypeOK'
<1>1. buffer[h] \in Seq(Tokens) /\ emitted[h] \in Seq(Tokens)
  BY DEF TypeOK
<1>2. SubSeq(buffer[h], 1, Required) \in Seq(Tokens)
      /\ SubSeq(buffer[h], Required + 1, Len(buffer[h])) \in Seq(Tokens)
  BY <1>1, Cut DEF Emit
<1>3. emitted' \in [Hosts -> Seq(Tokens)] /\ buffer' \in [Hosts -> Seq(Tokens)]
  BY <1>1, <1>2, ConcatProperties DEF Emit, TypeOK
<1>4. QED
  BY <1>3 DEF Emit, TypeOK, RecordTypeOK, recordVars

(* Failures and the end of the data keep the types. *)
LEMMA StopType ==
  ASSUME TypeOK, OwnPlaces, NEW h \in Hosts, Exhaust(h) \/ Failure(h)
  PROVE  TypeOK'
<1>1. RecordTypeOK'
  <2>1. CASE Recover(h)
    BY <2>1, RebuildType DEF Recover, TypeOK
  <2>2. CASE Outage(h)
    BY <2>2, GiveUpType DEF Outage, TypeOK
  <2>3. CASE Exhaust(h) \/ Break(h) \/ Reject(h)
    BY <2>3 DEF Exhaust, Break, Reject, Exhausted, Broken, TypeOK, RecordTypeOK, recordVars
  <2>4. QED
    BY <2>1, <2>2, <2>3 DEF Failure
<1>2. /\ phase' \in [Hosts -> {"collect", "append"} \cup Ended]
      /\ UNCHANGED <<reserved, selected, tokenized, buffer, emitted>>
  BY DEF Failure, Recover, Outage, Break, Reject, Exhaust, Stop, batchVars, TypeOK, Ended
<1>3. QED
  BY <1>1, <1>2 DEF TypeOK

(* Every step keeps the types. *)
LEMMA TypeStep == IInv /\ [Next]_vars => TypeOK'
<1> SUFFICES ASSUME IInv, [Next]_vars PROVE TypeOK'
  OBVIOUS
<1>1. TypeOK /\ OwnPlaces /\ TextsBounded
  BY DEF IInv
<1>2. ASSUME NEW h \in Hosts, Read(h) \/ Failure(h) PROVE TypeOK'
  BY <1>1, <1>2, CollectType, AppendChunkType, EmitType, StopType DEF Read
<1>3. CASE UNCHANGED vars
  BY <1>1, <1>3 DEF TypeOK, RecordTypeOK, vars, recordVars, batchVars
<1>4. QED
  BY <1>2, <1>3 DEF Next

--------------------------------------------------------------------------------
(* The record stream *)

(* What a step changes of the record stream: nothing, one more place that  *)
(* is the host's own, a rebuild or the failure that is raised.             *)
LEMMA RecordStep ==
  ASSUME NEW h \in Hosts, Read(h) \/ Failure(h)
  PROVE  \/ UNCHANGED recordVars
         \/ \E p \in Places : Serve(h, p)
         \/ Rebuild(h)
         \/ GiveUp(h)
  BY DEF Read, Failure, Collect, AppendChunk, Emit, Exhaust, Exhausted,
         Recover, Outage, Break, Broken, Reject

(* The places given are the host's own, and no rebuild is free.            *)
LEMMA OwnPlacesStep == IInv /\ [Next]_vars => OwnPlaces'
<1> SUFFICES ASSUME IInv, [Next]_vars PROVE OwnPlaces'
  OBVIOUS
<1> USE RecordStreamAssumption
<1>1. RecordTypeOK /\ OwnPlaces
  BY DEF IInv, TypeOK
<1>2. ASSUME NEW h \in Hosts, Read(h) \/ Failure(h) PROVE OwnPlaces'
  <2>1. CASE UNCHANGED recordVars
    BY <1>1, <2>1 DEF OwnPlaces, recordVars
  <2>2. ASSUME NEW p \in Places, Serve(h, p) PROVE OwnPlaces'
    <3>1. p \in Share(h)
      BY <2>2 DEF Serve, Left
    <3>2. given' = [given EXCEPT ![h][rebuilds[h]] = @ \cup {p}]
          /\ UNCHANGED <<rebuilds, faults>>
      BY <2>2 DEF Serve
    <3>3. given[h] \in [Epochs -> SUBSET Places] /\ rebuilds[h] \in Epochs
      BY <1>1 DEF RecordTypeOK
    <3>4. ASSUME NEW g \in Hosts, NEW e \in Epochs PROVE given'[g][e] \subseteq Share(g)
      BY <1>1, <3>1, <3>2, <3>3 DEF OwnPlaces, RecordTypeOK
    <3>5. QED
      BY <1>1, <3>2, <3>4 DEF OwnPlaces
  <2>3. CASE Rebuild(h)
    BY <1>1, <2>3 DEF Rebuild, Fails, OwnPlaces, RecordTypeOK, Epochs
  <2>4. CASE GiveUp(h)
    BY <1>1, <2>4 DEF GiveUp, Fails, OwnPlaces, RecordTypeOK, Epochs
  <2>5. QED
    BY <1>2, <2>1, <2>2, <2>3, <2>4, RecordStep
<1>3. CASE UNCHANGED vars
  BY <1>1, <1>3 DEF OwnPlaces, vars, recordVars
<1>4. QED
  BY <1>2, <1>3 DEF Next

(* The places of different hosts are different, so are their documents.    *)
LEMMA OwnPlacesDisjoint == TypeOK /\ OwnPlaces => EpochDisjoint
<1> SUFFICES ASSUME TypeOK, OwnPlaces,
                    NEW e \in Epochs, NEW h \in Hosts, NEW k \in Hosts, h # k,
                    NEW p \in given[h][e], NEW q \in given[k][e]
             PROVE  order[e][p] # order[e][q]
  BY DEF EpochDisjoint
<1>1. p \in Share(h) /\ q \in Share(k)
  BY DEF OwnPlaces
<1>2. p \in Places /\ q \in Places /\ p # q
  BY <1>1 DEF Share
<1>3. order[e] \in Shuffles
  BY DEF TypeOK, RecordTypeOK
<1>4. QED
  BY <1>2, <1>3, RecordStreamAssumption

(* Failures since the last record. *)
LEMMA IncidentStep == IInv /\ [Next]_vars => Incident'
<1> SUFFICES ASSUME IInv, [Next]_vars PROVE Incident'
  OBVIOUS
<1> USE RecordStreamAssumption
<1>1. TypeOK /\ Incident
  BY DEF IInv
<1>2. /\ attempt \in [Hosts -> 0 .. Attempts] /\ streak \in [Hosts -> Nat]
      /\ phase \in [Hosts -> {"collect", "append"} \cup Ended]
  BY <1>1 DEF TypeOK, RecordTypeOK
<1>3. ASSUME NEW h \in Hosts, Read(h) \/ Failure(h) PROVE Incident'
  <2>1. CASE Collect(h)
    <3>1. /\ attempt' = [attempt EXCEPT ![h] = 0] /\ streak' = [streak EXCEPT ![h] = 0]
          /\ phase' = phase \/ phase' = [phase EXCEPT ![h] = IF Texts(h) + 1 = TokenizeBatch
                                                               THEN "append" ELSE @]
          /\ phase[h] = "collect"
      BY <2>1 DEF Collect, Collecting, Serve
    <3>2. QED
      BY <1>1, <1>2, <3>1 DEF Incident
  <2>2. CASE AppendChunk(h)
    <3>1. /\ phase' = [phase EXCEPT ![h] = IF Texts(h) = 1 THEN "collect" ELSE @]
          /\ phase[h] = "append" /\ UNCHANGED <<attempt, streak>>
      BY <2>2 DEF AppendChunk, recordVars
    <3>2. QED
      BY <1>1, <1>2, <3>1 DEF Incident
  <2>3. CASE Emit(h)
    BY <1>1, <2>3 DEF Emit, Incident, recordVars
  <2>4. CASE Exhaust(h) \/ Break(h) \/ Reject(h)
    <3>1. PICK how \in {"exhausted", "broken"} :
            /\ phase' = [phase EXCEPT ![h] = how]
            /\ phase[h] \in {"collect", "append"} /\ UNCHANGED <<attempt, streak>>
      BY <2>4 DEF Exhaust, Break, Reject, Stop, Collecting, Exhausted, Broken, recordVars
    <3>2. QED
      BY <1>1, <1>2, <3>1 DEF Incident
  <2>5. CASE Recover(h)
    <3>1. /\ streak' = [streak EXCEPT ![h] = @ + 1] /\ attempt' = [attempt EXCEPT ![h] = @ + 1]
          /\ phase[h] = "collect" /\ phase' = phase
      BY <2>5 DEF Recover, Collecting, Rebuild, Fails, batchVars
    <3>2. QED
      BY <1>1, <1>2, <3>1 DEF Incident
  <2>6. CASE Outage(h)
    <3>1. /\ streak' = [streak EXCEPT ![h] = @ + 1] /\ attempt' = attempt
          /\ attempt[h] = Attempts
          /\ phase[h] = "collect" /\ phase' = [phase EXCEPT ![h] = "outage"]
      BY <2>6 DEF Outage, Stop, Collecting, GiveUp, Fails
    <3>2. QED
      BY <1>1, <1>2, <3>1 DEF Incident
  <2>7. QED
    BY <1>3, <2>1, <2>2, <2>3, <2>4, <2>5, <2>6 DEF Read, Failure
<1>4. CASE UNCHANGED vars
  BY <1>1, <1>4 DEF Incident, vars, recordVars, batchVars
<1>5. QED
  BY <1>3, <1>4 DEF Next

--------------------------------------------------------------------------------
(* The tokenizer batch and the end of the data *)

(* Only a full tokenizer batch is appended, and all of it.                 *)
LEMMA TextsStep == IInv /\ [Next]_vars => TextsBounded'
<1> SUFFICES ASSUME IInv, [Next]_vars PROVE TextsBounded'
  OBVIOUS
<1> USE TokenStreamAssumption
<1>1. TypeOK /\ TextsBounded
  BY DEF IInv
<1>2. \A g \in Hosts : /\ Len(selected[g]) \in Nat /\ tokenized[g] \in Nat
                       /\ selected[g] \in Seq(Entries)
  BY <1>1 DEF TypeOK
<1>3. phase \in [Hosts -> {"collect", "append"} \cup Ended]
      /\ selected \in [Hosts -> Seq(Entries)] /\ tokenized \in [Hosts -> Nat]
  BY <1>1 DEF TypeOK
<1>4. ASSUME NEW h \in Hosts, Read(h) \/ Failure(h) PROVE TextsBounded'
  <2>1. CASE Collect(h)
    <3>1. PICK p \in Places :
            /\ Serve(h, p)
            /\ LET d == order[rebuilds[h]][p] IN
               IF Wanted(d)
                 THEN /\ selected' = [selected EXCEPT ![h] = Append(@, <<d, rebuilds[h], p>>)]
                      /\ phase' = [phase EXCEPT ![h] = IF Texts(h) + 1 = TokenizeBatch
                                                         THEN "append" ELSE @]
                 ELSE UNCHANGED <<selected, phase>>
      BY <2>1 DEF Collect
    <3>2. phase[h] = "collect" /\ tokenized' = tokenized
      BY <2>1 DEF Collect, Collecting
    <3>3. <<order[rebuilds[h]][p], rebuilds[h], p>> \in Entries
      BY <1>1, OrderType DEF TypeOK, RecordTypeOK, Entries
    <3>4. Len(Append(selected[h], <<order[rebuilds[h]][p], rebuilds[h], p>>)) = Len(selected[h]) + 1
      BY <1>2, <3>3
    <3>5. CASE UNCHANGED <<selected, phase>>
      BY <1>1, <3>2, <3>5 DEF TextsBounded, Texts
    <3>6. CASE /\ selected' = [selected EXCEPT ![h] = Append(@, <<order[rebuilds[h]][p], rebuilds[h], p>>)]
               /\ phase' = [phase EXCEPT ![h] = IF Texts(h) + 1 = TokenizeBatch
                                                  THEN "append" ELSE @]
      <4>1. Texts(h) \in 0 .. TokenizeBatch - 1
        BY <1>1, <3>2 DEF TextsBounded
      <4>2. Texts(h)' = Texts(h) + 1
        BY <1>2, <1>3, <3>2, <3>4, <3>6 DEF Texts
      <4>3. phase'[h] = IF Texts(h) + 1 = TokenizeBatch THEN "append" ELSE "collect"
        BY <1>3, <3>2, <3>6
      <4>4. \A g \in Hosts \ {h} : phase'[g] = phase[g] /\ Texts(g)' = Texts(g)
        BY <1>3, <3>2, <3>6 DEF Texts
      <4>5. QED
        BY <1>1, <4>1, <4>2, <4>3, <4>4 DEF TextsBounded
    <3>7. QED
      BY <3>1, <3>5, <3>6
  <2>2. CASE AppendChunk(h)
    <3>1. /\ phase[h] = "append" /\ selected' = selected
          /\ tokenized' = [tokenized EXCEPT ![h] = @ + 1]
          /\ phase' = [phase EXCEPT ![h] = IF Texts(h) = 1 THEN "collect" ELSE @]
      BY <2>2 DEF AppendChunk
    <3>2. Texts(h) \in 1 .. TokenizeBatch
      BY <1>1, <3>1 DEF TextsBounded
    <3>3. Texts(h)' = Texts(h) - 1 /\ \A g \in Hosts \ {h} : Texts(g)' = Texts(g)
      BY <1>2, <1>3, <3>1 DEF Texts
    <3>4. phase'[h] = IF Texts(h) = 1 THEN "collect" ELSE "append"
      BY <1>3, <3>1
    <3>5. \A g \in Hosts \ {h} : phase'[g] = phase[g]
      BY <1>3, <3>1
    <3>6. QED
      BY <1>1, <3>2, <3>3, <3>4, <3>5 DEF TextsBounded
  <2>3. CASE Emit(h) \/ Recover(h)
    <3>1. UNCHANGED <<phase, selected, tokenized>>
      BY <2>3 DEF Emit, Recover, batchVars
    <3>2. QED
      BY <1>1, <3>1 DEF TextsBounded, Texts
  <2>4. CASE Exhaust(h) \/ Break(h) \/ Outage(h) \/ Reject(h)
    <3>1. PICK how \in Ended :
            /\ phase' = [phase EXCEPT ![h] = how]
            /\ phase[h] = "collect" \/ how = "broken"
      BY <2>4 DEF Exhaust, Break, Outage, Reject, Stop, Ended, Collecting
    <3>2. UNCHANGED <<selected, tokenized>>
      BY <2>4 DEF Exhaust, Break, Outage, Reject, Stop
    <3>3. \A g \in Hosts : Texts(g)' = Texts(g)
      BY <3>2 DEF Texts
    <3>4. phase'[h] = how /\ how # "append" /\ \A g \in Hosts \ {h} : phase'[g] = phase[g]
      BY <1>3, <3>1 DEF Ended
    <3>5. QED
      BY <1>1, <3>1, <3>3, <3>4 DEF TextsBounded
  <2>5. QED
    BY <1>4, <2>1, <2>2, <2>3, <2>4 DEF Read, Failure
<1>5. CASE UNCHANGED vars
  BY <1>1, <1>5 DEF TextsBounded, Texts, vars, batchVars
<1>6. QED
  BY <1>4, <1>5 DEF Next

(* A host that has stopped takes no further step.                          *)
LEMMA StoppedStays ==
  ASSUME TypeOK, NEW h \in Hosts, NEW g \in Hosts, phase[g] = "exhausted",
         Read(h) \/ Failure(h)
  PROVE  /\ h # g
         /\ selected'[g] = selected[g] /\ tokenized'[g] = tokenized[g]
         /\ buffer'[g] = buffer[g] /\ given'[g] = given[g] /\ rebuilds'[g] = rebuilds[g]
<1>1. h # g
  BY DEF Read, Failure, Collect, AppendChunk, Emit, Exhaust, Recover, Outage, Break, Reject, Stop,
         Collecting
<1>2. selected'[g] = selected[g] /\ tokenized'[g] = tokenized[g] /\ buffer'[g] = buffer[g]
  BY <1>1 DEF TypeOK, Read, Failure, Collect, AppendChunk, Emit, Exhaust, Recover, Outage, Break,
              Reject, Stop, batchVars
<1>3. given'[g] = given[g] /\ rebuilds'[g] = rebuilds[g]
  <2>1. CASE UNCHANGED recordVars
    BY <2>1 DEF recordVars
  <2>2. ASSUME NEW p \in Places, Serve(h, p) PROVE given'[g] = given[g] /\ rebuilds'[g] = rebuilds[g]
    BY <1>1, <2>2 DEF Serve, TypeOK, RecordTypeOK
  <2>3. CASE Rebuild(h) \/ GiveUp(h)
    BY <1>1, <2>3 DEF Rebuild, GiveUp, TypeOK, RecordTypeOK
  <2>4. QED
    BY <2>1, <2>2, <2>3, RecordStep
<1>4. QED
  BY <1>1, <1>2, <1>3

(* The end of the data leaves less than a batch of texts and of tokens.    *)
LEMMA TailStep == IInv /\ [Next]_vars => TailLoss'
<1> SUFFICES ASSUME IInv, [Next]_vars PROVE TailLoss'
  OBVIOUS
<1>1. TypeOK /\ TextsBounded /\ OwnPlaces /\ TailLoss
  BY DEF IInv
<1>2. ASSUME NEW h \in Hosts, Read(h) \/ Failure(h), NEW g \in Hosts, phase'[g] = "exhausted"
      PROVE  /\ Texts(g)' < TokenizeBatch
             /\ Len(buffer'[g]) < Required
             /\ given'[g][rebuilds'[g]] = Share(g)
  <2>1. CASE phase[g] = "exhausted"
    <3>1. /\ Texts(g) < TokenizeBatch /\ Len(buffer[g]) < Required
          /\ given[g][rebuilds[g]] = Share(g)
      BY <1>1, <2>1 DEF TailLoss
    <3>2. QED
      BY <1>1, <1>2, <2>1, <3>1, StoppedStays DEF Texts
  <2>2. CASE phase[g] # "exhausted"
    <3>1. g = h /\ Exhaust(h)
      BY <1>1, <1>2, <2>2 DEF TypeOK, Read, Failure, Collect, AppendChunk, Emit, Exhaust,
           Recover, Outage, Break, Reject, Stop, batchVars
    <3>2. /\ phase[h] = "collect" /\ Len(buffer[h]) < Required
          /\ UNCHANGED <<selected, tokenized, buffer, given, rebuilds>>
          /\ Share(h) \ given[h][rebuilds[h]] = {}
      BY <3>1 DEF Exhaust, Stop, Collecting, Exhausted, Left, recordVars
    <3>3. Texts(h) < TokenizeBatch
      BY <1>1, <3>2, TokenStreamAssumption DEF TextsBounded
    <3>4. given[h][rebuilds[h]] \subseteq Share(h)
      BY <1>1 DEF OwnPlaces, TypeOK, RecordTypeOK
    <3>5. QED
      BY <3>1, <3>2, <3>3, <3>4 DEF Texts
  <2>3. QED
    BY <2>1, <2>2
<1>3. CASE UNCHANGED vars
  BY <1>1, <1>3 DEF TailLoss, Texts, vars, recordVars, batchVars
<1>4. QED
  BY <1>2, <1>3 DEF Next, TailLoss, Texts, Share

--------------------------------------------------------------------------------
(* Selection *)

(* One host's part of SelectedOnce. *)
HostSelectedOnce(h) ==
  /\ \A m, n \in 1 .. Len(selected[h]) : selected[h][m] = selected[h][n] => m = n
  /\ \A n \in 1 .. Len(selected[h]) :
       /\ Wanted(selected[h][n][1])
       /\ selected[h][n][3] \in given[h][selected[h][n][2]]
       /\ selected[h][n][1] = order[selected[h][n][2]][selected[h][n][3]]
  /\ \A e \in Epochs : \A p \in given[h][e] :
       Wanted(order[e][p]) => \E n \in 1 .. Len(selected[h]) :
                                 selected[h][n] = <<order[e][p], e, p>>

LEMMA SelectedByHost == SelectedOnce <=> \A h \in Hosts : HostSelectedOnce(h)
  BY DEF SelectedOnce, HostSelectedOnce

(* The partition is decided once and for all. *)
LEMMA PartitionFixed ==
  ASSUME NEW h \in Hosts, Read(h) \/ Failure(h)
  PROVE  order' = order /\ reserved' = reserved
<1>1. order' = order
  BY RecordStep DEF recordVars, Serve, Rebuild, GiveUp
<1>2. reserved' = reserved
  BY DEF Read, Failure, Collect, AppendChunk, Emit, Exhaust, Recover, Outage, Break, Reject, Stop
<1>3. QED
  BY <1>1, <1>2

(* Collecting takes the record just given, which was never given before.   *)
LEMMA CollectSelects ==
  ASSUME TypeOK, NEW h \in Hosts, HostSelectedOnce(h), Collect(h)
  PROVE  HostSelectedOnce(h)'
<1>1. PICK p \in Places :
        /\ Serve(h, p)
        /\ IF Wanted(order[rebuilds[h]][p])
             THEN selected' = [selected EXCEPT ![h] =
                    Append(@, <<order[rebuilds[h]][p], rebuilds[h], p>>)]
             ELSE UNCHANGED selected
  BY DEF Collect
<1> DEFINE e == rebuilds[h]
           x == <<order[e][p], e, p>>
<1>2. /\ e \in Epochs /\ p \notin given[h][e] /\ x \in Entries
      /\ given[h] \in [Epochs -> SUBSET Places] /\ selected[h] \in Seq(Entries)
      /\ Len(selected[h]) \in Nat
  BY <1>1, OrderType DEF TypeOK, RecordTypeOK, Serve, Left, Entries
<1>3. /\ given'[h] = [given[h] EXCEPT ![e] = @ \cup {p}]
      /\ order' = order /\ reserved' = reserved
  BY <1>1 DEF Serve, Collect, TypeOK, RecordTypeOK
<1>4. \A n \in 1 .. Len(selected[h]) :
        /\ selected[h][n] \in Entries
        /\ given[h][selected[h][n][2]] \subseteq given'[h][selected[h][n][2]]
  <2> SUFFICES ASSUME NEW n \in 1 .. Len(selected[h])
               PROVE  /\ selected[h][n] \in Entries
                      /\ given[h][selected[h][n][2]] \subseteq given'[h][selected[h][n][2]]
    OBVIOUS
  <2>1. selected[h][n] \in Entries
    BY <1>2, ElementOfSeq
  <2>2. selected[h][n][2] \in Epochs
    BY <2>1 DEF Entries
  <2>3. QED
    BY <1>2, <1>3, <2>1, <2>2
<1>5. \A f \in Epochs : \A q \in given'[h][f] : q \in given[h][f] \/ (f = e /\ q = p)
  BY <1>2, <1>3
<1>6. CASE ~Wanted(order[e][p])
  <2>1. selected' = selected
    BY <1>1, <1>6
  <2>2. QED
    BY <1>3, <1>4, <1>5, <1>6, <2>1 DEF HostSelectedOnce, Wanted
<1>7. CASE Wanted(order[e][p])
  <2>1. selected'[h] = Append(selected[h], x)
    BY <1>1, <1>7 DEF TypeOK
  <2>2. /\ Len(selected'[h]) = Len(selected[h]) + 1
        /\ selected'[h][Len(selected[h]) + 1] = x
        /\ \A n \in 1 .. Len(selected[h]) : selected'[h][n] = selected[h][n]
    BY <1>2, <2>1
  <2>3. \A n \in 1 .. Len(selected[h]) : selected[h][n] # x
    <3> SUFFICES ASSUME NEW n \in 1 .. Len(selected[h]), selected[h][n] = x PROVE FALSE
      OBVIOUS
    <3>1. selected[h][n][3] \in given[h][selected[h][n][2]]
      BY DEF HostSelectedOnce
    <3>2. QED
      BY <1>2, <3>1
  <2>4. \A n \in 1 .. Len(selected'[h]) :
          n \in 1 .. Len(selected[h]) \/ n = Len(selected[h]) + 1
    BY <1>2, <2>2
  <2>5. \A m, n \in 1 .. Len(selected'[h]) : selected'[h][m] = selected'[h][n] => m = n
    BY <2>2, <2>3, <2>4 DEF HostSelectedOnce
  <2>6. ASSUME NEW n \in 1 .. Len(selected'[h])
        PROVE  /\ Wanted(selected'[h][n][1])
               /\ selected'[h][n][3] \in given'[h][selected'[h][n][2]]
               /\ selected'[h][n][1] = order[selected'[h][n][2]][selected'[h][n][3]]
    <3>1. CASE n \in 1 .. Len(selected[h])
      BY <1>4, <2>2, <3>1 DEF HostSelectedOnce
    <3>2. CASE n = Len(selected[h]) + 1
      BY <1>2, <1>3, <1>7, <2>2, <3>2
    <3>3. QED
      BY <2>4, <3>1, <3>2
  <2>7. ASSUME NEW f \in Epochs, NEW q \in given'[h][f], Wanted(order[f][q])
        PROVE  \E n \in 1 .. Len(selected'[h]) : selected'[h][n] = <<order[f][q], f, q>>
    <3>1. CASE q \in given[h][f]
      <4>1. PICK n \in 1 .. Len(selected[h]) : selected[h][n] = <<order[f][q], f, q>>
        BY <2>7, <3>1 DEF HostSelectedOnce
      <4>2. selected'[h][n] = <<order[f][q], f, q>>
        BY <2>2, <4>1
      <4>3. n \in 1 .. Len(selected'[h])
        BY <1>2, <2>2
      <4>4. QED
        BY <4>2, <4>3
    <3>2. CASE f = e /\ q = p
      BY <1>2, <2>2, <3>2
    <3>3. QED
      BY <1>5, <3>1, <3>2
  <2>8. \A n \in 1 .. Len(selected'[h]) :
          /\ Wanted(selected[h][n][1])'
          /\ selected'[h][n][3] \in given'[h][selected'[h][n][2]]
          /\ selected'[h][n][1] = order'[selected'[h][n][2]][selected'[h][n][3]]
    BY <1>3, <2>6 DEF Wanted
  <2>9. \A f \in Epochs : \A q \in given'[h][f] :
          Wanted(order[f][q])' => \E n \in 1 .. Len(selected'[h]) :
                                     selected'[h][n] = <<order'[f][q], f, q>>
    BY <1>3, <2>7 DEF Wanted
  <2>10. QED
    BY <2>5, <2>8, <2>9 DEF HostSelectedOnce, Epochs
<1>8. QED
  BY <1>6, <1>7

(* The selection of a host depends on four things only. *)
LEMMA SelectionKept ==
  ASSUME NEW g \in Hosts, HostSelectedOnce(g),
         selected'[g] = selected[g], given'[g] = given[g],
         order' = order, reserved' = reserved
  PROVE  HostSelectedOnce(g)'
<1>1. \A m, n \in 1 .. Len(selected'[g]) : selected'[g][m] = selected'[g][n] => m = n
  BY Zenon DEF HostSelectedOnce
<1>2. \A n \in 1 .. Len(selected'[g]) :
        /\ (selected'[g][n][1] \in reserved') = Validation
        /\ selected'[g][n][3] \in given'[g][selected'[g][n][2]]
        /\ selected'[g][n][1] = order'[selected'[g][n][2]][selected'[g][n][3]]
  BY Zenon DEF HostSelectedOnce, Wanted
<1>3. \A e \in Epochs : \A p \in given'[g][e] :
        ((order'[e][p] \in reserved') = Validation) =>
          \E n \in 1 .. Len(selected'[g]) : selected'[g][n] = <<order'[e][p], e, p>>
  <2> SUFFICES ASSUME NEW e \in Epochs, NEW p \in given'[g][e],
                      (order'[e][p] \in reserved') = Validation
               PROVE  \E n \in 1 .. Len(selected'[g]) : selected'[g][n] = <<order'[e][p], e, p>>
    OBVIOUS
  <2>1. p \in given[g][e] /\ Wanted(order[e][p])
    BY DEF Wanted
  <2>2. \E n \in 1 .. Len(selected[g]) : selected[g][n] = <<order[e][p], e, p>>
    BY <2>1, Zenon DEF HostSelectedOnce
  <2>3. QED
    BY <2>2
<1>4. QED
  BY <1>1, <1>2, <1>3, Zenon DEF HostSelectedOnce, Wanted, Epochs

(* Rebuilds and everything else leave the selection alone.                 *)
LEMMA SelectedStep == IInv /\ [Next]_vars => SelectedOnce'
<1> SUFFICES ASSUME IInv, [Next]_vars PROVE SelectedOnce'
  OBVIOUS
<1>1. TypeOK /\ \A h \in Hosts : HostSelectedOnce(h)
  BY SelectedByHost DEF IInv
<1>2. ASSUME NEW h \in Hosts, Read(h) \/ Failure(h), NEW g \in Hosts PROVE HostSelectedOnce(g)'
  <2>1. CASE Collect(h) /\ g = h
    BY <1>1, <2>1, CollectSelects
  <2>2. CASE ~(Collect(h) /\ g = h)
    <3>1. selected'[g] = selected[g]
      BY <1>1, <1>2, <2>2 DEF TypeOK, Read, Failure, Collect, AppendChunk, Emit, Exhaust,
         Recover, Outage, Break, Reject, Stop, batchVars
    <3>2. given'[g] = given[g]
      <4>1. CASE ~Collect(h)
        BY <1>2, <4>1 DEF Read, Failure, AppendChunk, Emit, Exhaust, Exhausted, Recover, Outage,
           Break, Broken, Reject, Rebuild, GiveUp, recordVars
      <4>2. ASSUME NEW p \in Places, Serve(h, p), g # h PROVE given'[g] = given[g]
        BY <1>1, <4>2 DEF Serve, TypeOK, RecordTypeOK
      <4>3. QED
        BY <2>2, <4>1, <4>2 DEF Collect
    <3>3. order' = order /\ reserved' = reserved
      BY <1>2, PartitionFixed
    <3>4. QED
      BY <1>1, <3>1, <3>2, <3>3, SelectionKept
  <2>3. QED
    BY <2>1, <2>2
<1>3. ASSUME UNCHANGED vars, NEW g \in Hosts PROVE HostSelectedOnce(g)'
  BY <1>1, <1>3, SelectionKept DEF vars, recordVars, batchVars
<1>4. \A g \in Hosts : HostSelectedOnce(g)'
  BY <1>2, <1>3 DEF Next
<1>5. QED
  BY <1>4 DEF SelectedOnce, HostSelectedOnce, Hosts

--------------------------------------------------------------------------------
(* The order of the tokens *)

(* One host's part of TokensInRange. *)
HostTokensInRange(h) ==
  \A i \in 1 .. Len(Stream(h)) :
    /\ Stream(h)[i][1] \in 1 .. tokenized[h]
    /\ Stream(h)[i][2] \in 1 .. Size[selected[h][Stream(h)[i][1]][1]]

(* What is known of a host's tokens before a step. *)
LEMMA StreamType ==
  ASSUME TypeOK, NEW h \in Hosts
  PROVE  /\ Stream(h) \in Seq(Tokens)
         /\ Len(Stream(h)) \in Nat
         /\ tokenized[h] \in Nat /\ selected[h] \in Seq(Entries)
         /\ Len(selected[h]) \in Nat /\ tokenized[h] <= Len(selected[h])
<1>1. buffer[h] \in Seq(Tokens) /\ emitted[h] \in Seq(Tokens)
  BY DEF TypeOK
<1>2. Stream(h) \in Seq(Tokens)
  BY <1>1, ConcatProperties DEF Stream
<1>3. selected[h] \in Seq(Entries)
  BY DEF TypeOK
<1>4. QED
  BY <1>2, <1>3, LenProperties DEF TypeOK

(* The order survives any step that keeps the stream and the documents     *)
(* tokenized so far.                                                       *)
LEMMA OrderKept ==
  ASSUME TypeOK, NEW h \in Hosts, TokensInOrder(h), HostTokensInRange(h),
         Stream(h)' = Stream(h), tokenized'[h] = tokenized[h],
         \A n \in 1 .. tokenized[h] : selected'[h][n] = selected[h][n]
  PROVE  TokensInOrder(h)' /\ HostTokensInRange(h)'
<1> DEFINE s == Stream(h)
<1>1. s \in Seq(Tokens) /\ Len(s) \in Nat /\ tokenized[h] \in Nat
  BY StreamType
<1>2. \A i \in 1 .. Len(s) : selected'[h][s[i][1]] = selected[h][s[i][1]]
  BY DEF HostTokensInRange
<1>3. \A i \in 1 .. Len(s) - 1 : After(h, s[i]) =
        IF s[i][2] < Size[selected'[h][s[i][1]][1]] THEN <<s[i][1], s[i][2] + 1>>
                                                    ELSE <<s[i][1] + 1, 1>>
  BY <1>1, <1>2 DEF After
<1>4. HostTokensInRange(h)'
  BY <1>2, Zenon DEF HostTokensInRange
<1>5. tokenized[h] # 0 => selected'[h][tokenized[h]] = selected[h][tokenized[h]]
  BY <1>1
<1>6. TokensInOrder(h)'
  <2>1. (s = <<>>) <=> (tokenized'[h] = 0)
    BY DEF TokensInOrder
  <2>2. s # <<>> => /\ s[1] = <<1, 1>>
                    /\ s[Len(s)] = <<tokenized'[h], Size[selected'[h][tokenized'[h]][1]]>>
    BY <1>5 DEF TokensInOrder
  <2>3. \A i \in 1 .. Len(s) - 1 : s[i + 1] =
          IF s[i][2] < Size[selected'[h][s[i][1]][1]] THEN <<s[i][1], s[i][2] + 1>>
                                                      ELSE <<s[i][1] + 1, 1>>
    BY <1>3 DEF TokensInOrder
  <2>4. QED
    BY <2>1, <2>2, <2>3 DEF TokensInOrder, After
<1>7. QED
  BY <1>4, <1>6

(* Appending the next document's tokens continues the order.               *)
LEMMA OrderExtended ==
  ASSUME TypeOK, TextsBounded, NEW h \in Hosts, TokensInOrder(h), HostTokensInRange(h),
         AppendChunk(h)
  PROVE  TokensInOrder(h)' /\ HostTokensInRange(h)'
<1> DEFINE s == Stream(h)
           n == tokenized[h] + 1
           c == Chunk(h, n)
           z == Size[selected[h][n][1]]
<1>1. /\ s \in Seq(Tokens) /\ Len(s) \in Nat /\ tokenized[h] \in Nat
      /\ Len(selected[h]) \in Nat
  BY StreamType
<1>2. n \in 1 .. Len(selected[h])
  BY <1>1 DEF AppendChunk, TextsBounded, Texts
<1>3. /\ z \in Nat \ {0} /\ c \in Seq(Tokens) /\ Len(c) = z
      /\ \A i \in 1 .. Len(c) : c[i] = <<n, i>>
  BY <1>2, ChunkType
<1>4. /\ tokenized'[h] = n /\ selected' = selected
      /\ buffer'[h] = buffer[h] \o c /\ emitted' = emitted
  BY DEF AppendChunk, TypeOK
<1>5. Stream(h)' = s \o c
  <2>1. buffer[h] \in Seq(Tokens) /\ emitted[h] \in Seq(Tokens)
    BY DEF TypeOK
  <2>2. (emitted[h] \o buffer[h]) \o c = emitted[h] \o (buffer[h] \o c)
    <3>1. \A a, b, d \in Seq(Tokens) : (a \o b) \o d = a \o (b \o d)
      BY ConcatAssociative
    <3>2. QED
      BY <1>3, <2>1, <3>1, Zenon
  <2>3. QED
    BY <1>4, <2>2 DEF Stream
<1> DEFINE t == s \o c
<1> HIDE DEF s, c, z
<1>6. /\ Len(t) = Len(s) + z
      /\ \A i \in 1 .. Len(s) + z : t[i] = IF i <= Len(s) THEN s[i] ELSE c[i - Len(s)]
      /\ t \in Seq(Tokens)
  BY <1>1, <1>3, ConcatProperties
<1>7. \A i \in 1 .. Len(t) : \/ i \in 1 .. Len(s) /\ t[i] = s[i]
                             \/ i - Len(s) \in 1 .. z /\ t[i] = <<n, i - Len(s)>>
  BY <1>1, <1>3, <1>6
<1> HIDE DEF t
<1>8. t # <<>> /\ t[Len(t)] = <<n, z>>
  BY <1>1, <1>3, <1>6, <1>7
<1>9. \A i \in 1 .. Len(s) : s[i][1] \in 1 .. tokenized[h]
                            /\ s[i][2] \in 1 .. Size[selected[h][s[i][1]][1]]
  BY DEF HostTokensInRange, s
<1>10. t[1] = <<1, 1>>
  <2>1. CASE tokenized[h] = 0
    <3>1. s = <<>> /\ Len(s) = 0
      BY <2>1 DEF TokensInOrder, s
    <3>2. QED
      BY <1>3, <1>6, <1>7, <2>1, <3>1
  <2>2. CASE tokenized[h] # 0
    <3>1. s # <<>> /\ s[1] = <<1, 1>>
      BY <2>2 DEF TokensInOrder, s
    <3>2. Len(s) > 0
      BY <1>1, <3>1, EmptySeq
    <3>3. QED
      BY <1>1, <1>3, <1>6, <3>1, <3>2
  <2>3. QED
    BY <2>1, <2>2
<1>11. ASSUME NEW i \in 1 .. Len(t) - 1 PROVE t[i + 1] = After(h, t[i])
  <2>1. CASE i < Len(s)
    <3>1. i \in 1 .. Len(s) - 1 /\ t[i] = s[i] /\ t[i + 1] = s[i + 1]
      BY <1>1, <1>3, <1>6, <2>1
    <3>2. QED
      BY <3>1 DEF TokensInOrder, s
  <2>2. CASE i = Len(s)
    <3>1. t[i] = s[i] /\ t[i + 1] = <<n, 1>>
      BY <1>1, <1>3, <1>6, <1>7, <2>2
    <3>2. s[Len(s)] = <<tokenized[h], Size[selected[h][tokenized[h]][1]]>>
      BY <1>1, <2>2 DEF TokensInOrder, s
    <3>3. After(h, s[Len(s)]) = <<n, 1>>
      <4>1. ~(Size[selected[h][tokenized[h]][1]] < Size[selected[h][tokenized[h]][1]])
        <5>1. tokenized[h] \in 1 .. Len(selected[h])
          BY <1>1, <1>2, <1>9, <2>2, <3>2
        <5>2. Size[selected[h][tokenized[h]][1]] \in Nat
          BY <5>1, ChunkType
        <5>3. QED
          BY <5>2
      <4>2. QED
        BY <3>2, <4>1 DEF After
    <3>4. QED
      BY <2>2, <3>1, <3>3
  <2>3. CASE i > Len(s)
    <3>1. /\ t[i] = <<n, i - Len(s)>> /\ t[i + 1] = <<n, i - Len(s) + 1>>
          /\ i - Len(s) < z
      BY <1>1, <1>3, <1>6, <1>7, <2>3
    <3>2. QED
      BY <3>1 DEF After, z
  <2>4. QED
    BY <1>1, <2>1, <2>2, <2>3
<1>12. \A i \in 1 .. Len(t) : /\ t[i][1] \in 1 .. n
                             /\ t[i][2] \in 1 .. Size[selected[h][t[i][1]][1]]
  <2> SUFFICES ASSUME NEW i \in 1 .. Len(t)
               PROVE  t[i][1] \in 1 .. n /\ t[i][2] \in 1 .. Size[selected[h][t[i][1]][1]]
    OBVIOUS
  <2>1. CASE i \in 1 .. Len(s) /\ t[i] = s[i]
    BY <1>1, <1>9, <2>1
  <2>2. CASE i - Len(s) \in 1 .. z /\ t[i] = <<n, i - Len(s)>>
    BY <1>1, <2>2 DEF z
  <2>3. QED
    BY <1>7, <2>1, <2>2
<1>13. Stream(h)' = t
  BY <1>5 DEF s, t, c
<1>14. TokensInOrder(h)'
  <2>1. (t = <<>>) <=> (tokenized'[h] = 0)
    BY <1>1, <1>4, <1>8
  <2>2. t # <<>> => t[1] = <<1, 1>> /\ t[Len(t)] = <<n, z>>
    BY <1>8, <1>10
  <2>3. z = Size[selected'[h][tokenized'[h]][1]] /\ tokenized'[h] = n
    BY <1>4 DEF z
  <2>4. \A i \in 1 .. Len(t) - 1 : t[i + 1] =
          IF t[i][2] < Size[selected'[h][t[i][1]][1]] THEN <<t[i][1], t[i][2] + 1>>
                                                      ELSE <<t[i][1] + 1, 1>>
    BY <1>4, <1>11 DEF After
  <2>5. QED
    BY <1>13, <2>1, <2>2, <2>3, <2>4 DEF TokensInOrder, After
<1>15. HostTokensInRange(h)'
  BY <1>4, <1>12, <1>13 DEF HostTokensInRange
<1>16. QED
  BY <1>14, <1>15

(* One host's step continues its own order and no other host's is touched. *)
LEMMA OrderStep == IInv /\ [Next]_vars => WindowsInOrder' /\ TokensInRange'
<1> SUFFICES ASSUME IInv, [Next]_vars PROVE WindowsInOrder' /\ TokensInRange'
  OBVIOUS
<1>1. /\ TypeOK /\ TextsBounded
      /\ \A h \in Hosts : TokensInOrder(h) /\ HostTokensInRange(h)
  BY DEF IInv, WindowsInOrder, TokensInRange, HostTokensInRange
<1>2. ASSUME NEW h \in Hosts, Read(h) \/ Failure(h), NEW g \in Hosts
      PROVE  TokensInOrder(g)' /\ HostTokensInRange(g)'
  <2>1. CASE g # h
    <3>1. /\ buffer'[g] = buffer[g] /\ emitted'[g] = emitted[g]
          /\ tokenized'[g] = tokenized[g] /\ selected'[g] = selected[g]
      BY <1>1, <1>2, <2>1 DEF TypeOK, Read, Failure, Collect, AppendChunk, Emit, Exhaust,
         Recover, Outage, Break, Reject, Stop, batchVars
    <3>2. Stream(g)' = Stream(g)
      BY <3>1 DEF Stream
    <3>3. QED
      BY <1>1, <3>1, <3>2, OrderKept
  <2>2. CASE g = h /\ AppendChunk(h)
    BY <1>1, <2>2, OrderExtended
  <2>3. CASE g = h /\ Emit(h)
    <3>1. Stream(h)' = Stream(h)
      <4>1. /\ buffer[h] \in Seq(Tokens) /\ emitted[h] \in Seq(Tokens)
            /\ Len(buffer[h]) >= Required
        BY <1>1, <2>3 DEF TypeOK, Emit
      <4>2. /\ emitted'[h] = emitted[h] \o SubSeq(buffer[h], 1, Required)
            /\ buffer'[h] = SubSeq(buffer[h], Required + 1, Len(buffer[h]))
        BY <1>1, <2>3 DEF TypeOK, Emit
      <4>3. (emitted[h] \o SubSeq(buffer[h], 1, Required))
               \o SubSeq(buffer[h], Required + 1, Len(buffer[h])) = emitted[h] \o buffer[h]
        BY <4>1, Cut
      <4>4. QED
        BY <4>2, <4>3, Zenon DEF Stream
    <3>2. tokenized' = tokenized /\ selected' = selected
      BY <2>3 DEF Emit
    <3>3. QED
      BY <1>1, <2>3, <3>1, <3>2, OrderKept
  <2>4. CASE g = h /\ Collect(h)
    <3>1. tokenized' = tokenized /\ Stream(h)' = Stream(h)
      BY <2>4 DEF Collect, Stream
    <3>2. \A n \in 1 .. tokenized[h] : selected'[h][n] = selected[h][n]
      <4>1. /\ selected[h] \in Seq(Entries) /\ Len(selected[h]) \in Nat
            /\ tokenized[h] \in Nat /\ tokenized[h] <= Len(selected[h])
        BY <1>1, StreamType
      <4>2. \/ selected' = selected
            \/ \E x : selected'[h] = Append(selected[h], x)
        BY <1>1, <2>4 DEF Collect, TypeOK
      <4>3. QED
        BY <4>1, <4>2, AppendProperties
    <3>3. QED
      BY <1>1, <2>4, <3>1, <3>2, OrderKept
  <2>5. CASE Exhaust(h) \/ Failure(h)
    <3>1. buffer' = buffer /\ emitted' = emitted /\ tokenized' = tokenized /\ selected' = selected
      BY <2>5 DEF Failure, Exhaust, Recover, Outage, Break, Reject, Stop, batchVars
    <3>2. Stream(g)' = Stream(g)
      BY <3>1 DEF Stream
    <3>3. QED
      BY <1>1, <3>1, <3>2, OrderKept
  <2>6. QED
    BY <1>2, <2>1, <2>2, <2>3, <2>4, <2>5 DEF Read
<1>3. ASSUME UNCHANGED vars, NEW g \in Hosts
      PROVE  TokensInOrder(g)' /\ HostTokensInRange(g)'
  <2>1. Stream(g)' = Stream(g) /\ tokenized' = tokenized /\ selected' = selected
    BY <1>3 DEF vars, batchVars, Stream
  <2>2. QED
    BY <1>1, <2>1, OrderKept
<1>4. \A g \in Hosts : TokensInOrder(g)' /\ HostTokensInRange(g)'
  BY <1>2, <1>3 DEF Next
<1>5. QED
  BY <1>4 DEF WindowsInOrder, TokensInRange, HostTokensInRange, Hosts

--------------------------------------------------------------------------------
(* The strengthening is inductive. *)
LEMMA Inductive == IInv /\ [Next]_vars => IInv'
  BY TypeStep, OwnPlacesStep, IncidentStep, TextsStep, SelectedStep, OrderStep, TailStep DEF IInv

(* The strengthening holds of every state of every behaviour. *)
LEMMA Always == Spec => []IInv
  BY InitInv, Inductive, PTL DEF Spec

(* The types hold for any dataset, batch sizes and number of hosts. *)
THEOREM TypeCorrect == Spec => []TypeOK
<1>1. IInv => TypeOK
  BY DEF IInv
<1>2. QED
  BY <1>1, Always, PTL

(* Whatever fails and whenever, hosts in the same epoch never read the     *)
(* same document (data.py:662-665).                                        *)
THEOREM EpochsAreDisjoint == Spec => []EpochDisjoint
<1>1. IInv => EpochDisjoint
  BY OwnPlacesDisjoint DEF IInv
<1>2. QED
  BY <1>1, Always, PTL

(* The batches are the documents' tokens in order, each once, none missing *)
(* (data.py:283-311), through every rebuild.                               *)
THEOREM WindowsFollowTheStream == Spec => []WindowsInOrder
<1>1. IInv => WindowsInOrder
  BY DEF IInv
<1>2. QED
  BY <1>1, Always, PTL

(* A rebuild neither drops nor repeats a selected text (data.py:581-584).  *)
THEOREM SelectsEachOnce == Spec => []SelectedOnce
<1>1. IInv => SelectedOnce
  BY DEF IInv
<1>2. QED
  BY <1>1, Always, PTL

(* What the end of the data costs is bounded (data.py:266).                *)
THEOREM TailIsSmall == Spec => []TailLoss
<1>1. IInv => TailLoss
  BY DEF IInv
<1>2. QED
  BY <1>1, Always, PTL

(* A host gives up on an incident only with its budget spent (data.py:589).*)
THEOREM GivesUpAfterBudget == Spec => []BudgetPerIncident
<1>1. IInv => BudgetPerIncident
  BY DEF IInv, Incident, BudgetPerIncident
<1>2. QED
  BY <1>1, Always, PTL

--------------------------------------------------------------------------------
(* What Finishes stands on, besides fairness: a host that has not ended    *)
(* can always read on, and not for ever.                                   *)

(* The guards of Read(h). *)
CanRead(h) ==
  \/ phase[h] = "append"
  \/ phase[h] = "collect" /\ Len(buffer[h]) >= Required
  \/ Collecting(h) /\ Left(h) = {}
  \/ Collecting(h) /\ \E p \in Left(h) : \A q \in Left(h) : p <= q

NobodySpins == \A h \in Hosts : phase[h] \notin Ended => CanRead(h)

(* What host h was given of the epoch it is reading. *)
Served(h) == given[h][rebuilds[h]]

(* A step of host h: to its end, to a later epoch, to one place more of    *)
(* the same, to one document more in the buffer, or to a shorter buffer.   *)
Nearer(h) ==
  \/ phase'[h] \in Ended
  \/ rebuilds'[h] > rebuilds[h]
  \/ /\ rebuilds'[h] = rebuilds[h]
     /\ \/ Served(h) \subseteq Served(h)' /\ Served(h)' # Served(h)
        \/ Served(h)' = Served(h) /\ tokenized'[h] > tokenized[h]
        \/ /\ Served(h)' = Served(h) /\ tokenized'[h] = tokenized[h]
           /\ Len(buffer'[h]) < Len(buffer[h])

Place(h) == <<phase[h], rebuilds[h], Served(h), tokenized[h], buffer[h]>>

OneNearer ==
  \E h \in Hosts :
    phase[h] \notin Ended /\ Nearer(h) /\ \A g \in Hosts \ {h} : Place(g)' = Place(g)

(* Of each of these there is a bounded amount. *)
ReadingBounded ==
  \A h \in Hosts :
    /\ rebuilds[h] <= MaxFaults
    /\ Served(h) \subseteq Places
    /\ tokenized[h] <= Len(selected[h])

(* Every set of numbers that is not empty has a least one. *)
LEMMA LeastNumber ==
  ASSUME NEW T \in SUBSET Nat, T # {}
  PROVE  \E m \in T : \A k \in T : m <= k
<1> DEFINE Below(k) == 0 .. k
           B == {Below(k) : k \in T}
<1>1. \A k \in T : Below(k) \in FiniteSubsetsOf(Nat)
  BY FS_Interval, \A k \in T : Below(k) \subseteq Nat DEF FiniteSubsetsOf
<1>2. B \subseteq FiniteSubsetsOf(Nat) /\ B # {}
  BY <1>1
<1>3. PICK b \in B : \A c \in B : ~(<<c, b>> \in StrictSubsetOrdering(Nat))
  BY <1>2, FS_StrictSubsetOrderingWellFounded, WFMin
<1>4. PICK m \in T : b = Below(m)
  OBVIOUS
<1>5. ASSUME NEW k \in T, k < m PROVE FALSE
  <2>1. Below(k) \subseteq Below(m) /\ Below(k) # Below(m)
    BY <1>5
  <2>2. <<Below(k), b>> \in StrictSubsetOrdering(Nat)
    BY <1>4, <2>1 DEF StrictSubsetOrdering
  <2> QED BY <1>3, <2>2
<1> QED BY <1>5

(* There is a record to collect, the end of them, or a batch to return. *)
LEMMA AlwaysReads == TypeOK => NobodySpins
<1> SUFFICES ASSUME TypeOK, NEW h \in Hosts, phase[h] \notin Ended PROVE CanRead(h)
  BY DEF NobodySpins
<1>1. phase[h] \in {"collect", "append"}
  BY DEF TypeOK
<1>2. Len(buffer[h]) \in Nat /\ Required \in Nat
  BY TokenStreamAssumption, LenProperties DEF TypeOK
<1>3. Left(h) # {} => \E p \in Left(h) : \A q \in Left(h) : p <= q
  BY LeastNumber, Left(h) \subseteq Nat DEF Left, Share, Places
<1>4. QED
  BY <1>1, <1>2, <1>3 DEF CanRead, Collecting

(* A record that is served is one that was left. *)
LEMMA ServeIsNearer ==
  ASSUME TypeOK, NEW h \in Hosts, NEW p \in Places, Serve(h, p)
  PROVE  /\ rebuilds' = rebuilds
         /\ Served(h)' = Served(h) \cup {p} /\ p \notin Served(h)
         /\ \A g \in Hosts \ {h} : Served(g)' = Served(g)
<1>1. /\ given[h] \in [Epochs -> SUBSET Places] /\ rebuilds \in [Hosts -> Epochs]
      /\ given \in [Hosts -> [Epochs -> SUBSET Places]]
  BY DEF TypeOK, RecordTypeOK
<1>2. /\ rebuilds' = rebuilds /\ p \in Left(h)
      /\ given' = [given EXCEPT ![h] = [given[h] EXCEPT ![rebuilds[h]] = @ \cup {p}]]
  BY DEF Serve
<1>3. QED
  BY <1>1, <1>2 DEF Served, Left

(* A step of one host brings that host nearer to its end and moves no other.*)
LEMMA StepIsNearer ==
  ASSUME IInv, NEW h \in Hosts, Read(h) \/ Failure(h)
  PROVE  OneNearer
<1>1. TypeOK
  BY DEF IInv
<1>2. phase[h] \notin Ended
  BY DEF Read, Failure, Collect, AppendChunk, Emit, Exhaust, Recover, Outage, Break, Reject, Stop,
         Collecting, Ended
<1>3. ASSUME NEW g \in Hosts \ {h}
      PROVE  phase'[g] = phase[g] /\ tokenized'[g] = tokenized[g] /\ buffer'[g] = buffer[g]
  BY <1>1 DEF TypeOK, Read, Failure, Collect, AppendChunk, Emit, Exhaust, Recover, Outage, Break,
              Reject, Stop, batchVars
<1>4. CASE Collect(h)
  <2>1. PICK p \in Places : Serve(h, p)
    BY <1>4 DEF Collect
  <2>2. QED
    BY <1>1, <1>2, <1>3, <2>1, ServeIsNearer DEF OneNearer, Nearer, Place
<1>5. CASE AppendChunk(h)
  <2>1. UNCHANGED recordVars /\ tokenized' = [tokenized EXCEPT ![h] = @ + 1]
    BY <1>5 DEF AppendChunk
  <2>2. tokenized'[h] > tokenized[h]
    BY <1>1, <2>1 DEF TypeOK
  <2>3. rebuilds' = rebuilds /\ \A g \in Hosts : Served(g)' = Served(g)
    BY <2>1 DEF recordVars, Served
  <2>4. QED
    BY <1>2, <1>3, <2>2, <2>3 DEF OneNearer, Nearer, Place
<1>6. CASE Emit(h)
  <2>1. /\ UNCHANGED recordVars /\ tokenized' = tokenized /\ Len(buffer[h]) >= Required
        /\ buffer' = [buffer EXCEPT ![h] = SubSeq(@, Required + 1, Len(@))]
    BY <1>6 DEF Emit
  <2>2. Required \in Nat \ {0} /\ buffer[h] \in Seq(Tokens) /\ Len(buffer[h]) \in Nat
    BY <1>1, TokenStreamAssumption, LenProperties DEF TypeOK
  <2>3. Len(buffer'[h]) = Len(buffer[h]) - Required
    <3>1. buffer'[h] = SubSeq(buffer[h], Required + 1, Len(buffer[h]))
      BY <1>1, <2>1 DEF TypeOK
    <3>2. \A i \in Required + 1 .. Len(buffer[h]) : buffer[h][i] \in Tokens
      BY <2>2, ElementOfSeq
    <3>3. QED
      BY <2>1, <2>2, <3>1, <3>2, SubSeqProperties
  <2>4. rebuilds' = rebuilds /\ \A g \in Hosts : Served(g)' = Served(g)
    BY <2>1 DEF recordVars, Served
  <2>5. QED
    BY <1>2, <1>3, <2>1, <2>2, <2>3, <2>4 DEF OneNearer, Nearer, Place
<1>7. CASE Recover(h)
  <2>1. rebuilds' = [rebuilds EXCEPT ![h] = @ + 1] /\ given' = given
    BY <1>7 DEF Recover, Rebuild
  <2>2. rebuilds'[h] > rebuilds[h] /\ \A g \in Hosts \ {h} : rebuilds'[g] = rebuilds[g]
    BY <1>1, <2>1 DEF TypeOK, RecordTypeOK, Epochs
  <2>3. QED
    BY <1>2, <1>3, <2>1, <2>2 DEF OneNearer, Nearer, Place, Served
<1>8. CASE Exhaust(h) \/ Outage(h) \/ Break(h) \/ Reject(h)
  <2>1. phase'[h] \in Ended /\ rebuilds' = rebuilds /\ given' = given
    BY <1>1, <1>8 DEF TypeOK, Exhaust, Outage, Break, Reject, Stop, Exhausted, GiveUp, Broken,
                      recordVars, Ended
  <2>2. QED
    BY <1>2, <1>3, <2>1 DEF OneNearer, Nearer, Place, Served
<1>9. QED
  BY <1>4, <1>5, <1>6, <1>7, <1>8 DEF Read, Failure

(* No host waits with a window to cut, a text to append or a record to     *)
(* collect, and no step of the loops of _fill and of the recovery leaves a *)
(* host where it was (data.py:262-311, 595-633): each serves a place, uses *)
(* up a text, shortens the buffer, costs an epoch or is the last.          *)
THEOREM HostsEnd == Spec => [](NobodySpins /\ ReadingBounded) /\ [][OneNearer]_vars
<1>1. IInv => NobodySpins
  BY AlwaysReads DEF IInv
<1>2. IInv => ReadingBounded
  BY RecordStreamAssumption DEF IInv, TypeOK, RecordTypeOK, Epochs, ReadingBounded, Served
<1>3. IInv /\ [Next]_vars => [OneNearer]_vars
  BY StepIsNearer DEF Next
<1>4. QED
  BY <1>1, <1>2, <1>3, Always, PTL DEF Spec
================================================================================
