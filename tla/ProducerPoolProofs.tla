--------------------------- MODULE ProducerPoolProofs --------------------------
(***************************************************************************)
(* Theorems about the pool of producer processes, for any number of        *)
(* producers, any size of the queue and of the pipe, and any kills.        *)
(***************************************************************************)
EXTENDS ProducerPool, SequenceTheorems, FiniteSetTheorems, TLAPS

(* A producer's payloads are put, written and returned in this order.      *)
Progress ==
  \A w \in Workers :
    /\ latest[w] <= sent[w]
    /\ sent[w] <= built[w]
    /\ writer = w => sent[w] < built[w]

(* A payload that reports an error was the last one put.                   *)
Reports ==
  /\ partial => writer # Nobody
  /\ \A w \in Workers : reported[w] => stage[w] \in {"closing", "gone"}
  /\ blamed # Nobody =>
       consumer = "raised" /\ reported[blamed] /\ latest[blamed] + 1 = built[blamed]

(* The pipe holds what is written and not returned, each shard in order.   *)
PipeEntries ==
  \A i \in 1 .. Len(pipe) :
    latest[pipe[i][1]] < pipe[i][2] /\ pipe[i][2] <= sent[pipe[i][1]]

PipeOrder ==
  \A i, j \in 1 .. Len(pipe) :
    i < j /\ pipe[i][1] = pipe[j][1] => pipe[i][2] < pipe[j][2]

PipeComplete ==
  consumer # "raised" =>
    \A w \in Workers : \A n \in Nat :
      latest[w] < n /\ n <= sent[w] => \E i \in 1 .. Len(pipe) : pipe[i] = <<w, n>>

IInv ==
  /\ TypeOK
  /\ Progress
  /\ Reports
  /\ PipeEntries
  /\ PipeOrder
  /\ PipeComplete
  /\ IsFiniteSet(Outstanding)
  /\ SlotsAccounted

(* What it is to be outstanding. *)
LEMMA OutstandingIs ==
  ASSUME TypeOK
  PROVE  Outstanding =
           {x \in Workers \X Nat : /\ 0 < x[2] /\ x[2] <= built[x[1]]
                                   /\ latest[x[1]] < x[2]
                                   /\ ~(blamed = x[1] /\ x[2] = built[x[1]])}
  BY DEF TypeOK, Outstanding

(* The first states satisfy the strengthening. *)
LEMMA InitInv == Init => IInv
<1> SUFFICES ASSUME Init PROVE IInv
  OBVIOUS
<1> USE ProducerPoolAssumption
<1>1. TypeOK
  <2>1. /\ stage \in [Workers -> Stages] /\ built \in [Workers -> Nat]
        /\ sent \in [Workers -> Nat] /\ reported \in [Workers -> BOOLEAN]
        /\ latest \in [Workers -> Nat]
    BY DEF Init, Stages
  <2>2. /\ slots \in 0 .. Capacity /\ asks \in 0 .. Asks /\ kills \in 0 .. MaxKills
    BY DEF Init
  <2>3. /\ writer \in Somebody /\ partial \in BOOLEAN /\ blamed \in Somebody
        /\ consumer \in {"busy", "raised"} \cup InNext
    BY DEF Init, Somebody
  <2>4. pipe \in Seq(Workers \X Nat)
    BY DEF Init
  <2>5. QED
    BY <2>1, <2>2, <2>3, <2>4 DEF TypeOK
<1>2. Progress /\ Reports /\ PipeEntries /\ PipeOrder /\ PipeComplete
  BY DEF Init, Progress, Reports, PipeEntries, PipeOrder, PipeComplete
<1>3. Outstanding = {}
  BY <1>1, OutstandingIs DEF Init
<1>4. IsFiniteSet(Outstanding) /\ SlotsAccounted
  BY <1>3, FS_EmptySet DEF Init, SlotsAccounted
<1>5. QED
  BY <1>1, <1>2, <1>4 DEF IInv

--------------------------------------------------------------------------------
(* The pipe and its head *)

(* Every payload in the pipe is a later one of its producer than the last  *)
(* returned, and has been written.                                         *)
LEMMA PipeBounds ==
  ASSUME IInv, NEW i \in 1 .. Len(pipe)
  PROVE  /\ pipe[i][1] \in Workers /\ pipe[i][2] \in Nat
         /\ latest[pipe[i][1]] < pipe[i][2] /\ pipe[i][2] <= sent[pipe[i][1]]
<1>1. pipe[i] \in Workers \X Nat
  <2>1. pipe \in Seq(Workers \X Nat)
    BY DEF IInv, TypeOK
  <2>2. QED
    BY <2>1, ElementOfSeq
<1>2. latest[pipe[i][1]] < pipe[i][2] /\ pipe[i][2] <= sent[pipe[i][1]]
  BY DEF IInv, PipeEntries
<1>3. QED
  BY <1>1, <1>2

(* While next() can still return, the first payload in the pipe follows    *)
(* the last one returned of the same producer.                             *)
LEMMA HeadIsNext ==
  ASSUME IInv, pipe # <<>>, consumer # "raised"
  PROVE  /\ Head(pipe)[1] \in Workers
         /\ Head(pipe)[2] = latest[Head(pipe)[1]] + 1
         /\ Head(pipe)[2] <= sent[Head(pipe)[1]]
         /\ Head(pipe) = pipe[1] /\ Head(pipe) = <<Head(pipe)[1], Head(pipe)[2]>>
<1> DEFINE w == pipe[1][1]
           n == pipe[1][2]
<1>1. pipe \in Seq(Workers \X Nat) /\ Len(pipe) \in Nat /\ Len(pipe) > 0
  BY EmptySeq, LenProperties DEF IInv, TypeOK
<1>2. 1 \in 1 .. Len(pipe) /\ pipe[1] \in Workers \X Nat /\ Head(pipe) = pipe[1]
  BY <1>1, HeadTailProperties, ElementOfSeq
<1>3. w \in Workers /\ n \in Nat /\ pipe[1] = <<w, n>> /\ latest[w] \in Nat /\ sent[w] \in Nat
  <2>1. w \in Workers /\ n \in Nat /\ pipe[1] = <<w, n>>
    BY <1>2
  <2>2. latest \in [Workers -> Nat] /\ sent \in [Workers -> Nat]
    BY DEF IInv, TypeOK
  <2>3. QED
    BY <2>1, <2>2
<1>4. latest[w] < n /\ n <= sent[w]
  BY <1>2 DEF IInv, PipeEntries
<1> HIDE DEF w, n
<1>5. PICK i \in 1 .. Len(pipe) : pipe[i] = <<w, latest[w] + 1>>
  <2>1. latest[w] + 1 \in Nat /\ latest[w] < latest[w] + 1 /\ latest[w] + 1 <= sent[w]
    BY <1>3, <1>4 DEF w, n
  <2>2. QED
    BY <1>3, <2>1 DEF IInv, PipeComplete
<1>6. ~(1 < i)
  <2> SUFFICES ASSUME 1 < i PROVE FALSE
    OBVIOUS
  <2>1. n < latest[w] + 1
    BY <1>2, <1>3, <1>5 DEF IInv, PipeOrder
  <2>2. QED
    BY <1>3, <1>4, <2>1
<1>7. n = latest[w] + 1
  BY <1>1, <1>3, <1>5, <1>6
<1>8. QED
  BY <1>2, <1>3, <1>4, <1>7 DEF w, n

(* ... and it owns a slot. *)
LEMMA HeadIsOutstanding ==
  ASSUME IInv, pipe # <<>>, consumer # "raised"
  PROVE  Head(pipe) \in Outstanding
<1>1. blamed = Nobody
  BY DEF IInv, Reports
<1> DEFINE w == Head(pipe)[1]
           n == Head(pipe)[2]
<1>2. /\ w \in Workers /\ n = latest[w] + 1 /\ n <= sent[w]
      /\ Head(pipe) = <<w, n>>
  BY HeadIsNext
<1>3. latest[w] \in Nat /\ sent[w] \in Nat /\ built[w] \in Nat /\ sent[w] <= built[w]
  BY <1>2 DEF IInv, TypeOK, Progress
<1>4. blamed # w
  BY <1>1, <1>2, ProducerPoolAssumption
<1> HIDE DEF w, n
<1>5. <<w, n>> \in Outstanding
  BY <1>2, <1>3, <1>4, OutstandingIs DEF IInv
<1>6. QED
  BY <1>2, <1>5

--------------------------------------------------------------------------------
(* Slots *)

(* A put takes one slot for one payload. *)
LEMMA TakeSlotCounts ==
  ASSUME IInv, NEW w \in Workers, TakeSlot(w), ~reported[w],
         latest' = latest, blamed' = blamed, TypeOK'
  PROVE  IsFiniteSet(Outstanding)' /\ SlotsAccounted'
<1> DEFINE x == <<w, built[w] + 1>>
<1>1. built[w] \in Nat /\ slots \in Nat /\ latest[w] \in Nat /\ latest[w] <= built[w]
  BY ProducerPoolAssumption DEF IInv, TypeOK, Progress
<1>2. built' = [built EXCEPT ![w] = @ + 1] /\ built \in [Workers -> Nat]
      /\ latest \in [Workers -> Nat] /\ slots' = slots - 1
  BY DEF TakeSlot, IInv, TypeOK
<1>3. blamed # w
  BY ProducerPoolAssumption DEF IInv, Reports
<1>4. Outstanding' = {y \in Workers \X Nat :
                        /\ 0 < y[2] /\ y[2] <= built'[y[1]] /\ latest[y[1]] < y[2]
                        /\ ~(blamed = y[1] /\ y[2] = built'[y[1]])}
  BY <1>2 DEF TypeOK, Outstanding
<1>5. Outstanding = {y \in Workers \X Nat :
                       /\ 0 < y[2] /\ y[2] <= built[y[1]] /\ latest[y[1]] < y[2]
                       /\ ~(blamed = y[1] /\ y[2] = built[y[1]])}
  BY OutstandingIs DEF IInv
<1>6. \A y \in Workers \X Nat : y \in Outstanding' <=> y \in Outstanding \cup {x}
  <2> SUFFICES ASSUME NEW v \in Workers, NEW n \in Nat
               PROVE  <<v, n>> \in Outstanding' <=> <<v, n>> \in Outstanding \cup {x}
    OBVIOUS
  <2>1. CASE v = w
    BY <1>1, <1>2, <1>3, <1>4, <1>5, <2>1
  <2>2. CASE v # w
    BY <1>2, <1>4, <1>5, <2>2
  <2>3. QED
    BY <2>1, <2>2
<1>7. x \in Workers \X Nat /\ Outstanding' \subseteq Workers \X Nat
      /\ Outstanding \subseteq Workers \X Nat /\ x \notin Outstanding
  BY <1>1, <1>4, <1>5
<1>8. Outstanding' = Outstanding \cup {x}
  BY <1>6, <1>7
<1> HIDE DEF x
<1>9. IsFiniteSet(Outstanding \cup {x})
      /\ Cardinality(Outstanding \cup {x}) = Cardinality(Outstanding) + 1
  BY <1>7, FS_AddElement DEF IInv
<1>10. Cardinality(Outstanding) \in Nat /\ slots + Cardinality(Outstanding) = Capacity
  BY FS_CardinalityType DEF IInv, SlotsAccounted
<1>11. slots' + Cardinality(Outstanding') = Capacity
  BY <1>1, <1>2, <1>8, <1>9, <1>10, ProducerPoolAssumption
<1>12. QED
  BY <1>8, <1>9, <1>11 DEF SlotsAccounted

(* Whatever else keeps the counts keeps the slots. *)
LEMMA SlotsKept ==
  ASSUME IInv, built' = built, latest' = latest, blamed' = blamed, slots' = slots
  PROVE  IsFiniteSet(Outstanding)' /\ SlotsAccounted'
<1>1. Outstanding' = Outstanding
  BY DEF Outstanding
<1>2. QED
  BY <1>1 DEF IInv, SlotsAccounted

(* A payload that was read frees its slot. *)
LEMMA ReceiveCounts ==
  ASSUME IInv, Receive
  PROVE  /\ IsFiniteSet(Outstanding)' /\ SlotsAccounted'
         /\ slots' \in 0 .. Capacity
<1> DEFINE x == Head(pipe)
           w == Head(pipe)[1]
           n == Head(pipe)[2]
<1>1. /\ w \in Workers /\ n = latest[w] + 1 /\ n <= sent[w] /\ x = <<w, n>>
      /\ x \in Outstanding
  BY HeadIsNext, HeadIsOutstanding DEF Receive
<1>2. blamed = Nobody /\ Nobody \notin Workers
  BY ProducerPoolAssumption DEF Receive, IInv, Reports
<1>3. /\ built' = built /\ slots' = slots + 1
      /\ \/ IsReport(w, n) /\ blamed' = w /\ latest' = latest
         \/ ~IsReport(w, n) /\ blamed' = blamed /\ latest' = [latest EXCEPT ![w] = n]
  BY DEF Receive, producers
<1> HIDE DEF x, w, n
<1>4. /\ latest \in [Workers -> Nat] /\ built \in [Workers -> Nat] /\ slots \in Nat
      /\ sent[w] <= built[w] /\ sent[w] \in Nat /\ built[w] \in Nat /\ n \in Nat
  BY <1>1, ProducerPoolAssumption DEF IInv, TypeOK, Progress
<1>5. Outstanding = {y \in Workers \X Nat :
                       /\ 0 < y[2] /\ y[2] <= built[y[1]] /\ latest[y[1]] < y[2]
                       /\ ~(blamed = y[1] /\ y[2] = built[y[1]])}
  BY OutstandingIs DEF IInv
<1>6. Outstanding' = {y \in Workers \X Nat :
                       /\ 0 < y[2] /\ y[2] <= built[y[1]] /\ latest'[y[1]] < y[2]
                       /\ ~(blamed' = y[1] /\ y[2] = built[y[1]])}
  <2>1. latest' \in [Workers -> Nat]
    BY <1>1, <1>3, <1>4
  <2>2. Outstanding' = {y \in UNION {{v} \X (1 .. built[v]) : v \in Workers} :
                          latest'[y[1]] < y[2] /\ ~(blamed' = y[1] /\ y[2] = built[y[1]])}
    BY <1>3 DEF Outstanding
  <2>3. QED
    BY <1>4, <2>1, <2>2
<1>7. \A y \in Workers \X Nat : y \in Outstanding' <=> y \in Outstanding \ {x}
  <2> SUFFICES ASSUME NEW v \in Workers, NEW k \in Nat
               PROVE  <<v, k>> \in Outstanding' <=> <<v, k>> \in Outstanding \ {x}
    OBVIOUS
  <2>1. CASE v # w
    BY <1>1, <1>2, <1>3, <1>4, <1>5, <1>6, <2>1
  <2>2. CASE v = w /\ IsReport(w, n)
    <3>1. n = built[w] /\ blamed' = w /\ latest' = latest
      BY <1>3, <2>2 DEF IsReport
    <3>2. QED
      BY <1>1, <1>2, <1>4, <1>5, <1>6, <2>2, <3>1
  <2>3. CASE v = w /\ ~IsReport(w, n)
    <3>1. blamed' = Nobody /\ latest'[w] = n
      BY <1>1, <1>2, <1>3, <1>4, <2>3
    <3>2. QED
      BY <1>1, <1>2, <1>4, <1>5, <1>6, <2>3, <3>1
  <2>4. QED
    BY <2>1, <2>2, <2>3
<1>8. Outstanding' = Outstanding \ {x}
  BY <1>5, <1>6, <1>7
<1>9. IsFiniteSet(Outstanding \ {x})
      /\ Cardinality(Outstanding \ {x}) = Cardinality(Outstanding) - 1
  BY <1>1, FS_RemoveElement DEF IInv
<1>10. /\ Cardinality(Outstanding) \in Nat /\ slots + Cardinality(Outstanding) = Capacity
       /\ Cardinality(Outstanding \ {x}) \in Nat
  BY <1>9, FS_CardinalityType DEF IInv, SlotsAccounted
<1>11. slots' + Cardinality(Outstanding') = Capacity /\ slots' \in 0 .. Capacity
  BY <1>3, <1>4, <1>8, <1>9, <1>10, ProducerPoolAssumption
<1>12. QED
  BY <1>8, <1>9, <1>11 DEF SlotsAccounted

--------------------------------------------------------------------------------
(* Types *)

(* Every step keeps the types. *)
LEMMA TypeStep == IInv /\ [Next]_vars => TypeOK'
<1> SUFFICES ASSUME IInv, [Next]_vars PROVE TypeOK'
  OBVIOUS
<1> USE ProducerPoolAssumption DEF TypeOK, Stages, InNext, Somebody, producers, queue, trainer
<1>0. TypeOK
  BY DEF IInv
<1>1. ASSUME NEW w \in Workers, Produce(w) PROVE TypeOK'
  <2>1. CASE Finish(w)
    BY <1>0, <2>1 DEF Finish
  <2>2. CASE PutBatch(w)
    BY <1>0, <2>2 DEF PutBatch, TakeSlot
  <2>3. CASE PutReport(w)
    BY <1>0, <2>3 DEF PutReport, TakeSlot
  <2>4. CASE Exit(w)
    BY <1>0, <2>4 DEF Exit
  <2>5. QED
    BY <1>1, <2>1, <2>2, <2>3, <2>4 DEF Produce
<1>2. ASSUME NEW w \in Workers, Feed(w) PROVE TypeOK'
  <2>1. CASE Lock(w)
    BY <1>0, <2>1 DEF Lock
  <2>2. CASE BeginWrite(w)
    BY <1>0, <2>2 DEF BeginWrite
  <2>3. CASE EndWrite(w)
    <3>1. pipe' = Append(pipe, <<w, sent[w] + 1>>)
      BY <2>3 DEF EndWrite
    <3>2. <<w, sent[w] + 1>> \in Workers \X Nat
      BY <1>0
    <3>3. pipe' \in Seq(Workers \X Nat)
      BY <1>0, <3>1, <3>2, AppendProperties
    <3>4. sent' = [sent EXCEPT ![w] = sent[w] + 1] /\ sent' \in [Workers -> Nat]
      <4> HIDE DEF TypeOK, Stages, InNext, Somebody
      <4>1. sent' = [sent EXCEPT ![w] = sent[w] + 1]
        BY <2>3 DEF EndWrite
      <4>2. sent \in [Workers -> Nat]
        BY <1>0 DEF TypeOK
      <4>3. QED
        BY <4>1, <4>2
    <3>5. /\ writer' = Nobody /\ partial' = FALSE
          /\ UNCHANGED <<stage, built, reported, slots, trainer, kills>>
      BY <2>3 DEF EndWrite
    <3>6. QED
      BY <1>0, <3>3, <3>4, <3>5
  <2>4. QED
    BY <1>2, <2>1, <2>2, <2>3 DEF Feed
<1>3. ASSUME NEW w \in Workers, Fail(w) PROVE TypeOK'
  BY <1>0, <1>3 DEF Fail
<1>4. ASSUME NEW w \in Workers, Kill(w) PROVE TypeOK'
  BY <1>0, <1>4 DEF Kill
<1>5. CASE Ask
  BY <1>0, <1>5 DEF Ask
<1>6. CASE Poll \/ TimeOut \/ Check
  BY <1>0, <1>6 DEF Poll, TimeOut, Check
<1>7. CASE Receive
  <2>1. slots' \in 0 .. Capacity
    BY <1>7, ReceiveCounts
  <2>2. pipe' \in Seq(Workers \X Nat)
    <3>1. pipe \in Seq(Workers \X Nat) /\ pipe # <<>> /\ pipe' = Tail(pipe)
      BY <1>0, <1>7 DEF Receive
    <3>2. QED
      BY <3>1, HeadTailProperties
  <2>3. /\ Head(pipe)[1] \in Workers
        /\ Head(pipe)[2] \in Nat
    <3>1. Head(pipe)[1] \in Workers /\ Head(pipe)[2] = latest[Head(pipe)[1]] + 1
      BY <1>7, HeadIsNext DEF Receive
    <3>2. QED
      BY <1>0, <3>1
  <2>4. /\ consumer' \in {"busy", "raised"} \cup InNext /\ blamed' \in Somebody
        /\ latest' \in [Workers -> Nat]
    BY <1>0, <1>7, <2>3 DEF Receive
  <2>5. QED
    BY <1>0, <1>7, <2>1, <2>2, <2>4 DEF Receive
<1>8. CASE UNCHANGED vars
  BY <1>0, <1>8 DEF vars
<1>9. QED
  BY <1>1, <1>2, <1>3, <1>4, <1>5, <1>6, <1>7, <1>8 DEF Next, Consume

(* Every step keeps the account of the slots. *)
LEMMA SlotsStep == IInv /\ [Next]_vars => IsFiniteSet(Outstanding)' /\ SlotsAccounted'
<1> SUFFICES ASSUME IInv, [Next]_vars PROVE IsFiniteSet(Outstanding)' /\ SlotsAccounted'
  OBVIOUS
<1>1. CASE Receive
  BY <1>1, ReceiveCounts
<1>2. ASSUME NEW w \in Workers, PutBatch(w) \/ PutReport(w)
      PROVE  IsFiniteSet(Outstanding)' /\ SlotsAccounted'
  <2>1. TypeOK'
    BY TypeStep
  <2>2. TakeSlot(w) /\ latest' = latest /\ blamed' = blamed
    BY <1>2 DEF PutBatch, PutReport, trainer
  <2>3. ~reported[w]
    BY <1>2 DEF PutBatch, PutReport, IInv, Reports
  <2>4. QED
    BY <2>1, <2>2, <2>3, TakeSlotCounts
<1>3. CASE /\ ~Receive
           /\ \A w \in Workers : ~(PutBatch(w) \/ PutReport(w))
  <2>1. built' = built /\ latest' = latest /\ blamed' = blamed /\ slots' = slots
    BY <1>3 DEF Next, Produce, Feed, Consume, Finish, Exit, Lock, BeginWrite, EndWrite,
       Fail, Kill, Ask, Poll, TimeOut, Check, vars, producers, queue, trainer
  <2>2. QED
    BY <2>1, SlotsKept
<1>4. QED
  BY <1>1, <1>2, <1>3

--------------------------------------------------------------------------------
(* Order *)

(* What an EndWrite does, in terms of the strengthening. *)
LEMMA EndWriteOrder ==
  ASSUME IInv, NEW w \in Workers, EndWrite(w)
  PROVE  (Progress /\ Reports /\ PipeEntries /\ PipeOrder /\ PipeComplete)'
<1> DEFINE n == sent[w] + 1
           q == Append(pipe, <<w, n>>)
<1>1. /\ pipe' = q /\ sent' = [sent EXCEPT ![w] = n] /\ writer = w
      /\ writer' = Nobody /\ partial' = FALSE
      /\ stage' = stage /\ built' = built /\ reported' = reported /\ latest' = latest
      /\ blamed' = blamed /\ consumer' = consumer
  BY DEF EndWrite, trainer
<1>2. /\ pipe \in Seq(Workers \X Nat) /\ Len(pipe) \in Nat
      /\ sent \in [Workers -> Nat] /\ built \in [Workers -> Nat] /\ latest \in [Workers -> Nat]
  BY LenProperties DEF IInv, TypeOK
<1>3. sent[w] < built[w] /\ \A v \in Workers : latest[v] <= sent[v] /\ sent[v] <= built[v]
  BY <1>1 DEF IInv, Progress
<1>4. Progress'
  BY <1>1, <1>2, <1>3, ProducerPoolAssumption DEF Progress
<1>5. Reports'
  BY <1>1 DEF Reports, IInv
<1>6. n \in Nat /\ sent'[w] = n /\ \A v \in Workers : v # w => sent'[v] = sent[v]
  BY <1>1, <1>2
<1>7. /\ Len(q) = Len(pipe) + 1 /\ q[Len(pipe) + 1] = <<w, n>>
      /\ \A i \in 1 .. Len(pipe) : q[i] = pipe[i]
  BY <1>2, <1>6, AppendProperties
<1> HIDE DEF n, q
<1>8. /\ Len(pipe) \in Nat /\ Len(q) = Len(pipe) + 1
      /\ \A i \in 1 .. Len(q) : i \in 1 .. Len(pipe) \/ i = Len(pipe) + 1
      /\ \A i \in 1 .. Len(pipe) : i \in 1 .. Len(q)
      /\ Len(pipe) + 1 \in 1 .. Len(q)
  <2>1. Len(pipe) \in Nat /\ Len(q) = Len(pipe) + 1
    BY <1>2, <1>7
  <2>2. QED
    BY <2>1
<1>9. \A i \in 1 .. Len(pipe) :
        /\ pipe[i][1] \in Workers /\ pipe[i][2] \in Nat
        /\ latest[pipe[i][1]] < pipe[i][2] /\ pipe[i][2] <= sent[pipe[i][1]]
  BY PipeBounds
<1>10. sent[w] \in Nat /\ n = sent[w] + 1 /\ latest[w] \in Nat
  BY <1>2 DEF n
<1>11. PipeEntries'
  <2> SUFFICES ASSUME NEW i \in 1 .. Len(q)
               PROVE  latest[q[i][1]] < q[i][2] /\ q[i][2] <= sent'[q[i][1]]
    BY <1>1 DEF PipeEntries
  <2>1. CASE i \in 1 .. Len(pipe)
    <3>1. /\ q[i] = pipe[i] /\ pipe[i][1] \in Workers /\ pipe[i][2] \in Nat
          /\ latest[pipe[i][1]] < pipe[i][2] /\ pipe[i][2] <= sent[pipe[i][1]]
      BY <1>7, <1>9, <2>1
    <3>2. CASE pipe[i][1] = w
      BY <1>6, <1>10, <3>1, <3>2
    <3>3. CASE pipe[i][1] # w
      BY <1>6, <3>1, <3>3
    <3>4. QED
      BY <3>2, <3>3
  <2>2. CASE i = Len(pipe) + 1
    BY <1>3, <1>6, <1>7, <1>10, <2>2
  <2>3. QED
    BY <1>8, <2>1, <2>2
<1>12. PipeOrder'
  <2> SUFFICES ASSUME NEW i \in 1 .. Len(q), NEW j \in 1 .. Len(q), i < j, q[i][1] = q[j][1]
               PROVE  q[i][2] < q[j][2]
    BY <1>1 DEF PipeOrder
  <2>1. i \in 1 .. Len(pipe)
    BY <1>2, <1>7
  <2>2. CASE j \in 1 .. Len(pipe)
    BY <1>7, <2>1, <2>2 DEF IInv, PipeOrder
  <2>3. CASE j = Len(pipe) + 1
    <3>1. pipe[i][1] = w /\ pipe[i][2] <= sent[w] /\ pipe[i][2] \in Nat
      BY <1>7, <1>9, <2>1, <2>3
    <3>2. QED
      BY <1>7, <1>10, <2>1, <2>3, <3>1
  <2>4. QED
    BY <1>8, <2>2, <2>3
<1>13. PipeComplete'
  <2> SUFFICES ASSUME consumer # "raised", NEW v \in Workers, NEW k \in Nat,
                      latest[v] < k, k <= sent'[v]
               PROVE  \E i \in 1 .. Len(q) : q[i] = <<v, k>>
    BY <1>1 DEF PipeComplete
  <2>1. CASE v = w /\ k = n
    BY <1>7, <1>8, <2>1
  <2>2. CASE ~(v = w /\ k = n)
    <3>1. k <= sent[v]
      BY <1>6, <1>10, <2>2
    <3>2. PICK i \in 1 .. Len(pipe) : pipe[i] = <<v, k>>
      BY <3>1 DEF IInv, PipeComplete
    <3>3. QED
      BY <1>7, <1>8, <3>2
  <2>3. QED
    BY <2>1, <2>2
<1>14. QED
  BY <1>4, <1>5, <1>11, <1>12, <1>13

(* What a Receive does. *)
LEMMA ReceiveOrder ==
  ASSUME IInv, Receive
  PROVE  (Progress /\ Reports /\ PipeEntries /\ PipeOrder /\ PipeComplete)'
<1> DEFINE w == Head(pipe)[1]
           n == Head(pipe)[2]
<1>1. /\ w \in Workers /\ n = latest[w] + 1 /\ n <= sent[w]
      /\ pipe[1] = <<w, n>>
  BY HeadIsNext DEF Receive
<1>2. /\ pipe' = Tail(pipe) /\ pipe # <<>> /\ consumer = "receiving"
      /\ built' = built /\ sent' = sent /\ stage' = stage /\ reported' = reported
      /\ writer' = writer /\ partial' = partial
      /\ \/ /\ IsReport(w, n) /\ blamed' = w /\ latest' = latest /\ consumer' = "raised"
         \/ /\ ~IsReport(w, n) /\ blamed' = blamed /\ latest' = [latest EXCEPT ![w] = n]
            /\ consumer' = "busy"
  BY DEF Receive, producers
<1> HIDE DEF w, n
<1>3. /\ pipe \in Seq(Workers \X Nat) /\ Len(pipe) \in Nat
      /\ sent \in [Workers -> Nat] /\ built \in [Workers -> Nat] /\ latest \in [Workers -> Nat]
      /\ n \in Nat
  BY <1>1, LenProperties DEF IInv, TypeOK
<1>4. \A v \in Workers : /\ latest[v] <= sent[v] /\ sent[v] <= built[v]
                         /\ writer = v => sent[v] < built[v]
  BY DEF IInv, Progress
<1>5. blamed = Nobody
  BY <1>2 DEF IInv, Reports
<1>6. /\ latest' \in [Workers -> Nat]
      /\ \A v \in Workers : latest'[v] \in {latest[v], n}
      /\ \A v \in Workers : v # w => latest'[v] = latest[v]
      /\ latest'[w] <= n
  <2>1. latest[w] \in Nat /\ latest[w] <= n
    BY <1>1, <1>3
  <2>2. CASE latest' = latest
    BY <1>3, <2>1, <2>2
  <2>3. CASE latest' = [latest EXCEPT ![w] = n]
    BY <1>1, <1>3, <2>1, <2>3
  <2>4. QED
    BY <1>2, <2>2, <2>3
<1>7. Progress'
  BY <1>1, <1>2, <1>3, <1>4, <1>6 DEF Progress
<1>8. Reports'
  <2>1. IsReport(w, n) /\ blamed' = w => reported[w] /\ latest[w] + 1 = built[w]
    BY <1>1 DEF IsReport
  <2>2. QED
    BY <1>2, <1>5, <2>1 DEF Reports, IInv
<1> DEFINE q == Tail(pipe)
<1>9. /\ Len(q) \in Nat /\ Len(pipe) = Len(q) + 1
      /\ \A i \in 1 .. Len(q) : q[i] = pipe[i + 1] /\ i + 1 \in 1 .. Len(pipe)
  BY <1>2, <1>3, HeadTailProperties, EmptySeq
<1> HIDE DEF q
<1>10. \A i \in 1 .. Len(q) :
        /\ q[i][1] \in Workers /\ q[i][2] \in Nat
        /\ latest[q[i][1]] < q[i][2] /\ q[i][2] <= sent[q[i][1]]
  <2>1. \A j \in 1 .. Len(pipe) :
          /\ pipe[j][1] \in Workers /\ pipe[j][2] \in Nat
          /\ latest[pipe[j][1]] < pipe[j][2] /\ pipe[j][2] <= sent[pipe[j][1]]
    BY PipeBounds
  <2>2. QED
    BY <1>9, <2>1
<1>11. \A i \in 1 .. Len(q) : q[i][1] = w => n < q[i][2]
  <2> SUFFICES ASSUME NEW i \in 1 .. Len(q), q[i][1] = w PROVE n < q[i][2]
    OBVIOUS
  <2>1. 1 \in 1 .. Len(pipe) /\ i + 1 \in 1 .. Len(pipe) /\ 1 < i + 1
    BY <1>9
  <2>2. pipe[1][1] = pipe[i + 1][1]
    BY <1>1, <1>9
  <2>3. pipe[1][2] < pipe[i + 1][2]
    BY <2>1, <2>2 DEF IInv, PipeOrder
  <2>4. QED
    BY <1>1, <1>9, <2>3
<1>12. pipe' = q
  BY <1>2 DEF q
<1>13. PipeEntries'
  <2> SUFFICES ASSUME NEW i \in 1 .. Len(q)
               PROVE  latest'[q[i][1]] < q[i][2] /\ q[i][2] <= sent[q[i][1]]
    BY <1>2, <1>12 DEF PipeEntries
  <2>1. CASE q[i][1] = w
    BY <1>3, <1>6, <1>10, <1>11, <2>1
  <2>2. CASE q[i][1] # w
    BY <1>6, <1>10, <2>2
  <2>3. QED
    BY <2>1, <2>2
<1>14. PipeOrder'
  <2> SUFFICES ASSUME NEW i \in 1 .. Len(q), NEW j \in 1 .. Len(q), i < j, q[i][1] = q[j][1]
               PROVE  q[i][2] < q[j][2]
    BY <1>12 DEF PipeOrder
  <2>1. /\ i + 1 \in 1 .. Len(pipe) /\ j + 1 \in 1 .. Len(pipe) /\ i + 1 < j + 1
        /\ q[i] = pipe[i + 1] /\ q[j] = pipe[j + 1]
    BY <1>9
  <2>2. pipe[i + 1][2] < pipe[j + 1][2]
    BY <2>1 DEF IInv, PipeOrder
  <2>3. QED
    BY <2>1, <2>2
<1>15. PipeComplete'
  <2> SUFFICES ASSUME consumer' # "raised", NEW v \in Workers, NEW k \in Nat,
                      latest'[v] < k, k <= sent[v]
               PROVE  \E i \in 1 .. Len(q) : q[i] = <<v, k>>
    BY <1>2, <1>12 DEF PipeComplete
  <2>1. latest'[w] = n
    BY <1>1, <1>2, <1>3
  <2>2. latest[v] < k /\ ~(v = w /\ k = n)
    <3>1. CASE v = w
      BY <1>1, <1>3, <2>1, <3>1
    <3>2. CASE v # w
      BY <1>6, <3>2
    <3>3. QED
      BY <3>1, <3>2
  <2>3. PICK i \in 1 .. Len(pipe) : pipe[i] = <<v, k>>
    BY <1>2, <2>2 DEF IInv, PipeComplete
  <2>4. i # 1
    BY <1>1, <2>2, <2>3
  <2>5. i - 1 \in 1 .. Len(q) /\ q[i - 1] = pipe[(i - 1) + 1] /\ (i - 1) + 1 = i
    BY <1>9, <2>4
  <2>6. QED
    BY <2>3, <2>5
<1>16. QED
  BY <1>7, <1>8, <1>13, <1>14, <1>15

(* The order survives whatever leaves pipe, sent and latest alone. *)
LEMMA OrderKept ==
  ASSUME IInv, pipe' = pipe, sent' = sent, latest' = latest,
         consumer' = consumer \/ consumer # "raised"
  PROVE  (PipeEntries /\ PipeOrder /\ PipeComplete)'
  BY DEF IInv, PipeEntries, PipeOrder, PipeComplete

(* Every step keeps the order. *)
LEMMA OrderStep ==
  IInv /\ [Next]_vars => (Progress /\ Reports /\ PipeEntries /\ PipeOrder /\ PipeComplete)'
<1> SUFFICES ASSUME IInv, [Next]_vars
             PROVE  (Progress /\ Reports /\ PipeEntries /\ PipeOrder /\ PipeComplete)'
  OBVIOUS
<1>1. CASE Receive
  BY <1>1, ReceiveOrder
<1>2. ASSUME NEW w \in Workers, EndWrite(w)
      PROVE  (Progress /\ Reports /\ PipeEntries /\ PipeOrder /\ PipeComplete)'
  BY <1>2, EndWriteOrder
<1>3. CASE ~Receive /\ \A w \in Workers : ~EndWrite(w)
  <2>1. pipe' = pipe /\ sent' = sent /\ latest' = latest /\ blamed' = blamed
        /\ (consumer' = consumer \/ consumer # "raised")
    BY <1>3 DEF Next, Produce, Feed, Consume, Finish, PutBatch, PutReport, Exit, Lock,
       BeginWrite, Fail, Kill, Ask, Poll, TimeOut, Check, vars, producers, queue, trainer
  <2>2. (PipeEntries /\ PipeOrder /\ PipeComplete)'
    BY <2>1, OrderKept
  <2>3. /\ TypeOK /\ Progress /\ Reports
    BY DEF IInv
  <2>4. ASSUME NEW w \in Workers, PutBatch(w) \/ PutReport(w) PROVE Progress' /\ Reports'
    <3>1. /\ built' = [built EXCEPT ![w] = @ + 1] /\ writer' = writer /\ partial' = partial
          /\ consumer' = consumer /\ ~reported[w] /\ stage[w] \notin {"closing", "gone"}
      BY <2>3, <2>4 DEF PutBatch, PutReport, TakeSlot, trainer, Reports
    <3>2. Progress'
      BY <2>1, <2>3, <3>1 DEF Progress, TypeOK
    <3>3. /\ \A v \in Workers : v # w => reported'[v] = reported[v] /\ stage'[v] = stage[v]
          /\ reported'[w] => stage'[w] = "closing"
      BY <2>3, <2>4 DEF PutBatch, PutReport, Reports, TypeOK
    <3>4. blamed # Nobody => blamed # w /\ blamed \in Workers
      BY <2>3, <3>1 DEF Reports, TypeOK, Somebody
    <3>5. QED
      BY <2>1, <2>3, <3>1, <3>2, <3>3, <3>4 DEF Reports, TypeOK
  <2>5. CASE \A w \in Workers : ~(PutBatch(w) \/ PutReport(w))
    <3>1. built' = built /\ reported' = reported
      BY <1>3, <2>5 DEF Next, Produce, Feed, Consume, Finish, Exit, Lock,
         BeginWrite, Fail, Kill, Ask, Poll, TimeOut, Check, vars, producers, queue, trainer
    <3>2. \A v \in Workers : stage[v] \in {"closing", "gone"} => stage'[v] \in {"closing", "gone"}
      BY <1>3, <2>3, <2>5 DEF Next, Produce, Feed, Consume, Finish, Exit, Lock, TypeOK,
         BeginWrite, Fail, Kill, Ask, Poll, TimeOut, Check, vars, producers, queue, trainer
    <3>3. \/ writer' = writer /\ (partial' = partial \/ writer # Nobody)
          \/ \E v \in Workers : /\ writer = Nobody /\ writer' = v
                                /\ sent[v] < built[v] /\ partial' = partial
      BY <1>3, <2>5, ProducerPoolAssumption DEF Next, Produce, Feed, Consume, Finish, Exit, Lock,
         BeginWrite, Fail, Kill, Ask, Poll, TimeOut, Check, vars, producers, queue, trainer
    <3>4. Progress'
      BY <2>1, <2>3, <3>1, <3>3 DEF Progress
    <3>5. consumer = "raised" => consumer' = "raised"
      BY <2>1
    <3>6. Reports'
      <4>1. partial' => writer' # Nobody
        BY <2>3, <3>3, ProducerPoolAssumption DEF Reports
      <4>2. \A v \in Workers : reported'[v] => stage'[v] \in {"closing", "gone"}
        BY <2>3, <3>1, <3>2 DEF Reports
      <4>3. blamed' # Nobody => consumer' = "raised" /\ reported'[blamed']
                                 /\ latest'[blamed'] + 1 = built'[blamed']
        BY <2>1, <2>3, <3>1, <3>5 DEF Reports
      <4>4. QED
        BY <4>1, <4>2, <4>3 DEF Reports
    <3>7. QED
      BY <2>2, <3>4, <3>6
  <2>6. QED
    BY <2>2, <2>4, <2>5
<1>4. QED
  BY <1>1, <1>2, <1>3

(* The strengthening is inductive. *)
LEMMA Inductive == IInv /\ [Next]_vars => IInv'
  BY TypeStep, SlotsStep, OrderStep DEF IInv

(* The strengthening holds of every state of every behaviour. *)
LEMMA Always == Spec => []IInv
  BY InitInv, Inductive, PTL DEF Spec

--------------------------------------------------------------------------------
(* The types hold for any number of producers and sizes of the queue. *)
THEOREM TypeCorrect == Spec => []TypeOK
<1>1. IInv => TypeOK
  BY DEF IInv
<1>2. QED
  BY <1>1, Always, PTL

(* Whoever dies, slots and outstanding payloads make up the queue's size   *)
(* (vision_data.py:991).                                                   *)
THEOREM SlotsAreAccounted == Spec => []SlotsAccounted
<1>1. IInv => SlotsAccounted
  BY DEF IInv
<1>2. QED
  BY <1>1, Always, PTL

(* A producer's error is raised after all of its batches were returned     *)
(* (vision_data.py:958-960, 1031-1034).                                    *)
THEOREM ReportsComeLast == Spec => []ReportComesLast
<1>1. IInv => ReportComesLast
  BY DEF IInv, Reports, ReportComesLast
<1>2. QED
  BY <1>1, Always, PTL

(* The first states of the pool are first states of the merge. *)
LEMMA MergeInit == Init => Merge!Init
  BY DEF Init, Merge!Init, InNext

(* Every step of the pool is a step of the merge or none. *)
LEMMA MergeStep == IInv /\ [Next]_vars => [Merge!Next]_(Merge!vars)
<1> SUFFICES ASSUME IInv, [Next]_vars PROVE [Merge!Next]_(Merge!vars)
  OBVIOUS
<1> USE DEF InNext, Merge!vars, producers, queue, trainer
<1>0. TypeOK
  BY DEF IInv
<1>1. ASSUME NEW w \in Workers, Finish(w) \/ PutBatch(w) \/ PutReport(w) \/ Exit(w)
      PROVE  UNCHANGED Merge!vars
  BY <1>0, <1>1 DEF Finish, PutBatch, PutReport, Exit, TypeOK
<1>2. ASSUME NEW w \in Workers, Feed(w) PROVE UNCHANGED Merge!vars
  BY <1>2 DEF Feed, Lock, BeginWrite, EndWrite
<1>3. ASSUME NEW w \in Workers, Fail(w) \/ Kill(w) PROVE Merge!Fail(w)
  BY <1>0, <1>3 DEF Fail, Kill, Merge!Fail, TypeOK
<1>4. CASE Ask
  BY <1>4 DEF Ask, Merge!Ask, Merge!Next
<1>5. CASE Poll \/ TimeOut
  BY <1>5 DEF Poll, TimeOut
<1>6. CASE Check
  BY <1>6 DEF Check, Dead, Merge!Raise, Merge!Next
<1>7. CASE Receive
  <2> DEFINE w == Head(pipe)[1]
             n == Head(pipe)[2]
  <2>1. w \in Workers /\ n = latest[w] + 1
    BY <1>7, HeadIsNext DEF Receive
  <2>2. /\ stage' = stage /\ consumer = "receiving"
        /\ \/ /\ IsReport(w, n) /\ latest' = latest /\ consumer' = "raised"
           \/ /\ latest' = [latest EXCEPT ![w] = n] /\ consumer' = "busy"
    BY <1>7 DEF Receive
  <2> HIDE DEF w, n
  <2>3. IsReport(w, n) => stage[w] \in {"closing", "gone"}
    BY <2>1 DEF IsReport, IInv, Reports
  <2>4. QED
    BY <2>1, <2>2, <2>3 DEF Merge!Raise, Merge!Deliver, Merge!Next
<1>8. CASE UNCHANGED vars
  BY <1>8 DEF vars
<1>9. QED
  BY <1>1, <1>2, <1>3, <1>4, <1>5, <1>6, <1>7, <1>8 DEF Next, Consume, Produce, Merge!Next

(* The trainer sees every shard in order and without a gap, and an error   *)
(* only for a producer that failed or died (vision_data.py:963-971,        *)
(* 1015-1036).                                                             *)
THEOREM PoolImplementsMerge == Spec => MergeSpec
  BY MergeInit, MergeStep, Always, PTL DEF Spec, MergeSpec, Merge!Spec

--------------------------------------------------------------------------------
(* What NextReturns stands on, besides fairness: a call that is waiting    *)
(* always has a thread that can bring its answer nearer.                   *)

(* get() can see bytes. *)
Bytes == pipe # <<>> \/ partial

(* The trainer is receiving only what it has seen coming. *)
SeesBytes == consumer = "receiving" => Bytes

(* The guards of Produce(w), Feed(w) and Consume. *)
CanProduce(w) ==
  \/ stage[w] = "build"
  \/ stage[w] \in {"put", "report"} /\ slots > 0
  \/ stage[w] = "closing" /\ sent[w] = built[w]

CanFeed(w) ==
  /\ stage[w] # "gone"
  /\ \/ writer = Nobody /\ sent[w] < built[w]
     \/ writer = w /\ ~partial
     \/ writer = w /\ partial /\ (Len(pipe) < Room \/ (consumer = "receiving" /\ pipe = <<>>))

CanConsume == consumer \in {"waiting", "checking"} \/ (consumer = "receiving" /\ pipe # <<>>)

(* The next answer is on its way, or the death is there to be noticed.     *)
Due == Bytes \/ Dead # {}

(* The trainer's own steps to an answer that is due. *)
Distance ==
  CASE consumer \notin InNext  -> 0
    [] consumer = "receiving"  -> 1
    [] consumer = "waiting"    -> IF Bytes THEN 2 ELSE 3
    [] OTHER                   -> IF Bytes THEN 3 ELSE 2

AnswerComes ==
  consumer \in InNext /\ ~Torn =>
    IF Due THEN CanConsume \/ \E w \in Workers : CanFeed(w)
           ELSE \E w \in Workers : CanProduce(w) \/ CanFeed(w)

(* What a producer and its feeder have done. *)
StageRank(w) ==
  CASE stage[w] = "build"   -> 0
    [] stage[w] = "closing" -> 2
    [] stage[w] = "gone"    -> 3
    [] OTHER                -> 1

Writing(w) == IF writer # w THEN 0 ELSE IF partial THEN 2 ELSE 1

Work(w) == 3 * built[w] + 3 * sent[w] + StageRank(w) + Writing(w)

WorkBounded == \A w \in Workers : Work(w) <= 6 * (latest[w] + Capacity + 1) + 5

OneWorks ==
  /\ consumer' = consumer
  /\ \E w \in Workers : Work(w)' > Work(w) /\ \A v \in Workers \ {w} : Work(v)' = Work(v)

TrainerNearer ==
  /\ \A w \in Workers : Work(w)' = Work(w)
  /\ Due => Distance' < Distance

CallIsNearer ==
  consumer \in InNext =>
    \/ consumer' \notin InNext
    \/ latest' = latest /\ (Due => Due') /\ (OneWorks \/ TrainerNearer)

(* Bytes that were seen stay until they are read. *)
LEMMA SeesBytesHolds == Spec => []SeesBytes
<1>1. Init => SeesBytes
  BY DEF Init, SeesBytes
<1>2. IInv /\ SeesBytes /\ [Next]_vars => SeesBytes'
  <2> SUFFICES ASSUME IInv, SeesBytes, [Next]_vars PROVE SeesBytes'
    OBVIOUS
  <2> USE DEF SeesBytes, Bytes
  <2>1. pipe \in Seq(Workers \X Nat)
    BY DEF IInv, TypeOK
  <2>2. ASSUME NEW w \in Workers, EndWrite(w) PROVE SeesBytes'
    <3>1. <<w, sent[w] + 1>> \in Workers \X Nat
      BY DEF IInv, TypeOK
    <3>2. Append(pipe, <<w, sent[w] + 1>>) # <<>>
      BY <2>1, <3>1
    <3>3. QED
      BY <2>2, <3>2 DEF EndWrite
  <2>3. ASSUME NEW w \in Workers, Produce(w) \/ Lock(w) \/ BeginWrite(w) \/ Fail(w) \/ Kill(w)
        PROVE  SeesBytes'
    BY <2>3 DEF Produce, Finish, PutBatch, PutReport, Exit, Lock, BeginWrite, Fail, Kill,
                queue, trainer
  <2>4. CASE Ask \/ Consume
    BY <2>4 DEF Ask, Consume, Poll, Receive, TimeOut, Check, queue
  <2>5. CASE UNCHANGED vars
    BY <2>5 DEF vars, queue, trainer
  <2>6. QED
    BY <2>2, <2>3, <2>4, <2>5 DEF Next, Feed
<1>3. QED
  BY <1>1, <1>2, Always, PTL DEF Spec

(* With an empty pipe and nothing left to write, every slot is free. *)
LEMMA QuietIsFree ==
  ASSUME IInv, consumer \in InNext, pipe = <<>>, \A w \in Workers : ~(sent[w] < built[w])
  PROVE  slots > 0
<1>1. /\ latest \in [Workers -> Nat] /\ sent \in [Workers -> Nat] /\ built \in [Workers -> Nat]
      /\ slots \in 0 .. Capacity /\ Capacity \in Nat \ {0}
  BY ProducerPoolAssumption DEF IInv, TypeOK
<1>2. consumer # "raised"
  BY DEF InNext
<1>3. ASSUME NEW w \in Workers PROVE latest[w] = built[w]
  <2>1. sent[w] = built[w] /\ latest[w] <= sent[w]
    BY <1>1 DEF IInv, Progress
  <2>2. ~(latest[w] < sent[w])
    BY <1>1, <1>2 DEF IInv, PipeComplete
  <2>3. QED
    BY <1>1, <2>1, <2>2
<1>4. Outstanding = {}
  BY <1>1, <1>3, OutstandingIs DEF IInv
<1>5. slots = Capacity
  BY <1>1, <1>4, FS_EmptySet DEF IInv, SlotsAccounted
<1>6. QED
  BY <1>1, <1>5

(* Some thread can go on for a call that waits. *)
LEMMA SomebodyAnswers == IInv /\ SeesBytes => AnswerComes
<1> SUFFICES ASSUME IInv, SeesBytes, consumer \in InNext, ~Torn
             PROVE  IF Due THEN CanConsume \/ \E w \in Workers : CanFeed(w)
                           ELSE \E w \in Workers : CanProduce(w) \/ CanFeed(w)
  BY DEF AnswerComes
<1>1. partial => writer \in Workers /\ stage[writer] # "gone"
  BY DEF IInv, TypeOK, Somebody, Reports, Torn
<1>2. CASE Due
  <2>1. CASE consumer \in {"waiting", "checking"} \/ pipe # <<>>
    BY <1>2, <2>1 DEF CanConsume, InNext
  <2>2. CASE consumer = "receiving" /\ pipe = <<>>
    BY <1>1, <1>2, <2>2 DEF SeesBytes, Bytes, CanFeed
  <2>3. QED
    BY <2>1, <2>2 DEF InNext
<1>3. CASE ~Due
  <2>1. pipe = <<>> /\ ~partial /\ \A w \in Workers : stage[w] # "gone"
    BY <1>3 DEF Due, Bytes, Dead
  <2>2. writer \in Workers \cup {Nobody}
    BY DEF IInv, TypeOK, Somebody
  <2>3. CASE writer \in Workers
    BY <2>1, <2>3 DEF CanFeed
  <2>4. CASE writer = Nobody /\ \E w \in Workers : sent[w] < built[w]
    BY <2>1, <2>4 DEF CanFeed
  <2>5. CASE \A w \in Workers : ~(sent[w] < built[w])
    <3>1. PICK w \in Workers : TRUE
      BY ProducerPoolAssumption
    <3>2. slots > 0
      BY <2>1, <2>5, QuietIsFree
    <3>3. stage[w] \in Stages /\ sent[w] = built[w]
      BY <2>5, <3>1 DEF IInv, TypeOK, Progress
    <3>4. QED
      BY <1>3, <2>1, <3>1, <3>2, <3>3 DEF Stages, CanProduce
  <2>6. QED
    BY <2>2, <2>3, <2>4, <2>5
<1>4. QED
  BY <1>2, <1>3

(* A producer cannot be further ahead of the trainer than the queue is     *)
(* long, but for the report that was raised.                               *)
LEMMA AheadIsBounded ==
  ASSUME IInv, NEW w \in Workers
  PROVE  built[w] <= latest[w] + Capacity + 1
<1> DEFINE S == latest[w] + 1 .. built[w] - 1
           f == [n \in S |-> <<w, n>>]
<1>1. /\ latest[w] \in Nat /\ built[w] \in Nat /\ slots \in Nat /\ Capacity \in Nat
  BY ProducerPoolAssumption DEF IInv, TypeOK
<1>2. \A n \in S : <<w, n>> \in Outstanding
  BY <1>1, OutstandingIs DEF IInv
<1>3. f \in [S -> Outstanding] /\ \A m, n \in S : f[m] = f[n] => m = n
  BY <1>2
<1>4. f \in Injection(S, Outstanding)
  BY <1>3 DEF Injection, IsInjective
<1>5. Cardinality(S) <= Cardinality(Outstanding)
  BY <1>4, FS_Injection DEF IInv
<1>6. Cardinality(S) = IF latest[w] + 1 > built[w] - 1 THEN 0 ELSE built[w] - 1 - (latest[w] + 1) + 1
  <2>1. latest[w] + 1 \in Int /\ built[w] - 1 \in Int
    BY <1>1
  <2>2. QED
    BY <2>1, FS_Interval
<1>7. Cardinality(Outstanding) \in Nat /\ slots + Cardinality(Outstanding) = Capacity
  BY FS_CardinalityType DEF IInv, SlotsAccounted
<1> HIDE DEF S, f
<1>8. QED
  BY <1>1, <1>5, <1>6, <1>7

LEMMA WorkIsBounded == IInv => WorkBounded
<1> SUFFICES ASSUME IInv, NEW w \in Workers
             PROVE  Work(w) <= 6 * (latest[w] + Capacity + 1) + 5
  BY DEF WorkBounded
<1>1. /\ latest[w] \in Nat /\ sent[w] \in Nat /\ built[w] \in Nat /\ Capacity \in Nat
      /\ sent[w] <= built[w]
  BY ProducerPoolAssumption DEF IInv, TypeOK, Progress
<1>2. StageRank(w) \in 0 .. 3 /\ Writing(w) \in 0 .. 2
  BY DEF StageRank, Writing
<1>3. built[w] <= latest[w] + Capacity + 1
  BY AheadIsBounded
<1>4. QED
  BY <1>1, <1>2, <1>3 DEF Work

(* A step of a producer or its feeder is work of its own. *)
LEMMA ProducerWorks ==
  ASSUME IInv, NEW w \in Workers, Produce(w) \/ Feed(w) \/ Fail(w) \/ Kill(w)
  PROVE  OneWorks /\ latest' = latest /\ (Due => Due')
<1>1. TypeOK /\ w # Nobody
  BY ProducerPoolAssumption DEF IInv
<1>2. consumer' = consumer /\ latest' = latest
  BY DEF Produce, Feed, Finish, PutBatch, PutReport, TakeSlot, Exit, Lock, BeginWrite, EndWrite,
         Fail, Kill, trainer
<1>3. Work(w)' > Work(w)
  <2> USE <1>1 DEF TypeOK, Work, StageRank, Writing, producers, queue
  <2>1. CASE Finish(w) \/ Fail(w)
    BY <2>1 DEF Finish, Fail
  <2>2. CASE PutBatch(w) \/ PutReport(w)
    <3>1. /\ built'[w] = built[w] + 1 /\ sent' = sent /\ writer' = writer /\ partial' = partial
          /\ stage[w] \in {"put", "report"} /\ stage'[w] \in {"build", "closing"}
      BY <2>2 DEF PutBatch, PutReport, TakeSlot
    <3>2. StageRank(w) = 1 /\ StageRank(w)' \in {0, 2}
      BY <3>1
    <3>3. Writing(w)' = Writing(w) /\ Writing(w) \in Nat
      BY <3>1
    <3>4. Work(w)' = 3 * built'[w] + 3 * sent'[w] + StageRank(w)' + Writing(w)'
      OBVIOUS
    <3>5. built[w] \in Nat /\ sent[w] \in Nat
      OBVIOUS
    <3> HIDE DEF StageRank, Writing
    <3>6. QED
      BY <3>1, <3>2, <3>3, <3>4, <3>5
  <2>3. CASE Exit(w)
    BY <2>3 DEF Exit
  <2>4. CASE Kill(w)
    BY <2>4 DEF Kill, Stages
  <2>5. CASE Lock(w)
    BY <2>5 DEF Lock
  <2>6. CASE BeginWrite(w)
    BY <2>6 DEF BeginWrite
  <2>7. CASE EndWrite(w)
    <3>1. /\ sent'[w] = sent[w] + 1 /\ stage' = stage /\ built' = built
          /\ writer = w /\ partial /\ writer' # w
      BY <2>7 DEF EndWrite
    <3>2. StageRank(w)' = StageRank(w) /\ StageRank(w) \in Nat
      BY <3>1
    <3>3. Writing(w) = 2 /\ Writing(w)' = 0
      BY <3>1
    <3>4. Work(w)' = 3 * built'[w] + 3 * sent'[w] + StageRank(w)' + Writing(w)'
      OBVIOUS
    <3>5. built[w] \in Nat /\ sent[w] \in Nat
      OBVIOUS
    <3> HIDE DEF StageRank, Writing
    <3>6. QED
      BY <3>1, <3>2, <3>3, <3>4, <3>5
  <2>8. QED
    BY <2>1, <2>2, <2>3, <2>4, <2>5, <2>6, <2>7 DEF Produce, Feed
<1>4. ASSUME NEW v \in Workers \ {w} PROVE Work(v)' = Work(v)
  <2>1. stage'[v] = stage[v] /\ built'[v] = built[v] /\ sent'[v] = sent[v]
    BY <1>1 DEF TypeOK, Produce, Feed, Finish, PutBatch, PutReport, TakeSlot, Exit, Lock,
                BeginWrite, EndWrite, Fail, Kill, producers
  <2>2. Writing(v)' = Writing(v)
    BY <1>1, ProducerPoolAssumption DEF Writing, Produce, Feed, Finish, PutBatch, PutReport, Exit,
       Lock, BeginWrite, EndWrite, Fail, Kill, queue
  <2>3. QED
    BY <2>1, <2>2 DEF Work, StageRank
<1>5. Due => Due'
  <2>1. Dead \subseteq Dead'
    BY <1>1 DEF TypeOK, Dead, Produce, Feed, Finish, PutBatch, PutReport, Exit, Lock, BeginWrite,
                EndWrite, Fail, Kill, producers
  <2>2. Bytes => Bytes'
    <3>1. CASE EndWrite(w)
      <4>1. pipe \in Seq(Workers \X Nat) /\ <<w, sent[w] + 1>> \in Workers \X Nat
        BY <1>1 DEF TypeOK
      <4>2. Append(pipe, <<w, sent[w] + 1>>) # <<>>
        BY <4>1
      <4>3. QED
        BY <3>1, <4>2 DEF EndWrite, Bytes
    <3>2. CASE ~EndWrite(w)
      BY <3>2 DEF Bytes, Produce, Feed, Finish, PutBatch, PutReport, Exit, Lock, BeginWrite,
                  Fail, Kill, queue
    <3>3. QED
      BY <3>1, <3>2
  <2>3. QED
    BY <2>1, <2>2 DEF Due
<1>6. QED
  BY <1>2, <1>3, <1>4, <1>5 DEF OneWorks

(* A step of the trainer ends the call or leads to what is due. *)
LEMMA TrainerIsNearer ==
  ASSUME IInv, Consume
  PROVE  consumer' \notin InNext \/ (latest' = latest /\ (Due => Due') /\ TrainerNearer)
<1>1. CASE Receive
  BY <1>1 DEF Receive, InNext
<1>2. CASE Poll \/ TimeOut \/ Check
  <2>1. UNCHANGED <<producers, queue, latest>>
    BY <1>2 DEF Poll, TimeOut, Check
  <2>2. UNCHANGED <<stage, built, sent, writer, partial, pipe>>
    BY <2>1 DEF producers, queue
  <2>3. (Due' <=> Due) /\ (Bytes' <=> Bytes) /\ \A w \in Workers : Work(w)' = Work(w)
    BY <2>2 DEF Due, Bytes, Dead, Work, StageRank, Writing
  <2>4. Due /\ consumer' \in InNext => Distance' < Distance
    <3>1. CASE Poll
      BY <2>3, <3>1 DEF Poll, Distance, InNext
    <3>2. CASE TimeOut
      BY <2>2, <2>3, <3>2 DEF TimeOut, Distance, InNext, Bytes
    <3>3. CASE Check
      BY <2>3, <3>3 DEF Check, Distance, InNext, Due
    <3>4. QED
      BY <1>2, <3>1, <3>2, <3>3
  <2>5. QED
    BY <2>1, <2>3, <2>4 DEF TrainerNearer
<1>3. QED
  BY <1>1, <1>2 DEF Consume

(* However many producers are killed, and whatever slots and locks they    *)
(* keep, a call never waits for nothing (vision_data.py:1008-1012): while  *)
(* no answer is due some producer or feeder can go on, with work that is   *)
(* bounded by the queue; and one that is due comes within three steps of    *)
(* the trainer.  Only a write that its process does not end is different   *)
(* (Torn).                                                                 *)
THEOREM AnswersCome == Spec => [](AnswerComes /\ WorkBounded) /\ [][CallIsNearer]_vars
<1>1. IInv /\ [Next]_vars => [CallIsNearer]_vars
  <2> SUFFICES ASSUME IInv, Next, consumer \in InNext
               PROVE  \/ consumer' \notin InNext
                      \/ latest' = latest /\ (Due => Due') /\ (OneWorks \/ TrainerNearer)
    BY DEF CallIsNearer
  <2>1. ~Ask
    BY DEF Ask, InNext
  <2>2. QED
    BY <2>1, ProducerWorks, TrainerIsNearer DEF Next
<1>2. QED
  BY <1>1, SomebodyAnswers, WorkIsBounded, SeesBytesHolds, Always, PTL DEF Spec
================================================================================
