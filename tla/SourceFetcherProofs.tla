--------------------------- MODULE SourceFetcherProofs --------------------------
(***************************************************************************)
(* For every shard, allowance, buffer and number of failures: the packer   *)
(* gets a stream's rows in order and without a gap, an error arrives       *)
(* behind them, and no failure makes a shard lose a record.                *)
(***************************************************************************)
EXTENDS SourceFetcher, TLAPS

(* What taking the head of a queue leaves behind.                          *)
LEMMA TailOfQueue ==
  ASSUME NEW q \in Seq(Nat), q # <<>>
  PROVE  /\ Tail(q) \in Seq(Nat)
         /\ Head(q) = q[1] /\ q[1] \in Nat
         /\ Len(q) \in Nat /\ Len(q) > 0
         /\ Len(Tail(q)) = Len(q) - 1
         /\ \A i \in 1 .. Len(Tail(q)) : Tail(q)[i] = q[i + 1]
  OBVIOUS

(* What putting an entry at the end of a queue adds.                       *)
LEMMA AppendToQueue ==
  ASSUME NEW q \in Seq(Nat), NEW e \in Nat
  PROVE  /\ Append(q, e) \in Seq(Nat)
         /\ Len(Append(q, e)) = Len(q) + 1
         /\ \A i \in 1 .. Len(q) : Append(q, e)[i] = q[i]
         /\ Append(q, e)[Len(q) + 1] = e
  OBVIOUS

--------------------------------------------------------------------------------
(* Types *)

(* A draw that goes on has failures left; a record in hand has a row.      *)
Going ==
  /\ thread \in {"draw", "rewind", "reopen", "put"} => failures < Allowance
  /\ thread = "put" => hand > 0

TypeInv == TypeOK /\ Going

LEMMA InitType == Init => TypeInv
  BY SourceFetcherAssumption DEF Init, TypeInv, TypeOK, Going, ThreadStates

(* Every step keeps the types. *)
LEMMA TypeStep == TypeInv /\ [Next]_vars => TypeInv'
<1> SUFFICES ASSUME TypeInv, [Next]_vars PROVE TypeInv'
  OBVIOUS
<1> USE SourceFetcherAssumption DEF TypeInv, TypeOK, Going, ThreadStates, shard, packer
<1>1. CASE Serve
  <2>1. /\ Shard - left + 1 \in 1 .. Shard
        /\ docs[Shard - left + 1] \in 0 .. MaxDocs
    BY <1>1 DEF Serve
  <2>2. /\ seen' = seen \cup {Shard - left + 1} /\ hand' = docs[Shard - left + 1]
        /\ thread' = IF docs[Shard - left + 1] = 0 THEN "draw" ELSE "put"
        /\ left > 0 /\ left' = left - 1 /\ failures' = 0
        /\ UNCHANGED <<docs, live, sent, queue, packer, faults>>
    BY <1>1 DEF Serve
  <2>3. QED
    BY <2>1, <2>2
<1>2. CASE Exhaust
  <2>1. /\ thread = "draw" /\ thread' = "rewind"
        /\ live' = FALSE /\ seen' = {} /\ failures' = failures
        /\ UNCHANGED <<docs, left, hand, sent, queue, consumer, got, asks, faults>>
    BY <1>2 DEF Exhaust
  <2>2. failures < Allowance
    BY <2>1
  <2>3. QED
    BY <2>1, <2>2
<1>3. CASE Open
  <2>1. /\ thread \in {"rewind", "reopen"} /\ thread' = "draw"
        /\ live' = TRUE /\ left' = Shard /\ failures' = failures
        /\ UNCHANGED <<docs, seen, hand, sent, queue, consumer, got, asks, faults>>
    BY <1>3 DEF Open
  <2>2. failures < Allowance /\ Shard \in 0 .. Shard
    BY <2>1
  <2>3. QED
    BY <2>1, <2>2
<1>4. CASE Break
  <2>1. /\ thread = "draw"
        /\ thread' = IF failures + 1 >= Allowance THEN "fault" ELSE "reopen"
        /\ live' = FALSE /\ failures' = failures + 1
        /\ faults < MaxFaults /\ faults' = faults + 1
    BY <1>4 DEF Break
  <2>2. UNCHANGED <<docs, left, seen, hand, sent, queue, consumer, got, asks>>
    BY <1>4 DEF Break
  <2>3. TypeOK'
    <3>1. failures < Allowance /\ failures \in 0 .. Allowance
      BY <2>1
    <3>2. failures' \in 0 .. Allowance
      BY <2>1, <3>1
    <3>3. faults' \in 0 .. MaxFaults
      BY <2>1
    <3>4. live' \in BOOLEAN /\ thread' \in ThreadStates
      BY <2>1
    <3>5. QED
      BY <2>2, <3>2, <3>3, <3>4
  <2>4. Going'
    BY <2>1
  <2>5. QED
    BY <2>3, <2>4
<1>5. CASE ReopenRaises \/ RewindRaises
  <2>1. /\ thread \in {"reopen", "rewind"} /\ thread' \in {"draw", "fault"}
        /\ faults < MaxFaults /\ faults' = faults + 1
        /\ UNCHANGED <<docs, live, left, seen, failures, hand, sent, queue, consumer, got, asks>>
    BY <1>5 DEF ReopenRaises, RewindRaises
  <2>2. faults' \in 0 .. MaxFaults /\ thread' \in ThreadStates
    BY <2>1
  <2>3. TypeOK'
    BY <2>1, <2>2
  <2>4. Going'
    BY <2>1
  <2>5. QED
    BY <2>3, <2>4
<1>6. CASE PrepareRaises
  BY <1>6 DEF PrepareRaises
<1>7. CASE Put
  <2>1. /\ queue' \in Seq(Nat) /\ Len(queue') = Len(queue) + 1
    BY <1>7, AppendToQueue DEF Put
  <2>2. /\ Len(queue) < RowBuffer /\ Len(queue) \in Nat
        /\ thread = "put" /\ hand > 0 /\ hand' = hand - 1 /\ sent' = sent + 1
        /\ thread' = IF hand = 1 THEN "draw" ELSE "put"
        /\ UNCHANGED <<docs, live, left, seen, failures, consumer, got, asks, faults>>
    BY <1>7 DEF Put
  <2>3. hand' \in 0 .. MaxDocs /\ (thread' = "put" => hand' > 0)
    BY <2>2
  <2>4. Len(queue') <= RowBuffer /\ sent' \in Nat
    BY <2>1, <2>2
  <2>5. TypeOK'
    BY <2>1, <2>2, <2>3, <2>4
  <2>6. Going'
    BY <2>2, <2>3
  <2>7. QED
    BY <2>5, <2>6
<1>8. CASE Report
  <2>1. /\ queue' \in Seq(Nat) /\ Len(queue') = Len(queue) + 1
    BY <1>8, AppendToQueue DEF Report, Stop
  <2>2. QED
    BY <1>8, <2>1 DEF Report
<1>9. CASE Ask
  BY <1>9 DEF Ask
<1>10. CASE Answer
  <2>1. /\ queue' \in Seq(Nat) /\ Len(queue') = Len(queue) - 1 /\ Len(queue) \in Nat
        /\ Head(queue) \in Nat
    BY <1>10, TailOfQueue DEF Answer
  <2>2. QED
    BY <1>10, <2>1 DEF Answer
<1>11. CASE UNCHANGED vars
  BY <1>11 DEF vars
<1>12. QED
  BY <1>1, <1>2, <1>3, <1>4, <1>5, <1>6, <1>7, <1>8, <1>9, <1>10, <1>11
     DEF Next, Run, Draw, Faults

(* TypeOK holds throughout: the queue keeps its bound, a draw its allowance. *)
THEOREM TypeCorrect == Spec => []TypeOK
<1>1. TypeInv => TypeOK
  BY DEF TypeInv
<1>2. QED
  BY <1>1, InitType, TypeStep, PTL DEF Spec

--------------------------------------------------------------------------------
(* The order of rows *)

(* The queue holds the rows behind the last one got, then the sentinel.    *)
Follows(n) == \A i \in 1 .. n : queue[i] = got + i

Flow ==
  /\ thread # "gone" =>
       consumer # "raised" /\ Len(queue) = sent - got /\ Follows(Len(queue))
  /\ thread = "gone" /\ consumer # "raised" =>
       /\ Len(queue) = sent - got + 1 /\ Len(queue) > 0
       /\ queue[Len(queue)] = Stop /\ Follows(Len(queue) - 1)
  /\ consumer = "raised" => queue = <<>> /\ got = sent

LEMMA InitFlow == Init => Flow
  BY DEF Init, Flow, Follows

(* What get() finds is the next row, or the sentinel when there is none.   *)
LEMMA AnswerFinds ==
  ASSUME TypeOK, Flow, Answer
  PROVE  \/ Head(queue) = got + 1 /\ Head(queue) # Stop
         \/ Head(queue) = Stop /\ got = sent /\ thread = "gone" /\ Len(queue) = 1
<1>1. queue \in Seq(Nat) /\ queue # <<>> /\ got \in Nat /\ sent \in Nat /\ consumer = "waiting"
  BY DEF TypeOK, Answer
<1>2. Head(queue) = queue[1] /\ Len(queue) \in Nat /\ Len(queue) > 0
  BY <1>1, TailOfQueue
<1>3. CASE thread # "gone"
  <2>1. 1 \in 1 .. Len(queue) /\ Follows(Len(queue))
    BY <1>2, <1>3 DEF Flow
  <2>2. queue[1] = got + 1
    BY <2>1 DEF Follows
  <2>3. QED
    BY <1>1, <1>2, <2>2 DEF Stop
<1>4. CASE thread = "gone" /\ Len(queue) = 1
  <2>1. Len(queue) = sent - got + 1 /\ queue[Len(queue)] = Stop
    BY <1>1, <1>4 DEF Flow
  <2>2. sent - got + 1 = 1
    BY <1>4, <2>1
  <2>3. sent = got
    BY <1>1, <2>2
  <2>4. QED
    BY <1>2, <1>4, <2>1, <2>3
<1>5. CASE thread = "gone" /\ Len(queue) # 1
  <2>1. Follows(Len(queue) - 1)
    BY <1>1, <1>5 DEF Flow
  <2>2. 1 \in 1 .. (Len(queue) - 1)
    <3>1. PICK n \in Nat : n = Len(queue)
      BY <1>2
    <3>2. n > 0 /\ n # 1
      BY <1>2, <1>5, <3>1
    <3>3. 1 \in 1 .. (n - 1)
      BY <3>2
    <3>4. QED
      BY <3>1, <3>3
  <2>3. queue[1] = got + 1
    BY <2>1, <2>2 DEF Follows
  <2>4. QED
    BY <1>1, <1>2, <2>3 DEF Stop
<1>6. QED
  BY <1>3, <1>4, <1>5

(* Every step keeps the order. *)
LEMMA FlowStep == TypeInv /\ Flow /\ [Next]_vars => Flow'
<1> SUFFICES ASSUME TypeInv, Flow, [Next]_vars PROVE Flow'
  OBVIOUS
<1>1. /\ queue \in Seq(Nat) /\ got \in Nat /\ sent \in Nat /\ Len(queue) \in Nat
      /\ TypeOK
  BY DEF TypeInv, TypeOK
<1>2. CASE UNCHANGED <<queue, sent, got, consumer>> /\ thread # "gone" /\ thread' # "gone"
  BY <1>2 DEF Flow, Follows
<1>3. CASE Draw \/ Faults
  BY <1>2, <1>3 DEF Draw, Faults, Serve, Exhaust, Open, Break, ReopenRaises, RewindRaises,
                    PrepareRaises, packer
<1>4. CASE Put
  <2>1. /\ thread # "gone" /\ thread' # "gone" /\ queue' = Append(queue, sent + 1)
        /\ sent' = sent + 1 /\ got' = got /\ consumer' = consumer
    BY <1>4 DEF Put, packer
  <2>2. /\ Len(queue') = Len(queue) + 1 /\ queue'[Len(queue) + 1] = sent + 1
        /\ \A i \in 1 .. Len(queue) : queue'[i] = queue[i]
    BY <1>1, <2>1, AppendToQueue
  <2>3. consumer # "raised" /\ Len(queue) = sent - got /\ Follows(Len(queue))
    BY <2>1 DEF Flow
  <2>4. Len(queue') = sent' - got'
    BY <1>1, <2>1, <2>2, <2>3
  <2>5. Follows(Len(queue))'
    <3> SUFFICES ASSUME NEW i \in 1 .. Len(queue') PROVE queue'[i] = got + i
      BY <2>1 DEF Follows
    <3>1. CASE i \in 1 .. Len(queue)
      BY <2>2, <2>3, <3>1 DEF Follows
    <3>2. CASE i = Len(queue) + 1
      BY <1>1, <2>2, <2>3, <3>2
    <3>3. QED
      BY <1>1, <2>2, <3>1, <3>2
  <2>6. QED
    BY <2>1, <2>3, <2>4, <2>5 DEF Flow
<1>5. CASE Report
  <2>1. /\ thread = "fault" /\ thread' = "gone" /\ queue' = Append(queue, Stop)
        /\ sent' = sent /\ got' = got /\ consumer' = consumer
    BY <1>5 DEF Report, packer
  <2>2. /\ Len(queue') = Len(queue) + 1 /\ queue'[Len(queue) + 1] = Stop
        /\ \A i \in 1 .. Len(queue) : queue'[i] = queue[i]
    BY <1>1, <2>1, AppendToQueue DEF Stop
  <2>3. consumer # "raised" /\ Len(queue) = sent - got /\ Follows(Len(queue))
    BY <2>1 DEF Flow
  <2>4. Len(queue') - 1 = Len(queue)
    BY <1>1, <2>2
  <2>5. \A i \in 1 .. Len(queue') - 1 : queue'[i] = got' + i
    BY <2>1, <2>2, <2>3, <2>4 DEF Follows
  <2>6. Len(queue') = sent' - got' + 1 /\ Len(queue') > 0 /\ queue'[Len(queue')] = Stop
    BY <1>1, <2>1, <2>2, <2>3
  <2>7. QED
    BY <2>1, <2>3, <2>5, <2>6 DEF Flow, Follows
<1>6. CASE Ask
  <2>1. /\ consumer # "raised" /\ consumer' # "raised"
        /\ UNCHANGED <<thread, queue, sent, got>>
    BY <1>6 DEF Ask
  <2>2. QED
    BY <2>1 DEF Flow, Follows
<1>7. CASE Answer
  <2>1. /\ queue # <<>> /\ queue' = Tail(queue) /\ consumer = "waiting"
        /\ thread' = thread /\ sent' = sent
    BY <1>7 DEF Answer
  <2>2. /\ Len(queue') = Len(queue) - 1 /\ Len(queue) > 0 /\ queue' \in Seq(Nat)
        /\ \A i \in 1 .. Len(queue') : queue'[i] = queue[i + 1]
    BY <1>1, <2>1, TailOfQueue
  <2>3. CASE Head(queue) = Stop /\ got = sent /\ thread = "gone" /\ Len(queue) = 1
    <3>1. consumer' = "raised" /\ got' = got
      BY <1>7, <2>3 DEF Answer
    <3>2. queue' = <<>>
      BY <2>2, <2>3
    <3>3. QED
      BY <2>1, <2>3, <3>1, <3>2 DEF Flow
  <2>4. CASE Head(queue) = got + 1 /\ Head(queue) # Stop
    <3>1. consumer' = "busy" /\ got' = got + 1
      BY <1>7, <2>4 DEF Answer
    <3>2. CASE thread # "gone"
      <4>1. Len(queue) = sent - got /\ Follows(Len(queue))
        BY <3>2 DEF Flow
      <4>2. Len(queue') = sent' - got'
        BY <1>1, <2>1, <2>2, <3>1, <4>1
      <4>3. \A i \in 1 .. Len(queue') : queue'[i] = got' + i
        BY <1>1, <2>2, <3>1, <4>1 DEF Follows
      <4>4. QED
        BY <2>1, <3>1, <3>2, <4>2, <4>3 DEF Flow, Follows
    <3>3. CASE thread = "gone"
      <4>1. /\ Len(queue) = sent - got + 1 /\ queue[Len(queue)] = Stop
            /\ Follows(Len(queue) - 1)
        BY <2>1, <3>3 DEF Flow
      <4>2. Len(queue) # 1
        BY <1>1, <2>1, <2>4, <4>1, TailOfQueue
      <4>3. Len(queue') = sent' - got' + 1 /\ Len(queue') > 0
        BY <1>1, <2>1, <2>2, <3>1, <4>1, <4>2
      <4>4. queue'[Len(queue')] = Stop
        BY <1>1, <2>2, <4>1, <4>3
      <4>5. \A i \in 1 .. Len(queue') - 1 : queue'[i] = got' + i
        BY <1>1, <2>2, <3>1, <4>1 DEF Follows
      <4>6. QED
        BY <2>1, <3>1, <3>3, <4>3, <4>4, <4>5 DEF Flow, Follows
    <3>4. QED
      BY <3>2, <3>3
  <2>5. QED
    BY <1>1, <1>7, <2>3, <2>4, AnswerFinds
<1>8. CASE UNCHANGED vars
  BY <1>8 DEF vars, packer, Flow, Follows
<1>9. QED
  BY <1>3, <1>4, <1>5, <1>6, <1>7, <1>8 DEF Next, Run

(* The thread's error reaches the packer behind every row it put before    *)
(* (vision_data.py:295-302).                                               *)
THEOREM ErrorsComeLast == Spec => []RowsBeforeError
<1>1. Flow => RowsBeforeError
  BY DEF Flow, RowsBeforeError
<1>2. QED
  BY <1>1, InitType, TypeStep, InitFlow, FlowStep, PTL DEF Spec

(* For the packer the stream is one shard of ShardMerge, through failures, *)
(* reopenings and the queue (vision_data.py:263-303).                      *)
THEOREM FetcherImplementsMerge == Spec => MergeSpec
<1>1. Init => Merge!Init
  BY DEF Init, Merge!Init
<1>2. TypeInv /\ Flow /\ [Next]_vars => [Merge!Next]_Merge!vars
  <2> SUFFICES ASSUME TypeInv, Flow, [Next]_vars
               PROVE  Merge!Next \/ UNCHANGED Merge!vars
    BY DEF Merge!vars
  <2>1. TypeOK
    BY DEF TypeInv
  <2>2. CASE Ask
    BY <2>2 DEF Ask, Merge!Next, Merge!Ask
  <2>3. CASE Answer
    <3>1. CASE Head(queue) = Stop /\ thread = "gone"
      BY <2>3, <3>1 DEF Answer, Merge!Next, Merge!Raise
    <3>2. CASE Head(queue) = got + 1 /\ Head(queue) # Stop
      <4>1. /\ consumer = "waiting" /\ consumer' = "busy" /\ got' = got + 1
            /\ thread' = thread
        BY <2>3, <3>2 DEF Answer
      <4>2. [w \in {Name} |-> got'] =
              [[w \in {Name} |-> got] EXCEPT ![Name] = @ + 1]
        BY <4>1
      <4>3. Merge!Deliver(Name)
        BY <4>1, <4>2 DEF Merge!Deliver
      <4>4. QED
        BY <4>3 DEF Merge!Next
    <3>3. QED
      BY <2>1, <2>3, <3>1, <3>2, AnswerFinds
  <2>4. CASE Run
    <3>1. got' = got /\ consumer' = consumer
      BY <2>4 DEF Run, Draw, Faults, Serve, Exhaust, Open, Break, ReopenRaises, RewindRaises,
                  PrepareRaises, Put, Report, packer
    <3>2. CASE (thread' \in {"fault", "gone"}) = (thread \in {"fault", "gone"})
      BY <3>1, <3>2 DEF Merge!vars
    <3>3. CASE thread' \in {"fault", "gone"} /\ thread \notin {"fault", "gone"}
      BY <3>1, <3>3 DEF Merge!Next, Merge!Fail
    <3>4. thread \in {"fault", "gone"} => thread' \in {"fault", "gone"}
      BY <2>4 DEF Run, Draw, Faults, Serve, Exhaust, Open, Break, ReopenRaises, RewindRaises,
                  PrepareRaises, Put, Report
    <3>5. QED
      BY <3>2, <3>3, <3>4
  <2>5. CASE UNCHANGED vars
    BY <2>5 DEF vars, packer, Merge!vars
  <2>6. QED
    BY <2>2, <2>3, <2>4, <2>5 DEF Next
<1>3. QED
  BY <1>1, <1>2, InitType, TypeStep, InitFlow, FlowStep, PTL DEF Spec, MergeSpec, Merge!Spec

--------------------------------------------------------------------------------
(* The shard *)

(* What the stream has given of this opening was given before as well.     *)
Prefix ==
  \E k \in 0 .. Shard : seen = 1 .. k /\ (live => Shard - left <= k)

(* Every step keeps the prefix. *)
LEMMA PrefixStep == TypeInv /\ Prefix /\ [Next]_vars => Prefix'
<1> SUFFICES ASSUME TypeInv, Prefix, [Next]_vars PROVE Prefix'
  OBVIOUS
<1> USE SourceFetcherAssumption
<1>1. PICK k \in 0 .. Shard : seen = 1 .. k /\ (live => Shard - left <= k)
  BY DEF Prefix
<1>2. left \in 0 .. Shard /\ live \in BOOLEAN
  BY DEF TypeInv, TypeOK
<1>3. CASE Serve \/ PrepareRaises
  <2>1. /\ live /\ live' = live /\ left > 0 /\ left' = left - 1
        /\ seen' = seen \cup {Shard - left + 1}
    BY <1>3 DEF Serve, PrepareRaises
  <2>2. CASE Shard - left + 1 <= k
    <3>1. seen' = 1 .. k /\ Shard - left' <= k
      BY <1>1, <1>2, <2>1, <2>2
    <3>2. QED
      BY <3>1 DEF Prefix
  <2>3. CASE Shard - left + 1 > k
    <3>1. Shard - left = k
      BY <1>1, <1>2, <2>1, <2>3
    <3>2. seen' = 1 .. (k + 1) /\ Shard - left' <= k + 1 /\ k + 1 \in 0 .. Shard
      BY <1>1, <1>2, <2>1, <3>1
    <3>3. QED
      BY <3>2 DEF Prefix
  <2>4. QED
    BY <1>1, <1>2, <2>2, <2>3
<1>4. CASE Exhaust
  <2>1. ~live' /\ seen' = 1 .. 0 /\ 0 \in 0 .. Shard
    BY <1>4 DEF Exhaust
  <2>2. QED
    BY <2>1 DEF Prefix
<1>5. CASE Open
  <2>1. live' /\ left' = Shard /\ seen' = seen
    BY <1>5 DEF Open, shard
  <2>2. Shard - left' <= k
    BY <2>1
  <2>3. QED
    BY <1>1, <2>1, <2>2 DEF Prefix
<1>6. CASE Break
  BY <1>1, <1>6 DEF Break, Prefix
<1>7. CASE ReopenRaises \/ RewindRaises \/ Put \/ Report \/ Ask \/ Answer \/ UNCHANGED vars
  <2>1. UNCHANGED <<seen, live, left>>
    BY <1>7 DEF ReopenRaises, RewindRaises, Put, Report, Ask, Answer, vars, shard
  <2>2. QED
    BY <1>1, <2>1 DEF Prefix
<1>8. QED
  BY <1>3, <1>4, <1>5, <1>6, <1>7 DEF Next, Run, Draw, Faults

(* A failure repeats records and never loses one (vision_data.py:458-460). *)
THEOREM SkipsNothing == Spec => []NothingSkipped
<1>1. Init => Prefix
  <2> SUFFICES ASSUME Init PROVE Prefix
    OBVIOUS
  <2>1. seen = 1 .. 0 /\ left = Shard /\ 0 \in 0 .. Shard /\ Shard - Shard <= 0
    BY SourceFetcherAssumption DEF Init
  <2>2. QED
    BY <2>1 DEF Prefix
<1>2. Prefix => NothingSkipped
  BY DEF Prefix, NothingSkipped
<1>3. QED
  BY <1>1, <1>2, InitType, TypeStep, PrefixStep, PTL DEF Spec

--------------------------------------------------------------------------------
(* What GetReturns stands on, besides fairness: while the packer waits     *)
(* there is an entry, or the thread can go on and comes nearer to one.     *)

(* The guards of Run. *)
Runs ==
  \/ thread \in {"draw", "rewind", "reopen"}
  \/ thread \in {"put", "fault"} /\ Len(queue) < RowBuffer

SomethingComes == consumer = "waiting" => queue # <<>> \/ Runs

(* A record with rows ahead of where the stream is.                        *)
RowAhead == live /\ \E p \in Shard - left + 1 .. Shard : docs[p] > 0

(* Steps to a record with rows, at most: through this opening, or through  *)
(* the rest of it and the next.                                            *)
Distance ==
  CASE thread = "draw" -> IF RowAhead THEN left
                          ELSE IF live THEN left + Shard + 4 ELSE Shard + 3
    [] thread \in {"rewind", "reopen"} -> Shard + 1
    [] OTHER -> 0

Nearer ==
  \/ queue' # <<>>
  \/ faults < faults'
  \/ faults' = faults /\ Distance' < Distance

SomeRow == \E p \in 1 .. Shard : docs[p] > 0

LEMMA FlowHolds == Spec => [](TypeInv /\ Flow /\ SomeRow)
<1>1. Init => TypeInv /\ Flow /\ SomeRow
  BY InitType, InitFlow DEF Init, SomeRow
<1>2. SomeRow /\ [Next]_vars => SomeRow'
  BY DEF SomeRow, Next, Run, Draw, Serve, Exhaust, Open, Faults, Break, ReopenRaises, RewindRaises,
         PrepareRaises, Put, Report, Ask, Answer, shard, vars
<1>3. QED
  BY <1>1, <1>2, TypeStep, FlowStep, PTL DEF Spec

(* A record without rows is passed, one with rows is no longer far.        *)
LEMMA ServeIsNearer == ASSUME TypeInv, Serve PROVE Distance' < Distance
<1>1. /\ Shard \in Nat /\ left \in 1 .. Shard /\ live /\ live' = live /\ docs' = docs
      /\ left' = left - 1 /\ thread = "draw"
      /\ thread' = IF docs[Shard - left + 1] = 0 THEN "draw" ELSE "put"
  BY SourceFetcherAssumption DEF TypeInv, TypeOK, Serve
<1>2. Distance = IF RowAhead THEN left ELSE left + Shard + 4
  BY <1>1 DEF Distance
<1>3. CASE docs[Shard - left + 1] # 0
  <2>1. Distance' = 0
    BY <1>1, <1>3 DEF Distance
  <2>2. QED
    BY <1>1, <1>2, <2>1
<1>4. CASE docs[Shard - left + 1] = 0
  <2>1. RowAhead => RowAhead'
    <3> SUFFICES ASSUME NEW p \in Shard - left + 1 .. Shard, docs[p] > 0
                 PROVE  p \in Shard - (left - 1) + 1 .. Shard
      BY <1>1 DEF RowAhead
    <3>1. p # Shard - left + 1
      BY <1>4
    <3>2. QED
      BY <1>1, <3>1
  <2>2. RowAhead' => RowAhead
    <3> SUFFICES ASSUME NEW p \in Shard - (left - 1) + 1 .. Shard
                 PROVE  p \in Shard - left + 1 .. Shard
      BY <1>1 DEF RowAhead
    <3>1. QED
      BY <1>1
  <2>3. Distance' = IF RowAhead' THEN left - 1 ELSE left - 1 + Shard + 4
    BY <1>1, <1>4 DEF Distance
  <2>4. QED
    BY <1>1, <1>2, <2>1, <2>2, <2>3
<1>5. QED
  BY <1>3, <1>4

(* get() is never called in vain (vision_data.py:287-303): as long as a    *)
(* shard has a row at all, whatever fails, the thread comes nearer to one, *)
(* or to an error to report, with every step.                              *)
THEOREM GetsEnd ==
  Spec => []SomethingComes /\ [][consumer = "waiting" /\ queue = <<>> => Nearer]_vars
<1>1. TypeInv /\ Flow => SomethingComes
  <2> SUFFICES ASSUME TypeInv, Flow, consumer = "waiting", queue = <<>> PROVE Runs
    BY DEF SomethingComes
  <2>1. Len(queue) = 0 /\ 0 < RowBuffer
    BY SourceFetcherAssumption
  <2>2. thread # "gone"
    BY <2>1 DEF Flow
  <2>3. QED
    BY <2>1, <2>2 DEF Runs, TypeInv, TypeOK, ThreadStates
<1>2. TypeInv /\ Flow /\ SomeRow /\ [Next]_vars =>
        [consumer = "waiting" /\ queue = <<>> => Nearer]_vars
  <2> SUFFICES ASSUME TypeInv, SomeRow, consumer = "waiting", queue = <<>>, Next PROVE Nearer
    OBVIOUS
  <2> USE DEF shard, packer
  <2>0. /\ Shard \in Nat /\ left \in 0 .. Shard /\ faults \in Nat /\ queue \in Seq(Nat)
        /\ live \in BOOLEAN
    BY SourceFetcherAssumption DEF TypeInv, TypeOK
  <2>1. CASE Serve
    BY <2>1, ServeIsNearer DEF Serve, Nearer
  <2>2. CASE Exhaust
    <3>1. ~RowAhead
      BY <2>0, <2>2 DEF Exhaust, RowAhead
    <3>2. Distance \in {left + Shard + 4, Shard + 3} /\ Distance' = Shard + 1 /\ faults' = faults
      BY <2>2, <3>1 DEF Exhaust, Distance
    <3>3. QED
      BY <2>0, <3>2 DEF Nearer
  <2>3. CASE Open
    <3>1. RowAhead'
      BY <2>0, <2>3 DEF Open, RowAhead, SomeRow
    <3>2. Distance = Shard + 1 /\ Distance' = Shard /\ faults' = faults
      BY <2>3, <3>1 DEF Open, Distance
    <3>3. QED
      BY <2>0, <3>2 DEF Nearer
  <2>4. CASE Break \/ ReopenRaises \/ RewindRaises
    BY <2>0, <2>4 DEF Break, ReopenRaises, RewindRaises, Nearer
  <2>5. CASE PrepareRaises
    <3>1. Distance' = 0 /\ faults' = faults
      BY <2>5 DEF PrepareRaises, Distance
    <3>2. Distance \in {left, left + Shard + 4} /\ left > 0
      BY <2>5 DEF PrepareRaises, Distance
    <3>3. QED
      BY <2>0, <3>1, <3>2 DEF Nearer
  <2>6. CASE Put
    <3>1. sent + 1 \in Nat /\ queue' = Append(queue, sent + 1)
      BY <2>6 DEF Put, TypeInv, TypeOK
    <3>2. QED
      BY <2>0, <3>1, AppendToQueue DEF Nearer
  <2>7. CASE Report
    <3>1. Stop \in Nat /\ queue' = Append(queue, Stop)
      BY <2>7 DEF Report, Stop
    <3>2. QED
      BY <2>0, <3>1, AppendToQueue DEF Nearer
  <2>8. QED
    BY <2>1, <2>2, <2>3, <2>4, <2>5, <2>6, <2>7 DEF Next, Run, Draw, Faults, Ask, Answer
<1>3. QED
  BY <1>1, <1>2, FlowHolds, PTL DEF Spec

================================================================================
