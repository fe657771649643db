# yxTPU pretraining: TLA+ models, checks and proofs

This directory is a verification development for `src/pretraining/src/yxtpu_pretrain`, the
JAX training program of yxTPU. It models the host-side control of a training run: which batch
is trained when, what a checkpoint contains, what a crash costs, and how several hosts stop
together. The numerical content (layers, kernels, losses, optimizers) is abstracted to "an
update by batch number b".

Paths below are relative to `src/pretraining/src/yxtpu_pretrain/`.

## 1. The system

| Part | State it keeps | Operations | Talks to |
|---|---|---|---|
| Data sources, `runtime/data.py` (`SyntheticIterator`, `HuggingFaceIterator`, `GrainIterator`; `StreamingHuggingFaceIterator` = `PackedTokenBatcher` over `_ResilientRecordStream`) | an index; or a stream's epoch, the texts of a tokenizer batch, a token buffer | `next`, `get_state`, `set_state` | called by the host queue's thread or directly by the loop |
| Host-batch queue, `train.py:426-471` (`_PrefetchedIterator`) and `runtime/data.py:715-778` (`PrefetchIterator`) | a thread, a `queue.Queue(maxsize=depth)`, a stored error | the thread puts; `next` gets; state calls go to the source behind the queue's back | between source and loop |
| Training run, `train.py:744-1320` | step, completed steps, staged batch, train state, tokens seen | start-up, loop, final save, close | draws from the iterator, saves through the checkpoint store |
| Checkpoint store, `runtime/checkpoints.py` (`CheckpointIO`) over orbax | a directory of steps, at most one write in flight | `save`, `restore`, `restore_weights`, `latest_step`, `close` | called by the loop; reads `get_state`, calls `set_state` |
| Configuration validation, `config.py` | none | rejects combinations of settings | decides which runs exist |
| Vision and mixed pipeline, `runtime/vision_data.py` | producer threads or processes, a shared queue, a packer's carry | weighted draw, reopen, pack, report an error, `next` with a liveness check | another data source of the loop |
| Supervised fine-tuning, `sft/train.py`, `sft/data.py`, `sft/checkpoint.py` | step per host, drawn batch, record pool, process-0 directories | draw, allgather, train, save | hosts meet in collectives |
| GOLD distillation, `distillation/` | shards of teacher targets on disk | write a shard, read, align | feeds fine-tuning |
| Decoding and harness, `decode.py`, `evaluation/lm_harness.py` | a token buffer, end flags | prefill, step, score | called from the loop and from scripts |
| Optimizers, model, kernels, losses | tensors | numerical | inside the jitted step |
| Metrics and tracking, `runtime/metrics.py` | append-only files | write | nothing reads them back |

What is hard in it, and hard to test:

* A fetch thread is always ahead of the loop. Its failure must arrive after the batches that
  precede it, and the consumer blocks in `get` without a timeout, so the one sentinel must
  arrive. `get_state` and `set_state` bypass the queue while the thread runs.
* The loop stages the next batch while the device computes. A checkpoint stores the iterator's
  position beside the weights, so nothing may be staged where a save can still follow. The
  last step of a token budget is foreseen by a projection that counts masked labels too.
* Saves are asynchronous. A crash, an exception in the loop, a failed write or the end of the
  data can fall between any two steps, and a relaunch continues from whatever was committed.
* The final save must not meet a step that exists already, because orbax refuses it.
* A streaming source fails for hours on end. A host rebuilds its stream under a half-collected
  tokenizer batch, alone, while the other hosts read on.
* Below that, each stream of a producer has a thread that reopens it on every failure, and a packer
  that keeps rows over the end of an example in two places.
* A producer process can be killed anywhere: before a put, with slots taken, with the lock of the
  queue held, in the middle of a write. Nothing of that reports itself.
* On several hosts a shard that ends early must not leave the others waiting in a collective,
  and process 0 replaces a directory that already exists.
* Pretraining hosts save to their own disks and restore their own newest step. A loss between two
  commits leaves them at different steps, and retention may remove the one they share.

`PROJECT.json` lists these hazards one by one, at their lines, with the properties that cover
them.

What makes each component correct:

* queue: it is invisible. The consumer sees the unqueued iterator (order, no loss, error last,
  every call answered), and the run-ahead is bounded.
* training run and store: the weights of an exactly resumable run have seen batches 1, 2, 3, ...
  whatever happened; position and weights in a checkpoint agree; a crash loses a bounded number
  of updates; a leg of an unresumable stream reads it in order; the run ends and its last step
  is saved; a clean run does not fail in its exit path.
* pretraining fleet: whoever is lost, all disks keep a step that all hosts can go back to, and that
  costs no more than a crash of one process; a leg that starts in agreement ends everywhere.
* fine-tuning fleet: nobody is stranded; all stop at the same, right step; one batch at most is
  thrown away; a saved step is never lost while it is saved again.
* row packers: no record is lost, split or packed twice, padding is bounded, and "end of data" is
  said only when there is none.
* streaming text: the batches of a host are the tokens of its documents, each once and in order,
  through every rebuild; hosts never train on the same document; the end of the data costs less
  than a batch; a host gives up only when the budget of one incident is spent.
* source fetcher: the packer gets the rows of a stream in order and an error behind them; failures
  repeat records but skip none; a `get` returns.
* mixed packer: every row is in one place; no example is over budget, or padded while something at
  hand would fit; a kept row is not left waiting; every call ends.
* producer pool: it merges its shards, each in order; an error arrives after the batches before it;
  no slot is lost or freed twice; a producer's death never becomes silence.

## 2. Modules

```
BatchStream          the abstract iterator: next() returns 1, 2, 3, ... and then raises
   ^ implemented by
Prefetch --EXTENDS--> HostQueue      the fetch thread and its bounded queue
TrainRun --EXTENDS--> HostQueue      loop + checkpoint store + crashes, over the same queue
TrainFleet           N such loops, joined by the train step, each with a disk of its own
ShardMerge           the abstract pool: next() returns the next batch of some shard
   ^ implemented by both
ProducerPool                         producer processes, a multiprocessing.Queue, the trainer
SourceFetcher                        one stream, its draw and reopening, its fetch thread
MixedPacker                          rows of several streams into examples, inside a producer
MCTokenStream --EXTENDS--> TokenStream --EXTENDS--> RecordStream
                                     N hosts: shares of a shuffled stream, rebuilds; on top
                                     the tokenizer batches and windows of each host
SftFleet                             N hosts, two kinds of collective, process-0 artefacts
RowPacker                            records into rows into batches, for fine-tuning
TrainRunProofs --EXTENDS--> Prefetch, TrainRun
TrainFleetProofs, TokenStreamProofs, SourceFetcherProofs, MixedPackerProofs, ProducerPoolProofs,
SftFleetProofs, RowPackerProofs, each --EXTENDS--> the module it is about
```

Names ending in the description of a mistake (`PutLossy`, `RestoreWeightsOnly`, `GatherOwn`, ...)
and introduced by "Fault:" are wrong variants of the definition that follows them. No
specification uses them. They are there to show that each property notices the mistake.

**HostQueue.** `position` is the source's index, `worker` and `hand` are the thread's place in
its loop and the entry it holds, `queue` is the `queue.Queue`. `ReadBatch` and `AdvanceIndex`
are the two halves of `next(source)`, which reads the index first and moves it last
(`runtime/data.py:82-92`, `188-196`); `SourceStops` is its raise; `Put` blocks on a full queue;
`Take` is the consumer's `get`. The sentinel, `_END` and `_WorkerFailure` are one entry, `Stop`.
Both classes of the code are this one mechanism. They differ only in whether the error is kept
in the entry or beside it, which is the same thing here because there is one.

**BatchStream / Prefetch.** The consumer calls `next` when it wants (`Ask`) and gets its answer
(`Answer`). It stops for good after a raise, as both loops of the program do.

**TrainRun.** The main thread is `pc`; each action is one stretch of `train.run` between two
points where another actor, a crash or an error can fall:

| `pc` | Action | Code |
|---|---|---|
| down | `Launch` | `train.py:744-757`; the queue's thread starts here, before `restore` |
| restore | `Restore` | `checkpoints.py:166-196`, called at `train.py:823-827` |
| warm | `WarmStart`, `DonorMissing` | `train.py:828-866` |
| first | `FirstFetch`, `FirstFetchRaises` | `train.py:873-874`, outside the `try` |
| head | `BeginStep`, `EndLoop` | `train.py:952-956` |
| fetch, train, stage | `Fetch`, `Train`, `Stage`, `DataEnds` | `train.py:956-990` |
| metrics | `Metrics` | `train.py:991-1135` |
| evaluate, saving | `IntervalSave`, `EndStep` | `train.py:1139-1262` |
| final | `FinalSave`, `FinalSaveRefused` | `train.py:1263-1277` |
| closing, exit | `Close`, `Exit` | `train.py:1281-1320` |

The weights are a record of what made them: where they started (`fresh` or a donor run), the
batches that updated them, and the optimizer's own count of updates. A checkpoint is that record
with the step it is filed under and the iterator's position, or the stub that `save` writes when
`get_state` raises. `Commit` is orbax's background write; `Retained` is `max_to_keep`. `Crash`
can happen at any point, `Raises` wherever the loop body can raise, `SourceFails` in the fetch
thread, `WriteFails` where the main thread waits for a write.

**TrainFleet.** The same loop on N hosts, for what a single process cannot show. A host is its `step`,
its draws and its disk, a set of steps; the weights, the position and the budget are left to
`TrainRun`. `Dispatch` joins the train step, `EndStep` leaves it once every host has joined, and
nothing else is shared: `BeginSave`, `Commit` and `Restore` look at one host's disk
(`checkpoints.py:81-127`). `Fetch` is the draw at its three places, `DataEnds` its raise. `Dies` takes
a process and its unfinished write, `TornDown` the others, as the jax runtime does, and `Relaunch`
starts them all once none is left. `agreed` remembers whether all hosts have restored the same step in
every leg so far: the code does not look. `async` is chosen in `Init`.

**SftFleet.** A collective is its counts: host h leaves its k-th allgather when every host has
joined k, and its s-th train step when every host has joined s. `Draw`, `Gather`, `Train`,
`Leave` are the loop of `sft/train.py:286-410`. `StartWrite`, `EndWrite`, `DropOld`, `Rename`
are the instants of `save_sft_checkpoint` between which process 0 may die. Shards of every size
up to `MaxShard`, and the one step whose loss is not finite, are chosen in `Init`.

**RowPacker.** `StreamingSFTIterator` with `pack_whole` and `MephistoIterator` pack with the same
`_assemble_row` and differ in `_refill`: the first fills its buffer, renders, then drops oversize
records; the second drops them as they come. `iterator` chooses one of the two. A record is its
place in the stream with its size in tokens, 0 for one that a filter or the renderer drops;
`DrawRecord` and `EndRefill` are `_refill`, `Pick`, `StartRefill`, `CloseRow` and `Stops` are
`_assemble_row` inside `next`. Because the pool is refilled in stream order and only when empty,
its first fitting record is the lowest-numbered one, and the pool can be a set.

**RecordStream / TokenStream.** On each of N hosts a `PackedTokenBatcher` (packing "concat") over
a `_ResilientRecordStream`. The Hugging Face dataset is external: an epoch has one order, the
same on all hosts, and a host reads every N-th place of it (`Share`). `Serve` is `next` of the
current iterator. `Rebuild` is a turn of the loop in `_recover`: it moves the host, and only it,
to its next epoch and starts from that epoch's head; `GiveUp` re-raises after the last one. A
rebuild that succeeds returns a record, so `attempt` is reset by `Serve`. The batcher is `phase`:
`Collect` takes one record and keeps or skips it by its partition, `AppendChunk` is one turn of
the loop over the encoded texts, `Emit` cuts a window, and `Exhaust`, `Outage`, `Break` and `Reject`
are the ways an exception leaves `_fill`: the first three from the loop that collects, `Reject` from the
tokenizer or from a token id beyond the vocabulary. Any text may be rejected. A token is its place: token i of the n-th document the
host selected. `append_eos` is on (the default), so no document is empty.

**ShardMerge / ProducerPool.** `stage` is the main thread of a producer (`_producer_main`),
`built` and `sent` count what it has put and what its feeder thread has written. The queue is
`multiprocessing.Queue`, external, modelled by the four facts the code depends on: a bounded
number of slots (`TakeSlot`), a write lock shared by all producers (`Lock`), a write that is under
way until the consumer reads, because a batch of some 40 MB is far larger than a pipe
(`BeginWrite`, `EndWrite`), and a `get` whose timeout covers the wait for the first byte only
(`Poll`, `TimeOut`, `Receive`). `Kill` ends a producer anywhere and gives nothing back. `Check` is
the look at `is_alive` after `queue.Empty`.

**SourceFetcher.** One stream of a producer, its `_draw` and the thread of `_SourceFetcher`. `live`
and `left` are the stream: a generator, so that after a raise it is finished and says
`StopIteration` whenever it is read again. `Serve`, `Exhaust`, `Break` are the three outcomes of
`next` in `_draw`; `Open` with `ReopenRaises` and `RewindRaises` are the two places where the stream
is opened again, of which one is guarded; `Put`, `Report`, `Answer` are the queue. A record is its
place in the shard, and `docs`, chosen in `Init`, says how many rows it yields. The order of a
shuffled shard is the same at each opening, because the seed is.

**MixedPacker.** `_next_example`: `pc` is `main` or `fill` in its two loops and `pack` behind them,
`choice` is the stream whose `get` is under way. `Place` is the body of the main loop, with the row
from one of three places (`TakePending`, `TakePendingFill`, `Receive`), `FillUp` that of the fill
loop. Which stream is drawn, and what size its row has, is any choice: the weights only shift the
odds. The fill loop looks for a kept row first, as the code does; it never finds one, which is part
of the invariant of the proofs.

The parts meet as they do in the program. A row that `Receive` takes is an answer of a
`SourceFetcher`, of which `MixedPacker` uses the contract, `ShardMerge` with one worker: rows in
order, then perhaps a raise. An example that is packed, or the raise, is the `Finish` or `Fail` of a
producer in `ProducerPool`. The `next` of `TokenStream` and of `ProducerPool` is what
the fetch thread of `HostQueue` calls, both are unresumable sources (`Resumable` FALSE in
`TrainRun`), and a raise of either is the `SourceStops` or `SourceFails` there. `RowPacker` is a
source behind the queue of `Prefetch` (`sft/train.py:215` and `:244` wrap it with depth 4), and the
`Draw` of `SftFleet` is the `next` of that queue. What crosses the border is the contract of
`BatchStream`: batches, then a raise.

## 3. Runs

| Run | Instance | What it shows |
|---|---|---|
| `prefetch` | depth 3, 9 batches | `StreamSpec`: the queue implements the unqueued iterator, its obligation to answer included |
| `run_exact` | resumable source, no queue, 6 steps, interval 2, async saves, warm start, token budget 10 with 1 or 2 labels per step, 3 interruptions | `ExactReplay`, `PersistedAgrees`, `BoundedLoss`, `ScheduleInStep`, `NoOverwrite`, `Completes` |
| `run_streaming` | unresumable stream of 4 batches, queue of 2, 5 steps, interval 2, keep 1, synchronous saves, 2 interruptions | `LegReadsInOrder`, `Persists` |
| `train_fleet` | 2 hosts, 7 steps, interval 2, keep 3, sync and async saves, streams of 5 or 7 batches, 2 losses | `CommonStepKept`, `FleetLossBounded`, `EndsTogether`, `LegEnds` |
| `sft_fleet` | 3 hosts, 3 steps, interval 2, shards of 0 to 4, any bad step, 1 death | `NobodyStranded`, `StopsWithTheDriest`, `ArtefactKept`, `Finishes` |
| `row_packer` | rows of 4 tokens, 2 rows a batch, buffers of 2, every stream of up to 5 records of 0 to 5 tokens, limit 4, both iterators | `EveryRecordOnce`, `NeighboursOverfill`, `StopsOnlyWhenDry`, `CallsReturn` |
| `token_stream` | 2 hosts, 4 documents of 1 to 3 tokens, 2 orders per epoch, windows of 3 tokens, tokenizer batches of 2, 2 reservations, budget of 2 rebuilds, 3 failures | `EpochDisjoint`, `WindowsInOrder`, `SelectedOnce`, `TailLoss`, `BudgetPerIncident`, `Finishes` |
| `token_stream_hosts` (violation) | the same with 1 failure | after one host's rebuild two hosts are given the same document |
| `source_fetcher` | 3 records of 0 to 2 rows, a queue of 2, allowance 3, 4 failures, 4 calls | `MergeSpec`: the stream implements `ShardMerge` with one worker; `RowsBeforeError`, `NothingSkipped`, `GetReturns` |
| `source_fetcher_open` (violation) | the same, allowance 6, 3 failures | two failed opens end the thread |
| `mixed_packer` | 1 vision and 1 text stream, 4 rows each of 2, 3 or 6 tokens and 1 or 2 images, examples of 6 tokens and 2 images, slack 1 | `EveryRowKept`, `ExamplesFit`, `PaddedForCause`, `OvertakenByOne`, `ExampleEnds` |
| `producer_pool` | 2 producers, 4 slots, pipe room for 1 complete payload, 5 calls, 2 kills, any failures | `MergeSpec`: the pool implements `ShardMerge`; `SlotsAccounted`, `ReportComesLast`, `NextReturns` |

The type invariants are in no cfg, they are proved for every instance (`TypeCorrect`,
`PrefetchTypeCorrect`, section 5), and so are four invariants besides: `LookaheadBound`,
`DiscardsAtMostOne`, `RowsAreWhole` and `PoolBounded`.

Why the bounds suffice. A queue of depth 3 can be empty, partly filled, full, and full with a
batch in hand, and 9 batches take it through each of these several times; a queue of another
depth has no further kind of state. In `run_exact` six steps hold three interval saves, so a
write can be pending when the next begins and retention (keep 2) drops one. The budget of 10 can
be met exactly, overshot, foreseen by the projection one step too early or not at all (a step
counts 1 or 2 labels against a projection of 2). Three interruptions allow a crash in a leg that
was itself relaunched after a crash. In `run_streaming` the stream is shorter than the run, so
the end of the data is met in every leg, with the queue empty and not. In `train_fleet` seven steps make
four saves, one more than are kept, the last of them the final one; two hosts can be apart by every
number of saves the code allows, and `CommonStepKept` fails with one checkpoint less. Two losses tear a
leg that was itself relaunched. In `sft_fleet` three
hosts are the least with a driest, a middle and a longest shard, and shards go from empty to one
batch more than the limit needs. In `row_packer` a size can be an exact fit, one too long, or any
part of a row; five records fill a buffer twice, so a refill falls inside a row, and they make two
batches with a row left over. In `token_stream` a window of 3 over documents of 1 to 3 tokens is
cut inside a document, between two, and over several; three failures against a budget of two spend
it, or fall into two incidents; the two hosts' documents differ in number once two of the four are
reserved. In
`source_fetcher` a shard of three is left at its head, inside and at its end; four failures exceed
the allowance of three, and split into a failed draw, failed opens and a later incident; a queue of
two is full and empty within one record. In `mixed_packer` rows can fill an example alone, exactly
with others, or leave a gap for text, and end it by tokens or by images; four rows of a stream reach
over three examples, enough for a row to wait longer than it should. In `producer_pool` four slots are the program's default for two producers, five calls
go through all of them and start again, and two kills can take both producers, one of them holding
the lock. `MaxInterruptions`, `MaxFailures`, `MaxShard`, `MaxRecords`, `MaxSize`, `MaxFaults`,
`Asks`, `MaxRows`, `MaxDeaths` and `MaxKills` exist only in the models; everything else is a setting of the program, or
(`Records`, `Size`, `Lengths`, `Room`, `Shard`, `MaxDocs`, `RowSizes`) a fact about its surroundings. The proofs of section 5 need no such bound,
they hold for every value.

Deadlock is checked in the `TrainRun` runs, where a leg that is down can always be launched.
The other modules end (a consumer that has stopped, hosts that have left, a stream at its end), so
the check is off there, and `StreamSpec`, `Finishes`, `LegEnds`, `CallsReturn`, `GetReturns`, `ExampleEnds` and `NextReturns` take its
place.

### Fairness

Weak fairness, and only where the code's scheduling gives it: a running thread runs (`FetchThread`,
`Prefetching`, `Main`), a `get` returns once there is an entry (`Answer`), a write in progress
ends (`Commit`, on each host of `TrainFleet` too), a host's process runs and a collective returns once all hosts are in it
(`Advance`, `Save`), sequential code that was called goes on (`Work`), a read of a stream returns
when it does not fail (`Read`), a stream's fetch thread runs
(`Run`), the packer's thread runs (`Next` of `MixedPacker`), and each producer's main and feeder thread and the trainer's `next`
run (`Produce`, `Feed`, `Consume`). A lock that is free is taken by some feeder, not by a certain one. `Main` includes `Launch`: a supervisor relaunches a run that ended, which is
how the program's resumable runs are operated. Nothing obliges a consumer to ask for a batch.
Crashes, failures and deaths are never fair.

## 4. What the code does otherwise than it says

Two runs end in a counterexample; `PROJECT.json` quotes the lines.

1. `token_stream_hosts`. `runtime/data.py:662-665` and `828-829` say that the streaming source is
   split disjointly over the hosts. `_recover` calls `set_epoch` on the one host whose read failed,
   and the epoch is part of what the shuffle depends on: from then on that host takes its share of
   another order. `EpochDisjoint`, which holds, is what is left of the promise.
2. `source_fetcher_open`. The docstring at `runtime/vision_data.py:460-461` says that only six
   consecutive failures raise. The open at line 468 has no guard, and a stream that could not be
   reopened gets there at its next read: two failed opens in a row end the thread and the run.

Seven more have no run of their own. Each is the exact difference between what the text says and what
is checked or proved, so the exception in the property, the setting in the cfg or the hypothesis of
the theorem names it:

* The comment at `train.py:937-941` says that persisted and consumed positions always agree.
  `config.py:708-717` rejects `experiment.prefetch_batches > 1` with exact checkpoints for that reason,
  but accepts `data.prefetch_batches` with a resumable source, whose `PrefetchIterator` has the same
  look-ahead. `PersistedAgrees` is checked with `Depth = 0`, and proved under `Exact`.
* `checkpoints.py:95-101` says of the local disks of several hosts that "single-process semantics are
  exact". They are for each host. After a loss between two commits each restores its own newest step,
  and nothing compares them: the hosts go on with different weights. The properties of `TrainFleet`
  hold while `agreed` does, and say what an operator can go back to.
* A finished run whose last step is no multiple of the interval, launched again with resume, meets its
  own checkpoint in the final save: the guard described at `train.py:1263-1267` knows interval saves
  only. `NoOverwrite` is checked with 6 steps and interval 2, and proved under `Aligned`.
* `sft/data.py:334-335` says `_assemble_row` returns None "once the stream and pool are dry". With
  `--pack-whole` and no `--max-render-tokens` (its default) one record longer than a row stays in the
  pool, blocks every refill, and ends fine-tuning on all hosts. `StopsOnlyWhenDry` is checked with
  `Limited = TRUE`, and proved under `EveryRecordFits`.
* The comment at `runtime/vision_data.py:1008-1012` lists the deaths that the liveness check is for. The
  check runs on `queue.Empty`; a producer killed while it writes has left bytes, so `get` passes its
  poll and waits for the rest without a timeout. `NextReturns` excepts exactly this state, `Torn`.
* `runtime/vision_data.py:770` says that each row is seen once per epoch per shard. A reopened stream
  starts again at the head of its shard. `NothingSkipped` is what is left: repeated, not passed over.
* `runtime/data.py:764-765` says that the persisted position runs "up to depth batches ahead"; with the
  batch that the blocked thread holds it is depth + 1, which `LookaheadBound` states.

## 5. Proofs

All are checked by TLAPS for every value of the constants that satisfies the named assumptions
(`HostQueueAssumption`, `TrainRunAssumption`, `TrainFleetAssumption`, `RecordStreamAssumption`,
`TokenStreamAssumption`, `SourceFetcherAssumption`, `MixedPackerAssumption`,
`ProducerPoolAssumption`, `SftFleetAssumption`, `RowPackerAssumption`).
Every invariant that a passing run checks is proved, and the three refinements (of `BatchStream` its
safety part). Where an invariant is not inductive as it stands, its strengthening is defined in the
proof module, in named parts, and TLC found it to hold on the run's instance before it was proved.

* **TrainRunProofs**, the queue alone: lemmas on what `Put` and `Take` do to it, then
  `PrefetchTypeCorrect`, `BoundedLookahead`, `PrefetchImplementsStream` (the safety
  part of the refinement), for every depth from 1 on, which is when the code has a queue at all
  (`PrefetchInit`). That `delivered` is the right sequence is not inductive by itself;
  `Sequencing` adds what the queue holds (`QueueContents`: the batches that follow the delivered
  ones, then `Stop`) and what the thread's entry is (`HandFollows`).
* **TrainRunProofs**, the run: `TypeCorrect`; `ReplaysExactly` and `PositionsPersistExactly`, for
  configurations with a resumable source and no queue (`Exact`); `NeverOverwrites`, for runs whose
  last step is a multiple of the interval (`Aligned`). The first two rest on `Replay`: every
  checkpoint is good, and a staged batch exists only where no save of this leg can come before it
  is trained. That last part, `Staging`, is the content of the comment at `train.py:935-941`; it
  needs `TokenCounts \subseteq 0 .. TokensPerStep`, the fact that masking can only lower the
  count. `NeverOverwrites` rests on `SavedSteps`. A finished run that is launched again (section 4) is the
  reason for its hypothesis, a source behind `data.prefetch_batches`
  (the same section) for `Depth = 0` in `Exact`.
  Then, for every configuration: `ScheduleStaysInStep`, from `Scheduled`
  (in weights and checkpoints alike the update count, the number of trained batches and the step
  are one number). `LossIsBounded`, from `Trail`: every multiple of the interval up to the last save
  that was due is covered by a committed checkpoint or by the one in flight, and all but the last
  by a committed one; retention never drops the newest, because `Keep` is at least 1. `LegReads`
  for unresumable sources, from `Leg`: the queue holds the batches that follow those the leg has
  taken, whatever the thread is doing.
* **TrainFleetProofs**: `TypeCorrect`, `CommonStepIsKept`, `FleetLossIsBounded`, `FleetEndsTogether`, for
  any number of hosts, interval, lengths and losses. All from `FleetInv`. A leg that all hosts began at
  one step `b` has no variable for `b`, so the invariant says that there is one, and that a host's `Place`,
  `b` and the train steps it has joined since, says which step it is in, gone or not (`Phase`); nobody
  has finished, written or begun to write a step that some host has not joined (`Lockstep`). From there
  the disks follow: every save that was due is on the disk, but for the one in flight (`Pending`,
  `Lag`), and retention has dropped a step only when every host has a newer one (`Kept`). `Kept` is where
  more checkpoints must be kept than a host can be ahead; one less, and TLC finds the loss that
  leaves the fleet with no step in common. `FirstLeg` carries the second half of `EndsTogether`: `drawn`
  and `joined` differ by the staged batch alone, so a leg draws no more than it trains.
* **TokenStreamProofs**: `EpochsAreDisjoint` (places congruent to different ranks differ, and an
  order is injective), `WindowsFollowTheStream`, `SelectsEachOnce`, `TailIsSmall`,
  `GivesUpAfterBudget`, for any number of hosts and documents.
* **SourceFetcherProofs**: `TypeCorrect`; `ErrorsComeLast` and `FetcherImplementsMerge`, from `Flow`
  (the queue holds the rows that follow the last one got, and the sentinel only at its end);
  `SkipsNothing`, from `Prefix` (what this opening has given was given before, or continues it).
* **MixedPackerProofs**: every step is one of nine moves (`StepsAreMoves`): a row comes from a slot or
  is new, and goes into the example or a slot. `TypeCorrect` and `PaddingHasACause` rest on `Shape`
  (what each loop knows: a kept row enters an empty example, so it always fits, so the fill loop
  starts with an empty slot of its own); `RowsAreKept` on `Places`, which counts names by sets;
  `KeptRowsComeNext` on `Order` (only the last example holds rows younger than those in hand, and a
  row in the fill slot is the youngest of its stream); `ExamplesAreInBudget` on `Counted`, a
  recursive sum again, by a least place where two sums differ.
* **ProducerPoolProofs**: `TypeCorrect`, `SlotsAreAccounted`, `ReportsComeLast`, `PoolImplementsMerge`. The
  invariant orders, per producer, what the trainer returned, what is in the pipe, what is sent and
  what is built; that the pipe holds each producer's next numbers in order makes every receive a
  `Deliver` of the abstract pool.
* **SftFleetProofs**: `TypeCorrect`, `NoHostStranded`, `StopsTogether`, `AtMostOneDiscarded`, from
  `Lockstep` (each host's allgathers, steps and drawn batches keep pace, and nobody has trained a
  step some host had no batch for), and `ArtefactsKept` from `SaveProgress`.
* **RowPackerProofs**: `TypeCorrect`; `PacksEachRecordOnce`, `PadsLessThanHalf`, `PoolStaysSmall`;
  and `EndsWhenDry` under `EveryRecordFits` (a token limit no longer than a row), which the
  record of section 4 that is longer than a row shows to be needed. All rest on `Places` (the sets a record can be in are disjoint, `exhausted`
  means dry). Padding needs `LastRow` besides: whatever can still join the row under way does not
  fit beside the row closed before it. `PacksWholeRecords` is about a recursive sum. It needs an
  induction, and gets it without an induction rule: if two counts of the same records differed, they
  would differ at a least place (`LeastNumber`, from the well-foundedness of inclusion on finite
  sets), and they cannot.

* **What stands behind the liveness properties.** ENABLED and the passage to `<>` under fairness are
  out of the prover's reach; what a proof by hand would rest on is proved. Each theorem below says that
  while the property still waits for something, some guard of a fair action holds, and that every
  step then comes nearer in an order that cannot descend for ever (a number, or numbers compared in
  turn). The guards are written out; TLC confirmed on the runs' instances that they agree with ENABLED.

  | Property | Theorem | What is proved |
  |---|---|---|
  | `Finishes` (SftFleet) | `NeverAllWaiting`, `EveryStepCounts` | while no host is lost, all have left or some host can go on, so hosts in a collective never wait for each other; each step is counted against a fixed total |
  | `LegEnds` | `NeverAllWaiting`, `EveryStepCounts` of TrainFleetProofs | the same of a fleet's leg that began at one step, with its saves, while no host is down; with `LongEnough` data and no death no host is, as `FleetEndsTogether` proves for a first leg |
  | `Completes`, `Persists` | `EveryLegEnds` | one leg: it can always go on, its queue and its write in flight included, and each step of the main thread leaves less to go |
  | `StreamSpec`, its fairness | `CallsAreAnswered` | a call waits only while the fetch thread can go on, and at most three of its steps |
  | `Finishes` (TokenStream) | `HostsEnd` | no host is without a step; each one serves a place, uses up a text, shortens the buffer, costs an epoch or is the last |
  | `GetReturns` | `GetsEnd` | a get waits only for a thread that is still fetching, and for finitely many steps |
  | `ExampleEnds` | `ExamplesEnd` | the loops that fill an example never stop short and never repeat |
  | `CallsReturn` | `CallsEnd` | the same of the record packer's calls |
  | `NextReturns` | `AnswersCome` | while no answer is due a producer or feeder can go on, with bounded work; one that is due comes within three steps. The writes that end half-way (`Torn`) are the exception the property makes too |

  `ProducerPoolAssumption` says that there is a producer, as `vision_data.py:984-985` requires (without
  one a call would wait for ever), and `TrainRunAssumption` that a batch has some token count.

Model-checked only: the liveness properties themselves (the table's first column), since the step from
these facts to the temporal formula is fairness; and of `Completes` and `Persists` the progress from leg
to leg, which is the assumption that faults run out and the saves that the legs leave behind.

## 6. Not modelled

* `checkpoint.enabled = false` and `resume = false`: the first has no state to get wrong, the
  second depends on how orbax treats steps it considers past, and orbax is not in the repository.
* Of pretraining on several hosts: shared (`gs://`) checkpoints, which orbax commits with barriers of
  its own; evaluation and the gathering of host statistics, further collectives at fixed steps; data
  that cannot be resumed is a length, so which documents a relaunched fleet repeats is not told.
* Two queues in a row (`experiment.prefetch_batches` in front of `data.prefetch_batches`): by the
  refinement proved for one, each is invisible to what is in front of it, but the position can then
  run ahead by both depths.
* Packing "rows" of `PackedTokenBatcher` (it carries one row from batch to batch as `RowPacker`
  carries a pool), `append_eos` off, the retries of `open_streaming_dataset` (before the first
  batch, a failure there ends the start-up), the dense mode of `StreamingSFTIterator`.
* Inside a producer: what a row contains (rendering, tokenizing, images), the counters, and the draw
  on the packer's own thread (`row_buffer` 0, the same `_draw` without a queue). The retries and the
  backoff of an open are part of whether it succeeds. The pool of producer threads is the loop of the
  process pool with no deaths. Nothing calls the `close` of a pool.
* The GOLD store: written once by an offline script, then looked up by content hash.
* Decoding, the harness, start-up of fine-tuning: sequential code around numerical steps.
* Evaluation, diagnostics, harness, profiling: one step of `TrainRun` that may raise.
* Model, layers, kernels, losses, optimizers, sampling: tensor programs without control state.
* Metrics and Weights & Biases: output only.
* `post_training/` and `results/` hold reports, `maxtext/` is vendored, `benchmarks/` are scripts.

## 7. What could come next

In this order, by what it would settle:

1. Packing "rows" and the dense fine-tuning mode, with `RowPacker`'s properties restated for a row
   that is carried from batch to batch.
2. The GOLD store: a second precompute under the same prefix that is stopped half-way.
3. The progress over legs behind `Persists`, as an order on checkpoints that `EveryLegEnds` descends in.
