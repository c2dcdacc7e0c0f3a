# Verification of llm-serving-engine

TLA+ models of the serving engine in `src/src/llm_serving_engine`, the TLC runs
that check them on small instances, and proofs checked by TLAPS that hold for
every instance. Paths below are relative to that directory; the benchmark driver
is `src/scripts/benchmark.py`.

## The system

The engine serves one language model to many clients. A request travels like
this:

```
 HTTP handler (event loop)                              server.py
   |  EngineHandle._engine, read without a lock
   v
 submit -- _ingress_lock --> ingress (SimpleQueue)      engine.py
                               |
          scheduler thread <---+
            drain ingress, Scheduler.scheduler_step     scheduling/scheduler.py
              allocate / free / preempt                 scheduling/allocator.py
            plan --> plan_queue --> GPU worker thread
                                      forward           model/model_runner.py
                                      decode graphs     model/decode_graph.py
            results_queue <-- tokens or an exception
            append tokens, end sequences
            call_soon_threadsafe --> event loop         scheduling/dispatch.py
                                       bounded per-request queue --> stream
                                                 decode_incremental  model/tokenizer.py
```

Around it, the benchmark driver measures it:

```
 benchmark.py: for each arm   launch a server process, wait for /health, warm up
   for each point, repeat     timing loop --> send_request --> the port
                              KvCacheMonitor's thread --> /metrics
                              write the run
   always                     terminate, wait, kill
```

### Components, their state and their operations

| component | state | operations | what is hard | what makes it correct |
|---|---|---|---|---|
| Allocators (`scheduling/allocator.py`) | deque of free block ids, or tokens reserved; a `BlockTable` per sequence | `allocate`, `free`, `can_ever_fit` | blocks wander between one deque and many tables over long histories; rounding at block edges | the deque and the tables partition the pool; a table is as long as its tokens need; a refusal changes nothing |
| Scheduler (`scheduling/scheduler.py`, `sequence.py`, `batch_plan.py`) | `running`, `waiting`, each sequence's status, progress, tokens and skips; the plan being built | `scheduler_step` (decodes, continuations, admissions), preemption, `handle_iteration_results`, `abort` | loops index lists that preemption shortens; a sequence can be preempted and admitted in one step; fairness of admission against preemption | one place per sequence; slots, progress and tokens agree; the plan names only live sequences, once; budget and caps kept; order of `waiting`; every request ends |
| Engine (`engine.py`) | three `SimpleQueue`s, `_accepting`, `_submitted`, `_ended`, `_stop`, `_failed` | `submit`, `close`, `is_idle`, `stop`, the scheduler loop, the worker loop, the crash path | four threads; submission against close; stop against a blocked thread; device loss with requests in every list | an accepted request ends once; nothing is left behind; the worker runs only against state that is not changing; stop stops |
| Token delivery (`scheduling/dispatch.py`, the stream of `server.py`) | a channel per request with a bounded queue | `new_output_channel`, `dispatch_results`, `dispatch_aborted`, `_put_terminal`, the stream and its `finally` | slow or gone clients; callbacks run later, on another thread | tokens in order; the terminal is last and always arrives; only a slow client loses tokens |
| Model runner (`model/model_runner.py`, `paged_batch.py`, `decode_graph.py`, `piecewise_graph.py`) | the KV pool, per-graph copies of block tables, per-sequence buffers | `forward`, `free`, `forget`, replay of a captured graph | stale copies of tables; blocks handed on within a step; padding rows that write | attention reads the sequence's own keys and values; nothing of an ended sequence stays |
| Engine handle (`server.py`) | `_engine`, `_config`, the switch lock, GPU memory | `switch_model`, `submit`, `_release_gpu_memory` | requests read `_engine` without the lock; a load can fail half way, and so can the reload | one model in memory; no request is stopped with its engine; the name served is the model served; every switch returns, unless an engine never drains |
| Load generator (`loadgen/`) | the request counter and result list of a loop, the shuffled schedule, the monitor's readings | open and closed loop, shape schedule, polling monitors | coroutines share a counter across awaits; a poll outlives its monitor and starts after the load | as many requests as asked, of the shapes asked; the count of preemptions is the run's |
| Benchmark driver (`benchmark.py`) | the bench, arm, point and repeat it is in; the server process; results written; benches failed | `_running_server`, `_measure_point`, the bench functions, `main` | a server crashes, hangs, fails to load or to stop; any process on the port answers | no server outlives its arm; results come from the server they are filed under; a bench is complete or reported |
| Tokenizer (`model/tokenizer.py`) | a decode window per request | `decode_incremental`, `forget` | text held back until characters are complete; spaces that depend on what is before; dropped tokens | the events of a stream add up to the text of its tokens |
| Attention kernels (`kernels/flash_attention.py`) | per program: its tile, running maximum, denominator and accumulator | `flash_attention_forward`, `paged_attention_forward` | ragged ends of tiles, the causal bound, rescaling when the maximum rises | each token gets attention over exactly the positions it sees; every row is stored |
| Sampling (`model/sampling.py`) | none | tensor functions | cut-offs | numerical |
| Configuration, observability, web console | records, files | I/O | | |

## Modules

Order of the layers, each using the ones above it:

| module | models | built on |
|---|---|---|
| `KVAllocator` | what the scheduler sees of either allocator: `free`, `held`, `slots` as counts | |
| `BlockAllocator` | the paged allocator with its deque and block tables; `Pool` maps it to `KVAllocator` | `KVAllocator` (by INSTANCE) |
| `Sums` | lemmas about sums, quotients and least elements, for the proofs | |
| `Scheduler` | `scheduler_step`, outcome handling and abort, both batching policies, both allocators | `KVAllocator` |
| `SchedulerProperties`, `MCScheduler` | its properties; request shapes for the runs | `Scheduler` |
| `SchedulerHistory`, `MCSchedulerLive` | the scheduler with a history variable (the sequence admitted last), and what an admission leaves free for the decodes after it | `SchedulerProperties` |
| `SchedulerProofs` | theorems about `Scheduler` | `SchedulerHistory`, `Sums` |
| `Service` | the contract of the engine with its clients: accepted while open, ended once | |
| `Engine` | the threads and queues of `InferenceEngine` around the scheduler | `Scheduler` |
| `EngineProperties`, `MCEngine` | its properties, among them that it implements `Service` | `Engine`, `Service` |
| `EngineProofs` | theorems about `Engine` | `EngineProperties`, `SchedulerProofs` |
| `Dispatch` | delivery of tokens to streams | |
| `DispatchProofs` | theorems about `Dispatch` and `Stream` | `Stream`, `Sums` |
| `Stream`, `MCStream` | the text of a stream: `decode_incremental` on what `Dispatch` delivers | `Dispatch` |
| `ModelRunner`, `MCModelRunner` | keys and values in pool, graph rows and buffers | `BlockAllocator` |
| `ModelRunnerProofs` | theorems about `BlockAllocator` and `ModelRunner` | `ModelRunner`, `Sums` |
| `EngineHandle` | model switches against requests | |
| `EngineHandleProofs` | theorems about `EngineHandle` | `EngineHandle` |
| `FlashAttention` | both attention kernels: grid, tile loops, masks, online softmax | |
| `FlashAttentionProofs` | theorems about `FlashAttention` | `FlashAttention`, `Sums` |
| `LoadGen`, `MCLoadGen` | one load run: timing loops, shape schedule, preemption monitor | |
| `Benchmark`, `MCBenchmark` | the driver: server processes, arms, points, repeats, failures | `LoadGen` |
| `BenchmarkProofs` | theorems about `LoadGen` and `Benchmark` | `Benchmark`, `Sums` |

### Correspondence

`PROJECT.json` maps every definition to its lines. The main lines:

- **Granularity.** `Scheduler` walks the code's loops one turn per action:
  `phase` is the loop, `index` its position, and an iteration passes through
  `drain, decodes, continuations, admissions, rejects, in_flight, results` (or
  `failed`), or ends `blocked`. A preemption in the middle of the decode loop
  is therefore a state that properties see. All of `scheduler_step` runs on one
  thread; the interleavings that matter are between the threads, and `Engine`
  has them: each queue operation, each test of `_stop`, and each critical
  section is a step of its own.
- **Data.** A sequence's tokens are counts. The sampled token is the
  environment's choice, so a token may or may not be a stop token. In
  `ModelRunner` a key/value pair is `<<sequence, token, position>>`: enough to
  tell whose it is and whether it is in the right place.
- **Two allocators, one interface.** No decision of the scheduler depends on
  block ids, so `Scheduler` uses `KVAllocator`; that `BlockAllocator` implements
  it is checked (`ImplementsPool`) and proved (`Refinement`).
- **`Dispatch`** leaves the scheduler thread open: any batch, any set of ends.
  That each sequence ends once is checked in `Engine` (`KeepsContract`).
- **`ModelRunner`** leaves the scheduler's choices open in the same way, and
  makes them with the operations of `BlockAllocator`: its plans grow and free
  real block tables.
- **`Stream`** replaces the vocabulary by four kinds of tokens: a word, whose
  space is dropped at the start of a text, the two halves of a character, and a
  special token without text. A character of the text is named by its token, so
  a repeated, skipped or cut one shows. Windows, the two decodes, the comparison
  of lengths and the test for an incomplete end are the code's.
- **`LoadGen`** counts clients and requests of a shape, which differ in nothing.
  What has no `await` in between is one step (a client claims and sends); a
  task of the open loop starts later than it is created. Of the throughput a closed
  loop reports, `counted` is what decides a sweep: the successes in the steady window,
  which starts later with each result, past any number of those before. The clock is a choice:
  the duration may pass, and a scrape may take longer than the join waits, at
  any time.
- **`Benchmark`** names a server process by the bench and arm that launched it.
  Requests go to a port, and whichever process holds it answers. A process may
  exit at any time, stop late or never when told to, and may fail to load.
- **`EngineHandle`** keeps of each engine whether it accepts, what is
  outstanding, and whether it has been stopped; that an engine which is not
  stopped ends what it accepted is `AcceptedRequestsEnd` of `Engine`.
- **`FlashAttention`** runs one program of the grid after the other and one key
  tile per step. A score is an integer and `exp` stays symbolic: a sum is the
  set of its terms, each with its exponent, so a sum that was not rescaled or a
  key that was not read shows as another set. The block table is an arbitrary
  one-to-one placement (`NoBlockTwice` gives that).
- Definitions with `Mut_` in their name are deliberate faults (a dropped guard,
  a missing reset). They are used by no specification; each shows that a
  property notices the fault.

## Runs

| run | what it asks | instance |
|---|---|---|
| `scheduler_continuous` | are lists, tables, plan and pool consistent through preemption, recomputation, chunking, head skipping and freezing, rejection and failure | 4 requests with prompts of 1 or 7 tokens, 6 blocks of 2, budget 6, cap 3, 1 skip |
| `scheduler_static` | is every slot free or held, a reservation never outgrown, a batch admitted together | as above with whole-lifetime reservations in 18 slots |
| `scheduler_live` | does every request end, is only what outgrows the pool rejected, does nobody give way to a newcomer | 3 requests of three shapes, 5 blocks of 1, budget 8 |
| `scheduler_two_prefills` | **violation**, finding 1 | 2 requests of 7 tokens, 4 blocks of 2 |
| `engine` | do the threads keep the contract and lose nothing, with failures, device loss and a switch | 3 requests, 3 blocks of 1, cap 2 |
| `engine_stop` | **violation**, finding 2 | 2 requests |
| `stream` | order, terminal, loss and end of streams; is the text sent that of the tokens read | 2 requests, 3 tokens, queues of 2, six kinds of generations |
| `model_runner` | do the deque and the tables partition the pool and implement the counting interface; does attention read the sequence's own pairs; is nothing left of an ended sequence | 2 sequences, 3 blocks of 2, graphs for 1 and 2, 4 tokens |
| `engine_handle` | two switches against two requests that read the engine without the lock, over engines that may never end a request | 2 models, 2 switches, 2 requests |
| `flash_attention` | does each token get attention over exactly what it sees, is every row stored | 2 entries, 2 heads on one K/V head, tiles of 2 by 2, contexts up to 5, blocks of 3, every order of scores in {0, 1} |
| `benchmark` | is no server left behind, are results filed under the server they come from, is each bench complete or reported, does only an unanswered request without a timeout hold the driver; does a run send its schedule | 2 benches with 3 arms between them, 2 requests, 2 clients, 2 shapes, 1 repeat, 1 preemption |
| `kv_monitor` | **violation**, finding 3 | 3 requests, 2 clients, 3 shapes, 2 preemptions |

### Bounds and why they are enough

- *Pools* are small enough that two sequences compete for the last block and
  large enough that one fits alone: that is where refusal, preemption, the
  decode reserve and rejection meet. A block of 2 has both an inside and an
  edge.
- *Four requests* are what head skipping needs: one running, a head that does
  not fit, one that passes it, and one that is stopped by the freeze. With
  `MAX_ADMISSION_SKIPS` at 1 the freeze comes after one skip (8 in the code).
- *Budget 6* gives chunks of 3, so a prompt of 7 takes three chunks and can be
  preempted between them, and its first chunk already needs two blocks.
- *`scheduler_live`* has prompts no longer than one chunk. This is the
  condition under which the scheduler is live: `scheduler_two_prefills` shows
  that longer prompts can get stuck.
- *Two slots* in the output queue tell "full" from "holds one"; three tokens
  overrun it.
- *`model_runner`*: two sequences, so that each can take over the other's
  block and graph row; two graphs, so that one can miss what the other saw.
- *`flash_attention`*: a context of 5 takes three key tiles of 2, the last of
  them ragged, so a sum is rescaled twice; blocks of 3 are not aligned with
  tiles; entries of different length leave programs without rows. Two values of
  a score are enough for the maximum to stay, or to rise at any tile.
- *`stream`*: the generations are words, characters at the start, at the end and
  cut short by the end, a second half without its first, and a special token
  between words; queues of 2 drop tokens from any of them. `FastClientLosesNothing`
  needs two slots: with `output_queue_maxsize` 1 the last token and DONE come in
  one callback and the terminal takes the token's place, whatever the client does.
- *`benchmark`*: the second bench has two arms, so that a stray server can meet
  the next launch, the next arm and the next bench, and a bench can fail at its
  first or its second. Its arms are an ablation, with and without a sweep. Two
  shapes and sixteen sizes of a run reach every case of the floors (`FairCounts`).
- `MaxPreemptions`, `MaxTokens`, `MaxContext`, `MaxLength`, `MaxNewTokens` and `MaxReserve` bound counters that
  the code bounds by the request or not at all. Deadlock is not checked where
  the system may stop: all requests ended and none to come, or a thread blocked
  on its queue (whether it may be blocked there is a property of its own).

### Fairness

- `Scheduler!FairSpec`, `SchedulerHistory!HFairSpec`: the scheduler thread takes its
  next step and a forward pass returns. No fairness on arrivals.
- `Engine!EngineFairSpec`: each thread runs when it can (`WF` on the scheduler
  thread, the worker, and the stopper once it has begun). Not on submission, nor
  on beginning a switch, nor on which outcome a pass has.
- `Stream!StreamSpec`, `Dispatch!FairSpec`: the event loop runs callbacks; a stream with something
  to read reads. Not on the scheduler ending anything, nor on disconnection.
- `EngineHandle!FairSpec`: switch threads run. Not on requests being made, and not on
  an engine ending what it accepted: by finding 1 it may never do so. `switch_model`
  drains without a deadline (`server.py:105-106`), so such a switch keeps the lock, and
  the later ones wait for it. `SwitchReturns` says that this is the only way not to
  return. Weak fairness on the acquisition of the lock is enough because no thread
  releases and takes it again.

- `Benchmark!BenchmarkSpec`: the driver's process and its monitor's thread run. A
  request ends if it can time out or its server's process is gone, for the socket
  closes with that. The warm-up and the closed loop set no timeout
  (`loadgen/client.py:100-102`, `benchmark.py:149,192`) and `max_duration_s` cancels
  nothing in flight, so a server that stays up need not answer them, and finding 1
  gives one that does not. `DriverEnds` says that this is all that can hold the driver
  (`AwaitsServer`). Servers are not assumed to load, to stay up, or to stop.

These are what an operating system's thread scheduler and asyncio's ready queue
give. No strong fairness is used.

## Findings

1. **Two prefills can hang each other** (`engine.py:217`,
   `scheduler_two_prefills`). The scheduler thread blocks on the ingress after
   an empty plan since "an empty plan leaves nothing running". A chunk takes at
   most half of the budget, so two long prompts can be PREFILLING together. When
   they have used up the pool between them, neither's next chunk fits;
   continuations preempt nothing and there is no decode that would, so the plan
   is empty with both running. They hang until another request arrives, and
   then still hold the pool.
2. **`stop` can miss the scheduler thread** (`engine.py:203`, `engine_stop`).
   If the thread has tested `_stop` and not yet drained the ingress when `stop`
   runs, the drain takes the waking `None`, the plan is empty and the thread
   blocks on the ingress for good. The join times out, and the thread keeps the
   engine and its memory referenced. `EngineHandle` has this as the join that
   times out (`left_behind`).
3. **The count of preemptions is not exact** (`loadgen/kv_monitor.py:80`,
   `kv_monitor`). The docstring promises that the count over the run is exact.
   The first reading is the polling thread's own, beside a load that has started,
   and comes late when a scrape is slow or fails; preemptions before it are not
   counted. At the end the join waits for half of what a scrape may take, and the
   poll that outlives it can append its older reading after the final one. The
   count never includes another run's (`PreemptionsNotOverstated`).

## Proofs

Proved with TLAPS for all values of the constants that satisfy the modules'
assumptions. `BlockAllocatorAssumption`, `KVAllocatorAssumption`,
`SchedulerAssumption`, `EngineAssumption`, `DispatchAssumption`,
`ModelRunnerAssumption`, `EngineHandleAssumption`, `LoadGenAssumption` and
`BenchmarkAssumption` give the constants their types and say that a pool has blocks
of at least one slot, that `None`, `NoEngine` and `NoSeq` are no requests, engines
or sequences, that a graph is captured for a batch of at least one, and that a
bench has at least one arm and one point, an ablation's first one a closed loop (its
capacity). Beyond them three theorems have a hypothesis of their own:
`HoldingsAreExact` and `IdleEngineIsIdle` that the set of requests is finite (a
sum over an infinite set means nothing), `FastClientsLoseNothing` that the output
queue has two slots (see *Bounds* for why one is not enough).

**`Sums`.** The library's fold over a set is defined by recursion over subsets and
has no theorem without induction over data. A statement about all subsets of one
finite set can still be had: were it false, it would fail on a smallest subset, and
there the step of the recursion contradicts it. So the module shows what a sum is
when one value changes (`SumChange`), that sums are linear (`SumLinear`), that a sum
of ones counts (`SumCounts`), that pieces of given lengths laid end to end neither
overlap nor leave a gap (`PiecesApart`, `PiecesCover`), and, for orders, that `r`
elements have fewer than `r` before them (`FirstOnes`).

**`SchedulerProofs`.** Two inductive invariants, the second on top of the first.

- `IInv` is `TypeOK /\ ProgressBounded /\ SkipsBounded`. `TypeOK` is not
  inductive alone: a chunk is the minimum of a share of the budget and what is
  left of the prompt, and only if `prefill_progress` never exceeds the number of
  tokens (`ProgressBounded`) is that a natural number, so that the budget, the
  slots asked of the allocator and the counts of the plan stay natural numbers.
  Tokens only grow while progress is kept, and a preemption resets progress
  before anything else may read it. `SkipsBounded` follows from the freeze:
  `MoreAdmissions` is false once the head has `MAX_ADMISSION_SKIPS` skips, and
  an `Admit` from behind the head is the only step that adds one, to the head.
- `PlanInv` is `OnePlace`, `SlotsMatchTokens`, `PlanConsistent` and what they
  need. They hold together or not at all: that a sequence has one entry follows
  from where the loop's cursor is in `running`, which has one place per sequence
  only because the plan's sequences are live. `CursorInv` says it for each loop:
  at turn `index` of the decodes the plan has one decode for each DECODING
  sequence before `index` and nothing else; the continuations add chunks of
  sequences they have passed. A preemption takes the tail, at or behind the
  cursor, so it never takes a sequence that has been planned.
  `SequenceHoldings` says what each sequence holds, `AdmittedInv` that only what
  was admitted has progress, `TokensToCome` that what is not ended has a token
  to generate, so that its reservation is not outgrown.

Results: `TypeCorrect`, `PrefillBounded`, `SkipsAreBounded`,
`SequencesAreInOnePlace`, `TablesMatchTokens`, `PlanStaysConsistent`,
`DecodesArePlanned`.

On top of both: `WaitingKeepsItsOrder` needs that what is in `running` has been
admitted, so that a preempted sequence may go in front; `RefusedWouldOutgrowThePool` that tokens never exceed prompt and `max_tokens`, as
`can_ever_fit` is asked again of a sequence that was preempted. `HoldingsAreExact`
adds `PoolTotal`, kept by `SumChange` from every allocation and release. `BatchesFit` bounds prefill tokens by what
has left the budget, and the decodes by the turns taken; `PrefillOf` is a fold
over the plan, and of it too only the step is needed. For
`StaticBatchesStartTogether`, `StaticInv` says that nobody has joined before the
admissions, and that then the cap is 0 because somebody is running or all who run
have just joined.

`AdmissionsCostNobody` is about two iterations. An admission asks
for a free block beyond its own for each sequence that runs before it; `RoomInv` says what becomes of it: until
the decodes are over, the sequence admitted last is the tail of `running`, and the
sequences ahead of it are no more than the blocks still free and the turns already
taken. Neither the iteration's other admissions (each is the last in its turn) nor its
ends (they free, and shorten the list) disturb that, a decode takes one block at most
and is a turn, and so only the tail can be refused one. It then takes itself out.

**`EngineProofs`.** `EngineInv` takes the scheduler's invariants for the points
between the queues. One fact carries it (`WorkInv`): between `PutPlan` and
`Await` the plan is in exactly one place (queued, with the worker, or as a
result), and the scheduler thread waits as long as it is. Hence
`WorkerSeesStableState`, and hence the sequences of a plan in flight are live, so
that none of them has been counted as ended. `SubmittedInv` and `EndedInv` relate
the two counters to the queues; after the loss of the device `QueuesInv` and
`HeldInv` are what is left of the scheduler's invariants, and enough for the abort
of everything to free everything. Results: `EngineKeepsThePlan`,
`WorkerSeesStableState`, `IdleEngineIsIdle` and `EngineKeepsContract`, the
refinement of `Service` step by step.

**`DispatchProofs`.** The first inductive invariant adds to `TypeOK` and
`TerminalIsLast` the types of the callbacks that wait in the event loop
(`CallbacksTyped`), that a terminal on its way is the one its sequence ended
with and no later callback is about that request (`LastCallback`), and that a
request whose terminal has arrived is in no callback (`NoCallbackAfter`).
Without the last two a later callback could put something behind a terminal.
`PutKeepsQueue` is the fact about the two ways of putting: on a queue without a
terminal the result is within the bound and its only terminal is at the end.
`OrderInv` extends the order of what a client has read and has queued
(`SeenInOrder`) to what is in callbacks (`ComingInOrder`): each callback brings
later tokens than everything ahead of it. `FastInv` says where token `n` of a
client that kept up is: read, the only item queued, or in a callback; that is why
its terminal never has to displace it. Results: `TypeCorrect`,
`TerminalsAreLast`, `TokensStayInOrder`, `FastClientsLoseNothing`.

The text of streams follows, for any tokens of the four kinds. `StreamsDeliver`: with
the texts left out, the streams do what `Dispatch` describes, so its invariants hold.
Decoding is a recursive function of the number of tokens read; `DecodingAppend`, that a
token more is a step more, is all the rest needs to know of it. The lemma the argument
turns on is `WindowBehind`: where no character has been begun, decoding a window gives
what decoding all tokens has from there on, except that the window's first glyph may
lack its space. What is kept of every open stream (`Good`) says why that space is
never sent wrong: up to both offsets every character is whole, what was sent is the text
up to `read_offset`, and a window that does not start the text has text of its own
before `read_offset`, so that the glyph in question was sent earlier. `WindowMoves` is
`decode_incremental`, step by step. Result: `StreamsSendWhatDecodingGives`.

**`ModelRunnerProofs`.** First the allocator. Its inductive invariant is
`TypeOK /\ TableLength /\ NoBlockTwice /\ NoBlockLost`. `TableLength` says that
a table has exactly `ceil(num_tokens / block_size)` blocks. It is what makes the
invariant inductive: `needed_blocks` subtracts the table's length from a
rounded token count, and only with `TableLength` is the difference a natural
number, so that the deque is cut inside its domain. `CutInjective` and
`JoinInjective` say what cutting and joining lists without repetitions gives;
`allocate` is a cut followed by a join, `free` a join. Results: `TypeCorrect`,
`BlocksAreExclusive`, `BlocksAreKept`, `TablesCover`, and `Refinement`: the
paged allocator implements the counting interface.

Then the runner, on top of that. `PlacesDiffer` is the
arithmetic of it: quotient and remainder tell a position, and no block is in two
tables, so no two tokens with a slot share a place of the pool. `EntriesInv` relates
the three counts the code keeps of a sequence (`num_tokens` of its table,
`prefill_progress`, its length) in each status, with and without an entry; from it
`StartIsCached`: the position `_flat_rows` gives an entry's first token, and in a
graph `num_tokens - 1`, is where its slots ended. `KeptInv` says how much of each
sequence is in its places: everything with a slot, but what the planned pass is to
compute. Of a sequence whose pass failed it says nothing until its table is freed, and
`FreedInv` that a sequence `free` is still to be called for has no slots but those of
an entry that starts from nothing: it may already be planned again. `PoolAfterPass` is then the pass: it writes the planned positions
(`PlannedIsWritten`), no other (`WrittenOnlyPlanned`), and padding only in the
scratch block. `RowsInv` says of a graph's rows what `RowsAreFresh` does, for each
row; it survives because tables only grow (`AllocateMoves`) until they are freed,
and a freed sequence is dropped from the rows before the next pass. Results:
`AttentionReadsOwnTokens`, `RowsStayFresh`.

**`EngineHandleProofs`.** All rests on `_switch_lock`. `OneInside` says that the
lock's holder is the one thread past `Acquire`; the other parts say what that
thread may rely on at each point of `switch_model`: where the engine it took out
of the handle is (`ServiceInv`), what may be in memory (`MemoryInv`), that an
engine has outstanding exactly what it accepted and did not end, and nothing when
it is stopped (`DrainInv`), and which model it will name (`NamesInv`). Results:
`MemoryHoldsOneModel`, `StopFindsNoRequest`, `HandleNamesWhatItServes`.

**`BenchmarkProofs`.** The driver asks the port, never who holds it. That its
own server does follows from `ServerInv`: only the current arm's process is
alive, and not between arms (`OnlyOwnServer`), so a port that answers is held by
it, nothing else has answered since its launch (`OnlyOwnAnswers`), and what is
written was measured on it. The step that matters is `MoveOnServer`: the driver
goes on only after its process has exited or was killed. `CountInv` says that
during a run every reading, pending or appended, lies between the counter's
value at the start and the one now; for this the counter must not start again
during a run, which `ServerInv` gives. `BooksInv` says what is written of the arm
at hand (all repeats of the points before this one, the repeats before this one
of this one, in the order of the loops), that arms passed are finished or their
bench has failed, and that arms to come have nothing.

Of a run, first what `shape_schedule` computes. Adding up the exact shares
(`SumLinear`) shows that what rounding down leaves, times the weight of all shapes,
is the sum of the remainders (`LeftToHandOut`). Each remainder is less than that
weight, so no more requests are left than there are shapes with a remainder
(`HandedOut`): those who are handed one have a remainder (`RoundedUpType`), so no
share exceeds the next integer, and there are exactly as many of them as requests
left. `FairCounts` follows for every number of requests, not only up to the bound TLC
goes through. `LoadInv` then says that queued, awaited and answered requests of each
shape add up to its count, and that a closed loop with requests left has lost no
client: those idle and those waiting are all of them. That is why a loop that has
returned without being cut short has sent everything. Results:
`NothingIsLeftRunning`, `ResultsAreTheArms`, `NoRunIsOvercharged`,
`ResultsAreComplete`, `SharesAreKept`, `SchedulesAreSent`, and the last two for
`LoadSpec` alone as `RunsKeepToTheirSchedule`.

**`FlashAttentionProofs`.** `KernelInv` says two things. Of a row of the program
that runs (`RowsInv`): its maximum, denominator and accumulator are those of the keys
it has seen so far, every exponent relative to the latest maximum. A step needs that
taking in more keys keeps this (`AbsorbKeys`, the online softmax itself: the old terms,
rescaled, are the terms relative to the new maximum), that a tile's keys are new, and
that position 0 is in the first, so that no row is ever without a key (`SeenGrows`).
When the loop ends, what was seen is what may be seen (`SeenAll`): this is where
`query_offset + q_len <= context_len` is needed. Of the output (`OutputInv`): it has
exactly the rows of the programs that have run, for each row has one program, the
quotients and remainders that its number is made of (`StorerType`, `OwnPieces`), and a
place of its own (`CellsApart`). Result: `KernelsAttendCausally`.

**Only model-checked.** All liveness (`EveryRequestEnds`,
`AcceptedRequestsEnd`, `StreamEnds`, `SwitchReturns` and the other leads-to
properties): liveness under fairness is out of the prover's reach. Every safety
property of the passing runs is also proved.

## Not modelled

- Tensor arithmetic: dot products, rounding and precision in the attention
  kernels, sampling, normalisation, and the self-checks of graph capture. The
  models say which pairs are read and which sequence a token belongs to, not
  what is computed from them.
- Start-up: pool sizing from measured memory, capture of graphs, model loading
  beyond its success or failure.
- Configuration, HTTP routes, JSON, metrics export and the web console: input and
  output.
- Of the load generator and the driver: latencies, percentiles, SLOs, files,
  plots and the GPU monitor; an interrupt (Ctrl-C) in the middle of a teardown; a
  port that something else held before the driver started. Weights are integers,
  the code's are floats. A request that timed out is over for the loop, but its
  sequence may run on in the server beside the next run: `Benchmark` allows
  preemptions at any time for that reason.
- The tokenizer's vocabulary and the chat template.

What the models leave to the environment, and where the code's own words say more:

- `_run_ablation` sweeps an arm if the median of `throughput_req_s` over its repeats is
  above zero, and explains that an arm that "completed nothing has no range to sweep"
  (`benchmark.py:367`). Throughput counts only successes in the steady window, the last
  three quarters of the run (`loadgen/report.py:156-177`), so an arm that completed
  requests, but only early, or in fewer than half of its repeats, is left unswept too,
  and no failure is reported. `Points` models the test as it is, and
  `CompleteOrReported` is relative to it.
- `--max-duration-s` says "stop a load run after this long even if its requests are
  unfinished, so one slow arm can't stall a sweep" (`benchmark.py:491-494`); it stops the
  sending of new requests, and the loop waits for those in flight (see `AwaitsServer`).
- A switch waits for its drain without a deadline (see `SwitchReturns`).

Observed while reading and not turned into runs: `EngineHandle.healthy` reads
`_engine` twice (`server.py:85-86`); a client that disconnects before its
response body starts leaves its channel in the table (`server.py:236`); text
held back as an incomplete character when a generation ends is never sent
(`model/tokenizer.py:45`); a queue of one slot loses the last token of every
request, though `scheduling/dispatch.py:23-24` says only a slow client loses any; a
sequence preempted with only its last token left to generate can be refused by a
pool that holds it, because `can_ever_fit` asks for one slot more than it has tokens
(`scheduling/allocator.py:44`), though `scheduling/batch_plan.py:25` says of what is
rejected that the pool can never hold it. What holds of a rejected request is
`RejectedOutgrowsPool`: the pool does not hold its prompt and all tokens asked for.

## Plan

Done: allocators, scheduler, engine threads, delivery, model runner, engine handle,
attention kernels, load generator, benchmark driver and the text of streams (checked,
and their safety properties proved).

Next: the bucket functions and width rules of the two graph runners, and a capture
that fails.
