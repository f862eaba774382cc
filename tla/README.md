# quench in TLA+

quench is an LLM inference engine with an HTTP server. This directory models the
part of it whose correctness is a matter of *state*: who owns a KV block, what is
in it, when it may be reused, which thread may touch the engine, and whether every
request gets its answer. Kernels, weights and text are abstracted away.

Paths below are relative to the repository root (`src/memory/...`,
`tools/quench-server/...`).

## 1. The system

| part | state | operations | who calls it |
|---|---|---|---|
| `BlockPool` (`memory/block_pool`) | reference counts, free stack | allocate, free, inc/dec_ref, `BlockRef` copy/move/reset/detach | `KVCacheManager`, `PrefixStore` |
| `KVCacheManager` | block tables, hash maps, cached-block LRU, pins with FIFO and budget, sequence LRU, reclaimable count | allocate (with prefix), append, free, rollback, register hashes, evict middle blocks, pin, touch | scheduler, engine step, C API |
| `Scheduler` | pending and active lists | add, schedule (retire, promote, split in prefill and decode) | engine step |
| engine step (`engine_scheduler.cpp`) | statuses, outputs, prefill offset, block release | prefill chunk, decode, cancel on exhaustion | server worker, C API |
| decode pipeline (`engine_scheduler.cpp`) | the step in flight, deferred releases | enter, chain, collect, drain, abandon | engine step, server worker |
| speculative verify (`engine_spec_ngram.cpp`) | none of its own | single and multi-candidate verify, rollback, winner copy | engine step |
| `BatchingEngine` (`tools/quench-server`) | `running_`, `stop_requested_`, `pause_requested_`, `paused_`, pending queue, active list, worker thread | submit, cancel, worker loop, pause, resume, stop, start | HTTP handlers |
| server handlers | `state.mtx` | chat, embeddings, model swap, suspend, shutdown | HTTP clients |

Interactions that matter: one worker thread steps the engine, many handlers submit
and cancel, and one handler at a time (under `state.mtx`) may pause or stop the
worker to use the engine itself. Within a step, requests compete for blocks of one
pool, share prefix blocks by hash, and leave blocks in a cache that later requests
reuse. With the decode pipeline the device may still be writing the KV of a step
while the host already ends the requests in it.

The hard behaviours, each listed with its line under `hazards` in `PROJECT.json`:
cancellation between two reads of an atomic flag; a request that ends while its next
step is in flight; a batch chosen before a drain that ends its members; a condition
variable notified without its mutex; a step that throws halfway; a pause that times
out as the worker parks; eviction of a block that is shared, pinned or published;
rollback of rejected draft tokens; the last, partly filled block of a prefix hit.

## 2. Modules

| module | models | state |
|---|---|---|
| `BlockPool` | pool and RAII handles | `open`, `refcount`, `free_list`, `ref`, `untracked` |
| `BlockPoolProofs` | theorems about it | |
| `KVCacheManager` | every manager operation the engine uses, as operators on a record `m` | none |
| `EngineKV` | the engine as client of the manager: *which* blocks, and what is in them | `kv`, `req`, `data` |
| `EngineStep` | one call of `Engine::step()`: scheduling, batches, pipeline; blocks counted | none (operators on a record `e`) |
| `BatchingEngine` | worker thread, handlers, pause/stop handshake, around `EngineStep` | `worker`, `admin`, `flags`, `woken`, `queue`, `active`, `submitted`, `cancelled`, `notified`, `finish`, `eng` |
| `BatchingEngineProofs` | theorems about it | |
| `MC*` | instances for TLC | |

`KVCacheManager` and `EngineStep` are written as pure operators because the code
calls them from a single thread; the modules with variables decide when they are
called. The two views of the engine divide the work: `EngineKV` has named blocks,
tokens and contents but lets requests interleave freely, one request's share of a
step per action; `EngineStep` has the exact order of a step and the pipeline but
only counts blocks. The composition of the two is planned (section 7).

**BlockPool.** `open`, `refcount` and `free_list` are the members of the class. A
handle is a `BlockRef` object with its id in `ref`; `untracked` counts those taken by plain
`allocate`/`inc_ref`. The guards are the code's: freeing a block whose count is
zero, or an id out of range, does nothing.

**KVCacheManager.** One operator per method. Hashes are modelled as what they are
computed from: a chained block hash is the salt followed by all tokens up to the end
of the block, so equal hashes mean equal prefixes (FNV collisions are not modelled;
the code accepts them too). A reference count is derived: the number of table
entries plus one if the block is cached, which is exactly how the manager takes its
references. Which blocks the pool hands out is not modelled, any free ones may
(`Draws`). Cached blocks are reclaimed in LRU order, as in `evict_cached_block`.

**EngineKV.** `data[b]` is the ghost that makes correctness statable: the picture
and the tokens from which the entries of `b` were computed. A forward pass sets it
(`WriteKV`), a free block loses it (`Scrub`). Writing behind a gap gives `Lossy`,
which equals no content. Actions: `RejectOversized`, `PromoteWithPrefix` and
`PromotePlain` (one request of `Scheduler::schedule`), `PrefillChunk`,
`PrefillRejected`, `Decode` (append, streaming eviction, forward, sample, finish),
`SpecVerify`, `SpecVerifyMulti`, `Cancel`, `ContextReset`. Any sampled token may be
a stop token. Every action ends with the `touch` the code ends with. A verify that
gives up (`VerifyDeclined`) falls through to the decode of the same step, in the three
ways the code has: growth impossible, growth kept, growth rolled back before or after
the forward.

**EngineStep.** `StepResults(e)` is the set of engine states one `step()` may leave:
`Scheduled`, then `Flushed` (drain before prefill, or with an empty decode batch),
`Prefilled`, and `Decoded` through the per-step or the pipelined path.
Nondeterminism: which rows sample a stop token, whether chaining is declined, the
order of equal requests. Cached blocks count as free, as allocation reclaims them, and
a prefix hit, which only starts a prefill further on, is left out. `ThrowStates(e)` is
the set of states an exception may leave: any part of the batch collected, prefilled,
grown, chained or handed out, and nothing after it.

**BatchingEngine.** `worker` is the program point of the thread; an action is the
code between two points where another thread can make a difference. `pause_mutex_`
is modelled by the point `checked`: predicate evaluated, mutex still held, not yet
waiting. `resume()` and `stop()` notify without taking the mutex, so their
notification reaches only a worker that is `blocked`. The two loops over cancelled
requests (`Look`, `FreeCancelled`) are two actions because each reads the atomic
`cancelled` flag afresh. `admin` is the handler that holds `state.mtx`.

## 3. Runs

All passing runs explore their whole state space. Bounds are constants of the
modules or of the configuration.

| run | instance | checks |
|---|---|---|
| `block_pool` | 3 blocks, 3 handles, 2 untracked references | shape, exact counts, free list is exactly the unreferenced blocks |
| `engine_kv` | 4 blocks of 2 tokens, 3 requests: a prompt, an extension of it, one that repeats its first block; 2 requests pin, pin budget 1, drafts of up to 2 | the 8 invariants of the KV cache |
| `engine_kv_streaming` | 6 blocks, StreamingLLM with 1 sink and a window of 2 tokens, 10 tokens of output; a prompt of two blocks, its first block as a prompt, one too long for the pool; 2 requests pin | no hash leads to a freed block or foreign KV while published blocks are evicted, cache counters follow the sink pins, the window stays intact |
| `engine_kv_multi` | 5 blocks, 2 candidates per verify; one prompt the prefill rejects, one with an unhashed picture | running requests read their own KV; no table outlives its request but that of the rejected one |
| `serving` | 4 requests, one with an image that fails and one that may be cancelled, 4 blocks, batch of 2; host exceptions anywhere in a step, pauses with and without time limit, stop and restart | one answer each, tokens before the answer, who may hold blocks, exclusive access |
| `serving_live` | 3 requests, 5 blocks, batch of 3, prompts of 2 lengths, chained decode; pause | every request is answered, every pause succeeds, a step in flight owns its blocks |
| `pinned_freed`, `streaming_publishes`, `finished_cancelled`, `cancelled_runs`, `cancel_race`, `lost_wakeup` | the smallest instance that shows it | section 5 |

Why these bounds: 4 blocks with prompts of 2 or 3 blocks make every allocation
compete, so eviction, failed allocation after hits were taken, exhaustion at decode
and rollback on a full pool all happen; 3 requests are the least that share a block
two ways while a third evicts. A block of 2 tokens has a partly filled state, a
boundary and both sides of it. In `serving`, a batch of 2 leaves the third request pending, so
it can be cancelled there, and promoted later; the fourth is only there for its image. A decode step needs 2 rows to be chained and a third request to
disturb the chain, hence a batch of 3 in `serving_live`. Block names are symmetric
(only `Draws` looks at them, as a set); symmetry is not used with liveness.

Properties, in one line each:

- `RefCountExact`, `FreeListExact`: every count is the number of references; free
  and referenced blocks partition the pool.
- `KvIntegrity`: at every position it has computed, a running request reads KV
  computed from its own picture and tokens, whatever was shared, evicted, rolled
  back or written speculatively.
- `CachedContent`: a published hash leads to a live block with exactly that content.
- `SharedPrefixOnly`: tables share a block only at the same index of equal prefixes.
- `HashMapsInverse`, `CacheAccounting`, `PinBudgetKept`: the redundant structures of
  the manager never drift apart. `HashMapsInverse` is checked without StreamingLLM,
  with which it does not hold (section 5).
- `NoStalePublication`: with StreamingLLM, a hash that leads to a block leads to one
  that is held, with the KV of its tokens or KV computed after an eviction. The second
  alternative is finding 2; the property says that nothing worse is published.
- `NoTableLeak`: when a request ends its table is gone, unless the prefill rejected it
  at its first chunk (section 5).
- `WindowIntact`: eviction leaves no hole where the kernels will read.
- `AnsweredOnce`: an accepted request is queued or active until its one finish event.
- `NothingUndelivered`: the finish event follows all tokens.
- `BlocksAccounted`: the pool is not overcommitted, and blocks are held only for an
  active request that the next step goes on with or for a release that waits for the
  step in flight. Exempt are requests answered before their promotion (finding 4),
  which run, or are stranded, without an owner.
- `InFlightHoldsBlocks`: the device never writes through a table already freed.
- `ExclusiveAccess`: a handler that `pause()` let through is alone with the engine.
- `EveryRequestAnswered`, `PauseSucceeds`: liveness.

Each of them is violated by a plausible change of the code (`mutants` in
`PROJECT.json`); the changed definitions stand before the ones they replace.

**Fairness.** `FairSpec` assumes weak fairness of the worker thread's steps (the OS
schedules the thread, and no step of it waits without a timeout except the wait on
`pause_cv_`, whose action is disabled until it is notified), and of the steps of a handler
that holds `state.mtx` (it returns, and calls `resume()`). Nothing is assumed of
clients: requests may never be submitted or cancelled, pauses never made.

**Deadlock.** It is checked everywhere except in `serving` and `lost_wakeup`: there
`stop()` can lose its wakeup and join a sleeping worker forever, which is finding 6.

## 4. Theorems

`BlockPoolProofs`, for every number of blocks, set of handles and bound:

- `PoolTypeCorrect`: `Spec => []TypeOK`
- `PoolCountsReferences`: `Spec => []RefCountExact`
- `PoolConservesBlocks`: `Spec => []FreeListExact`

`RefCountExact` is not inductive: `dec_ref` pushes a block whose count drops to zero,
and that it was not already on the free stack follows only from the stack holding
exactly the blocks with count zero, once each. `PoolInv` conjoins the three with
`ClosedEmpty` (a closed pool holds nothing, which `open` relies on).

`BatchingEngineProofs`, for every set of requests, pool, batch size and *every*
behaviour of the engine (the operators of `EngineStep` are never expanded):

- `RequestsAnsweredOnce`: `Spec => []AnsweredOnce`. The strengthening `LedgerInv`
  says who waits: queued and active requests, except in the catch block, where the
  active ones have had their answer and are cleared last. It also needs that queue
  and active list are disjoint, that an unsubmitted request has no event, and that
  no worker runs after `stop()` returned.
- `PauseIsExclusive`: if `step()` cannot poison the CUDA context,
  `Spec => []ExclusiveAccess`. `HandshakeInv` adds that `paused_` is true only of a
  parked worker and that a pausing handler's request stands until it resumes. The
  assumption is needed: see section 5.

Assumptions on constants are named in the modules (`PoolAssumption`, `StepAssumption`,
`ServerAssumption`, ...) and evaluated by TLC in the runs.

Only model-checked: all of `KVCacheManager`/`EngineKV`; `BlocksAccounted` and
`InFlightHoldsBlocks`; liveness (out of the prover's reach, as is everything about
what the folds in `EngineStep` compute for all inputs).

## 5. Where the code and its own words differ

Each is a run that TLC ends with a counterexample.

1. `pinned_freed`: `kv_cache_manager.h` says pinned blocks "must never be evicted or
   freed". A prefix hit moves a pinned block from the cache to a table; when the pool
   then runs out, the rollback of the partial allocation drops its only reference.
2. `streaming_publishes`: with StreamingLLM eviction, KV computed while part of the
   context was gone is published under the hash of the full prefix.
3. `finished_cancelled`: the decode batch is chosen before the pipeline is drained. A
   row that finishes in the drain loses its blocks, `append_block` fails on the missing
   table, and the completed request is turned into a cancelled one.
4. `cancelled_runs`: a request cancelled while pending is still promoted and runs.
5. `cancel_race`: the worker drains the pipeline if the first loop sees a cancelled
   request; one cancelled between the loops has its blocks freed under the step in flight.
6. `lost_wakeup`: `resume()` and `stop()` change the flags and notify without
   `pause_mutex_`; between the worker's test and its wait the notification is lost. For
   `resume()` it takes a second `pause()` right after the first, granted on a `paused_`
   that the worker has not yet cleared.

Further deviations that the models state and no run is kept for; each shows with the
constants named:

- `CachedContent`, `Candidates = 2`: a request that finishes inside a multi-candidate
  verify publishes blocks the winner was never copied to.
- `CachedContent`, a picture with `ContentHash` 0: its blocks are published unsalted.
- `NoTableLeak` without its exception, `Unservable # {}`: a request rejected in prefill
  keeps its table.
- `HashMapsInverse`, `Streaming`: a request that finishes with holes publishes them as
  block -1. Several hashes lead to -1, `block_id_to_hash_` keeps one of them, and the
  entries stay until a lookup meets them.
- `BlocksAccounted` without `Stranded`, in `serving`: a request cancelled and answered
  while pending is promoted, and the step throws before its first chunk. It is not in
  `active_requests_`, so the catch block leaves it; `schedule()` takes up a PREFILLING
  request only at `prefill_offset > 0`, so it keeps its blocks and its place in the batch.
- `LruLive`: `touch` after a finish puts the sequence back in the LRU list.
- `ParkedIsDrained`: all rows stop in the step that chained the next one; the worker
  has nothing active and parks with the step in flight.
- `EveryRequestAnswered`, `ExclusiveAccess` with `Faults = {"cuda"}`: the worker leaves
  with `running_` still true, so later requests are accepted and never served, and a
  waiting `pause()` returns true while the worker is still in its catch block.

## 6. Not modelled

FNV collisions; SWA window tables and snapshots; recurrent state and snapshots; MTP
speculation; the asynchronous graph decode and CUDA graph slots; prefix cache on
disk; sampling, stop sequences and think budgets (a token is chosen freely and may
stop); constrained decoding; memory planning; weights, layer offload and suspend to
RAM; model loading, tokenizer, templates; HTTP, JSON and the API dialects; kernels
(a forward pass is its effect on `data`). `components` in `PROJECT.json` gives the
reason for each.

## 7. Plan

Done: `BlockPool`, `KVCacheManager` + `EngineKV`, `EngineStep` + `BatchingEngine`, the
runs above and the theorems of section 4. Next, in this order:

1. `PrefixStore`: save and load of the prefix cache, with a crash between writes; a
   loaded cache satisfies `CachedContent`.
2. `SwaWindow` and `ResidualSlots`: window tables, snapshot ownership.
3. The asynchronous decode loop: ring handshake of device and host.
4. An abstract serving specification (a request is accepted, streams tokens, ends
   once) that `BatchingEngine` refines.
5. Draft sources, stop and think-budget scanning as operators against references.
6. Theorems: `HashMapsInverse` and `CacheAccounting` per manager operation;
   `BlocksAccounted` for `EngineStep`.
