----------------------------- MODULE EngineStep -----------------------------
(***************************************************************************)
(* One call of Engine::step() as the server's worker makes it: the         *)
(* scheduler (runtime/scheduler.cpp), the prefill and decode batches, and  *)
(* the decode pipeline that keeps one step in flight on the device         *)
(* (runtime/engine_scheduler.cpp).  The engine has one caller at a time,   *)
(* so a step is an operator from an engine state e to the states it may    *)
(* leave; BatchingEngine holds the state and makes the calls.              *)
(*                                                                         *)
(* KV blocks are counted, not named: EngineKV is about which ones they are *)
(* and what is in them.  Blocks of the prefix cache are reclaimed on       *)
(* demand, so they count as free.                                          *)
(***************************************************************************)
EXTENDS Integers, Sequences, FiniteSets, FiniteSetsExt, SequencesExt

CONSTANTS Req,          \* request ids, which are the sequence ids
          PromptLen,    \* Req -> tokens of the prompt
          MaxTokens,    \* max_tokens of every request
          BlockSize,    \* tokens in a KV block
          TotalBlocks,  \* blocks of the pool
          Chunk,        \* tokens of a prefill chunk
          MaxBatch,     \* max_batch_size_ of the scheduler
          Pipelined     \* runtime.decode_pipeline

ASSUME StepAssumption ==
  /\ IsFiniteSet(Req)
  /\ \A r \in Req : PromptLen[r] \in Nat \ {0}
  /\ {MaxTokens, BlockSize, TotalBlocks, Chunk, MaxBatch} \subseteq Nat \ {0}
  /\ Pipelined \in BOOLEAN

\* The engine after load.
InitEngine ==
  [status   |-> [r \in Req |-> "NEW"],
   out      |-> [r \in Req |-> 0],   \* output_tokens.size()
   offset   |-> [r \in Req |-> 0],   \* prefill_offset
   kv       |-> [r \in Req |-> 0],   \* length of the block table, 0 = none
   pending  |-> {},                  \* Scheduler::pending_
   active   |-> {},                  \* Scheduler::active_
   prefill  |-> {},                  \* sched_prefill_batch_
   decode   |-> {},                  \* sched_decode_batch_
   rows     |-> {},                  \* rows of the step in flight, {} = none
   deferred |-> {}]                  \* bd_pipe_.deferred_release

Over     == {"FINISHED", "CANCELLED"}
Blocks(n) == (n + BlockSize - 1) \div BlockSize
Context(e, r) == PromptLen[r] + e.out[r]
Used(e)  == MapThenSumSet(LAMBDA r : e.kv[r], Req)

SetStatus(e, S, st) == [e EXCEPT !.status = [r \in Req |-> IF r \in S THEN st ELSE @[r]]]
Free(e, S)          == [e EXCEPT !.kv = [r \in Req |-> IF r \in S THEN 0 ELSE @[r]]]

\* The sets of requests in S that may stop on the token sampled now: any may
\* sample a stop token, and max_tokens stops the rest.
StoppingLate(e, S) == {stop \in SUBSET S : \A r \in S \ stop : e.out[r] < MaxTokens}
Stopping(e, S) == {stop \in SUBSET S : \A r \in S \ stop : e.out[r] + 1 < MaxTokens}
Emit(e, S)     == [e EXCEPT !.out = [r \in Req |-> IF r \in S THEN @[r] + 1 ELSE @[r]]]

-----------------------------------------------------------------------------
\* Engine::add_request
AddRequest(e, S) == [SetStatus(e, S, "PENDING") EXCEPT !.pending = @ \cup S]

\* Scheduler::schedule, one pending request.  One that can never fit is
\* cancelled; one that does not fit now stays, and smaller ones are tried.
Promote(e, r) ==
  LET need == Blocks(Context(e, r))
  IN  IF Cardinality(e.active) >= MaxBatch THEN e
      ELSE IF need > TotalBlocks
      THEN [SetStatus(e, {r}, "CANCELLED") EXCEPT !.pending = @ \ {r}]
      ELSE IF Used(e) + need > TotalBlocks THEN e
      ELSE [SetStatus(e, {r}, "PREFILLING") EXCEPT !.pending = @ \ {r},
                                                   !.active  = @ \cup {r},
                                                   !.kv[r]   = need]

\* Pending requests go shortest prompt first, in any order among equals.
ShortestFirst(S) ==
  {ord \in SetToSeqs(S) : \A i, j \in DOMAIN ord : i < j => PromptLen[ord[i]] <= PromptLen[ord[j]]}

\* schedule(): requests that are over leave active_, pending ones are promoted,
\* and the two batches of this step are chosen.  A prompt of which no chunk was
\* run is served only by the call that promotes it.
Scheduled(e) ==
  LET e0 == [e EXCEPT !.active = {r \in @ : e.status[r] \notin Over}]
  IN  {LET e1 == FoldLeft(Promote, e0, ord)
       IN  [e1 EXCEPT !.prefill = (e1.active \ e0.active)
                                  \cup {r \in e1.active : /\ e1.status[r] = "PREFILLING"
                                                          /\ e1.offset[r] \in 1 .. PromptLen[r] - 1},
                      !.decode  = {r \in e1.active : e1.status[r] = "DECODING"}] :
         ord \in ShortestFirst(e.pending)}

-----------------------------------------------------------------------------
\* pipeline_collect_process_: the tokens of the step in flight; those of rows
\* that are no longer DECODING are discarded.  A row that stops is FINISHED at
\* once, its KV is kept for the step that may follow.
InFlight(e) == {r \in e.rows : e.status[r] = "DECODING"}
CollectedRows(e, S) ==
  {[SetStatus(Emit(e, S), stop, "FINISHED") EXCEPT !.deferred = @ \cup stop] : stop \in Stopping(e, S)}
Collected(e) == CollectedRows(e, InFlight(e))

\* No step is in flight any more: pipeline_run_deferred_releases_.
KeepDeferred(e) == [e EXCEPT !.rows = {}, !.deferred = {}]
EndPipeline(e)  == [Free(e, e.deferred) EXCEPT !.rows = {}, !.deferred = {}]

\* The rows S stop in process_outputs: released, unless a chained step is in
\* flight that still writes their next KV slot.
RetireNow(e, S) == Free(e, S)
Retire(e, S)    == IF e.rows = {} THEN Free(e, S) ELSE [e EXCEPT !.deferred = @ \cup S]

\* drain_decode_pipeline, and its exception-path variant.
Drained(e)   == {EndPipeline(e1) : e1 \in Collected(e)}
Abandoned(e) == EndPipeline(e)

\* step_impl_ collects the step in flight before prefill work, and when there is
\* nothing to continue it with.
FlushedOnPrefill(e) == IF e.rows # {} /\ e.prefill # {} THEN Drained(e) ELSE {e}
MustFlush(e) == e.rows # {} /\ (e.prefill # {} \/ e.decode = {})
Flushed(e) == IF MustFlush(e) THEN Drained(e) ELSE {e}

\* step_prefill_one for the requests S: a chunk of each prompt.  The last one
\* samples the first token.
PrefilledRequests(e, S) ==
  LET last == {r \in S : e.offset[r] + Chunk >= PromptLen[r]}
      e1   == [e EXCEPT !.offset = [r \in Req |-> IF r \in S
                                                  THEN Min({@[r] + Chunk, PromptLen[r]}) ELSE @[r]]]
  IN  {Free(SetStatus(SetStatus(Emit(e1, last), last, "DECODING"), stop, "FINISHED"), stop) :
         stop \in Stopping(e, last)}

\* step_prefill serves the whole batch: the promoted requests, shortest prompt
\* first, then the ones whose prompt is partly done.
Prefilled(e) == PrefilledRequests(e, e.prefill)
ServedBefore(e, r, s) == e.offset[r] = 0 /\ (e.offset[s] > 0 \/ PromptLen[r] < PromptLen[s])

-----------------------------------------------------------------------------
\* append_block of step_decode.  A sequence that has no table, or whose block
\* is not to be had, is cancelled.
Grow(e, r) ==
  IF Blocks(Context(e, r)) <= e.kv[r] THEN e
  ELSE IF e.kv[r] > 0 /\ Used(e) < TotalBlocks THEN [e EXCEPT !.kv[r] = @ + 1]
  ELSE SetStatus(Free(e, {r}), {r}, "CANCELLED")

\* pipeline_prebook_kv_: the blocks of the chained step, as far as they go.
Prebook(e, r) ==
  IF Blocks(Context(e, r) + 1) > e.kv[r] /\ Used(e) < TotalBlocks THEN [e EXCEPT !.kv[r] = @ + 1]
  ELSE e

\* pipeline_enqueue_next_ for the rows S.  It may decline before it books blocks
\* or after (the history is full, the graph or a sampler does not launch), and
\* does when a block is missing; what is booked stays booked.
Chained(e, S) ==
  {[e EXCEPT !.rows = {}]}
  \cup IF ~Pipelined \/ Cardinality(S) < 2 THEN {}
       ELSE LET booked == {FoldLeft(Prebook, e, ord) : ord \in SetToSeqs(S)}
                full   == {e1 \in booked : \A r \in S : Blocks(Context(e, r) + 1) <= e1.kv[r]}
            IN  {[e1 EXCEPT !.rows = {}] : e1 \in booked} \cup {[e1 EXCEPT !.rows = S] : e1 \in full}

\* step_decode, per step: the batch the scheduler chose, whatever happened to it
\* since, gets its blocks; the rows that have theirs are forwarded.
Grown(e)    == {FoldLeft(Grow, e, ord) : ord \in SetToSeqs(e.decode)}
Valid(e, g) == {r \in e.decode : g.kv[r] >= Blocks(Context(g, r))}

\* step_decode_process_outputs for the rows S.
HandedOut(e, S) ==
  {Retire(SetStatus(Emit(e, S), stop, "FINISHED"), stop) : stop \in Stopping(e, S)}

\* Forward the batch, chain the next step, hand out the tokens.
DecodedPerStep(e) ==
  UNION {UNION {HandedOut(c, Valid(e, g)) : c \in Chained(g, Valid(e, g))} : g \in Grown(e)}

\* step_decode_pipeline_: chain another step only for the very same batch, collect
\* the one in flight.  A chained step all of whose rows are over is drained.
Continued(e) == IF e.prefill = {} /\ e.decode = e.rows THEN Chained(e, e.rows)
                ELSE {[e EXCEPT !.rows = {}]}

DecodedPipelined(e) ==
  LET After(c) ==
        {IF c.rows = {} THEN EndPipeline(d) ELSE [d EXCEPT !.rows = c.rows] :
           d \in Collected([c EXCEPT !.rows = e.rows])}
      Idle(d) == d.rows # {} /\ \A r \in d.rows : d.status[r] # "DECODING"
  IN  UNION {IF Idle(d) THEN Drained(d) ELSE {d} : d \in UNION {After(c) : c \in Continued(e)}}

Decoded(e) == IF e.decode = {} THEN {e}
              ELSE IF e.rows # {} THEN DecodedPipelined(e) ELSE DecodedPerStep(e)

\* Engine::step()
BeforeDecode(e) == UNION {Prefilled(e2) : e2 \in UNION {Flushed(e1) : e1 \in Scheduled(e)}}
StepResults(e)  == UNION {Decoded(e3) : e3 \in BeforeDecode(e)}

-----------------------------------------------------------------------------
\* The states in which each part of a step may throw: any of its requests have
\* been served, and the step has done nothing after that part.
CollectThrows(e) == UNION {CollectedRows(e, S) : S \in SUBSET InFlight(e)}

PrefillThrows(e) ==
  UNION {PrefilledRequests(e, S) :
           S \in {S \in SUBSET e.prefill :
                    \A s \in S, r \in e.prefill \ S : ~ServedBefore(e, r, s)}}

DecodeThrows(e) ==
  IF e.decode = {} THEN {e}
  ELSE IF e.rows # {} THEN UNION {CollectThrows([c EXCEPT !.rows = e.rows]) : c \in Continued(e)}
  ELSE UNION {{FoldLeft(Grow, e, ord) : ord \in SetToSeqs(S)} : S \in SUBSET e.decode}
       \cup UNION {UNION {UNION {HandedOut(c, S) : S \in SUBSET Valid(e, g)} :
                            c \in Chained(g, Valid(e, g))} : g \in Grown(e)}

ThrowStates(e) ==
  LET flushed == UNION {Flushed(e1) : e1 \in Scheduled(e)}
  IN  UNION {CollectThrows(e1) : e1 \in {e1 \in Scheduled(e) : MustFlush(e1)}}
      \cup UNION {PrefillThrows(e2) : e2 \in flushed}
      \cup UNION {DecodeThrows(e3) : e3 \in BeforeDecode(e)}
=============================================================================
