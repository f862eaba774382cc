------------------------------ MODULE EngineKV ------------------------------
(***************************************************************************)
(* The engine as the client of the KV cache manager: admission by the      *)
(* scheduler, chunked prefill, decode, speculative verify, StreamingLLM    *)
(* eviction, finish and cancellation of requests that share a block pool   *)
(* (runtime/scheduler.cpp, engine_scheduler.cpp, engine_spec_ngram.cpp,    *)
(* engine.cpp).  One worker thread runs all of it, so each action is the   *)
(* part of a step that serves one request.                                 *)
(*                                                                         *)
(* data[b] says what the KV entries in block b were computed from: the     *)
(* picture and then every token up to the last entry written.  The KV of a *)
(* position depends on all of them, so this is what reuse must preserve.   *)
(***************************************************************************)
EXTENDS KVCacheManager

CONSTANTS Req,          \* request ids, which are the sequence ids
          Token,        \* tokens a step may sample
          Prompt,       \* Req -> input_tokens
          Picture,      \* Req -> the image of the prompt, 0 = none
          ContentHash,  \* Req -> vision_content_hash, 0 = none reported
          PinKv,        \* requests with pin_kv_prefix
          Unservable,   \* requests whose prompt or image the prefill rejects
          MaxTokens,    \* max_tokens of every request
          Chunk,        \* tokens of a prefill chunk
          MaxDraft,     \* longest draft of a verify step, 0 = speculation off
          Candidates,   \* candidates of a multi-candidate verify, 0 = off
          Streaming,    \* streaming_kv_enabled
          NSinks,       \* streaming_kv_n_sinks, in tokens
          Window,       \* streaming_kv_window, in tokens
          Lossy         \* KV computed while part of the context was evicted

ASSUME EngineAssumption ==
  /\ IsFiniteSet(Req) /\ Hole \notin Req
  /\ \A r \in Req : Prompt[r] # <<>> /\ ContentHash[r] \in {0, Picture[r]}
  /\ PinKv \subseteq Req /\ Unservable \subseteq Req
  /\ Chunk \in Nat \ {0} /\ MaxTokens \in Nat \ {0}
  /\ MaxDraft \in Nat /\ Candidates \in Nat
  /\ NSinks \in Nat \ {0} /\ Window \in Nat \ {0}
  /\ Streaming \in BOOLEAN

VARIABLES kv,     \* the manager
          req,    \* Req -> status, tokens so far, what its KV was computed from
          data    \* Block -> what its entries were computed from

vars == <<kv, req, data>>

Init == /\ kv = InitManager
        /\ req = [r \in Req |-> [status |-> "PENDING", toks |-> Prompt[r], kvc |-> <<Picture[r]>>]]
        /\ data = [b \in Block |-> <<>>]

Active(r)    == req[r].status \in {"PREFILLING", "DECODING"}
Computed(r)  == Len(req[r].kvc) - 1          \* positions whose KV exists
Cacheable(r) == Picture[r] = 0 \/ ContentHash[r] # 0
OutputLen(q, r) == Len(q.toks) - Len(Prompt[r])

-----------------------------------------------------------------------------
\* A forward pass writes the KV of positions from .. n through a block table,
\* n the last position of the content c.  Entries of a block before `from`
\* must be there already for the block to stand for c.
WriteKV(d, table, c, from) ==
  LET n == Len(c) - 1
      Written(i) == table[i] # Hole /\ i * BlockSize >= from /\ (i - 1) * BlockSize < n
      Entry(i, old) ==
        LET new   == SubSeq(c, 1, Min({i * BlockSize, n}) + 1)
            first == Max({from, (i - 1) * BlockSize + 1})
        IN  IF IsPrefix(new, old) THEN old
            ELSE IF first = (i - 1) * BlockSize + 1 \/ IsPrefix(SubSeq(c, 1, first), old) THEN new
            ELSE <<Lossy>>
  IN  [b \in Block |-> IF \E i \in DOMAIN table : table[i] = b /\ Written(i)
                       THEN Entry(CHOOSE i \in DOMAIN table : table[i] = b /\ Written(i), d[b])
                       ELSE d[b]]

\* The entries of free blocks are garbage.
Scrub(d, m) == [b \in Block |-> IF b \in FreeBlocks(m) THEN <<>> ELSE d[b]]

\* The tokens whose KV exists when a request finishes.
AllTokens(toks) == toks
Forwarded(toks) == SubSeq(toks, 1, Len(toks) - 1)

\* finish_request_release_: publish everything that was forwarded (all tokens
\* but the last one sampled), pin the prompt if asked to, free the sequence.
FinishRequestRelease(m, r, toks) ==
  LET m1 == RegisterBlockHashes(m, r, 0, Forwarded(toks))
      m2 == IF r \in PinKv THEN PinPrefix(m1, r, Len(Prompt[r]) \div BlockSize) ELSE m1
  IN  FreeSequence(m2, r)

-----------------------------------------------------------------------------
\* Scheduler::schedule, promotion of one pending request.
Need(r) == Blocks(Len(Prompt[r]))

\* More blocks than the cache has: cancelled up front (KvCapacity).
RejectOversized(r) ==
  /\ req[r].status = "PENDING"
  /\ ~CanAllocate(kv, Need(r))
  /\ Need(r) > Cardinality(Block)
  /\ req' = [req EXCEPT ![r].status = "CANCELLED"]
  /\ UNCHANGED <<kv, data>>

\* Tokens of a prompt whose prefill is skipped after a hit of `reused` blocks.
SkipToLast(reused, total) == IF reused = 0 THEN 0 ELSE total - 1
Skip(reused, total) ==
  LET skip == IF reused * BlockSize >= total THEN (total \div BlockSize) * BlockSize
              ELSE reused * BlockSize
  IN  IF reused = 0 THEN 0 ELSE IF skip >= total THEN total - 1 ELSE skip

PromoteWithPrefix(r) ==
  /\ req[r].status = "PENDING" /\ Cacheable(r)
  /\ CanAllocate(kv, Need(r))
  /\ LET salt == ContentHash[r]
         toks == Prompt[r]
         m1   == TakeHits(kv, r, salt, toks)
         miss == Missing(kv, salt, toks)
         skip == Skip(CachedRun(kv, salt, toks), Len(toks))
     IN  IF CanDraw(m1, miss)
         THEN \E fresh \in Draws(m1, miss) :
                /\ kv' = AllocateBlocksWithPrefix(kv, r, salt, toks, fresh)
                /\ req' = [req EXCEPT ![r].status = "PREFILLING",
                                      ![r].kvc = @ \o SubSeq(toks, 1, skip)]
         ELSE /\ kv' = AllocateBlocksWithPrefixFails(kv, r, salt, toks)
              /\ UNCHANGED req
  /\ data' = Scrub(data, kv')

PromotePlain(r) ==
  /\ req[r].status = "PENDING" /\ ~Cacheable(r)
  /\ CanAllocate(kv, Need(r))
  /\ IF CanDraw(kv, Need(r))
     THEN \E fresh \in Draws(kv, Need(r)) :
            /\ kv' = AllocateBlocks(kv, r, fresh)
            /\ req' = [req EXCEPT ![r].status = "PREFILLING"]
     ELSE kv' = AllocateFails(kv, r, Need(r)) /\ UNCHANGED req
  /\ data' = Scrub(data, kv')

-----------------------------------------------------------------------------
\* A step forwarded r, whose tokens and contents are now those of q, and left
\* the manager in state m.  Any sampled token may satisfy should_stop; a
\* request goes on only below max_tokens.  Every step ends with touch(), of a
\* request that has just finished too.
Continue(r, q, m) == /\ OutputLen(q, r) < MaxTokens
                     /\ kv' = Touch(m, r)
                     /\ req' = [req EXCEPT ![r] = [q EXCEPT !.status = "DECODING"]]

Finish(r, q, m) == /\ OutputLen(q, r) <= MaxTokens
                   /\ kv' = Touch(FinishRequestRelease(m, r, q.toks), r)
                   /\ req' = [req EXCEPT ![r] = [q EXCEPT !.status = "FINISHED"]]

\* step_prefill_one.  All blocks were allocated on admission.  After the last
\* chunk the first token is sampled and the prompt's blocks are published.
PrefillChunk(r) ==
  /\ req[r].status = "PREFILLING"
  /\ r \in Unservable => Computed(r) > 0
  /\ LET from  == Computed(r) + 1
         upto  == Min({Len(Prompt[r]), Computed(r) + Chunk})
         kvc   == req[r].kvc \o SubSeq(Prompt[r], from, upto)
         salt  == ContentHash[r]
         m1    == IF Cacheable(r) THEN RegisterBlockHashes(kv, r, salt, Prompt[r]) ELSE kv
     IN  /\ \/ /\ upto < Len(Prompt[r])
               /\ req' = [req EXCEPT ![r].kvc = kvc]
               /\ kv' = Touch(kv, r)
            \/ /\ upto = Len(Prompt[r])
               /\ \E t \in Token :
                    LET q == [req[r] EXCEPT !.kvc = kvc, !.toks = Append(@, t)]
                    IN  Continue(r, q, m1) \/ Finish(r, q, kv)
         /\ data' = Scrub(WriteKV(data, kv.seq_blocks[r], kvc, from), kv')

\* step_prefill_one cancels a request at its first chunk: the prompt is too long
\* for chunked prefill on this architecture or for the attention workspace, or
\* its image cannot be encoded.
PrefillRejected(r) ==
  /\ req[r].status = "PREFILLING"
  /\ r \in Unservable /\ Computed(r) = 0
  /\ req' = [req EXCEPT ![r].status = "CANCELLED"]
  /\ kv' = Touch(kv, r)
  /\ UNCHANGED data

\* The KV block of the token that is forwarded next, in step_decode.
BlocksShort(m, r) == IF Blocks(Len(req[r].toks)) > Len(m.seq_blocks[r]) THEN 1 ELSE 0

\* KV exhausted at decode: this sequence is cancelled.
ExhaustedLeaks(r, m, d) ==
  /\ kv' = AllocateFails(m, r, BlocksShort(m, r))
  /\ req' = [req EXCEPT ![r].status = "CANCELLED"]
  /\ data' = Scrub(d, kv')
Exhausted(r, m, d) ==
  /\ kv' = FreeSequence(AllocateFails(m, r, BlocksShort(m, r)), r)
  /\ req' = [req EXCEPT ![r].status = "CANCELLED"]
  /\ data' = Scrub(d, kv')

\* StreamingLLM eviction.
Evicted(m, r) ==
  IF Streaming /\ Len(req[r].toks) > NSinks + Window + 2 * BlockSize
  THEN EvictMiddleBlocks(m, r, NSinks, Window) ELSE m

\* step_decode from the manager state m and block contents d: a block for the last
\* token if it needs one, eviction, then the forward of that token.
StepDecode(r, m, d) ==
  LET short == BlocksShort(m, r)
  IN  \/ ~CanDraw(m, short) /\ Exhausted(r, m, d)
      \/ /\ CanDraw(m, short)
         /\ \E fresh \in Draws(m, short), t \in Token :
              LET m1  == Evicted(AppendBlock(m, r, fresh), r)
                  tab == m1.seq_blocks[r]
                  kvc == Append(req[r].kvc, IF Hole \in Range(tab) THEN Lossy ELSE Last(req[r].toks))
                  q   == [req[r] EXCEPT !.kvc = kvc, !.toks = Append(@, t)]
              IN  /\ Continue(r, q, m1) \/ Finish(r, q, m1)
                  /\ data' = Scrub(WriteKV(d, tab, kvc, Len(kvc) - 1), kv')

Decode(r) == req[r].status = "DECODING" /\ StepDecode(r, kv, data)

-----------------------------------------------------------------------------
\* step_spec_verify: forward the last token t0 and a draft, keep the longest
\* part of the draft the model agrees with, emit it and one token more.
\* `emitted` is what is appended to output_tokens.
Draft       == UNION {[1 .. k -> Token] : k \in 1 .. MaxDraft}
Agreed(e)   == SubSeq(e, 1, Len(e) - 1)   \* the matched draft tokens
Emissions(d) == {Append(SubSeq(d, 1, k), t) : k \in 0 .. Len(d), t \in Token}

\* Draft tokens kept.  Emission stops short of a divergence only where it opens
\* a budgeted think block; the last token emitted is then a draft token too.
Matched(d, e) == IF IsPrefix(e, d) THEN Len(e) ELSE Len(e) - 1

\* append_block until the table has `target` blocks.
Growth(r, target) == Max({0, target - Len(kv.seq_blocks[r])})

\* The verify gives up, emits nothing, and the same step falls through to
\* step_decode: the pool ran out, and the growth is rolled back; a buffer, an
\* upload or the workspace fails, and the growth is kept; or a later part fails,
\* before or after the forward wrote the contents c through the table, and the
\* growth is rolled back.
VerifyDeclined(r, target, c) ==
  LET ctx  == Len(req[r].toks)
      grow == Growth(r, target)
      Grown(f)    == AppendBlock(kv, r, f)
      Undone(m)   == Rollback(m, r, ctx - 1)
      Wrote(m)    == WriteKV(data, m.seq_blocks[r], c, ctx)
      After(m, d) == <<Undone(m), Scrub(d, Undone(m))>>
      RolledBack  == UNION {{After(m, data), After(m, Wrote(m))} :
                              m \in {Grown(f) : f \in Draws(kv, grow)}}
  IN  \/ ~CanDraw(kv, grow) /\ StepDecode(r, Undone(AllocateFails(kv, r, grow)), data)
      \/ /\ CanDraw(kv, grow)
         /\ \/ \E f \in Draws(kv, grow) : StepDecode(r, Grown(f), data)
            \/ \E after \in RolledBack : StepDecode(r, after[1], after[2])

\* t0 and the draft d are forwarded through the table itself.
SpecVerify(r) ==
  /\ req[r].status = "DECODING"
  /\ \E d \in Draft :
       LET ctx    == Len(req[r].toks)
           target == Blocks(ctx + Len(d))
           kvc    == Append(req[r].kvc, Last(req[r].toks))
       IN  \/ VerifyDeclined(r, target, kvc \o d)
           \/ /\ CanDraw(kv, Growth(r, target))
              /\ \E fresh \in Draws(kv, Growth(r, target)), e \in Emissions(d) :
                   LET m1 == AppendBlock(kv, r, fresh)
                       q  == [req[r] EXCEPT !.kvc = kvc \o Agreed(e), !.toks = @ \o e]
                   IN  /\ \/ Continue(r, q, Rollback(m1, r, ctx + Matched(d, e)))
                          \/ Finish(r, q, m1)
                       /\ data' = Scrub(WriteKV(data, m1.seq_blocks[r], kvc \o d, ctx), kv')

\* The winner's private blocks are copied over the canonical ones.
NoCopy(d, tab, kvc, ctx)     == d
CopyWinner(d, tab, kvc, ctx) == WriteKV(d, tab, kvc, ctx)

\* Multi-candidate verify: every candidate forwards t0 and its draft through
\* private blocks appended to the table; the winner's are copied over the
\* canonical ones unless the request finished.
SpecVerifyMulti(r) ==
  /\ req[r].status = "DECODING" /\ Candidates > 1
  /\ \E d \in Draft :
       LET ctx    == Len(req[r].toks)
           priv   == (ctx - 1 + Len(d)) \div BlockSize - (ctx - 1) \div BlockSize + 1
           target == Blocks(ctx - 1 + Candidates * (1 + Len(d))) + Candidates * priv
           kvc    == Append(req[r].kvc, Last(req[r].toks))
       IN  \/ VerifyDeclined(r, target, req[r].kvc)   \* nothing canonical is written
           \/ /\ CanDraw(kv, Growth(r, target))
              /\ \E fresh \in Draws(kv, Growth(r, target)), e \in Emissions(d) :
                   LET m1 == AppendBlock(kv, r, fresh)
                       q  == [req[r] EXCEPT !.kvc = kvc \o Agreed(e), !.toks = @ \o e]
                   IN  \/ /\ Continue(r, q, Rollback(m1, r, ctx + Matched(d, e)))
                          /\ data' = Scrub(CopyWinner(data, m1.seq_blocks[r], q.kvc, ctx), kv')
                       \/ /\ Finish(r, q, m1)
                          /\ data' = Scrub(data, kv')

-----------------------------------------------------------------------------
\* BatchingEngine, client cancellation of a running request.
CancelKeepsStatus(r) == /\ Active(r)
                        /\ kv' = FreeSequence(kv, r)
                        /\ data' = Scrub(data, kv')
                        /\ UNCHANGED req
CancelKeepsTable(r) == /\ Active(r)
                       /\ req' = [req EXCEPT ![r].status = "CANCELLED"]
                       /\ UNCHANGED <<kv, data>>
Cancel(r) == /\ Active(r)
             /\ kv' = FreeSequence(kv, r)
             /\ req' = [req EXCEPT ![r].status = "CANCELLED"]
             /\ data' = Scrub(data, kv')

\* quench_context_reset, and the end of a warmup request: free the sequence,
\* then evict_cached_block until it fails.
ContextReset(r) ==
  /\ req[r].status \in {"PREFILLING", "DECODING", "FINISHED"}
  /\ kv' = ReclaimCachedBlocks(FreeSequence(kv, r), Cardinality(Block))
  /\ req' = [req EXCEPT ![r].status = "CANCELLED"]
  /\ data' = Scrub(data, kv')

\* The worker finds nothing it can promote and nothing to run.
Idle == /\ \A r \in Req : ~Active(r)
        /\ \A r \in Req : req[r].status = "PENDING" => ~CanAllocate(kv, Need(r))
        /\ UNCHANGED vars

Next == \/ \E r \in Req : \/ RejectOversized(r) \/ PromoteWithPrefix(r) \/ PromotePlain(r)
                          \/ PrefillChunk(r) \/ PrefillRejected(r) \/ Decode(r)
                          \/ SpecVerify(r) \/ SpecVerifyMulti(r)
                          \/ Cancel(r) \/ ContextReset(r)
        \/ Idle

Spec == Init /\ [][Next]_vars

-----------------------------------------------------------------------------
Status == {"PENDING", "PREFILLING", "DECODING", "FINISHED", "CANCELLED"}

\* Shape of the state; every running request has a block table and is tracked.
TypeOK ==
  /\ \A r \in Req : req[r].status \in Status /\ IsPrefix(Prompt[r], req[r].toks)
  /\ {r \in Req : Active(r)} \subseteq DOMAIN kv.seq_blocks
  /\ DOMAIN kv.seq_blocks \subseteq kv.lru_order /\ kv.lru_order \subseteq Req
  /\ \A r \in DOMAIN kv.seq_blocks : Range(kv.seq_blocks[r]) \subseteq Block \cup {Hole}
  /\ DOMAIN kv.seq_block_hashes \subseteq DOMAIN kv.seq_blocks
  /\ kv.cached \subseteq Block
  /\ Range(kv.block_hash_to_id) \subseteq Block \cup {Hole}
  /\ Pinned(kv) \subseteq Block
  /\ DOMAIN data = Block

\* "Cancellation, client disconnect and error paths stop being special cases:
\* the refs unwind": when a request ends, its block table is gone and its blocks
\* are free or in the prefix cache.  One that the prefill rejects at its first
\* chunk is the exception: step_prefill_one cancels it and frees nothing.
NoTableLeak ==
  \A r \in DOMAIN kv.seq_blocks :
    Active(r) \/ (r \in Unservable /\ req[r].status = "CANCELLED" /\ Computed(r) = 0)

\* "every sequence in lru_order_ is LIVE (free_sequence removes finished ones)".
LruLive == kv.lru_order \subseteq DOMAIN kv.seq_blocks

\* A running request reads, at every position it has computed, KV entries that
\* were computed from its own picture and its own tokens: no eviction, reuse,
\* rollback or speculative write of another request disturbs them.
KvIntegrity ==
  \A r \in Req : Active(r) =>
    \A i \in 1 .. Blocks(Computed(r)) :
      LET b == kv.seq_blocks[r][i]
      IN  b # Hole => IsPrefix(SubSeq(req[r].kvc, 1, Min({i * BlockSize, Computed(r)}) + 1), data[b])

\* "A block is in this map as long as its KV data is valid": every published
\* hash leads to a live block with the KV of exactly the tokens hashed, and of
\* the picture the salt stands for.
CachedContent ==
  \A h \in DOMAIN kv.block_hash_to_id :
    LET b == kv.block_hash_to_id[h]
    IN  b # Hole => RefCount(kv, b) > 0 /\ IsPrefix(h, data[b])

\* The two hash maps are inverse to each other, so evicting a block always
\* unpublishes it and nothing else.  StreamingLLM breaks this: a request that
\* finishes with holes publishes each of them as block -1.
HashMapsInverse ==
  /\ \A b \in DOMAIN kv.block_id_to_hash :
       LET h == kv.block_id_to_hash[b]
       IN  h \in DOMAIN kv.block_hash_to_id /\ kv.block_hash_to_id[h] = b
  /\ \A h \in DOMAIN kv.block_hash_to_id :
       LET b == kv.block_hash_to_id[h]
       IN  b \in DOMAIN kv.block_id_to_hash /\ kv.block_id_to_hash[b] = h

\* StreamingLLM eviction frees blocks that were published and pins others, while
\* holes get published: still every hash that leads to a block leads to one that
\* is held, with the KV of the tokens hashed or KV computed after an eviction,
\* never with that of another request or of none.
NoStalePublication ==
  \A h \in DOMAIN kv.block_hash_to_id :
    LET b == kv.block_hash_to_id[h]
    IN  b # Hole => /\ RefCount(kv, b) > 0
                    /\ IsPrefix(h, data[b]) \/ Lossy \in Range(data[b])

\* Sequences share a block only at the same position of equal prefixes, and no
\* table holds a block twice.
SharedPrefixOnly ==
  \A r, s \in DOMAIN kv.seq_blocks :
    \A i \in DOMAIN kv.seq_blocks[r], j \in DOMAIN kv.seq_blocks[s] :
      (kv.seq_blocks[r][i] = kv.seq_blocks[s][j] /\ kv.seq_blocks[r][i] # Hole /\ <<r, i>> # <<s, j>>) =>
        /\ r # s /\ i = j
        /\ Picture[r] = Picture[s]
        /\ SubSeq(req[r].toks, 1, i * BlockSize) = SubSeq(req[s].toks, 1, i * BlockSize)

\* reclaimable_cached_count_ never drifts from the cached blocks that are not
\* pinned, and the LRU list has each cached block once: an allocation gives up
\* only when nothing is left to reclaim.
CacheAccounting ==
  /\ kv.reclaimable = Cardinality(kv.cached \ Pinned(kv))
  /\ Range(kv.cached_blocks_lru) = kv.cached
  /\ Len(kv.cached_blocks_lru) = Cardinality(kv.cached)

\* The owners in the FIFO are exactly the owners of pins, and a pin budget
\* bounds the number of pinned blocks whatever the owners share.
PinBudgetKept ==
  /\ Range(kv.pin_fifo) = DOMAIN kv.pinned_seq_blocks
  /\ Len(kv.pin_fifo) = Cardinality(DOMAIN kv.pinned_seq_blocks)
  /\ PinBudget > 0 => Cardinality(Pinned(kv)) <= PinBudget

\* "Block IDs that are pinned and must never be evicted or freed": a pinned
\* block is held by a table or by the cache.
PinnedNotFreed == \A b \in Pinned(kv) : RefCount(kv, b) > 0

\* The decode kernels read the sink blocks and every block from
\* floor((ctx_len - window) / block_size) on; StreamingLLM eviction leaves no
\* hole there, whatever the alignment of the context.
WindowIntact ==
  \A r \in Req : req[r].status = "DECODING" =>
    \A i \in 1 .. Blocks(Computed(r)) :
      (i <= Blocks(NSinks) \/ i - 1 >= (Computed(r) - Window) \div BlockSize)
        => kv.seq_blocks[r][i] # Hole
=============================================================================
