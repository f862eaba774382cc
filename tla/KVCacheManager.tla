--------------------------- MODULE KVCacheManager ---------------------------
(***************************************************************************)
(* memory/kv_cache_manager.{h,cpp}: block tables, content-addressed prefix *)
(* cache, pins.  The manager has no lock and one caller at a time, so its  *)
(* methods are operators from a manager state m (a record of its members)  *)
(* to the state they leave.  EngineKV holds the state and makes the calls. *)
(*                                                                         *)
(* A reference to a block is an entry of a block table or of the prefix    *)
(* cache; BlockPoolProofs shows that the pool's counts are exactly these   *)
(* and that the free list is exactly the blocks without one, so both are   *)
(* derived here.  A method that draws fresh blocks takes them as argument. *)
(* A block hash is the token prefix it is computed from, after the salt:   *)
(* collisions of the 64-bit FNV chain are left out.                        *)
(***************************************************************************)
EXTENDS Integers, Sequences, FiniteSets, FiniteSetsExt, SequencesExt

CONSTANTS Block,       \* ids of the pool
          Hole,        \* -1 in a block table
          BlockSize,   \* tokens in a block
          PinBudget    \* pin_budget_blocks_, 0 = unlimited

ASSUME KVAssumption == /\ IsFiniteSet(Block) /\ Block # {}
                       /\ Hole \notin Block
                       /\ BlockSize \in Nat \ {0}
                       /\ PinBudget \in Nat

NoHash == <<>>   \* 0 in seq_block_hashes_: a partial block

\* The manager after construction, prefix caching enabled.
InitManager ==
  [seq_blocks        |-> <<>>,    \* seq id -> block table
   seq_block_hashes  |-> <<>>,    \* seq id -> hash per full block
   lru_order         |-> {},      \* tracked sequences; their order only picks
                                  \* the victim of evict_lru
   block_hash_to_id  |-> <<>>,
   block_id_to_hash  |-> <<>>,
   cached            |-> {},      \* cached_blocks_map_: the cache's references
   cached_blocks_lru |-> <<>>,
   reclaimable       |-> 0,       \* reclaimable_cached_count_
   pinned_seq_blocks |-> <<>>,    \* pin owner -> blocks it pinned
   pin_fifo          |-> <<>>]

CeilDiv(a, b) == (a + b - 1) \div b
Blocks(n)     == CeilDiv(n, BlockSize)        \* blocks that hold n tokens
Without(f, K) == Restrict(f, DOMAIN f \ K)    \* erase the keys K of a map
Put(f, k, v)  == [x \in DOMAIN f \cup {k} |-> IF x = k THEN v ELSE f[x]]
LeastOr(S, d) == IF S = {} THEN d ELSE Min(S)

Table(m, s) == IF s \in DOMAIN m.seq_blocks THEN m.seq_blocks[s] ELSE <<>>

\* BlockPool::ref_count: references in tables plus the cache's own.
RefCount(m, b) ==
  Cardinality(UNION {{s} \X {i \in DOMAIN m.seq_blocks[s] : m.seq_blocks[s][i] = b} :
                        s \in DOMAIN m.seq_blocks})
  + (IF b \in m.cached THEN 1 ELSE 0)

FreeBlocks(m) == {b \in Block : RefCount(m, b) = 0}

\* pinned_blocks_ = keys of pin_refcount_: the blocks some owner pinned.
Pinned(m) == UNION Range(m.pinned_seq_blocks)

\* compute_block_hash, chained over the first b blocks of toks from a salt.
BlockHashUnchained(salt, toks, b) == <<salt>> \o SubSeq(toks, (b - 1) * BlockSize + 1, b * BlockSize)
BlockHash(salt, toks, b) == <<salt>> \o SubSeq(toks, 1, b * BlockSize)

\* Erase the prefix-hash entries of the blocks B, in both maps.
DropHashesOneWay(m, B) ==
  [m EXCEPT !.block_id_to_hash = Without(@, B \cap DOMAIN m.block_id_to_hash)]
DropHashes(m, B) ==
  LET hashed == B \cap DOMAIN m.block_id_to_hash
  IN  [m EXCEPT !.block_hash_to_id = Without(@, {m.block_id_to_hash[b] : b \in hashed}),
                !.block_id_to_hash = Without(@, hashed)]

\* drop_stale_hash_if_last, for blocks whose references are about to drop.
KeepStaleHashes(m, B) == m
DropStaleHashes(m, B) == DropHashes(m, {b \in B \cap Block : RefCount(m, b) = 1})

-----------------------------------------------------------------------------
\* reclaim_cached_block, n times or until reclaimable_cached_count_ is 0.
\* Victims leave from the front of the LRU, with their hashes; pinned blocks
\* met on the way are rotated to its back.
UnpinnedLru(m)   == SelectSeq(m.cached_blocks_lru, LAMBDA b : b \notin Pinned(m))
Reclaimable(m)   == Max({0, Min({m.reclaimable, Len(UnpinnedLru(m))})})

ReclaimCachedBlocks(m, n) ==
  LET lru     == m.cached_blocks_lru
      count   == Min({n, Reclaimable(m)})
      victims == {b \in m.cached \ Pinned(m) : \E i \in 1 .. count : UnpinnedLru(m)[i] = b}
      passed  == LeastOr({i \in 0 .. Len(lru) : victims \subseteq Range(SubSeq(lru, 1, i))}, 0)
  IN  [DropHashes(m, victims) EXCEPT
         !.cached            = @ \ victims,
         !.cached_blocks_lru = SubSeq(lru, passed + 1, Len(lru))
                                 \o SelectSeq(SubSeq(lru, 1, passed), LAMBDA b : b \in Pinned(m)),
         !.reclaimable       = @ - count]

\* The reclaims that allocate_block_ref_with_eviction makes for k blocks: as
\* many as the pool is short of.  A victim that a table still holds does not
\* become free, and the next one is tried.
Reclaim(m, k) ==
  LET Yield(n) == Cardinality(FreeBlocks(m))
                    + Cardinality({i \in 1 .. n : RefCount(m, UnpinnedLru(m)[i]) = 1})
      enough   == {n \in 0 .. Reclaimable(m) : Yield(n) >= k}
  IN  ReclaimCachedBlocks(m, LeastOr(enough, Reclaimable(m)))

\* Are k fresh blocks available once the cache gave what it can?
CanDraw(m, k) == Cardinality(FreeBlocks(Reclaim(m, k))) >= k

\* The fresh blocks a draw of k may return.  The order of the pool's free list
\* is left out: no client depends on which id it gets.
Draws(m, k) == Injection(1 .. k, FreeBlocks(Reclaim(m, k)))

\* allocate_blocks and append_block: `fresh` joins the table of s.
AllocateBlocks(m, s, fresh) ==
  [Reclaim(m, Len(fresh)) EXCEPT !.seq_blocks = Put(@, s, Table(m, s) \o fresh),
                                 !.lru_order  = @ \cup {s}]

AppendBlock(m, s, fresh) ==
  [Reclaim(m, Len(fresh)) EXCEPT !.seq_blocks[s] = @ \o fresh]

\* Either of them failing: the blocks drawn so far are returned, what was
\* reclaimed for them stays reclaimed, and an empty table is erased.
AllocateFails(m, s, k) ==
  [Reclaim(m, k) EXCEPT !.seq_blocks = IF Table(m, s) = <<>> THEN Without(@, {s}) ELSE @]

\* free_sequence: pinned blocks, and hashed blocks of which s has the last
\* reference, move into the prefix cache; the other references drop.
FreeSequence(m, s) ==
  LET Kept(b) == /\ b # Hole
                 /\ b \notin m.cached
                 /\ \/ b \in Pinned(m)
                    \/ RefCount(m, b) = 1 /\ b \in DOMAIN m.block_id_to_hash
      kept    == SelectSeq(m.seq_blocks[s], Kept)
  IN  IF s \notin DOMAIN m.seq_blocks THEN m
      ELSE [m EXCEPT !.seq_blocks        = Without(@, {s}),
                     !.seq_block_hashes  = Without(@, {s}),
                     !.lru_order         = @ \ {s},
                     !.cached            = @ \cup Range(kept),
                     !.cached_blocks_lru = @ \o kept,
                     !.reclaimable       = @ + Cardinality(Range(kept) \ Pinned(m))]

\* can_allocate.  The slow path also counts the tables of live sequences,
\* which no allocation ever evicts.
CanAllocate(m, k) ==
  LET evictable == (m.lru_order \ DOMAIN m.pinned_seq_blocks) \cap DOMAIN m.seq_blocks
  IN  Cardinality(FreeBlocks(m)) + m.reclaimable
        + MapThenSumSet(LAMBDA s : Len(m.seq_blocks[s]), evictable) >= k

-----------------------------------------------------------------------------
\* allocate_blocks_with_prefix, for a sequence without a table.

\* Blocks of toks found in the cache: the longest run from the first block,
\* full blocks only.  An entry whose block is free is stale and ends the run.
Live(m, b) == b \in Block /\ RefCount(m, b) > 0
Hit(m, h)  == h \in DOMAIN m.block_hash_to_id /\ Live(m, m.block_hash_to_id[h])

CachedRun(m, salt, toks) ==
  Max({n \in 0 .. Len(toks) \div BlockSize :
         \A i \in 1 .. n : Hit(m, BlockHash(salt, toks, i))})

\* The first phase: the hits move from the cache, or are shared with the
\* sequences that hold them, and a stale entry met at the end is dropped.
TakeHits(m, s, salt, toks) ==
  LET n     == CachedRun(m, salt, toks)
      hits  == [i \in 1 .. n |-> m.block_hash_to_id[BlockHash(salt, toks, i)]]
      stale == {BlockHash(salt, toks, i) : i \in {n + 1} \cap 1 .. (Len(toks) \div BlockSize)}
                 \cap DOMAIN m.block_hash_to_id
      moved == Range(hits) \cap m.cached
  IN  [m EXCEPT !.seq_blocks        = Put(@, s, hits),
                !.block_hash_to_id  = Without(@, stale),
                !.block_id_to_hash  = Without(@, {m.block_hash_to_id[h] : h \in stale}),
                !.cached            = @ \ moved,
                !.cached_blocks_lru = SelectSeq(@, LAMBDA b : b \notin moved),
                !.reclaimable       = @ - Cardinality(moved \ Pinned(m))]

\* Blocks to draw after the hits.
Missing(m, salt, toks) == Blocks(Len(toks)) - CachedRun(m, salt, toks)

\* The second phase: the remaining blocks are fresh.  Every full block gets
\* its hash; none is published before its KV is computed.
AllocateBlocksWithPrefix(m, s, salt, toks, fresh) ==
  LET m1 == TakeHits(m, s, salt, toks)
  IN  [Reclaim(m1, Len(fresh)) EXCEPT
         !.seq_blocks[s]    = @ \o fresh,
         !.lru_order        = @ \cup {s},
         !.seq_block_hashes =
            Put(@, s, [i \in 1 .. Blocks(Len(toks)) |->
                         IF i * BlockSize <= Len(toks) THEN BlockHash(salt, toks, i) ELSE NoHash])]

\* rollback_partial_allocation when the pool runs out: the hits are released,
\* and those nobody else holds lose their hash and become free.
AllocateBlocksWithPrefixFails(m, s, salt, toks) ==
  LET m1 == Reclaim(TakeHits(m, s, salt, toks), Missing(m, salt, toks))
  IN  [DropStaleHashes(m1, Range(m1.seq_blocks[s])) EXCEPT
         !.seq_blocks       = Without(@, {s}),
         !.seq_block_hashes = Without(@, {s})]

\* register_block_hashes: publish the full blocks of toks under the hashes the
\* sequence already has, or under new ones chained from the last it has.  A
\* hash that is already published keeps its block.
RegisterBlockHashes(m, s, salt, toks) ==
  LET table == m.seq_blocks[s]
      old   == IF s \in DOMAIN m.seq_block_hashes THEN m.seq_block_hashes[s] ELSE <<>>
      full  == Min({Len(table), Len(toks) \div BlockSize})
      Known(i) == {j \in 1 .. Min({i, Len(old)}) : old[j] # NoHash}
      HashAt(i) == IF Known(i) = {} THEN BlockHash(salt, toks, i)
                   ELSE old[Max(Known(i))]
                          \o SubSeq(toks, Max(Known(i)) * BlockSize + 1, i * BlockSize)
      new   == {i \in 1 .. full : HashAt(i) \notin DOMAIN m.block_hash_to_id}
      At(h) == CHOOSE i \in new : HashAt(i) = h
      Of(b) == Max({i \in new : table[i] = b})
  IN  IF s \notin DOMAIN m.seq_blocks THEN m
      ELSE [m EXCEPT
              !.block_hash_to_id = [h \in DOMAIN @ \cup {HashAt(i) : i \in new} |->
                                      IF h \in DOMAIN @ THEN @[h] ELSE table[At(h)]],
              !.block_id_to_hash = [b \in DOMAIN @ \cup {table[i] : i \in new} |->
                                      IF \E i \in new : table[i] = b THEN HashAt(Of(b)) ELSE @[b]],
              !.seq_block_hashes = Put(@, s, [i \in 1 .. Max({full, Len(old)}) |->
                                                IF i <= full THEN HashAt(i) ELSE old[i]])]

-----------------------------------------------------------------------------
\* Cached blocks that lose their last pin between m and m1.
NoneReleased(m, m1) == {}
Released(m, m1)     == m.cached \cap (Pinned(m) \ Pinned(m1))

\* unpin_prefix, for a set of owners.  A cached block nobody pins any more is
\* reclaimable again.
Unpin(m, owners) ==
  LET m1 == [m EXCEPT !.pinned_seq_blocks = Without(@, owners),
                      !.pin_fifo = SelectSeq(@, LAMBDA o : o \notin owners)]
  IN  [m1 EXCEPT !.reclaimable = @ + Cardinality(Released(m, m1))]

\* Blocks a pin may cover under the budget.
WholePrefix(wanted) == wanted
ToPin(wanted)       == IF PinBudget > 0 THEN Min({wanted, PinBudget}) ELSE wanted

\* Cached blocks that get their first pin, and are not reclaimable any more.
NoneWithdrawn(m, m2, owned) == {}
Withdrawn(m, m2, owned)     == (owned \cap m.cached) \ Pinned(m2)

\* pin_prefix: replaces the owner's pins and, under a budget, unpins the
\* oldest owners until the new pin fits.
PinPrefix(m, s, num_blocks) ==
  LET table  == Table(m, s)
      wanted == Min({num_blocks, Len(table)})
      m1     == Unpin(m, {s})
      to_pin == ToPin(wanted)
      Oldest(n) == Range(SubSeq(m1.pin_fifo, 1, n))
      fits   == {n \in 0 .. Len(m1.pin_fifo) :
                   Cardinality(Pinned(Unpin(m1, Oldest(n)))) + to_pin <= PinBudget}
      m2     == IF PinBudget > 0 THEN Unpin(m1, Oldest(LeastOr(fits, Len(m1.pin_fifo)))) ELSE m1
      owned  == {table[i] : i \in 1 .. to_pin} \ {Hole}
  IN  IF wanted <= 0 THEN m
      ELSE IF owned = {} THEN m2
      ELSE [m2 EXCEPT !.pinned_seq_blocks = Put(@, s, owned),
                      !.pin_fifo    = Append(@, s),
                      !.reclaimable = @ - Cardinality(Withdrawn(m, m2, owned))]

\* First block of the window StreamingLLM keeps: one block more than the window
\* fills, because the kernels round the start of their window down.
CeilWindowStart(total, n_window) == Max({0, total - Blocks(n_window)})
WindowStart(total, n_window)     == Max({0, total - Blocks(n_window) - 1})

\* Blocks of a table that lose their hash: the ones evicted, and those after them
\* whose hash chains through an evicted one.
HashesOfWindow(middle, chained) == chained \ middle
BrokenHashes(middle, chained)   == middle \cup chained

\* evict_middle_blocks (StreamingLLM): pin the sink blocks, turn the blocks
\* between sinks and window into holes, unpublish everything after the sinks.
EvictMiddleBlocks(m, s, n_sink, n_window) ==
  LET table     == Table(m, s)
      sink_end  == Blocks(n_sink)
      win_start == WindowStart(Len(table), n_window)
      already   == IF s \in DOMAIN m.pinned_seq_blocks
                   THEN Cardinality(m.pinned_seq_blocks[s]) ELSE 0
      m1        == IF sink_end > already THEN PinPrefix(m, s, sink_end) ELSE m
      hashes    == IF s \in DOMAIN m.seq_block_hashes THEN m.seq_block_hashes[s] ELSE <<>>
      middle    == sink_end + 1 .. win_start
      chained   == sink_end + 1 .. Min({Len(table), Len(hashes)})
  IN  IF sink_end >= win_start THEN m
      ELSE [DropHashes(m1, {table[i] : i \in BrokenHashes(middle, chained)} \ {Hole}) EXCEPT
              !.seq_blocks[s] = [i \in DOMAIN @ |-> IF i \in middle THEN Hole ELSE @[i]],
              !.seq_block_hashes =
                 IF s \notin DOMAIN @ THEN @
                 ELSE Put(@, s, [i \in DOMAIN hashes |-> IF i \in chained THEN NoHash ELSE hashes[i]])]

\* rollback: keep the blocks of the first new_seq_len tokens.
Rollback(m, s, new_seq_len) ==
  LET table == Table(m, s)
      keep  == Min({Len(table), Blocks(new_seq_len)})
      cut   == {table[i] : i \in keep + 1 .. Len(table)}
      m1    == DropStaleHashes(m, cut)
  IN  IF s \notin DOMAIN m.seq_blocks THEN m
      ELSE [m1 EXCEPT
              !.seq_blocks[s] = SubSeq(@, 1, keep),
              !.seq_block_hashes =
                 IF s \notin DOMAIN @ THEN @
                 ELSE Put(@, s, SubSeq(@[s], 1, Min({Len(@[s]), Blocks(new_seq_len)})))]

\* touch: without the order, it only starts to track a sequence, whether that has
\* a block table or not.
Touch(m, s) == [m EXCEPT !.lru_order = @ \cup {s}]
=============================================================================
