------------------------------ MODULE BlockPool ------------------------------
(***************************************************************************)
(* The pool of KV block ids and the move-only RAII reference BlockRef      *)
(* (memory/block_pool.h, block_pool.cpp).  A BlockRef object is a handle;  *)
(* ref[h] is the id it holds.  Every method takes the pool's mutex, so     *)
(* each is one atomic action and any thread may take the next one.         *)
(***************************************************************************)
EXTENDS Integers, Sequences, FiniteSets

CONSTANTS NumBlocks,     \* num_blocks_
          Handles,       \* the BlockRef objects of the owner
          MaxUntracked   \* bound on the untracked references of one block

ASSUME PoolAssumption == /\ NumBlocks \in Nat \ {0}
                         /\ IsFiniteSet(Handles)
                         /\ MaxUntracked \in Nat

NoBlock == -1
Blocks  == 0 .. NumBlocks - 1

VARIABLES open,        \* open_
          refcount,    \* refcount_; all 0 while the pool is closed
          free_list,   \* free_list_; the back is handed out next
          ref,         \* id_ of every BlockRef object
          untracked    \* references held as bare ids through the raw API

vars == <<open, refcount, free_list, ref, untracked>>

NoRefs == [b \in Blocks |-> 0]

Init == /\ open = FALSE
        /\ refcount = NoRefs
        /\ free_list = <<>>
        /\ ref = [h \in Handles |-> NoBlock]
        /\ untracked = NoRefs

-----------------------------------------------------------------------------
\* init_slots_: descending, so that the first acquire hands out block 0.
InitSlots == [i \in 1 .. NumBlocks |-> NumBlocks - i]

\* open / open_slots.  The owner (KVCache) opens a pool in its constructor,
\* before any BlockRef of it exists.
Open == /\ ~open
        /\ \A h \in Handles : ref[h] = NoBlock
        /\ open' = TRUE
        /\ refcount' = NoRefs
        /\ free_list' = InitSlots
        /\ UNCHANGED <<ref, untracked>>

\* close in a release build (outstanding references are only logged) and
\* abandon.  BlockRef objects that outlive the pool keep their dead id.
Close == /\ open
         /\ open' = FALSE
         /\ refcount' = NoRefs
         /\ free_list' = <<>>
         /\ untracked' = NoRefs
         /\ UNCHANGED ref

\* acquire: the new BlockRef is h.  Returns an empty one when exhausted.
Acquire(h) ==
    /\ ref[h] = NoBlock
    /\ free_list # <<>>
    /\ LET id == free_list[Len(free_list)]
       IN  /\ ref' = [ref EXCEPT ![h] = id]
           /\ refcount' = [refcount EXCEPT ![id] = 1]
           /\ free_list' = SubSeq(free_list, 1, Len(free_list) - 1)
    /\ UNCHANGED <<open, untracked>>

\* inc_ref_: ignores an id outside the (open) pool.
IncRef(id) == refcount' = IF open THEN [refcount EXCEPT ![id] = @ + 1] ELSE refcount

\* Mutated forms of the definitions that follow.
DecRefUnchecked(id) ==
    /\ refcount' = [refcount EXCEPT ![id] = @ - 1]
    /\ free_list' = IF refcount[id] = 1 THEN Append(free_list, id) ELSE free_list
DecRefFreesEarly(id) ==
    /\ refcount' = IF open /\ refcount[id] > 0 THEN [refcount EXCEPT ![id] = @ - 1] ELSE refcount
    /\ free_list' = IF open /\ refcount[id] > 0 THEN Append(free_list, id) ELSE free_list

\* dec_ref_impl_: ignores an id outside the pool and a block already free.
DecRef(id) ==
    LET live == open /\ refcount[id] > 0
        last == live /\ refcount[id] = 1
    IN  /\ refcount' = IF live THEN [refcount EXCEPT ![id] = @ - 1] ELSE refcount
        /\ free_list' = IF last THEN Append(free_list, id) ELSE free_list

\* BlockRef::share: h becomes a second reference to g's block.
Share(h, g) ==
    /\ ref[h] = NoBlock
    /\ ref[g] # NoBlock
    /\ IncRef(ref[g])
    /\ ref' = [ref EXCEPT ![h] = ref[g]]
    /\ UNCHANGED <<open, free_list, untracked>>

\* share_by_id: an empty BlockRef when the block is free or the pool closed.
ShareById(h, id) ==
    /\ ref[h] = NoBlock
    /\ refcount[id] > 0
    /\ IncRef(id)
    /\ ref' = [ref EXCEPT ![h] = id]
    /\ UNCHANGED <<open, free_list, untracked>>

\* BlockRef::reset, and its destructor.
Reset(h) ==
    /\ ref[h] # NoBlock
    /\ DecRef(ref[h])
    /\ ref' = [ref EXCEPT ![h] = NoBlock]
    /\ UNCHANGED <<open, untracked>>

\* Mutated form of Move: the moved-from object is not emptied.
MoveKeepsSource(h, g) ==
    /\ h # g
    /\ IF ref[h] # NoBlock THEN DecRef(ref[h]) ELSE UNCHANGED <<refcount, free_list>>
    /\ ref' = [ref EXCEPT ![h] = ref[g]]
    /\ UNCHANGED <<open, untracked>>

\* Move assignment h = std::move(g): h drops what it held, g is left empty.
Move(h, g) ==
    /\ h # g
    /\ IF ref[h] # NoBlock THEN DecRef(ref[h]) ELSE UNCHANGED <<refcount, free_list>>
    /\ ref' = [ref EXCEPT ![h] = ref[g], ![g] = NoBlock]
    /\ UNCHANGED <<open, untracked>>

\* BlockRef::release: the reference stays counted but no object holds it.
\* (On a BlockRef that outlived its pool it just forgets the id.)
Release(h) ==
    /\ ref[h] # NoBlock
    /\ open => untracked[ref[h]] < MaxUntracked
    /\ untracked' = IF open THEN [untracked EXCEPT ![ref[h]] = @ + 1] ELSE untracked
    /\ ref' = [ref EXCEPT ![h] = NoBlock]
    /\ UNCHANGED <<open, refcount, free_list>>

\* acquire_raw.  That the block is in use is the duty of the caller (KVCache::inc_ref);
\* acquire_raw itself does not check it.
AcquireRaw(id) ==
    /\ refcount[id] > 0
    /\ untracked[id] < MaxUntracked
    /\ IncRef(id)
    /\ untracked' = [untracked EXCEPT ![id] = @ + 1]
    /\ UNCHANGED <<open, free_list, ref>>

\* release_raw (KVCache::free_block, free_swa_block) of an untracked reference,
\* or a tolerated second free of a block that is already free.
ReleaseRaw(id) ==
    /\ untracked[id] > 0 \/ refcount[id] = 0
    /\ DecRef(id)
    /\ untracked' = IF untracked[id] > 0 THEN [untracked EXCEPT ![id] = @ - 1] ELSE untracked
    /\ UNCHANGED <<open, ref>>

Next == \/ Open
        \/ Close
        \/ \E h \in Handles : Acquire(h) \/ Reset(h) \/ Release(h)
        \/ \E h, g \in Handles : Share(h, g) \/ Move(h, g)
        \/ \E h \in Handles, id \in Blocks : ShareById(h, id)
        \/ \E id \in Blocks : AcquireRaw(id) \/ ReleaseRaw(id)

Spec == Init /\ [][Next]_vars

-----------------------------------------------------------------------------
\* The pool's fields have their C++ types: ids are in range or -1, counts are
\* not negative.
TypeOK == /\ open \in BOOLEAN
          /\ refcount \in [Blocks -> Nat]
          /\ free_list \in Seq(Blocks)
          /\ ref \in [Handles -> Blocks \cup {NoBlock}]
          /\ untracked \in [Blocks -> Nat]

RefsTo(b) == {h \in Handles : ref[h] = b}

\* A block's refcount_ is exactly the number of BlockRef objects that hold it
\* plus its untracked references: no move, share or reset loses or invents
\* one, so a drop through a BlockRef is never the double release dec_ref_ logs.
RefCountExact ==
    open => \A b \in Blocks : refcount[b] = Cardinality(RefsTo(b)) + untracked[b]

\* "a block returns to the free list when, and only when, its last ref is
\* destroyed" (block_pool.h): free_list_ holds exactly the blocks whose count
\* is 0, each once, so acquire can never hand out a block that is in use.
FreeListExact ==
    /\ \A i, j \in 1 .. Len(free_list) : free_list[i] = free_list[j] => i = j
    /\ open => \A b \in Blocks :
                   refcount[b] = 0 <=> \E i \in 1 .. Len(free_list) : free_list[i] = b
=============================================================================
