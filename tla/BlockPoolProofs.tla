--------------------------- MODULE BlockPoolProofs ---------------------------
(***************************************************************************)
(* Proofs about BlockPool, for every number of blocks and of references.   *)
(***************************************************************************)
EXTENDS BlockPool, FiniteSetTheorems, SequenceTheorems, TLAPS

\* While the pool is closed it holds nothing (close and abandon clear it).
ClosedEmpty == ~open => refcount = NoRefs /\ free_list = <<>> /\ untracked = NoRefs

\* The inductive invariant: neither the counts nor the free list can be shown
\* correct alone, because the free list changes exactly when a count reaches 0.
PoolInv == TypeOK /\ ClosedEmpty /\ RefCountExact /\ FreeListExact

-----------------------------------------------------------------------------
\* The references a handle table r has to block b, and their number.
Holding(r, b) == {g \in Handles : r[g] = b}
Count(r, b)   == Cardinality(Holding(r, b))
One(r, h, b)  == IF r[h] = b THEN 1 ELSE 0

\* A block's number of references is a natural number.
LEMMA CountType ==
  ASSUME NEW r, NEW b
  PROVE  IsFiniteSet(Holding(r, b)) /\ Count(r, b) \in Nat
<1>1. IsFiniteSet(Holding(r, b))
  BY PoolAssumption, FS_Subset DEF Holding
<1> QED BY <1>1, FS_CardinalityType DEF Count

\* Overwriting one BlockRef object changes the number of references of a
\* block by what that object held before and holds now.
LEMMA CountUpdate ==
  ASSUME NEW r, NEW q, NEW h \in Handles, \A g \in Handles \ {h} : q[g] = r[g], NEW b
  PROVE  Count(q, b) = Count(r, b) + One(q, h, b) - One(r, h, b)
<1> DEFINE S == Holding(r, b)
           T == Holding(q, b)
<1>1. IsFiniteSet(S) /\ Cardinality(S) \in Nat
  BY CountType DEF Count
<1>2. CASE q[h] = b /\ r[h] # b
  <2>1. T = S \cup {h} /\ h \notin S
    BY <1>2 DEF Holding
  <2>2. Cardinality(S \cup {h}) = Cardinality(S) + 1
    BY <2>1, <1>1, FS_AddElement
  <2>3. Cardinality(T) = Cardinality(S \cup {h})
    BY <2>1, Zenon
  <2> QED BY <2>2, <2>3, <1>1, <1>2 DEF Count, One
<1>3. CASE q[h] # b /\ r[h] = b
  <2>1. T = S \ {h} /\ h \in S
    BY <1>3 DEF Holding
  <2>2. Cardinality(S \ {h}) = Cardinality(S) - 1
    BY <2>1, <1>1, FS_RemoveElement
  <2>3. Cardinality(T) = Cardinality(S \ {h})
    BY <2>1, Zenon
  <2> QED BY <2>2, <2>3, <1>1, <1>3 DEF Count, One
<1>4. CASE q[h] = b <=> r[h] = b
  <2>1. T = S
    BY <1>4 DEF Holding
  <2>2. Cardinality(T) = Cardinality(S)
    BY <2>1, Zenon
  <2> QED BY <2>2, <1>1, <1>4 DEF Count, One
<1> QED BY <1>2, <1>3, <1>4

\* Popping the back of the free list (acquire) removes just that block.
LEMMA PopBack ==
  ASSUME NEW s \in Seq(Blocks), s # <<>>,
         \A i, j \in 1 .. Len(s) : s[i] = s[j] => i = j
  PROVE  LET t == SubSeq(s, 1, Len(s) - 1)
         IN  /\ s[Len(s)] \in Blocks
             /\ t \in Seq(Blocks)
             /\ \A i, j \in 1 .. Len(t) : t[i] = t[j] => i = j
             /\ \A b : (\E i \in 1 .. Len(t) : t[i] = b)
                         <=> (b # s[Len(s)] /\ \E i \in 1 .. Len(s) : s[i] = b)
<1> DEFINE n == Len(s)
           t == SubSeq(s, 1, n - 1)
<1>1. n \in Nat \ {0} /\ \A i \in 1 .. n : s[i] \in Blocks
  BY EmptySeq, ElementOfSeq
<1>2. t \in Seq(Blocks) /\ Len(t) = n - 1 /\ \A i \in 1 .. n - 1 : t[i] = s[i]
  <2>1. n - 1 \in Int /\ \A i \in 1 .. n - 1 : s[i] \in Blocks
    BY <1>1
  <2>2. /\ t \in Seq(Blocks)
        /\ Len(t) = IF 1 <= n - 1 THEN (n - 1) - 1 + 1 ELSE 0
        /\ \A i \in 1 .. (n - 1) - 1 + 1 : t[i] = s[1 + i - 1]
    BY <2>1, SubSeqProperties
  <2>0. n \in Nat /\ n >= 1
    BY <1>1
  <2> HIDE DEF t, n
  <2>3. Len(t) = n - 1
    BY <2>0, <2>2
  <2>4. ASSUME NEW i \in 1 .. n - 1 PROVE t[i] = s[i]
    <3>1. i \in 1 .. (n - 1) - 1 + 1 /\ 1 + i - 1 = i
      BY <1>1
    <3> QED BY <3>1, <2>2
  <2> QED BY <2>2, <2>3, <2>4
<1>3. \A i, j \in 1 .. Len(t) : t[i] = t[j] => i = j
  BY <1>1, <1>2
<1>4. ASSUME NEW b
      PROVE  (\E i \in 1 .. Len(t) : t[i] = b)
                 <=> (b # s[n] /\ \E i \in 1 .. n : s[i] = b)
  BY <1>1, <1>2
<1>5. s[n] \in Blocks
  BY <1>1
<1> QED BY <1>2, <1>3, <1>4, <1>5

\* Pushing a block that is not in the free list keeps it duplicate-free.
LEMMA PushBack ==
  ASSUME NEW s \in Seq(Blocks), NEW x \in Blocks,
         \A i, j \in 1 .. Len(s) : s[i] = s[j] => i = j,
         \A i \in 1 .. Len(s) : s[i] # x
  PROVE  LET t == Append(s, x)
         IN  /\ t \in Seq(Blocks)
             /\ \A i, j \in 1 .. Len(t) : t[i] = t[j] => i = j
             /\ \A b : (\E i \in 1 .. Len(t) : t[i] = b)
                         <=> (b = x \/ \E i \in 1 .. Len(s) : s[i] = b)
<1> DEFINE t == Append(s, x)
<1>1. /\ Len(s) \in Nat /\ t \in Seq(Blocks) /\ Len(t) = Len(s) + 1
      /\ \A i \in 1 .. Len(s) : t[i] = s[i]
      /\ t[Len(s) + 1] = x
  BY AppendProperties, LenProperties
<1> QED BY <1>1

-----------------------------------------------------------------------------
\* The pool starts closed and empty.
LEMMA PoolInit == Init => PoolInv
<1> SUFFICES ASSUME Init PROVE PoolInv
  OBVIOUS
<1>1. <<>> \in Seq(Blocks) /\ Len(<<>>) = 0
  BY EmptySeq
<1>2. TypeOK
  BY <1>1 DEF Init, TypeOK, NoRefs, NoBlock
<1>3. ClosedEmpty /\ RefCountExact
  BY DEF Init, ClosedEmpty, RefCountExact
<1>4. FreeListExact
  BY <1>1 DEF Init, FreeListExact
<1> QED BY <1>2, <1>3, <1>4 DEF PoolInv

\* dec_ref_impl_ lowers one count and keeps the free list exact: the block is
\* pushed just when its count reaches 0.
LEMMA DecRefStep ==
  ASSUME PoolInv, NEW id \in Blocks, DecRef(id), open' = open
  PROVE  /\ refcount' \in [Blocks -> Nat]
         /\ free_list' \in Seq(Blocks)
         /\ FreeListExact'
         /\ \A b \in Blocks : refcount'[b] = IF open /\ refcount[id] > 0 /\ b = id
                                            THEN refcount[b] - 1 ELSE refcount[b]
         /\ ~open => refcount' = refcount /\ free_list' = free_list
<1>1. /\ refcount \in [Blocks -> Nat] /\ free_list \in Seq(Blocks)
      /\ \A i, j \in 1 .. Len(free_list) : free_list[i] = free_list[j] => i = j
      /\ open => \A b \in Blocks : refcount[b] = 0
                     <=> \E i \in 1 .. Len(free_list) : free_list[i] = b
  BY DEF PoolInv, TypeOK, FreeListExact
<1>2. CASE ~(open /\ refcount[id] > 0)
  <2>1. refcount' = refcount /\ free_list' = free_list
    BY <1>2 DEF DecRef
  <2>2. FreeListExact'
    BY <2>1, <1>1 DEF FreeListExact
  <2> QED BY <1>1, <1>2, <2>1, <2>2
<1>3. CASE open /\ refcount[id] > 0 /\ refcount[id] # 1
  <2>1. refcount' = [refcount EXCEPT ![id] = @ - 1] /\ free_list' = free_list
    BY <1>3 DEF DecRef
  <2>2. /\ refcount' \in [Blocks -> Nat]
        /\ \A b \in Blocks : refcount'[b] = IF b = id THEN refcount[b] - 1 ELSE refcount[b]
    BY <2>1, <1>1, <1>3
  <2>3. \A b \in Blocks : refcount'[b] = 0 <=> refcount[b] = 0
    BY <2>2, <1>1, <1>3
  <2>4. FreeListExact'
    BY <2>1, <2>3, <1>1 DEF FreeListExact
  <2> QED BY <1>1, <1>3, <2>1, <2>2, <2>4
<1>4. CASE open /\ refcount[id] = 1
  <2>1. refcount' = [refcount EXCEPT ![id] = @ - 1] /\ free_list' = Append(free_list, id)
    BY <1>4, <1>1 DEF DecRef
  <2>2. /\ refcount' \in [Blocks -> Nat]
        /\ \A b \in Blocks : refcount'[b] = IF b = id THEN refcount[b] - 1 ELSE refcount[b]
    BY <2>1, <1>1, <1>4
  <2>3. \A i \in 1 .. Len(free_list) : free_list[i] # id
    BY <1>1, <1>4
  <2>4. /\ free_list' \in Seq(Blocks)
        /\ \A i, j \in 1 .. Len(free_list') : free_list'[i] = free_list'[j] => i = j
        /\ \A b : (\E i \in 1 .. Len(free_list') : free_list'[i] = b)
                      <=> (b = id \/ \E i \in 1 .. Len(free_list) : free_list[i] = b)
    BY <2>1, <2>3, <1>1, PushBack
  <2>5. \A b \in Blocks : refcount'[b] = 0 <=> (b = id \/ refcount[b] = 0)
    BY <2>2, <1>1, <1>4
  <2>6. FreeListExact'
    BY <2>4, <2>5, <1>1, <1>4 DEF FreeListExact
  <2> QED BY <1>4, <2>2, <2>4, <2>6
<1> QED BY <1>1, <1>2, <1>3, <1>4

\* inc_ref_ of a block in use leaves the free list exact.
LEMMA IncRefStep ==
  ASSUME PoolInv, NEW id \in Blocks, IncRef(id), open => refcount[id] > 0,
         open' = open, free_list' = free_list
  PROVE  /\ refcount' \in [Blocks -> Nat]
         /\ FreeListExact'
         /\ \A b \in Blocks : refcount'[b] = IF open /\ b = id THEN refcount[b] + 1 ELSE refcount[b]
         /\ ~open => refcount' = refcount
<1>1. refcount \in [Blocks -> Nat] /\ FreeListExact
  BY DEF PoolInv, TypeOK
<1>2. /\ refcount' \in [Blocks -> Nat]
      /\ \A b \in Blocks : refcount'[b] = IF open /\ b = id THEN refcount[b] + 1 ELSE refcount[b]
      /\ ~open => refcount' = refcount
  BY <1>1 DEF IncRef
<1>3. open => \A b \in Blocks : refcount'[b] = 0 <=> refcount[b] = 0
  BY <1>1, <1>2
<1>4. FreeListExact'
  BY <1>1, <1>3 DEF FreeListExact
<1> QED BY <1>2, <1>4

\* If one BlockRef object changes and the counts follow it, they stay exact.
LEMMA RefCountStep ==
  ASSUME PoolInv, NEW h \in Handles, open' = open,
         refcount' \in [Blocks -> Nat], untracked' \in [Blocks -> Nat],
         \A g \in Handles \ {h} : ref'[g] = ref[g],
         open => \A b \in Blocks : refcount'[b] - untracked'[b] = refcount[b] - untracked[b]
                       + (IF ref'[h] = b THEN 1 ELSE 0) - (IF ref[h] = b THEN 1 ELSE 0)
  PROVE  RefCountExact'
<1> SUFFICES ASSUME open, NEW b \in Blocks
             PROVE  refcount'[b] = Count(ref', b) + untracked'[b]
  BY DEF RefCountExact, RefsTo, Holding, Count
<1>1. refcount[b] = Count(ref, b) + untracked[b]
  BY DEF PoolInv, RefCountExact, RefsTo, Holding, Count
<1>2. Count(ref', b) = Count(ref, b) + One(ref', h, b) - One(ref, h, b)
  BY CountUpdate, Zenon
<1>3. Count(ref, b) \in Nat /\ untracked[b] \in Nat /\ untracked'[b] \in Nat /\ refcount'[b] \in Nat
  BY CountType DEF PoolInv, TypeOK
<1> QED BY <1>1, <1>2, <1>3 DEF One

\* The same when no object changes.
LEMMA RefCountSame ==
  ASSUME PoolInv, open' = open, ref' = ref,
         refcount' \in [Blocks -> Nat], untracked' \in [Blocks -> Nat],
         \A b \in Blocks : open => refcount'[b] - untracked'[b] = refcount[b] - untracked[b]
  PROVE  RefCountExact'
<1> SUFFICES ASSUME open, NEW b \in Blocks
             PROVE  refcount'[b] = Count(ref, b) + untracked'[b]
  BY DEF RefCountExact, RefsTo, Holding, Count
<1>1. refcount[b] = Count(ref, b) + untracked[b]
  BY DEF PoolInv, RefCountExact, RefsTo, Holding, Count
<1>2. Count(ref, b) \in Nat /\ untracked[b] \in Nat /\ untracked'[b] \in Nat /\ refcount'[b] \in Nat
  BY CountType DEF PoolInv, TypeOK
<1> QED BY <1>1, <1>2

\* Two objects change, one after the other.
LEMMA CountUpdateTwice ==
  ASSUME NEW r, NEW p, NEW q, NEW h \in Handles, NEW g \in Handles, NEW b,
         \A k \in Handles \ {h} : p[k] = r[k], \A k \in Handles \ {g} : q[k] = p[k]
  PROVE  /\ Count(p, b) = Count(r, b) + One(p, h, b) - One(r, h, b)
         /\ Count(q, b) = Count(p, b) + One(q, g, b) - One(p, g, b)
<1>1. Count(p, b) = Count(r, b) + One(p, h, b) - One(r, h, b)
  BY CountUpdate, Zenon
<1>2. Count(q, b) = Count(p, b) + One(q, g, b) - One(p, g, b)
  BY CountUpdate, Zenon
<1> QED BY <1>1, <1>2

\* The same for a move assignment, which changes two objects.
LEMMA RefCountMove ==
  ASSUME PoolInv, NEW h \in Handles, NEW g \in Handles, h # g, open' = open,
         untracked' = untracked, refcount' \in [Blocks -> Nat],
         \A k \in Handles \ {h, g} : ref'[k] = ref[k], ref'[h] = ref[g], ref'[g] = NoBlock,
         open => \A b \in Blocks : refcount'[b] = refcount[b] - (IF ref[h] = b THEN 1 ELSE 0)
  PROVE  RefCountExact'
<1>r. PICK r1 : r1 = [ref EXCEPT ![h] = ref[g]]
  OBVIOUS
<1> SUFFICES ASSUME open, NEW b \in Blocks
             PROVE  refcount'[b] = Count(ref', b) + untracked[b]
  BY DEF RefCountExact, RefsTo, Holding, Count
<1>t. ref \in [Handles -> Int] /\ NoBlock # b
  BY PoolAssumption DEF PoolInv, TypeOK, NoBlock, Blocks
<1>1. refcount[b] = Count(ref, b) + untracked[b]
  BY DEF PoolInv, RefCountExact, RefsTo, Holding, Count
<1>2. r1[h] = ref[g] /\ r1[g] = ref[g] /\ ref'[g] = NoBlock
  BY <1>t, <1>r
<1>a. \A k \in Handles \ {h} : r1[k] = ref[k]
  BY <1>t, <1>r
<1>b. \A k \in Handles \ {g} : ref'[k] = r1[k]
  BY <1>t, <1>r
<1>3. /\ Count(r1, b) = Count(ref, b) + One(r1, h, b) - One(ref, h, b)
      /\ Count(ref', b) = Count(r1, b) + One(ref', g, b) - One(r1, g, b)
  BY <1>a, <1>b, CountUpdateTwice
<1>4. Count(r1, b) \in Nat /\ Count(ref', b) \in Nat
  BY CountType
<1>5. Count(ref, b) \in Nat /\ untracked[b] \in Nat
  BY CountType DEF PoolInv, TypeOK
<1> QED BY <1>1, <1>2, <1>3, <1>4, <1>5, <1>t DEF One

\* In an open pool a block some BlockRef object holds has a positive count.
LEMMA HeldIsCounted ==
  ASSUME PoolInv, open, NEW h \in Handles, ref[h] # NoBlock
  PROVE  ref[h] \in Blocks /\ refcount[ref[h]] > 0
<1>1. ref[h] \in Blocks
  BY DEF PoolInv, TypeOK
<1>2. Count(ref, ref[h]) \in Nat /\ Count(ref, ref[h]) # 0
  <2>1. h \in Holding(ref, ref[h]) /\ IsFiniteSet(Holding(ref, ref[h]))
    BY CountType DEF Holding
  <2> QED BY <2>1, CountType, FS_EmptySet DEF Count
<1>3. refcount[ref[h]] = Count(ref, ref[h]) + untracked[ref[h]]
  BY <1>1 DEF PoolInv, RefCountExact, RefsTo, Holding, Count
<1> QED BY <1>1, <1>2, <1>3 DEF PoolInv, TypeOK

-----------------------------------------------------------------------------
\* Every operation of the pool preserves the inductive invariant.
LEMMA PoolStep == PoolInv /\ [Next]_vars => PoolInv'
<1> SUFFICES ASSUME PoolInv, [Next]_vars PROVE PoolInv'
  OBVIOUS
<1>t. /\ TypeOK /\ ClosedEmpty /\ RefCountExact /\ FreeListExact
      /\ ref \in [Handles -> Blocks \cup {NoBlock}] /\ ref \in [Handles -> Int]
      /\ refcount \in [Blocks -> Nat] /\ untracked \in [Blocks -> Nat]
      /\ NoBlock \in Int /\ NoBlock \notin Blocks /\ Blocks \subseteq Int
  BY PoolAssumption DEF PoolInv, TypeOK, NoBlock, Blocks
<1>p. \A h \in Handles : open /\ ref[h] # NoBlock => ref[h] \in Blocks /\ refcount[ref[h]] > 0
  BY HeldIsCounted
<1>u. \A b \in Blocks : open => refcount[b] >= untracked[b]
  <2> SUFFICES ASSUME NEW b \in Blocks, open PROVE refcount[b] >= untracked[b]
    OBVIOUS
  <2>1. refcount[b] = Count(ref, b) + untracked[b]
    BY <1>t DEF RefCountExact, RefsTo, Holding, Count
  <2> QED BY <2>1, <1>t, CountType
<1>1. CASE Open
  <2>1. /\ InitSlots \in Seq(Blocks)
        /\ Len(InitSlots) = NumBlocks
        /\ \A i \in 1 .. NumBlocks : InitSlots[i] = NumBlocks - i
    <3>1. /\ \A i \in 1 .. NumBlocks : NumBlocks - i \in Blocks
          /\ NumBlocks \in Nat
      BY PoolAssumption DEF Blocks
    <3> QED BY <3>1, IsASeq DEF InitSlots
  <2>2. TypeOK'
    BY <1>1, <1>t, <2>1 DEF Open, TypeOK, NoRefs
  <2>3. FreeListExact'
    <3>1. \A b \in Blocks : NumBlocks - b \in 1 .. NumBlocks /\ NumBlocks - (NumBlocks - b) = b
      BY PoolAssumption DEF Blocks
    <3>2. \A b \in Blocks : \E i \in 1 .. NumBlocks : InitSlots[i] = b
      BY <3>1, <2>1
    <3>3. \A i, j \in 1 .. NumBlocks : InitSlots[i] = InitSlots[j] => i = j
      BY <2>1, PoolAssumption
    <3>4. free_list' = InitSlots /\ \A b \in Blocks : refcount'[b] = 0
      BY <1>1 DEF Open, NoRefs
    <3> HIDE DEF InitSlots
    <3> QED BY <2>1, <3>2, <3>3, <3>4 DEF FreeListExact
  <2>4. RefCountExact'
    <3>1. \A b \in Blocks : RefsTo(b)' = {}
      BY <1>1, <1>t DEF Open, RefsTo
    <3>2. \A b \in Blocks : Cardinality(RefsTo(b)') = 0
      BY <3>1, FS_EmptySet
    <3>3. \A b \in Blocks : refcount'[b] = 0 /\ untracked'[b] = 0
      BY <1>1, <1>t DEF Open, NoRefs, ClosedEmpty
    <3> QED BY <3>2, <3>3 DEF RefCountExact
  <2> QED BY <1>1, <2>2, <2>3, <2>4 DEF PoolInv, ClosedEmpty, Open
<1>2. CASE Close
  <2>1. <<>> \in Seq(Blocks) /\ Len(<<>>) = 0
    BY EmptySeq
  <2>2. TypeOK'
    BY <1>2, <1>t, <2>1 DEF Close, TypeOK, NoRefs
  <2> QED BY <1>2, <2>1, <2>2 DEF Close, PoolInv, ClosedEmpty, RefCountExact, FreeListExact
<1>3. ASSUME NEW h \in Handles, Acquire(h) PROVE PoolInv'
  <2> DEFINE id == free_list[Len(free_list)]
  <2>1. open /\ free_list \in Seq(Blocks) /\ free_list # <<>>
    BY <1>3, <1>t DEF Acquire, ClosedEmpty, TypeOK
  <2>2. /\ id \in Blocks
        /\ free_list' \in Seq(Blocks)
        /\ \A i, j \in 1 .. Len(free_list') : free_list'[i] = free_list'[j] => i = j
        /\ \A b : (\E i \in 1 .. Len(free_list') : free_list'[i] = b)
                      <=> (b # id /\ \E i \in 1 .. Len(free_list) : free_list[i] = b)
    <3>1. \A i, j \in 1 .. Len(free_list) : free_list[i] = free_list[j] => i = j
      BY <1>t DEF FreeListExact
    <3>2. free_list' = SubSeq(free_list, 1, Len(free_list) - 1)
      BY <1>3 DEF Acquire
    <3> HIDE DEF id
    <3>3. LET t == SubSeq(free_list, 1, Len(free_list) - 1)
          IN  /\ free_list[Len(free_list)] \in Blocks
              /\ t \in Seq(Blocks)
              /\ \A i, j \in 1 .. Len(t) : t[i] = t[j] => i = j
              /\ \A b : (\E i \in 1 .. Len(t) : t[i] = b)
                          <=> (b # free_list[Len(free_list)]
                                 /\ \E i \in 1 .. Len(free_list) : free_list[i] = b)
      BY <2>1, <3>1, PopBack, Zenon
    <3> QED BY <3>2, <3>3, Zenon DEF id
  <2>3. refcount[id] = 0
    <3>1. Len(free_list) \in 1 .. Len(free_list)
      BY <2>1, EmptySeq
    <3> QED BY <3>1, <1>t, <2>1, <2>2 DEF FreeListExact
  <2>4. /\ refcount' \in [Blocks -> Nat]
        /\ \A b \in Blocks : refcount'[b] = IF b = id THEN 1 ELSE refcount[b]
    BY <1>3, <1>t, <2>2 DEF Acquire
  <2>5. TypeOK'
    BY <1>3, <1>t, <2>2, <2>4 DEF Acquire, TypeOK
  <2>6. FreeListExact'
    BY <1>3, <1>t, <2>1, <2>2, <2>4 DEF Acquire, FreeListExact
  <2>7. RefCountExact'
    <3>1. ref' = [ref EXCEPT ![h] = id] /\ ref[h] = NoBlock /\ untracked' = untracked /\ open' = open
      BY <1>3 DEF Acquire
    <3>2. \A g \in Handles \ {h} : ref'[g] = ref[g]
      BY <3>1, <1>t
    <3>3. ref'[h] = id
      BY <3>1, <1>t
    <3>4. \A b \in Blocks : refcount'[b] - untracked'[b] = refcount[b] - untracked[b]
                       + (IF ref'[h] = b THEN 1 ELSE 0) - (IF ref[h] = b THEN 1 ELSE 0)
      BY <3>1, <3>3, <2>2, <2>3, <2>4, <1>t
    <3> QED BY <3>1, <3>2, <3>4, <2>4, <1>t, RefCountStep
  <2> QED BY <1>3, <2>1, <2>5, <2>6, <2>7 DEF PoolInv, ClosedEmpty, Acquire
<1>4. ASSUME NEW h \in Handles, Reset(h) PROVE PoolInv'
  <2>1. /\ ref' = [ref EXCEPT ![h] = NoBlock] /\ untracked' = untracked /\ open' = open
        /\ ref[h] \in Blocks /\ DecRef(ref[h])
    BY <1>4, <1>t DEF Reset
  <2>2. /\ refcount' \in [Blocks -> Nat] /\ free_list' \in Seq(Blocks) /\ FreeListExact'
        /\ \A b \in Blocks : refcount'[b] = IF open /\ refcount[ref[h]] > 0 /\ b = ref[h]
                                            THEN refcount[b] - 1 ELSE refcount[b]
        /\ ~open => refcount' = refcount /\ free_list' = free_list
    BY <2>1, DecRefStep
  <2>3. TypeOK'
    BY <2>1, <2>2, <1>t DEF TypeOK
  <2>4. RefCountExact'
    <3>1. (\A g \in Handles \ {h} : ref'[g] = ref[g]) /\ ref'[h] = NoBlock
      BY <2>1, <1>t
    <3>2. open => \A b \in Blocks : refcount'[b] - untracked'[b] = refcount[b] - untracked[b]
                       + (IF ref'[h] = b THEN 1 ELSE 0) - (IF ref[h] = b THEN 1 ELSE 0)
      BY <3>1, <2>1, <2>2, <1>p, <1>t
    <3> QED BY <3>1, <3>2, <2>1, <2>2, <1>t, RefCountStep
  <2> QED BY <2>1, <2>2, <2>3, <2>4, <1>t DEF PoolInv, ClosedEmpty
<1>5. ASSUME NEW h \in Handles, Release(h) PROVE PoolInv'
  <2>1. /\ ref' = [ref EXCEPT ![h] = NoBlock] /\ open' = open /\ ref[h] \in Blocks
        /\ refcount' = refcount /\ free_list' = free_list
        /\ untracked' = IF open THEN [untracked EXCEPT ![ref[h]] = @ + 1] ELSE untracked
    BY <1>5, <1>t DEF Release
  <2>2. /\ untracked' \in [Blocks -> Nat]
        /\ open => \A b \in Blocks : untracked'[b] = untracked[b] + (IF ref[h] = b THEN 1 ELSE 0)
        /\ ~open => untracked' = untracked
    BY <2>1, <1>t
  <2>3. TypeOK'
    BY <2>1, <2>2, <1>t DEF TypeOK
  <2>4. RefCountExact'
    <3>1. (\A g \in Handles \ {h} : ref'[g] = ref[g]) /\ ref'[h] = NoBlock
      BY <2>1, <1>t
    <3>2. open => \A b \in Blocks : refcount'[b] - untracked'[b] = refcount[b] - untracked[b]
                       + (IF ref'[h] = b THEN 1 ELSE 0) - (IF ref[h] = b THEN 1 ELSE 0)
      BY <3>1, <2>1, <2>2, <1>t
    <3> QED BY <3>1, <3>2, <2>1, <2>2, <1>t, RefCountStep
  <2>5. FreeListExact'
    BY <2>1, <1>t DEF FreeListExact
  <2> QED BY <2>1, <2>2, <2>3, <2>4, <2>5, <1>t DEF PoolInv, ClosedEmpty
<1>6. ASSUME NEW h \in Handles, NEW id \in Blocks, open => refcount[id] > 0, IncRef(id),
             ref[h] = NoBlock, ref' = [ref EXCEPT ![h] = id],
             open' = open, free_list' = free_list, untracked' = untracked
      PROVE  PoolInv'
  <2>1. /\ refcount' \in [Blocks -> Nat] /\ FreeListExact'
        /\ \A b \in Blocks : refcount'[b] = IF open /\ b = id THEN refcount[b] + 1 ELSE refcount[b]
        /\ ~open => refcount' = refcount
    BY <1>6, IncRefStep
  <2>2. TypeOK'
    BY <1>6, <2>1, <1>t DEF TypeOK
  <2>3. RefCountExact'
    <3>1. (\A g \in Handles \ {h} : ref'[g] = ref[g]) /\ ref'[h] = id
      BY <1>6, <1>t
    <3>2. open => \A b \in Blocks : refcount'[b] - untracked'[b] = refcount[b] - untracked[b]
                       + (IF ref'[h] = b THEN 1 ELSE 0) - (IF ref[h] = b THEN 1 ELSE 0)
      BY <3>1, <1>6, <2>1, <1>t
    <3> QED BY <3>1, <3>2, <1>6, <2>1, <1>t, RefCountStep
  <2> QED BY <1>6, <2>1, <2>2, <2>3, <1>t DEF PoolInv, ClosedEmpty
<1>7. ASSUME NEW h \in Handles, NEW g \in Handles, Share(h, g) PROVE PoolInv'
  BY <1>7, <1>6, <1>p, <1>t DEF Share
<1>8. ASSUME NEW h \in Handles, NEW id \in Blocks, ShareById(h, id) PROVE PoolInv'
  BY <1>8, <1>6 DEF ShareById
<1>9. ASSUME NEW h \in Handles, NEW g \in Handles, Move(h, g) PROVE PoolInv'
  <2> DEFINE dropped(b) == IF open /\ ref[h] = b THEN 1 ELSE 0
  <2>1. /\ h # g /\ open' = open /\ untracked' = untracked
        /\ ref' = [ref EXCEPT ![h] = ref[g], ![g] = NoBlock]
        /\ ref' \in [Handles -> Blocks \cup {NoBlock}]
    BY <1>9, <1>t DEF Move
  <2>3. /\ refcount' \in [Blocks -> Nat] /\ free_list' \in Seq(Blocks) /\ FreeListExact'
        /\ \A b \in Blocks : refcount'[b] = refcount[b] - dropped(b)
        /\ ~open => refcount' = refcount /\ free_list' = free_list
    <3>1. CASE ref[h] # NoBlock
      <4>1. ref[h] \in Blocks /\ DecRef(ref[h])
        BY <3>1, <1>9, <1>t DEF Move
      <4>2. /\ refcount' \in [Blocks -> Nat] /\ free_list' \in Seq(Blocks) /\ FreeListExact'
            /\ \A b \in Blocks : refcount'[b] = IF open /\ refcount[ref[h]] > 0 /\ b = ref[h]
                                                THEN refcount[b] - 1 ELSE refcount[b]
            /\ ~open => refcount' = refcount /\ free_list' = free_list
        BY <4>1, <2>1, DecRefStep
      <4> QED BY <4>1, <4>2, <3>1, <1>p, <1>t
    <3>2. CASE ref[h] = NoBlock
      <4>1. refcount' = refcount /\ free_list' = free_list
        BY <3>2, <1>9 DEF Move
      <4>2. FreeListExact'
        BY <4>1, <2>1, <1>t DEF FreeListExact
      <4> QED BY <4>1, <4>2, <3>2, <1>t DEF TypeOK
    <3> QED BY <3>1, <3>2
  <2>4. TypeOK'
    BY <2>1, <2>3, <1>t DEF TypeOK
  <2>5. RefCountExact'
    BY <2>1, <2>3, RefCountMove
  <2> QED BY <2>1, <2>3, <2>4, <2>5, <1>t DEF PoolInv, ClosedEmpty
<1>10. ASSUME NEW id \in Blocks, AcquireRaw(id) PROVE PoolInv'
  <2>1. /\ open /\ open' = open /\ free_list' = free_list /\ ref' = ref /\ IncRef(id)
        /\ untracked' = [untracked EXCEPT ![id] = @ + 1] /\ refcount[id] > 0
    BY <1>10, <1>t DEF AcquireRaw, ClosedEmpty, NoRefs
  <2>2. /\ refcount' \in [Blocks -> Nat] /\ FreeListExact'
        /\ \A b \in Blocks : refcount'[b] = IF b = id THEN refcount[b] + 1 ELSE refcount[b]
    BY <2>1, IncRefStep
  <2>3. TypeOK'
    BY <2>1, <2>2, <1>t DEF TypeOK
  <2>4. RefCountExact'
    <3>1. \A b \in Blocks : refcount'[b] - untracked'[b] = refcount[b] - untracked[b]
      BY <2>1, <2>2, <1>t
    <3> QED BY <3>1, <2>1, <2>2, <2>3, <1>t, RefCountSame
  <2> QED BY <2>1, <2>2, <2>3, <2>4 DEF PoolInv, ClosedEmpty
<1>11. ASSUME NEW id \in Blocks, ReleaseRaw(id) PROVE PoolInv'
  <2>1. /\ open' = open /\ ref' = ref /\ DecRef(id)
        /\ untracked[id] > 0 \/ refcount[id] = 0
        /\ untracked' = IF untracked[id] > 0 THEN [untracked EXCEPT ![id] = @ - 1] ELSE untracked
    BY <1>11 DEF ReleaseRaw
  <2>2. /\ refcount' \in [Blocks -> Nat] /\ free_list' \in Seq(Blocks) /\ FreeListExact'
        /\ \A b \in Blocks : refcount'[b] = IF open /\ refcount[id] > 0 /\ b = id
                                            THEN refcount[b] - 1 ELSE refcount[b]
        /\ ~open => refcount' = refcount /\ free_list' = free_list
    BY <2>1, DecRefStep
  <2>3. /\ untracked' \in [Blocks -> Nat]
        /\ ~open => untracked' = untracked
    BY <2>1, <1>t DEF ClosedEmpty, NoRefs
  <2>4. TypeOK'
    BY <2>1, <2>2, <2>3, <1>t DEF TypeOK
  <2>5. RefCountExact'
    <3>1. \A b \in Blocks : open => refcount'[b] - untracked'[b] = refcount[b] - untracked[b]
      BY <2>1, <2>2, <1>t, <1>u
    <3> QED BY <3>1, <2>1, <2>2, <2>3, <1>t, RefCountSame
  <2> QED BY <2>1, <2>2, <2>3, <2>4, <2>5, <1>t DEF PoolInv, ClosedEmpty
<1>12. CASE UNCHANGED vars
  BY <1>12, <1>t DEF vars, PoolInv, TypeOK, ClosedEmpty, RefCountExact, RefsTo, FreeListExact
<1> QED BY <1>1, <1>2, <1>3, <1>4, <1>5, <1>7, <1>8, <1>9, <1>10, <1>11, <1>12 DEF Next

\* Type correctness of the pool.
THEOREM PoolTypeCorrect == Spec => []TypeOK
<1>1. PoolInv => TypeOK
  BY DEF PoolInv
<1> QED BY <1>1, PoolInit, PoolStep, PTL DEF Spec

\* For any number of blocks and of BlockRef objects, a refcount_ is the number
\* of references: sharing, moving and dropping never lose or invent one.
THEOREM PoolCountsReferences == Spec => []RefCountExact
<1>1. PoolInv => RefCountExact
  BY DEF PoolInv
<1> QED BY <1>1, PoolInit, PoolStep, PTL DEF Spec

\* For any number of blocks, a block is in the free list exactly while nothing
\* refers to it, so acquire never hands out a block in use and never loses one.
THEOREM PoolConservesBlocks == Spec => []FreeListExact
<1>1. PoolInv => FreeListExact
  BY DEF PoolInv
<1> QED BY <1>1, PoolInit, PoolStep, PTL DEF Spec
=============================================================================
