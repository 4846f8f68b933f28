------------------------ MODULE DescriptorPoolsProofs ------------------------
(***************************************************************************)
(* Proofs about DescriptorPools, for any threads, pipelines, samplers,     *)
(* limits and number of sets.                                              *)
(***************************************************************************)
EXTENDS DescriptorPools, FiniteSetTheorems, SequenceTheorems, TLAPS

Lists == [Keys -> Seq(Sets)]
PoolStates == [used: Lists, unused: Lists, pools: Nat, room: 0 .. Capacity]
BufferUses == [set: Sets, layout: Layouts]
BufferStates ==
  [state: {"none", "recording", "submitted"}, pool: Pools \cup {None}, uses: Seq(BufferUses)]

KeyOf(layout) == GetPipelineKey(layout[1], layout[2])

\* A set that may be kept, and used, under a key.
OfKey(set, k) ==
  set # NullSet => set \in 1 .. Len(layouts) /\ KeyOf(layouts[set]) = k

\* The same in the next state.
OfKeyNext(set, k) ==
  set # NullSet => set \in 1 .. Len(layouts') /\ KeyOf(layouts'[set]) = k

\* What the pools remember under a key was allocated for it.
PoolsByKey ==
  \A p \in Pools, k \in Keys :
    /\ \A i \in 1 .. Len(pool[p].used[k]) : OfKey(pool[p].used[k][i], k)
    /\ \A i \in 1 .. Len(pool[p].unused[k]) : OfKey(pool[p].unused[k][i], k)

\* So was what command buffers use.
UsesByKey ==
  \A b \in Buffers : \A i \in 1 .. Len(buffer[b].uses) :
    OfKey(buffer[b].uses[i].set, KeyOf(buffer[b].uses[i].layout))

\* A command buffer has a pool while it is recorded.
RecordingHasPool ==
  \A b \in Buffers : buffer[b].state = "recording" => buffer[b].pool \in Pools

IInv == TypeOK /\ PoolsByKey /\ UsesByKey /\ RecordingHasPool

-----------------------------------------------------------------------------
(* Keys and sequences.                                                     *)

\* The keys of the pipelines are positive, so that those of their variants are
\* not among them.
LEMMA KeysApart ==
  ASSUME NEW l \in Layouts, NEW m \in Layouts, KeyOf(l) = KeyOf(m)
  PROVE  l[1] = m[1] /\ (l[2] = None <=> m[2] = None)
<1>1. l[1] \in PipelineKeys /\ m[1] \in PipelineKeys
  BY KeysAssumption
<1>2. l[1] \in Nat \ {0} /\ m[1] \in Nat \ {0}
  BY <1>1, KeysAssumption
<1> QED BY <1>2 DEF KeyOf, GetPipelineKey

\* Both kinds of key are keys.
LEMMA KeyType ==
  ASSUME NEW l \in Layouts
  PROVE  KeyOf(l) \in Keys
<1>1. l[1] \in PipelineKeys
  BY KeysAssumption
<1> QED BY <1>1 DEF KeyOf, GetPipelineKey, Keys

\* Taking the last element off a sequence.
LEMMA FrontLast ==
  ASSUME NEW S, NEW s \in Seq(S), s # <<>>
  PROVE  /\ Last(s) \in S /\ Front(s) \in Seq(S) /\ Len(Front(s)) = Len(s) - 1
         /\ Len(s) \in Nat \ {0} /\ Last(s) = s[Len(s)]
         /\ \A i \in 1 .. Len(s) - 1 : Front(s)[i] = s[i]
<1>1. Len(s) \in Nat \ {0} /\ \A i \in 1 .. Len(s) : s[i] \in S
  BY LenProperties, EmptySeq, ElementOfSeq
<1>2. Last(s) = s[Len(s)] /\ Last(s) \in S
  BY <1>1 DEF Last
<1>3. Front(s) = SubSeq(s, 1, Len(s) - 1)
  BY DEF Front
<1> DEFINE n == Len(s) - 1
<1>4. n \in Nat /\ n + 1 = Len(s)
  BY <1>1
<1> HIDE DEF n
<1>5. \A i \in 1 .. n : i \in 1 .. Len(s) /\ 1 + i - 1 = i
  BY <1>4
<1>6. \A i \in 1 .. n : s[i] \in S
  BY <1>1, <1>5
<1>7. /\ SubSeq(s, 1, n) \in Seq(S)
      /\ Len(SubSeq(s, 1, n)) = IF 1 <= n THEN n - 1 + 1 ELSE 0
      /\ \A i \in 1 .. n - 1 + 1 : SubSeq(s, 1, n)[i] = s[1 + i - 1]
  BY <1>4, <1>6, SubSeqProperties
<1>8. Front(s) = SubSeq(s, 1, n) /\ n - 1 + 1 = n /\ (~(1 <= n) => n = 0)
  BY <1>3, <1>4 DEF n
<1>9. /\ Front(s) \in Seq(S) /\ Len(Front(s)) = n
      /\ \A i \in 1 .. n : Front(s)[i] = s[i]
  BY <1>5, <1>7, <1>8
<1> QED BY <1>1, <1>2, <1>9 DEF n

\* Adding an element to a sequence.
LEMMA AppendOne ==
  ASSUME NEW S, NEW s \in Seq(S), NEW e \in S
  PROVE  /\ Append(s, e) \in Seq(S) /\ Len(Append(s, e)) = Len(s) + 1 /\ Len(s) \in Nat
         /\ \A i \in 1 .. Len(s) : Append(s, e)[i] = s[i]
         /\ Append(s, e)[Len(s) + 1] = e
  BY AppendProperties, LenProperties

\* The type invariant, with the sets that these proofs name.
LEMMA Types ==
  TypeOK <=> /\ cached \in [Threads -> Pools \cup {None}]
             /\ buffer \in [Buffers -> BufferStates]
             /\ pool \in [Pools -> PoolStates]
             /\ recycled \in Seq(Pools) /\ Len(recycled) <= kMaxRecycledPools
             /\ layouts \in Seq(Layouts) /\ Len(layouts) <= MaxSets
  BY DEF TypeOK, BufferStates, PoolStates, Lists, BufferUses

\* A new pool has no sets.
LEMMA NewPoolType == NewPool \in PoolStates /\ \A k \in Keys : NewPool.used[k] = <<>> /\ NewPool.unused[k] = <<>>
<1>1. NoSets \in Lists
  BY DEF NoSets, Lists
<1> QED BY <1>1, KeysAssumption DEF NewPool, PoolStates, NoSets

\* At first there are no sets.
LEMMA InitHolds == Init => IInv
<1> SUFFICES ASSUME Init PROVE IInv
  OBVIOUS
<1>1. <<>> \in Seq(Pools) /\ <<>> \in Seq(Layouts) /\ <<>> \in Seq(BufferUses) /\ Len(<<>>) = 0
  OBVIOUS
<1>2. NoBuffer \in BufferStates
  BY <1>1 DEF NoBuffer, BufferStates
<1>3. TypeOK
  <2>1. cached \in [Threads -> Pools \cup {None}] /\ buffer \in [Buffers -> BufferStates]
    BY <1>2 DEF Init
  <2>2. pool \in [Pools -> PoolStates]
    BY NewPoolType DEF Init
  <2>3. /\ recycled \in Seq(Pools) /\ Len(recycled) <= kMaxRecycledPools
        /\ layouts \in Seq(Layouts) /\ Len(layouts) <= MaxSets
    BY <1>1, KeysAssumption DEF Init
  <2> QED BY <2>1, <2>2, <2>3, Types
<1>4. PoolsByKey
  BY <1>1, NewPoolType DEF Init, PoolsByKey
<1>5. UsesByKey /\ RecordingHasPool
  BY <1>1 DEF Init, UsesByKey, RecordingHasPool, NoBuffer
<1> QED BY <1>3, <1>4, <1>5 DEF IInv

-----------------------------------------------------------------------------
(* The pools.                                                              *)

\* If one pool changes, the others keep their sets.
LEMMA OnePoolNext ==
  ASSUME IInv, NEW p \in Pools, NEW new \in PoolStates,
         pool' = [pool EXCEPT ![p] = new],
         \A set, k : OfKey(set, k) => OfKeyNext(set, k),
         \A k \in Keys :
           /\ \A i \in 1 .. Len(new.used[k]) : OfKeyNext(new.used[k][i], k)
           /\ \A i \in 1 .. Len(new.unused[k]) : OfKeyNext(new.unused[k][i], k)
  PROVE  pool' \in [Pools -> PoolStates] /\ PoolsByKey'
<1>1. pool \in [Pools -> PoolStates]
  BY Types DEF IInv
<1>2. pool' \in [Pools -> PoolStates] /\ pool'[p] = new /\ \A q \in Pools \ {p} : pool'[q] = pool[q]
  BY <1>1
<1>3. ASSUME NEW q \in Pools, NEW k \in Keys
      PROVE  /\ \A i \in 1 .. Len(pool'[q].used[k]) : OfKeyNext(pool'[q].used[k][i], k)
             /\ \A i \in 1 .. Len(pool'[q].unused[k]) : OfKeyNext(pool'[q].unused[k][i], k)
  <2>1. CASE q = p
    BY <1>2, <2>1
  <2>2. CASE q # p
    BY <1>2, <2>2 DEF IInv, PoolsByKey
  <2> QED BY <2>1, <2>2
<1>4. PoolsByKey'
  BY <1>3 DEF PoolsByKey, OfKey, OfKeyNext
<1> QED BY <1>2, <1>4

\* With no set allocated, sets stay under their keys.
LEMMA KeysStay ==
  ASSUME UNCHANGED layouts
  PROVE  \A set, k : OfKey(set, k) <=> OfKeyNext(set, k)
  BY DEF OfKey, OfKeyNext

\* The same, with no set allocated.
LEMMA OnePoolByKey ==
  ASSUME IInv, NEW p \in Pools, NEW new \in PoolStates, UNCHANGED layouts,
         pool' = [pool EXCEPT ![p] = new],
         \A k \in Keys :
           /\ \A i \in 1 .. Len(new.used[k]) : OfKey(new.used[k][i], k)
           /\ \A i \in 1 .. Len(new.unused[k]) : OfKey(new.unused[k][i], k)
  PROVE  pool' \in [Pools -> PoolStates] /\ PoolsByKey'
<1>1. \A set, k : OfKey(set, k) <=> OfKeyNext(set, k)
  BY KeysStay
<1> QED BY <1>1, OnePoolNext

\* A reclaimed pool keeps every set under its key.
LEMMA AllUnusedHolds ==
  ASSUME IInv, NEW p \in Pools, UNCHANGED layouts, pool' = AllUnused(p)
  PROVE  pool' \in [Pools -> PoolStates] /\ PoolsByKey'
<1> DEFINE both == [k \in Keys |-> pool[p].unused[k] \o pool[p].used[k]]
           new == [pool[p] EXCEPT !.unused = both, !.used = NoSets]
<1>1. pool[p] \in PoolStates /\ \A k \in Keys : pool[p].used[k] \in Seq(Sets) /\ pool[p].unused[k] \in Seq(Sets)
  BY Types DEF IInv, PoolStates, Lists
<1>2. ASSUME NEW k \in Keys
      PROVE  /\ both[k] \in Seq(Sets)
             /\ \A i \in 1 .. Len(both[k]) : OfKey(both[k][i], k)
  <2> DEFINE s == pool[p].unused[k]
             t == pool[p].used[k]
  <2>1. s \in Seq(Sets) /\ t \in Seq(Sets) /\ both[k] = s \o t
    BY <1>1
  <2>2. /\ \A i \in 1 .. Len(s) : OfKey(s[i], k)
        /\ \A i \in 1 .. Len(t) : OfKey(t[i], k)
    BY DEF IInv, PoolsByKey
  <2> HIDE DEF s, t, both
  <2>3. /\ s \o t \in Seq(Sets) /\ Len(s) \in Nat /\ Len(t) \in Nat /\ Len(s \o t) = Len(s) + Len(t)
        /\ \A i \in 1 .. Len(s) + Len(t) : (s \o t)[i] = IF i <= Len(s) THEN s[i] ELSE t[i - Len(s)]
    BY <2>1, ConcatProperties, LenProperties
  <2>4. ASSUME NEW i \in 1 .. Len(s) + Len(t) PROVE OfKey((s \o t)[i], k)
    <3>1. CASE i <= Len(s)
      BY <2>2, <2>3, <3>1
    <3>2. CASE ~(i <= Len(s))
      BY <2>2, <2>3, <3>2
    <3> QED BY <3>1, <3>2
  <2> QED BY <2>1, <2>3, <2>4
<1>3. both \in Lists /\ NoSets \in Lists /\ \A k \in Keys : NoSets[k] = <<>>
  <2>1. \A k \in Keys : pool[p].unused[k] \o pool[p].used[k] \in Seq(Sets)
    BY <1>1, ConcatProperties
  <2>2. <<>> \in Seq(Sets)
    OBVIOUS
  <2> QED BY <2>1, <2>2 DEF Lists, NoSets
<1> HIDE DEF both
<1>4. new \in PoolStates /\ new.unused = both /\ new.used = NoSets
  BY <1>1, <1>3 DEF PoolStates
<1>5. pool' = [pool EXCEPT ![p] = new]
  BY Types DEF AllUnused, both, IInv
<1> HIDE DEF new
<1>6. \A k \in Keys :
        /\ \A i \in 1 .. Len(new.used[k]) : OfKey(new.used[k][i], k)
        /\ \A i \in 1 .. Len(new.unused[k]) : OfKey(new.unused[k][i], k)
  BY <1>2, <1>3, <1>4
<1> QED BY <1>4, <1>5, <1>6, OnePoolByKey

\* The recycler keeps its limit.
LEMMA RecycledType ==
  ASSUME IInv, NEW p \in Pools
  PROVE  Recycled(p) \in Seq(Pools) /\ Len(Recycled(p)) <= kMaxRecycledPools
<1> DEFINE n == IF Len(recycled) < kMaxRecycledPools THEN Len(recycled) ELSE kMaxRecycledPools - 1
           kept == SubSeq(recycled, 1, n)
<1>1. recycled \in Seq(Pools) /\ Len(recycled) <= kMaxRecycledPools
  BY Types DEF IInv
<1>2. Len(recycled) \in Nat /\ n \in Nat /\ n <= Len(recycled) /\ n <= kMaxRecycledPools - 1
  BY <1>1, LenProperties, KeysAssumption
<1> HIDE DEF n
<1>3. kept \in Seq(Pools) /\ Len(kept) = n
  BY <1>1, <1>2, SubSeqProperties, LenProperties, ElementOfSeq
<1>4. Recycled(p) = Append(kept, p)
  BY DEF Recycled, n
<1> HIDE DEF kept
<1> QED BY <1>2, <1>3, <1>4, AppendOne, KeysAssumption

\* What happens to the pools when a reference goes.
LEMMA ReleaseHolds ==
  ASSUME IInv, UNCHANGED layouts,
         \/ UNCHANGED <<pool, recycled>>
         \/ \E p \in Pools : pool' = [pool EXCEPT ![p] = NewPool] /\ UNCHANGED recycled
         \/ \E p \in Pools : pool' = AllUnused(p) /\ recycled' = Recycled(p)
  PROVE  /\ pool' \in [Pools -> PoolStates] /\ PoolsByKey'
         /\ recycled' \in Seq(Pools) /\ Len(recycled') <= kMaxRecycledPools
<1>0. recycled \in Seq(Pools) /\ Len(recycled) <= kMaxRecycledPools
  BY Types DEF IInv
<1>1. CASE UNCHANGED <<pool, recycled>>
  BY <1>0, <1>1, Types DEF IInv, PoolsByKey, OfKey, KeyOf
<1>2. ASSUME NEW p \in Pools, pool' = [pool EXCEPT ![p] = NewPool], UNCHANGED recycled
      PROVE  /\ pool' \in [Pools -> PoolStates] /\ PoolsByKey'
             /\ recycled' \in Seq(Pools) /\ Len(recycled') <= kMaxRecycledPools
  <2>1. \A k \in Keys : Len(NewPool.used[k]) = 0 /\ Len(NewPool.unused[k]) = 0
    BY NewPoolType
  <2>2. \A k \in Keys :
          /\ \A i \in 1 .. Len(NewPool.used[k]) : OfKey(NewPool.used[k][i], k)
          /\ \A i \in 1 .. Len(NewPool.unused[k]) : OfKey(NewPool.unused[k][i], k)
    BY <2>1
  <2> QED BY <1>0, <1>2, <2>2, NewPoolType, OnePoolByKey
<1>3. ASSUME NEW p \in Pools, pool' = AllUnused(p), recycled' = Recycled(p)
      PROVE  /\ pool' \in [Pools -> PoolStates] /\ PoolsByKey'
             /\ recycled' \in Seq(Pools) /\ Len(recycled') <= kMaxRecycledPools
  BY <1>3, AllUnusedHolds, RecycledType
<1> QED BY <1>1, <1>2, <1>3

-----------------------------------------------------------------------------
(* The command buffers.                                                    *)

\* If one command buffer changes, the others keep their uses.
LEMMA OneBufferByKey ==
  ASSUME IInv, NEW b \in Buffers, NEW new \in BufferStates,
         buffer' = [buffer EXCEPT ![b] = new],
         new.state = "recording" => new.pool \in Pools,
         \A set, k : OfKey(set, k) => OfKeyNext(set, k),
         \A i \in 1 .. Len(new.uses) : OfKeyNext(new.uses[i].set, KeyOf(new.uses[i].layout))
  PROVE  buffer' \in [Buffers -> BufferStates] /\ UsesByKey' /\ RecordingHasPool'
<1>1. buffer \in [Buffers -> BufferStates]
  BY Types DEF IInv
<1>2. /\ buffer' \in [Buffers -> BufferStates] /\ buffer'[b] = new
      /\ \A c \in Buffers \ {b} : buffer'[c] = buffer[c]
  BY <1>1
<1>3. RecordingHasPool'
  BY <1>2 DEF IInv, RecordingHasPool
<1>4. ASSUME NEW c \in Buffers, NEW i \in 1 .. Len(buffer'[c].uses)
      PROVE  OfKeyNext(buffer'[c].uses[i].set, KeyOf(buffer'[c].uses[i].layout))
  <2>1. CASE c = b
    BY <1>2, <2>1
  <2>2. CASE c # b
    BY <1>2, <2>2 DEF IInv, UsesByKey
  <2> QED BY <2>1, <2>2
<1>5. UsesByKey'
  BY <1>4 DEF UsesByKey, OfKey, OfKeyNext
<1> QED BY <1>2, <1>3, <1>5

\* A new command buffer uses nothing yet, whatever pool it gets.
LEMMA CreateCommandBufferHolds ==
  ASSUME IInv, NEW t \in Threads, NEW b \in Buffers, CreateCommandBuffer(t, b)
  PROVE  IInv'
<1>1. PICK p \in Pools :
        /\ \/ UNCHANGED <<pool, recycled>>
           \/ recycled # <<>> /\ recycled' = Front(recycled) /\ UNCHANGED pool
           \/ pool' = [pool EXCEPT ![p] = NewPool] /\ UNCHANGED recycled
        /\ cached' = [cached EXCEPT ![t] = p]
        /\ buffer' = [buffer EXCEPT ![b] = [state |-> "recording", pool |-> p, uses |-> <<>>]]
  BY DEF CreateCommandBuffer
<1>2. UNCHANGED layouts
  BY DEF CreateCommandBuffer
<1>3. /\ pool' \in [Pools -> PoolStates] /\ PoolsByKey'
      /\ recycled' \in Seq(Pools) /\ Len(recycled') <= kMaxRecycledPools
  <2>1. CASE recycled # <<>> /\ recycled' = Front(recycled) /\ UNCHANGED pool
    <3>1. recycled \in Seq(Pools) /\ Len(recycled) <= kMaxRecycledPools
      BY Types DEF IInv
    <3>2. recycled' \in Seq(Pools) /\ Len(recycled') <= kMaxRecycledPools
      BY <2>1, <3>1, FrontLast, KeysAssumption
    <3>3. pool' \in [Pools -> PoolStates] /\ PoolsByKey'
      BY <1>2, <2>1, Types DEF IInv, PoolsByKey, OfKey, KeyOf
    <3> QED BY <3>2, <3>3
  <2> QED BY <1>1, <1>2, <2>1, ReleaseHolds
<1> DEFINE new == [state |-> "recording", pool |-> p, uses |-> <<>>]
<1>4. new \in BufferStates /\ new.pool \in Pools /\ Len(new.uses) = 0
  BY DEF BufferStates
<1>5. buffer' \in [Buffers -> BufferStates] /\ UsesByKey' /\ RecordingHasPool'
  <2>1. buffer' = [buffer EXCEPT ![b] = new]
    BY <1>1
  <2> HIDE DEF new
  <2>2. \A i \in 1 .. Len(new.uses) : OfKeyNext(new.uses[i].set, KeyOf(new.uses[i].layout))
    BY <1>4
  <2>3. \A set, k : OfKey(set, k) => OfKeyNext(set, k)
    BY <1>2, KeysStay
  <2> QED BY <1>4, <2>1, <2>2, <2>3, OneBufferByKey
<1>6. cached' \in [Threads -> Pools \cup {None}]
  BY <1>1, Types DEF IInv
<1>7. TypeOK'
  BY <1>2, <1>3, <1>5, <1>6, Types DEF IInv, TypeOK, BufferStates, PoolStates, Lists, BufferUses
<1> QED BY <1>3, <1>5, <1>7 DEF IInv

\* A submission changes no use.
LEMMA SubmitHolds ==
  ASSUME IInv, NEW b \in Buffers, Submit(b)
  PROVE  IInv'
<1> DEFINE new == [buffer[b] EXCEPT !.state = "submitted"]
<1>1. buffer' = [buffer EXCEPT ![b] = new] /\ UNCHANGED <<cached, pool, recycled, layouts>>
  BY Types DEF Submit, IInv
<1>2. new \in BufferStates /\ new.state = "submitted" /\ new.uses = buffer[b].uses
  BY Types DEF IInv, BufferStates
<1> HIDE DEF new
<1>3. \A i \in 1 .. Len(new.uses) : OfKeyNext(new.uses[i].set, KeyOf(new.uses[i].layout))
  BY <1>1, <1>2, KeysStay DEF IInv, UsesByKey
<1>4. buffer' \in [Buffers -> BufferStates] /\ UsesByKey' /\ RecordingHasPool'
  BY <1>1, <1>2, <1>3, OneBufferByKey, KeysStay
<1>5. TypeOK'
  BY <1>1, <1>4 DEF IInv, TypeOK, BufferStates, BufferUses
<1>6. PoolsByKey'
  BY <1>1 DEF IInv, PoolsByKey, OfKey
<1> QED BY <1>4, <1>5, <1>6 DEF IInv

\* A command buffer that ends gives up its uses.
LEMMA DropTrackedObjectsHolds ==
  ASSUME IInv, NEW b \in Buffers, DropTrackedObjects(b)
  PROVE  IInv'
<1>1. buffer' = [buffer EXCEPT ![b] = NoBuffer] /\ UNCHANGED <<cached, layouts>>
  BY DEF DropTrackedObjects
<1>2. buffer[b].pool \in Pools \cup {None}
  BY Types DEF IInv, BufferStates
<1>3. \/ UNCHANGED <<pool, recycled>>
      \/ \E p \in Pools : pool' = [pool EXCEPT ![p] = NewPool] /\ UNCHANGED recycled
      \/ \E p \in Pools : pool' = AllUnused(p) /\ recycled' = Recycled(p)
  BY <1>2 DEF DropTrackedObjects, Release
<1>4. /\ pool' \in [Pools -> PoolStates] /\ PoolsByKey'
      /\ recycled' \in Seq(Pools) /\ Len(recycled') <= kMaxRecycledPools
  BY <1>1, <1>3, ReleaseHolds
<1>5. NoBuffer \in BufferStates /\ NoBuffer.state = "none" /\ Len(NoBuffer.uses) = 0
  BY DEF NoBuffer, BufferStates
<1>6. buffer' \in [Buffers -> BufferStates] /\ UsesByKey' /\ RecordingHasPool'
  <2>1. \A i \in 1 .. Len(NoBuffer.uses) : OfKeyNext(NoBuffer.uses[i].set, KeyOf(NoBuffer.uses[i].layout))
    BY <1>5
  <2>2. \A set, k : OfKey(set, k) => OfKeyNext(set, k)
    BY <1>1, KeysStay
  <2> QED BY <1>1, <1>5, <2>1, <2>2, OneBufferByKey
<1>7. TypeOK'
  BY <1>1, <1>4, <1>6, Types DEF IInv, TypeOK, BufferStates, PoolStates, Lists, BufferUses
<1> QED BY <1>4, <1>6, <1>7 DEF IInv

\* A thread that gives up its pool uses nothing itself.
LEMMA DisposeHolds ==
  ASSUME IInv, NEW t \in Threads, DisposeThreadLocalCachedResources(t)
  PROVE  IInv'
<1>1. cached' = [cached EXCEPT ![t] = None] /\ UNCHANGED <<buffer, layouts>> /\ cached[t] \in Pools
  BY Types DEF DisposeThreadLocalCachedResources, IInv
<1>2. \/ UNCHANGED <<pool, recycled>>
      \/ \E p \in Pools : pool' = [pool EXCEPT ![p] = NewPool] /\ UNCHANGED recycled
      \/ \E p \in Pools : pool' = AllUnused(p) /\ recycled' = Recycled(p)
  BY <1>1 DEF DisposeThreadLocalCachedResources, Release
<1>3. /\ pool' \in [Pools -> PoolStates] /\ PoolsByKey'
      /\ recycled' \in Seq(Pools) /\ Len(recycled') <= kMaxRecycledPools
  BY <1>1, <1>2, ReleaseHolds
<1>4. cached' \in [Threads -> Pools \cup {None}]
  BY <1>1, Types DEF IInv
<1>5. TypeOK'
  BY <1>1, <1>3, <1>4, Types DEF IInv, TypeOK, BufferStates, PoolStates, Lists, BufferUses
<1>6. UsesByKey' /\ RecordingHasPool'
  BY <1>1 DEF IInv, UsesByKey, RecordingHasPool, OfKey, KeyOf
<1> QED BY <1>3, <1>5, <1>6 DEF IInv

-----------------------------------------------------------------------------
(* The allocation of sets.                                                 *)

\* A use of a set under its key is added to a command buffer.
LEMMA UseHolds ==
  ASSUME IInv, NEW b \in Buffers, NEW set \in Sets, NEW layout \in Layouts, Use(b, set, layout),
         \A e, k : OfKey(e, k) => OfKeyNext(e, k),
         OfKeyNext(set, KeyOf(layout))
  PROVE  buffer' \in [Buffers -> BufferStates] /\ UsesByKey' /\ RecordingHasPool'
<1> DEFINE use == [set |-> set, layout |-> layout]
           uses == Append(buffer[b].uses, use)
           new == [buffer[b] EXCEPT !.uses = uses]
<1>1. buffer[b] \in BufferStates /\ buffer[b].uses \in Seq(BufferUses) /\ use \in BufferUses
  BY Types DEF IInv, BufferStates, BufferUses
<1>2. use.set = set /\ use.layout = layout
  OBVIOUS
<1>3. buffer' = [buffer EXCEPT ![b] = new]
  BY Types DEF Use, IInv
<1> HIDE DEF use
<1>4. /\ uses \in Seq(BufferUses) /\ Len(uses) = Len(buffer[b].uses) + 1 /\ Len(buffer[b].uses) \in Nat
      /\ \A i \in 1 .. Len(buffer[b].uses) : uses[i] = buffer[b].uses[i]
      /\ uses[Len(buffer[b].uses) + 1] = use
  BY <1>1, AppendOne
<1>5. \A i \in 1 .. Len(buffer[b].uses) :
        OfKeyNext(buffer[b].uses[i].set, KeyOf(buffer[b].uses[i].layout))
  BY DEF IInv, UsesByKey
<1> HIDE DEF uses
<1>6. \A i \in 1 .. Len(uses) : OfKeyNext(uses[i].set, KeyOf(uses[i].layout))
  <2> SUFFICES ASSUME NEW i \in 1 .. Len(uses) PROVE OfKeyNext(uses[i].set, KeyOf(uses[i].layout))
    OBVIOUS
  <2>1. CASE i = Len(buffer[b].uses) + 1
    BY <1>2, <1>4, <2>1
  <2>2. CASE i # Len(buffer[b].uses) + 1
    BY <1>4, <1>5, <2>2
  <2> QED BY <2>1, <2>2
<1>7. /\ new \in BufferStates /\ new.uses = uses
      /\ new.state = buffer[b].state /\ new.pool = buffer[b].pool
  BY <1>1, <1>4 DEF BufferStates
<1>8. new.state = "recording" => new.pool \in Pools
  BY <1>7 DEF IInv, RecordingHasPool
<1> HIDE DEF new
<1> QED BY <1>3, <1>6, <1>7, <1>8, OneBufferByKey

\* The set taken from the unused ones goes to the used ones of the same key.
LEMMA ReuseSetHolds ==
  ASSUME IInv, NEW b \in Buffers, NEW layout \in Layouts, ReuseSet(b, layout)
  PROVE  IInv'
<1> DEFINE p == buffer[b].pool
           k == KeyOf(layout)
           unused == pool[p].unused[k]
           used == pool[p].used[k]
           set == Last(unused)
           rest == Front(unused)
           more == Append(used, set)
           new == [pool[p] EXCEPT !.unused[k] = rest, !.used[k] = more]
<1>1. p \in Pools /\ k \in Keys
  BY KeyType DEF ReuseSet, IInv, RecordingHasPool
<1>2. pool \in [Pools -> PoolStates] /\ pool[p] \in PoolStates
      /\ pool[p].used \in Lists /\ pool[p].unused \in Lists
  BY <1>1, Types DEF IInv, PoolStates
<1>3. unused \in Seq(Sets) /\ used \in Seq(Sets)
  BY <1>1, <1>2 DEF Lists
<1>4. UNCHANGED <<cached, recycled, layouts>> /\ unused # <<>> /\ Use(b, set, layout)
  BY DEF ReuseSet, KeyOf
<1>5. pool' = [pool EXCEPT ![p] = new]
  BY <1>2 DEF ReuseSet, KeyOf
<1>6. /\ set \in Sets /\ rest \in Seq(Sets) /\ Len(rest) = Len(unused) - 1
      /\ Len(unused) \in Nat \ {0} /\ set = unused[Len(unused)]
      /\ \A i \in 1 .. Len(unused) - 1 : rest[i] = unused[i]
  BY <1>3, <1>4, FrontLast
<1>7. \A i \in 1 .. Len(unused) : OfKey(unused[i], k)
  BY <1>1 DEF IInv, PoolsByKey
<1>8. \A i \in 1 .. Len(used) : OfKey(used[i], k)
  BY <1>1 DEF IInv, PoolsByKey
<1> HIDE DEF set, rest, unused, used
<1>9. OfKey(set, k) /\ \A i \in 1 .. Len(rest) : OfKey(rest[i], k)
  BY <1>6, <1>7
<1>10. /\ more \in Seq(Sets) /\ Len(more) = Len(used) + 1 /\ Len(used) \in Nat
       /\ \A i \in 1 .. Len(used) : more[i] = used[i]
       /\ more[Len(used) + 1] = set
  BY <1>3, <1>6, AppendOne
<1> HIDE DEF more
<1>11. ASSUME NEW i \in 1 .. Len(more) PROVE OfKey(more[i], k)
  <2>1. CASE i = Len(used) + 1
    BY <1>9, <1>10, <2>1
  <2>2. CASE i # Len(used) + 1
    BY <1>8, <1>10, <2>2
  <2> QED BY <2>1, <2>2
<1> HIDE DEF p, k
<1>12. /\ new \in PoolStates
       /\ new.unused = [pool[p].unused EXCEPT ![k] = rest]
       /\ new.used = [pool[p].used EXCEPT ![k] = more]
  BY <1>1, <1>2, <1>6, <1>10 DEF PoolStates, Lists
<1> HIDE DEF new
<1>13. ASSUME NEW j \in Keys
       PROVE  /\ \A i \in 1 .. Len(new.used[j]) : OfKey(new.used[j][i], j)
              /\ \A i \in 1 .. Len(new.unused[j]) : OfKey(new.unused[j][i], j)
  <2>1. CASE j = k
    <3>1. new.used[j] = more /\ new.unused[j] = rest
      BY <1>2, <1>12, <2>1 DEF Lists
    <3> QED BY <1>9, <1>11, <2>1, <3>1
  <2>2. CASE j # k
    <3>1. new.used[j] = pool[p].used[j] /\ new.unused[j] = pool[p].unused[j]
      BY <1>2, <1>12, <2>2 DEF Lists
    <3> QED BY <1>1, <3>1 DEF IInv, PoolsByKey
  <2> QED BY <2>1, <2>2
<1>14. pool' \in [Pools -> PoolStates] /\ PoolsByKey'
  BY <1>1, <1>4, <1>5, <1>12, <1>13, OnePoolByKey
<1>15. OfKeyNext(set, KeyOf(layout)) /\ \A e, j : OfKey(e, j) => OfKeyNext(e, j)
  BY <1>4, <1>9, KeysStay DEF k
<1>16. buffer' \in [Buffers -> BufferStates] /\ UsesByKey' /\ RecordingHasPool'
  BY <1>4, <1>6, <1>15, UseHolds
<1>17. TypeOK'
  BY <1>4, <1>14, <1>16 DEF IInv, TypeOK, BufferStates, PoolStates, Lists, BufferUses
<1> QED BY <1>14, <1>16, <1>17 DEF IInv

\* A set is put among the used ones of a key.
LEMMA PutHolds ==
  ASSUME IInv, NEW p \in Pools, NEW k \in Keys, NEW set \in Sets, NEW pools \in Nat, NEW room \in 0 .. Capacity,
         pool' = [pool EXCEPT ![p].used[k] = Append(@, set), ![p].pools = pools, ![p].room = room],
         \A e, j : OfKey(e, j) => OfKeyNext(e, j),
         OfKeyNext(set, k)
  PROVE  pool' \in [Pools -> PoolStates] /\ PoolsByKey'
<1> DEFINE used == pool[p].used[k]
           more == Append(used, set)
           new == [pool[p] EXCEPT !.used[k] = more, !.pools = pools, !.room = room]
<1>1. pool \in [Pools -> PoolStates] /\ pool[p] \in PoolStates
      /\ pool[p].used \in Lists /\ pool[p].unused \in Lists
  BY Types DEF IInv, PoolStates
<1>2. used \in Seq(Sets)
  BY <1>1 DEF Lists
<1>3. pool' = [pool EXCEPT ![p] = new]
  BY <1>1
<1>4. \A i \in 1 .. Len(used) : OfKeyNext(used[i], k)
  BY DEF IInv, PoolsByKey
<1> HIDE DEF used
<1>5. /\ more \in Seq(Sets) /\ Len(more) = Len(used) + 1 /\ Len(used) \in Nat
      /\ \A i \in 1 .. Len(used) : more[i] = used[i]
      /\ more[Len(used) + 1] = set
  BY <1>2, AppendOne
<1> HIDE DEF more
<1>6. ASSUME NEW i \in 1 .. Len(more) PROVE OfKeyNext(more[i], k)
  <2>1. CASE i = Len(used) + 1
    BY <1>5, <2>1
  <2>2. CASE i # Len(used) + 1
    BY <1>4, <1>5, <2>2
  <2> QED BY <2>1, <2>2
<1>7. /\ new \in PoolStates /\ new.unused = pool[p].unused
      /\ new.used = [pool[p].used EXCEPT ![k] = more]
  BY <1>1, <1>5 DEF PoolStates, Lists
<1> HIDE DEF new
<1>8. ASSUME NEW j \in Keys
      PROVE  /\ \A i \in 1 .. Len(new.used[j]) : OfKeyNext(new.used[j][i], j)
             /\ \A i \in 1 .. Len(new.unused[j]) : OfKeyNext(new.unused[j][i], j)
  <2>1. \A i \in 1 .. Len(new.unused[j]) : OfKeyNext(new.unused[j][i], j)
    BY <1>7 DEF IInv, PoolsByKey
  <2>2. CASE j = k
    <3>1. new.used[j] = more
      BY <1>1, <1>7, <2>2 DEF Lists
    <3> QED BY <1>6, <2>1, <2>2, <3>1
  <2>3. CASE j # k
    <3>1. new.used[j] = pool[p].used[j]
      BY <1>1, <1>7, <2>3 DEF Lists
    <3> QED BY <2>1, <3>1 DEF IInv, PoolsByKey
  <2> QED BY <2>2, <2>3
<1> QED BY <1>3, <1>7, <1>8, OnePoolNext

\* A new set is of the layout that it is allocated with; a failure leaves NullSet.
LEMMA AllocateSetHolds ==
  ASSUME IInv, NEW b \in Buffers, NEW layout \in Layouts, AllocateSet(b, layout)
  PROVE  IInv'
<1> DEFINE p == buffer[b].pool
           k == KeyOf(layout)
           n == Len(layouts)
           Put(set) == \E pools \in Nat, room \in 0 .. Capacity :
             pool' = [pool EXCEPT ![p].used[k] = Append(@, set), ![p].pools = pools, ![p].room = room]
<1>1. p \in Pools /\ k \in Keys /\ UNCHANGED <<cached, recycled>>
  BY KeyType DEF AllocateSet, IInv, RecordingHasPool
<1>2. pool[p].pools \in Nat /\ pool[p].room \in 0 .. Capacity
  BY <1>1, Types DEF IInv, PoolStates
<1>3. layouts \in Seq(Layouts) /\ n \in Nat /\ n <= MaxSets
  BY Types, LenProperties DEF IInv
<1>4. \/ n < MaxSets /\ Put(n + 1) /\ layouts' = Append(layouts, layout) /\ Use(b, n + 1, layout)
      \/ Put(NullSet) /\ UNCHANGED <<buffer, layouts>>
  <2> DEFINE grow == pool[p].room = 0
  <2>1. /\ pool[p].pools + (IF grow THEN 1 ELSE 0) \in Nat
        /\ (IF grow THEN Capacity ELSE pool[p].room) - 1 \in 0 .. Capacity
    BY <1>2, KeysAssumption
  <2>2. \A more \in BOOLEAN : /\ pool[p].pools + (IF more THEN 1 ELSE 0) \in Nat
                              /\ (IF more THEN Capacity ELSE pool[p].room) \in 0 .. Capacity
    BY <1>2, KeysAssumption
  <2> QED BY <2>1, <2>2 DEF AllocateSet, KeyOf
<1> HIDE DEF p, k
<1>5. CASE n < MaxSets /\ Put(n + 1) /\ layouts' = Append(layouts, layout) /\ Use(b, n + 1, layout)
  <2>1. /\ layouts' \in Seq(Layouts) /\ Len(layouts') = n + 1
        /\ \A i \in 1 .. n : layouts'[i] = layouts[i]
        /\ layouts'[n + 1] = layout
    BY <1>3, <1>5, AppendOne
  <2>2. n + 1 \in Sets /\ n + 1 <= MaxSets
    BY <1>3, <1>5, KeysAssumption DEF Sets
  <2>3. ASSUME NEW e, NEW j, OfKey(e, j) PROVE OfKeyNext(e, j)
    BY <1>3, <2>1, <2>3 DEF OfKey, OfKeyNext
  <2>4. OfKeyNext(n + 1, k)
    BY <1>3, <2>1 DEF OfKeyNext, k
  <2> HIDE DEF n
  <2>5. pool' \in [Pools -> PoolStates] /\ PoolsByKey'
    BY <1>1, <1>5, <2>2, <2>3, <2>4, PutHolds
  <2>6. buffer' \in [Buffers -> BufferStates] /\ UsesByKey' /\ RecordingHasPool'
    BY <1>5, <2>2, <2>3, <2>4, UseHolds DEF k
  <2>7. TypeOK'
    BY <1>1, <2>1, <2>2, <2>5, <2>6 DEF IInv, TypeOK, BufferStates, PoolStates, Lists,
       BufferUses
  <2> QED BY <2>5, <2>6, <2>7 DEF IInv
<1>6. CASE Put(NullSet) /\ UNCHANGED <<buffer, layouts>>
  <2>1. NullSet \in Sets /\ OfKeyNext(NullSet, k)
    BY KeysAssumption DEF NullSet, Sets, OfKeyNext
  <2>2. \A e, j : OfKey(e, j) => OfKeyNext(e, j)
    BY <1>6, KeysStay
  <2>3. pool' \in [Pools -> PoolStates] /\ PoolsByKey'
    BY <1>1, <1>6, <2>1, <2>2, PutHolds
  <2>4. TypeOK'
    BY <1>1, <1>6, <2>3 DEF IInv, TypeOK, PoolStates, Lists
  <2>5. UsesByKey' /\ RecordingHasPool'
    BY <1>6 DEF IInv, UsesByKey, RecordingHasPool, OfKey
  <2> QED BY <2>3, <2>4, <2>5 DEF IInv
<1> QED BY <1>4, <1>5, <1>6

-----------------------------------------------------------------------------
\* Every action keeps the invariant.
LEMMA IInvInvariant == Spec => []IInv
<1>1. IInv /\ [Next]_vars => IInv'
  <2> SUFFICES ASSUME IInv, [Next]_vars PROVE IInv'
    OBVIOUS
  <2>1. ASSUME NEW t \in Threads, NEW b \in Buffers, CreateCommandBuffer(t, b) PROVE IInv'
    BY <2>1, CreateCommandBufferHolds
  <2>2. ASSUME NEW b \in Buffers, NEW layout \in Layouts, ReuseSet(b, layout) \/ AllocateSet(b, layout)
        PROVE  IInv'
    BY <2>2, ReuseSetHolds, AllocateSetHolds
  <2>3. ASSUME NEW b \in Buffers, Submit(b) \/ DropTrackedObjects(b) PROVE IInv'
    BY <2>3, SubmitHolds, DropTrackedObjectsHolds
  <2>4. ASSUME NEW t \in Threads, DisposeThreadLocalCachedResources(t) PROVE IInv'
    BY <2>4, DisposeHolds
  <2>5. CASE UNCHANGED vars
    <3>1. TypeOK'
      BY <2>5 DEF vars, IInv, TypeOK
    <3>2. PoolsByKey' /\ UsesByKey' /\ RecordingHasPool'
      BY <2>5 DEF vars, IInv, PoolsByKey, UsesByKey, RecordingHasPool, OfKey
    <3> QED BY <3>1, <3>2 DEF IInv
  <2> QED BY <2>1, <2>2, <2>3, <2>4, <2>5 DEF Next
<1> QED BY <1>1, InitHolds, PTL DEF Spec

(***************************************************************************)
(* The pools, the recycler with its limit and the command buffers stay in  *)
(* their types, whatever fails and is recycled.                            *)
(***************************************************************************)
THEOREM TypeCorrectness == Spec => []TypeOK
  BY IInvInvariant, PTL DEF IInv

(***************************************************************************)
(* For any pipelines and samplers: AllocateDescriptorSets hands out a set  *)
(* that was allocated for the same pipeline, and for a variant if it is    *)
(* asked for one, through any number of reclaims by the recycler.          *)
(***************************************************************************)
THEOREM SetsOfPipelineInvariant == Spec => []SetsOfPipeline
<1>1. IInv => SetsOfPipeline
  <2> SUFFICES ASSUME IInv, NEW b \in Buffers, NEW i \in 1 .. Len(buffer[b].uses),
                      buffer[b].uses[i].set # NullSet
               PROVE  LET use == buffer[b].uses[i]
                      IN  /\ layouts[use.set][1] = use.layout[1]
                          /\ layouts[use.set][2] = None <=> use.layout[2] = None
    BY DEF SetsOfPipeline
  <2>1. buffer[b].uses \in Seq(BufferUses) /\ layouts \in Seq(Layouts)
    BY Types DEF IInv, BufferStates
  <2>2. buffer[b].uses[i] \in BufferUses
    BY <2>1, ElementOfSeq
  <2>3. buffer[b].uses[i].layout \in Layouts
    BY <2>2 DEF BufferUses
  <2>4. /\ buffer[b].uses[i].set \in 1 .. Len(layouts)
        /\ KeyOf(layouts[buffer[b].uses[i].set]) = KeyOf(buffer[b].uses[i].layout)
    BY DEF IInv, UsesByKey, OfKey
  <2>5. layouts[buffer[b].uses[i].set] \in Layouts
    BY <2>1, <2>4, ElementOfSeq
  <2> QED BY <2>3, <2>4, <2>5, KeysApart
<1> QED BY <1>1, IInvInvariant, PTL


-----------------------------------------------------------------------------
(* Sets are not shared: in the pools each set is in one place, and what a  *)
(* command buffer uses is among the used ones of its pool.                 *)

In(s, e) == \E i \in 1 .. Len(s) : s[i] = e
Once(s) == \A i, j \in 1 .. Len(s) : s[i] = s[j] /\ s[i] # NullSet => i = j
Has(r, k, e) == In(r.used[k], e) \/ In(r.unused[k], e)

\* A pool has a set under one key, once, as used or as unused.
PoolApart(r) ==
  /\ \A k \in Keys :
       /\ Once(r.used[k]) /\ Once(r.unused[k])
       /\ \A e : e # NullSet => ~(In(r.used[k], e) /\ In(r.unused[k], e))
  /\ \A e : \A k, l \in Keys : e # NullSet /\ Has(r, k, e) /\ Has(r, l, e) => k = l

\* And one pool has it.
PlacesInv ==
  /\ \A p \in Pools : PoolApart(pool[p])
  /\ \A e : \A p, q \in Pools, k, l \in Keys :
       e # NullSet /\ Has(pool[p], k, e) /\ Has(pool[q], l, e) => p = q

UsedIn(r, e) == \E k \in Keys : In(r.used[k], e)

UsedInv ==
  /\ \A b \in Buffers : \A i \in 1 .. Len(buffer[b].uses) :
       buffer[b].uses[i].set # NullSet =>
         buffer[b].pool \in Pools /\ UsedIn(pool[buffer[b].pool], buffer[b].uses[i].set)
  /\ \A b, c \in Buffers : \A i \in 1 .. Len(buffer[b].uses), j \in 1 .. Len(buffer[c].uses) :
       buffer[b].uses[i].set = buffer[c].uses[j].set /\ buffer[b].uses[i].set # NullSet
         => b = c /\ i = j

SharedInv == PlacesInv /\ UsedInv

\* The elements of a sequence that is appended to ...
LEMMA InAppend ==
  ASSUME NEW S, NEW s \in Seq(S), NEW e \in S
  PROVE  /\ \A x : In(Append(s, e), x) <=> In(s, x) \/ x = e
         /\ Once(s) /\ (e # NullSet => ~In(s, e)) => Once(Append(s, e))
<1> DEFINE a == Append(s, e)
<1>1. /\ Len(a) = Len(s) + 1 /\ Len(s) \in Nat /\ a[Len(s) + 1] = e
      /\ \A i \in 1 .. Len(s) : a[i] = s[i]
  BY AppendOne
<1> HIDE DEF a
<1>2. \A x : In(a, x) <=> In(s, x) \/ x = e
  <2>1. ASSUME NEW x, In(a, x) PROVE In(s, x) \/ x = e
    BY <1>1, <2>1 DEF In
  <2>2. ASSUME NEW x, In(s, x) PROVE In(a, x)
    BY <1>1, <2>2 DEF In
  <2>3. In(a, e)
    BY <1>1 DEF In
  <2> QED BY <2>1, <2>2, <2>3
<1>3. ASSUME Once(s), e # NullSet => ~In(s, e) PROVE Once(a)
  <2> SUFFICES ASSUME NEW i \in 1 .. Len(a), NEW j \in 1 .. Len(a), a[i] = a[j], a[i] # NullSet
               PROVE  i = j
    BY DEF Once
  <2>1. CASE i \in 1 .. Len(s) /\ j \in 1 .. Len(s)
    BY <1>1, <1>3, <2>1 DEF Once
  <2>2. CASE i = Len(s) + 1 /\ j \in 1 .. Len(s)
    BY <1>1, <1>3, <2>2 DEF In
  <2>3. CASE i \in 1 .. Len(s) /\ j = Len(s) + 1
    BY <1>1, <1>3, <2>3 DEF In
  <2>4. CASE i = Len(s) + 1 /\ j = Len(s) + 1
    BY <2>4
  <2> QED BY <1>1, <2>1, <2>2, <2>3, <2>4
<1> QED BY <1>2, <1>3 DEF a

\* ... or loses its last element ...
LEMMA InFront ==
  ASSUME NEW S, NEW s \in Seq(S), s # <<>>
  PROVE  /\ \A x : In(s, x) <=> In(Front(s), x) \/ x = Last(s)
         /\ Once(s) => Once(Front(s)) /\ (Last(s) # NullSet => ~In(Front(s), Last(s)))
<1> DEFINE f == Front(s)
<1>1. /\ Len(f) = Len(s) - 1 /\ Len(s) \in Nat \ {0} /\ Last(s) = s[Len(s)]
      /\ \A i \in 1 .. Len(s) - 1 : f[i] = s[i]
  BY FrontLast
<1> HIDE DEF f
<1>2. ASSUME NEW x, In(s, x) PROVE In(f, x) \/ x = Last(s)
  BY <1>1, <1>2 DEF In
<1>3. ASSUME NEW x, In(f, x) PROVE In(s, x)
  BY <1>1, <1>3 DEF In
<1>4. In(s, Last(s))
  BY <1>1 DEF In
<1>5. ASSUME Once(s) PROVE Once(f)
  BY <1>1, <1>5 DEF Once
<1>6. ASSUME Once(s), Last(s) # NullSet PROVE ~In(f, Last(s))
  <2>1. ASSUME NEW i \in 1 .. Len(f), f[i] = Last(s) PROVE FALSE
    BY <1>1, <1>6, <2>1 DEF Once
  <2> QED BY <2>1 DEF In
<1> QED BY <1>2, <1>3, <1>4, <1>5, <1>6 DEF f

\* ... or is put before another.
LEMMA InConcat ==
  ASSUME NEW S, NEW s \in Seq(S), NEW t \in Seq(S)
  PROVE  /\ \A x : In(s \o t, x) <=> In(s, x) \/ In(t, x)
         /\ Once(s) /\ Once(t) /\ (\A x : x # NullSet => ~(In(s, x) /\ In(t, x))) => Once(s \o t)
<1> DEFINE a == s \o t
<1>1. /\ Len(s) \in Nat /\ Len(t) \in Nat /\ Len(a) = Len(s) + Len(t)
      /\ \A i \in 1 .. Len(s) + Len(t) : a[i] = IF i <= Len(s) THEN s[i] ELSE t[i - Len(s)]
  BY ConcatProperties, LenProperties
<1> HIDE DEF a
<1>2. \A i \in 1 .. Len(s) : i \in 1 .. Len(a) /\ a[i] = s[i]
  BY <1>1
<1>3. \A i \in 1 .. Len(t) : Len(s) + i \in 1 .. Len(a) /\ a[Len(s) + i] = t[i]
  <2> SUFFICES ASSUME NEW i \in 1 .. Len(t)
               PROVE  Len(s) + i \in 1 .. Len(a) /\ a[Len(s) + i] = t[i]
    OBVIOUS
  <2>1. Len(s) + i \in 1 .. Len(s) + Len(t) /\ ~(Len(s) + i <= Len(s)) /\ (Len(s) + i) - Len(s) = i
    BY <1>1
  <2> QED BY <1>1, <2>1
<1>4. ASSUME NEW i \in 1 .. Len(a)
      PROVE  \/ i \in 1 .. Len(s) /\ a[i] = s[i]
             \/ i - Len(s) \in 1 .. Len(t) /\ a[i] = t[i - Len(s)]
  BY <1>1
<1>5. \A x : In(a, x) <=> In(s, x) \/ In(t, x)
  <2>1. ASSUME NEW x, In(a, x) PROVE In(s, x) \/ In(t, x)
    BY <1>4, <2>1 DEF In
  <2>2. ASSUME NEW x, In(s, x) PROVE In(a, x)
    BY <1>2, <2>2 DEF In
  <2>3. ASSUME NEW x, In(t, x) PROVE In(a, x)
    BY <1>3, <2>3 DEF In
  <2> QED BY <2>1, <2>2, <2>3
<1>6. ASSUME Once(s), Once(t), \A x : x # NullSet => ~(In(s, x) /\ In(t, x)) PROVE Once(a)
  <2> SUFFICES ASSUME NEW i \in 1 .. Len(a), NEW j \in 1 .. Len(a), a[i] = a[j], a[i] # NullSet
               PROVE  i = j
    BY DEF Once
  <2>1. CASE i \in 1 .. Len(s) /\ a[i] = s[i] /\ j \in 1 .. Len(s) /\ a[j] = s[j]
    BY <1>6, <2>1 DEF Once
  <2>2. CASE /\ i - Len(s) \in 1 .. Len(t) /\ a[i] = t[i - Len(s)]
             /\ j - Len(s) \in 1 .. Len(t) /\ a[j] = t[j - Len(s)]
    <3>1. i - Len(s) = j - Len(s)
      BY <1>6, <2>2 DEF Once
    <3> QED BY <1>1, <3>1
  <2>3. CASE i \in 1 .. Len(s) /\ a[i] = s[i] /\ j - Len(s) \in 1 .. Len(t) /\ a[j] = t[j - Len(s)]
    BY <1>6, <2>3 DEF In
  <2>4. CASE i - Len(s) \in 1 .. Len(t) /\ a[i] = t[i - Len(s)] /\ j \in 1 .. Len(s) /\ a[j] = s[j]
    BY <1>6, <2>4 DEF In
  <2> QED BY <1>4, <2>1, <2>2, <2>3, <2>4
<1> QED BY <1>5, <1>6 DEF a

\* If one pool changes, and has no set of another, the sets stay apart.
LEMMA OnePoolApart ==
  ASSUME TypeOK, PlacesInv, NEW p \in Pools, NEW new, pool' = [pool EXCEPT ![p] = new], PoolApart(new),
         \A e : \A q \in Pools \ {p}, k, l \in Keys : e # NullSet /\ Has(new, k, e) => ~Has(pool[q], l, e)
  PROVE  PlacesInv'
<1>1. pool'[p] = new /\ \A q \in Pools \ {p} : pool'[q] = pool[q]
  BY Types
<1>2. \A q \in Pools : PoolApart(pool'[q])
  BY <1>1 DEF PlacesInv
<1>3. ASSUME NEW q \in Pools, NEW u \in Pools, NEW k \in Keys, NEW l \in Keys, NEW e,
             e # NullSet, Has(pool'[q], k, e), Has(pool'[u], l, e)
      PROVE  q = u
  BY <1>1, <1>3 DEF PlacesInv
<1>4. \A e : \A q, u \in Pools, k, l \in Keys :
        e # NullSet /\ Has(pool'[q], k, e) /\ Has(pool'[u], l, e) => q = u
  BY <1>3
<1> QED BY <1>2, <1>4 DEF PlacesInv

\* A pool that is reclaimed keeps its sets; one that is destroyed has none.
LEMMA ReclaimedApart ==
  ASSUME TypeOK, PlacesInv, NEW p \in Pools, pool' = AllUnused(p) \/ pool' = [pool EXCEPT ![p] = NewPool]
  PROVE  PlacesInv' /\ \A q \in Pools \ {p} : pool'[q] = pool[q]
<1>0. \A e : ~In(<<>>, e)
  BY DEF In
<1>1. CASE pool' = [pool EXCEPT ![p] = NewPool]
  <2>1. \A k \in Keys : NewPool.used[k] = <<>> /\ NewPool.unused[k] = <<>>
    BY NewPoolType
  <2>2. Once(<<>>)
    BY DEF Once
  <2>3. PoolApart(NewPool) /\ \A e : \A k \in Keys : ~Has(NewPool, k, e)
    BY <1>0, <2>1, <2>2 DEF PoolApart, Has
  <2>4. PlacesInv'
    BY <1>1, <2>3, OnePoolApart
  <2> QED BY <1>1, <2>4, Types
<1>2. CASE pool' = AllUnused(p)
  <2> DEFINE both == [k \in Keys |-> pool[p].unused[k] \o pool[p].used[k]]
             new == [pool[p] EXCEPT !.unused = both, !.used = NoSets]
  <2>1. /\ pool[p] \in PoolStates
        /\ \A k \in Keys : pool[p].used[k] \in Seq(Sets) /\ pool[p].unused[k] \in Seq(Sets)
    BY Types DEF PoolStates, Lists
  <2>2. pool' = [pool EXCEPT ![p] = new]
    BY <1>2, Types DEF AllUnused
  <2>3. \A k \in Keys : both[k] = pool[p].unused[k] \o pool[p].used[k]
    OBVIOUS
  <2> HIDE DEF both
  <2>4. new.unused = both /\ new.used = NoSets /\ \A k \in Keys : NoSets[k] = <<>>
    BY <2>1 DEF PoolStates, NoSets
  <2> HIDE DEF new
  <2>5. PoolApart(pool[p])
    BY DEF PlacesInv
  <2>6. ASSUME NEW k \in Keys
        PROVE  /\ Once(new.unused[k]) /\ Once(new.used[k]) /\ \A e : ~In(new.used[k], e)
               /\ \A e : Has(new, k, e) <=> Has(pool[p], k, e)
    <3>1. /\ \A x : In(both[k], x) <=> In(pool[p].unused[k], x) \/ In(pool[p].used[k], x)
          /\ Once(both[k])
      <4> DEFINE s == pool[p].unused[k]
                 t == pool[p].used[k]
      <4>1. s \in Seq(Sets) /\ t \in Seq(Sets) /\ both[k] = s \o t
        BY <2>1, <2>3
      <4>2. Once(s) /\ Once(t) /\ \A x : x # NullSet => ~(In(s, x) /\ In(t, x))
        BY <2>5 DEF PoolApart
      <4> HIDE DEF s, t
      <4>3. (\A x : In(both[k], x) <=> In(s, x) \/ In(t, x)) /\ Once(both[k])
        BY <4>1, <4>2, InConcat
      <4> QED BY <4>3 DEF s, t
    <3>2. new.unused[k] = both[k] /\ new.used[k] = <<>>
      BY <2>4
    <3>3. Once(<<>>)
      BY DEF Once
    <3> QED BY <1>0, <3>1, <3>2, <3>3 DEF Has
  <2>7. PoolApart(new)
    BY <2>5, <2>6 DEF PoolApart
  <2>8. PlacesInv'
    <3>1. \A e : \A q \in Pools \ {p}, k, l \in Keys : e # NullSet /\ Has(new, k, e) => ~Has(pool[q], l, e)
      BY <2>6 DEF PlacesInv
    <3> QED BY <2>2, <2>7, <3>1, OnePoolApart
  <2> QED BY <2>2, <2>8, Types
<1> QED BY <1>1, <1>2

\* Pools that are left alone keep their sets apart.
LEMMA PoolsKept ==
  ASSUME PlacesInv, pool' = pool
  PROVE  PlacesInv'
<1>1. \A p \in Pools : PoolApart(pool'[p])
  BY DEF PlacesInv
<1>2. \A e : \A p, q \in Pools, k, l \in Keys :
        e # NullSet /\ Has(pool'[p], k, e) /\ Has(pool'[q], l, e) => p = q
  BY DEF PlacesInv
<1> QED BY <1>1, <1>2 DEF PlacesInv, PoolApart, Has

\* Command buffers keep what they use, or end; the pools of those that use
\* something are left alone.
LEMMA UsesKept ==
  ASSUME UsedInv,
         \A b \in Buffers : Len(buffer'[b].uses) # 0 =>
           /\ buffer'[b].uses = buffer[b].uses /\ buffer'[b].pool = buffer[b].pool
           /\ buffer[b].pool \in Pools => pool'[buffer[b].pool] = pool[buffer[b].pool]
  PROVE  UsedInv'
<1>1. ASSUME NEW b \in Buffers, NEW i \in 1 .. Len(buffer'[b].uses)
      PROVE  /\ Len(buffer'[b].uses) # 0 /\ i \in 1 .. Len(buffer[b].uses)
             /\ buffer'[b].uses = buffer[b].uses /\ buffer'[b].pool = buffer[b].pool
             /\ buffer[b].pool \in Pools => pool'[buffer[b].pool] = pool[buffer[b].pool]
  <2>1. Len(buffer'[b].uses) # 0
    BY <1>1
  <2> QED BY <1>1, <2>1
<1>2. ASSUME NEW b \in Buffers, NEW i \in 1 .. Len(buffer'[b].uses), buffer'[b].uses[i].set # NullSet
      PROVE  buffer'[b].pool \in Pools /\ UsedIn(pool'[buffer'[b].pool], buffer'[b].uses[i].set)
  BY <1>1, <1>2 DEF UsedInv
<1>3. ASSUME NEW b \in Buffers, NEW c \in Buffers, NEW i \in 1 .. Len(buffer'[b].uses),
             NEW j \in 1 .. Len(buffer'[c].uses), buffer'[b].uses[i].set = buffer'[c].uses[j].set,
             buffer'[b].uses[i].set # NullSet
      PROVE  b = c /\ i = j
  <2>1. i \in 1 .. Len(buffer[b].uses) /\ buffer'[b].uses = buffer[b].uses
    BY <1>1
  <2>2. j \in 1 .. Len(buffer[c].uses) /\ buffer'[c].uses = buffer[c].uses
    BY <1>1
  <2>3. buffer[b].uses[i].set = buffer[c].uses[j].set /\ buffer[b].uses[i].set # NullSet
    BY <1>3, <2>1, <2>2
  <2> QED BY <2>1, <2>2, <2>3 DEF UsedInv
<1> QED BY <1>2, <1>3 DEF UsedInv, UsedIn

\* The pool a new command buffer gets is recycled whole, or nobody has it.
LEMMA CreateCommandBufferApart ==
  ASSUME TypeOK, SharedInv, NEW t \in Threads, NEW b \in Buffers, CreateCommandBuffer(t, b)
  PROVE  SharedInv'
<1>1. PICK p \in Pools :
        /\ \/ pool' = pool
           \/ ~Referenced(p) /\ pool' = [pool EXCEPT ![p] = NewPool]
        /\ buffer' = [buffer EXCEPT ![b] = [state |-> "recording", pool |-> p, uses |-> <<>>]]
  BY DEF CreateCommandBuffer
<1>2. Len(buffer'[b].uses) = 0 /\ \A c \in Buffers \ {b} : buffer'[c] = buffer[c]
  BY <1>1, Types
<1>3. CASE pool' = pool
  <2>1. PlacesInv'
    BY <1>3, PoolsKept DEF SharedInv
  <2>2. UsedInv'
    BY <1>2, <1>3, UsesKept DEF SharedInv
  <2> QED BY <2>1, <2>2 DEF SharedInv
<1>4. CASE ~Referenced(p) /\ pool' = [pool EXCEPT ![p] = NewPool]
  <2>1. PlacesInv' /\ \A q \in Pools \ {p} : pool'[q] = pool[q]
    BY <1>4, ReclaimedApart DEF SharedInv
  <2>2. \A c \in Buffers : buffer[c].pool # p
    BY <1>4 DEF Referenced
  <2>3. UsedInv'
    BY <1>2, <2>1, <2>2, UsesKept DEF SharedInv
  <2> QED BY <2>1, <2>3 DEF SharedInv
<1> QED BY <1>1, <1>3, <1>4

\* A submission moves no set.
LEMMA SubmitApart ==
  ASSUME TypeOK, SharedInv, NEW b \in Buffers, Submit(b)
  PROVE  SharedInv'
<1>1. pool' = pool /\ buffer' = [buffer EXCEPT ![b].state = "submitted"]
  BY DEF Submit
<1>2. \A c \in Buffers : buffer'[c].uses = buffer[c].uses /\ buffer'[c].pool = buffer[c].pool
  BY <1>1, Types DEF BufferStates
<1>3. PlacesInv'
  BY <1>1, PoolsKept DEF SharedInv
<1>4. UsedInv'
  BY <1>1, <1>2, UsesKept DEF SharedInv
<1> QED BY <1>3, <1>4 DEF SharedInv

\* A reference goes; if the pool goes with it, no command buffer has the pool.
LEMMA ReleaseApart ==
  ASSUME TypeOK, SharedInv, NEW p \in Pools \cup {None}, NEW others \in BOOLEAN, Release(p, others),
         ~others => \A b \in Buffers : Len(buffer'[b].uses) # 0 => buffer[b].pool # p,
         \A b \in Buffers : Len(buffer'[b].uses) # 0 => buffer'[b] = buffer[b]
  PROVE  SharedInv'
<1>1. CASE pool' = pool
  <2>1. PlacesInv'
    BY <1>1, PoolsKept DEF SharedInv
  <2>2. UsedInv'
    BY <1>1, UsesKept DEF SharedInv
  <2> QED BY <2>1, <2>2 DEF SharedInv
<1>2. CASE ~others /\ p \in Pools /\ (pool' = AllUnused(p) \/ pool' = [pool EXCEPT ![p] = NewPool])
  <2>1. PlacesInv' /\ \A q \in Pools \ {p} : pool'[q] = pool[q]
    BY <1>2, ReclaimedApart DEF SharedInv
  <2>2. UsedInv'
    BY <1>2, <2>1, UsesKept DEF SharedInv
  <2> QED BY <2>1, <2>2 DEF SharedInv
<1> QED BY <1>1, <1>2 DEF Release

\* The last command buffer of a pool, with no thread left, reclaims it.
LEMMA DropTrackedObjectsApart ==
  ASSUME TypeOK, SharedInv, NEW b \in Buffers, DropTrackedObjects(b)
  PROVE  SharedInv'
<1> DEFINE p == buffer[b].pool
           others == \/ \E t \in Threads : cached[t] = p
                     \/ \E c \in Buffers \ {b} : buffer[c].pool = p
<1>1. p \in Pools \cup {None} /\ others \in BOOLEAN /\ Release(p, others)
  BY Types DEF DropTrackedObjects, BufferStates
<1>2. buffer' = [buffer EXCEPT ![b] = NoBuffer]
  BY DEF DropTrackedObjects
<1>3. Len(buffer'[b].uses) = 0 /\ \A c \in Buffers \ {b} : buffer'[c] = buffer[c]
  BY <1>2, Types DEF NoBuffer
<1>4. ~others => \A c \in Buffers \ {b} : buffer[c].pool # p
  OBVIOUS
<1> HIDE DEF others
<1>5. ~others => \A c \in Buffers : Len(buffer'[c].uses) # 0 => buffer[c].pool # p
  BY <1>3, <1>4
<1> QED BY <1>1, <1>3, <1>5, ReleaseApart

\* So does a thread, when no command buffer is left.
LEMMA DisposeApart ==
  ASSUME TypeOK, SharedInv, NEW t \in Threads, DisposeThreadLocalCachedResources(t)
  PROVE  SharedInv'
<1> DEFINE p == cached[t]
           others == \E b \in Buffers : buffer[b].pool = p
<1>1. p \in Pools \cup {None} /\ others \in BOOLEAN /\ Release(p, others) /\ buffer' = buffer
  BY Types DEF DisposeThreadLocalCachedResources
<1>2. ~others => \A b \in Buffers : buffer[b].pool # p
  OBVIOUS
<1> HIDE DEF others
<1> QED BY <1>1, <1>2, ReleaseApart

\* A set that nobody uses, and that becomes a used one of its pool, gets a use.
LEMMA UseApart ==
  ASSUME TypeOK, UsedInv, NEW b \in Buffers, NEW set \in Sets, NEW layout \in Layouts,
         Use(b, set, layout), buffer[b].pool \in Pools, set # NullSet => UsedIn(pool'[buffer[b].pool], set),
         \A c \in Buffers : \A i \in 1 .. Len(buffer[c].uses) : set # NullSet => buffer[c].uses[i].set # set,
         \A e : \A q \in Pools : e # NullSet /\ UsedIn(pool[q], e) => UsedIn(pool'[q], e)
  PROVE  UsedInv'
<1> DEFINE use == [set |-> set, layout |-> layout]
           n == Len(buffer[b].uses)
<1>1. buffer[b] \in BufferStates /\ buffer[b].uses \in Seq(BufferUses) /\ use \in BufferUses
  BY Types DEF BufferStates, BufferUses
<1>2. use.set = set
  OBVIOUS
<1>3. /\ buffer'[b].uses = Append(buffer[b].uses, use) /\ buffer'[b].pool = buffer[b].pool
      /\ \A c \in Buffers \ {b} : buffer'[c] = buffer[c]
  BY <1>1, Types DEF Use, BufferStates
<1> HIDE DEF use
<1>4. /\ Len(buffer'[b].uses) = n + 1 /\ n \in Nat
      /\ \A i \in 1 .. n : buffer'[b].uses[i] = buffer[b].uses[i]
      /\ buffer'[b].uses[n + 1] = use
  BY <1>1, <1>3, AppendOne
<1> HIDE DEF n
<1>5. ASSUME NEW c \in Buffers, NEW i \in 1 .. Len(buffer'[c].uses)
      PROVE  \/ c = b /\ i = n + 1 /\ buffer'[c].uses[i].set = set
             \/ i \in 1 .. Len(buffer[c].uses) /\ buffer'[c].uses[i] = buffer[c].uses[i]
  <2>1. CASE c = b
    <3>1. i \in 1 .. n + 1
      BY <1>4, <1>5, <2>1
    <3>2. CASE i = n + 1
      BY <1>2, <1>4, <2>1, <3>2
    <3>3. CASE i \in 1 .. n
      BY <1>4, <2>1, <3>3 DEF n
    <3> QED BY <1>4, <3>1, <3>2, <3>3
  <2>2. CASE c # b
    BY <1>3, <1>5, <2>2
  <2> QED BY <2>1, <2>2
<1>6. \A c \in Buffers : buffer'[c].pool = buffer[c].pool
  BY <1>3
<1>7. ASSUME NEW c \in Buffers, NEW i \in 1 .. Len(buffer'[c].uses), buffer'[c].uses[i].set # NullSet
      PROVE  buffer'[c].pool \in Pools /\ UsedIn(pool'[buffer'[c].pool], buffer'[c].uses[i].set)
  <2>1. CASE c = b /\ i = n + 1 /\ buffer'[c].uses[i].set = set
    BY <1>6, <1>7, <2>1
  <2>2. CASE i \in 1 .. Len(buffer[c].uses) /\ buffer'[c].uses[i] = buffer[c].uses[i]
    <3>1. buffer[c].pool \in Pools /\ UsedIn(pool[buffer[c].pool], buffer[c].uses[i].set)
      BY <1>7, <2>2 DEF UsedInv
    <3> QED BY <1>6, <1>7, <2>2, <3>1
  <2> QED BY <1>5, <2>1, <2>2
<1>8. ASSUME NEW c \in Buffers, NEW d \in Buffers, NEW i \in 1 .. Len(buffer'[c].uses),
             NEW j \in 1 .. Len(buffer'[d].uses), buffer'[c].uses[i].set = buffer'[d].uses[j].set,
             buffer'[c].uses[i].set # NullSet
      PROVE  c = d /\ i = j
  <2>1. CASE /\ i \in 1 .. Len(buffer[c].uses) /\ buffer'[c].uses[i] = buffer[c].uses[i]
             /\ j \in 1 .. Len(buffer[d].uses) /\ buffer'[d].uses[j] = buffer[d].uses[j]
    BY <1>8, <2>1 DEF UsedInv
  <2>2. CASE c = b /\ i = n + 1 /\ buffer'[c].uses[i].set = set
    <3>1. ~(j \in 1 .. Len(buffer[d].uses) /\ buffer'[d].uses[j] = buffer[d].uses[j])
      BY <1>8, <2>2
    <3>2. d = b /\ j = n + 1
      BY <1>5, <3>1
    <3> QED BY <2>2, <3>2
  <2>3. CASE d = b /\ j = n + 1 /\ buffer'[d].uses[j].set = set
    <3>1. ~(i \in 1 .. Len(buffer[c].uses) /\ buffer'[c].uses[i] = buffer[c].uses[i])
      BY <1>8, <2>3
    <3>2. c = b /\ i = n + 1
      BY <1>5, <3>1
    <3> QED BY <2>3, <3>2
  <2> QED BY <1>5, <2>1, <2>2, <2>3
<1> QED BY <1>7, <1>8 DEF UsedInv, UsedIn

\* What a pool or a command buffer has, was allocated.
LEMMA HadBefore ==
  ASSUME IInv, NEW e, e # NullSet
  PROVE  /\ \A p \in Pools, k \in Keys : Has(pool[p], k, e) => e \in 1 .. Len(layouts)
         /\ \A b \in Buffers : \A i \in 1 .. Len(buffer[b].uses) :
              buffer[b].uses[i].set = e => e \in 1 .. Len(layouts)
<1>1. ASSUME NEW p \in Pools, NEW k \in Keys, Has(pool[p], k, e) PROVE e \in 1 .. Len(layouts)
  BY <1>1 DEF IInv, PoolsByKey, OfKey, Has, In
<1>2. ASSUME NEW b \in Buffers, NEW i \in 1 .. Len(buffer[b].uses), buffer[b].uses[i].set = e
      PROVE  e \in 1 .. Len(layouts)
  BY <1>2 DEF IInv, UsesByKey, OfKey
<1> QED BY <1>1, <1>2

\* A set from the unused ones of the pool was used by nobody.
LEMMA ReuseSetApart ==
  ASSUME IInv, SharedInv, NEW b \in Buffers, NEW layout \in Layouts, ReuseSet(b, layout)
  PROVE  SharedInv'
<1>0. TypeOK /\ PlacesInv /\ UsedInv
  BY DEF IInv, SharedInv
<1>00. PICK p, k, r, set : p = buffer[b].pool /\ k = KeyOf(layout) /\ r = pool[p] /\ set = Last(r.unused[k])
  OBVIOUS
<1> DEFINE rest == Front(r.unused[k])
           more == Append(r.used[k], set)
           new == [r EXCEPT !.unused[k] = rest, !.used[k] = more]
<1>1. p \in Pools /\ k \in Keys
  BY <1>00, KeyType DEF ReuseSet, IInv, RecordingHasPool
<1>2. r \in PoolStates /\ r.used \in Lists /\ r.unused \in Lists
  BY <1>0, <1>00, <1>1, Types DEF PoolStates
<1>3. r.unused[k] \in Seq(Sets) /\ r.used[k] \in Seq(Sets)
  BY <1>1, <1>2 DEF Lists
<1>4. r.unused[k] # <<>> /\ Use(b, set, layout)
  BY <1>00 DEF ReuseSet, KeyOf
<1>5. pool' = [pool EXCEPT ![p] = new]
  BY <1>0, <1>00, <1>2, Types DEF ReuseSet, KeyOf
<1>6. PoolApart(r)
  BY <1>0, <1>00, <1>1 DEF PlacesInv
<1>7. set \in Sets /\ rest \in Seq(Sets)
  BY <1>00, <1>3, <1>4, FrontLast
<1>8. /\ \A x : In(r.unused[k], x) <=> In(rest, x) \/ x = set
      /\ Once(rest) /\ (set # NullSet => ~In(rest, set))
  BY <1>00, <1>1, <1>3, <1>4, <1>6, InFront DEF PoolApart
<1>9. set # NullSet => ~In(r.used[k], set)
  BY <1>1, <1>6, <1>8 DEF PoolApart
<1>10. (\A x : In(more, x) <=> In(r.used[k], x) \/ x = set) /\ Once(more) /\ more \in Seq(Sets)
  BY <1>1, <1>3, <1>6, <1>7, <1>9, InAppend, AppendOne DEF PoolApart
<1> HIDE DEF rest, more
<1>11. /\ new.unused = [r.unused EXCEPT ![k] = rest]
       /\ new.used = [r.used EXCEPT ![k] = more]
  BY <1>1, <1>2, <1>7, <1>10 DEF PoolStates, Lists
<1> HIDE DEF new
<1>12. /\ new.unused[k] = rest /\ new.used[k] = more
       /\ \A l \in Keys \ {k} : new.unused[l] = r.unused[l] /\ new.used[l] = r.used[l]
  BY <1>1, <1>2, <1>11 DEF Lists
<1>13. \A e : \A l \in Keys : Has(new, l, e) <=> Has(r, l, e)
  BY <1>8, <1>10, <1>12 DEF Has
<1>14. PoolApart(new)
  <2>1. ASSUME NEW l \in Keys
        PROVE  /\ Once(new.used[l]) /\ Once(new.unused[l])
               /\ \A e : e # NullSet => ~(In(new.used[l], e) /\ In(new.unused[l], e))
    <3>1. CASE l = k
      BY <1>1, <1>6, <1>8, <1>10, <1>12, <3>1 DEF PoolApart
    <3>2. CASE l # k
      BY <1>6, <1>12, <3>2 DEF PoolApart
    <3> QED BY <3>1, <3>2
  <2>2. \A e : \A l, m \in Keys : e # NullSet /\ Has(new, l, e) /\ Has(new, m, e) => l = m
    BY <1>6, <1>13 DEF PoolApart
  <2> QED BY <2>1, <2>2 DEF PoolApart
<1>15. PlacesInv'
  <2>1. \A e : \A q \in Pools \ {p}, l, m \in Keys : e # NullSet /\ Has(new, l, e) => ~Has(pool[q], m, e)
    BY <1>0, <1>00, <1>1, <1>13 DEF PlacesInv
  <2> QED BY <1>0, <1>1, <1>5, <1>14, <2>1, OnePoolApart
<1>16. UsedInv'
  <2>1. pool'[p] = new /\ \A q \in Pools \ {p} : pool'[q] = pool[q]
    BY <1>0, <1>1, <1>5, Types
  <2>2. UsedIn(new, set)
    BY <1>1, <1>10, <1>12 DEF UsedIn
  <2>3. \A e : \A q \in Pools : e # NullSet /\ UsedIn(pool[q], e) => UsedIn(pool'[q], e)
    <3>1. ASSUME NEW l \in Keys, NEW e, In(r.used[l], e) PROVE In(new.used[l], e)
      BY <1>10, <1>12, <3>1
    <3>2. ASSUME NEW e, UsedIn(r, e) PROVE UsedIn(new, e)
      BY <3>1, <3>2 DEF UsedIn
    <3> QED BY <1>00, <2>1, <3>2
  <2>4. ASSUME NEW c \in Buffers, NEW i \in 1 .. Len(buffer[c].uses), set # NullSet
        PROVE  buffer[c].uses[i].set # set
    <3> SUFFICES ASSUME buffer[c].uses[i].set = set PROVE FALSE
      OBVIOUS
    <3>1. PICK l \in Keys : buffer[c].pool \in Pools /\ In(pool[buffer[c].pool].used[l], set)
      BY <1>0, <2>4 DEF UsedInv, UsedIn
    <3>2. In(r.unused[k], set)
      BY <1>8
    <3>3. buffer[c].pool = p
      BY <1>0, <1>00, <1>1, <2>4, <3>1, <3>2 DEF PlacesInv, Has
    <3>4. l = k
      BY <1>00, <1>1, <1>6, <2>4, <3>1, <3>2, <3>3 DEF PoolApart, Has
    <3> QED BY <1>00, <1>9, <2>4, <3>1, <3>3, <3>4
  <2> QED BY <1>0, <1>00, <1>1, <1>4, <1>7, <2>1, <2>2, <2>3, <2>4, UseApart
<1> QED BY <1>15, <1>16 DEF SharedInv

\* A set is put among the used ones of a pool that no pool had.
LEMMA PutApart ==
  ASSUME TypeOK, PlacesInv, NEW p \in Pools, NEW k \in Keys, NEW set \in Sets,
         NEW pools \in Nat, NEW room \in 0 .. Capacity,
         pool' = [pool EXCEPT ![p].used[k] = Append(@, set), ![p].pools = pools, ![p].room = room],
         set # NullSet => \A q \in Pools, l \in Keys : ~Has(pool[q], l, set)
  PROVE  /\ PlacesInv' /\ UsedIn(pool'[p], set)
         /\ \A e : \A q \in Pools : UsedIn(pool[q], e) => UsedIn(pool'[q], e)
<1>0. PICK r : r = pool[p]
  OBVIOUS
<1> DEFINE more == Append(r.used[k], set)
           new == [r EXCEPT !.used[k] = more, !.pools = pools, !.room = room]
<1>1. r \in PoolStates /\ r.used \in Lists
  BY <1>0, Types DEF PoolStates
<1>2. r.used[k] \in Seq(Sets)
  BY <1>1 DEF Lists
<1>3. pool' = [pool EXCEPT ![p] = new]
  BY <1>0, <1>1, Types
<1>4. PoolApart(r)
  BY <1>0 DEF PlacesInv
<1>5. set # NullSet => ~In(r.used[k], set) /\ \A l \in Keys : ~Has(r, l, set)
  BY <1>0 DEF Has
<1>6. (\A x : In(more, x) <=> In(r.used[k], x) \/ x = set) /\ Once(more) /\ more \in Seq(Sets)
  BY <1>2, <1>4, <1>5, InAppend, AppendOne DEF PoolApart
<1> HIDE DEF more
<1>7. new.unused = r.unused /\ new.used = [r.used EXCEPT ![k] = more]
  BY <1>1, <1>6 DEF PoolStates, Lists
<1> HIDE DEF new
<1>8. new.used[k] = more /\ \A l \in Keys \ {k} : new.used[l] = r.used[l]
  BY <1>1, <1>7 DEF Lists
<1>9. \A e : \A l \in Keys : e # set \/ l # k => (Has(new, l, e) <=> Has(r, l, e))
  BY <1>6, <1>7, <1>8 DEF Has
<1>10. PoolApart(new)
  <2>1. ASSUME NEW l \in Keys
        PROVE  /\ Once(new.used[l]) /\ Once(new.unused[l])
               /\ \A e : e # NullSet => ~(In(new.used[l], e) /\ In(new.unused[l], e))
    <3>1. CASE l = k
      BY <1>4, <1>5, <1>6, <1>7, <1>8, <3>1 DEF PoolApart, Has
    <3>2. CASE l # k
      BY <1>4, <1>7, <1>8, <3>2 DEF PoolApart
    <3> QED BY <3>1, <3>2
  <2>2. ASSUME NEW l \in Keys, NEW m \in Keys, NEW e, e # NullSet, Has(new, l, e), Has(new, m, e)
        PROVE  l = m
    <3>1. CASE e = set
      BY <1>5, <1>9, <2>2, <3>1
    <3>2. CASE e # set
      BY <1>4, <1>9, <2>2, <3>2 DEF PoolApart
    <3> QED BY <3>1, <3>2
  <2> QED BY <2>1, <2>2 DEF PoolApart
<1>11. PlacesInv'
  <2>1. ASSUME NEW q \in Pools \ {p}, NEW l \in Keys, NEW m \in Keys, NEW e, e # NullSet, Has(new, l, e)
        PROVE  ~Has(pool[q], m, e)
    <3>1. CASE e = set
      BY <2>1, <3>1
    <3>2. CASE e # set
      BY <1>0, <1>9, <2>1, <3>2 DEF PlacesInv
    <3> QED BY <3>1, <3>2
  <2> QED BY <1>3, <1>10, <2>1, OnePoolApart
<1>12. pool'[p] = new /\ \A q \in Pools \ {p} : pool'[q] = pool[q]
  BY <1>3, Types
<1>13. UsedIn(new, set)
  BY <1>6, <1>8 DEF UsedIn
<1>14. ASSUME NEW e, UsedIn(r, e) PROVE UsedIn(new, e)
  <2>1. ASSUME NEW l \in Keys, In(r.used[l], e) PROVE In(new.used[l], e)
    BY <1>6, <1>8, <2>1
  <2> QED BY <1>14, <2>1 DEF UsedIn
<1> QED BY <1>0, <1>11, <1>12, <1>13, <1>14

\* A new set is above all that there are; a failure adds NullSet to no use.
LEMMA AllocateSetApart ==
  ASSUME IInv, SharedInv, NEW b \in Buffers, NEW layout \in Layouts, AllocateSet(b, layout)
  PROVE  SharedInv'
<1>0. TypeOK /\ PlacesInv /\ UsedInv
  BY DEF IInv, SharedInv
<1>00. PICK p, k, n : p = buffer[b].pool /\ k = KeyOf(layout) /\ n = Len(layouts)
  OBVIOUS
<1> DEFINE Put(set) == \E pools \in Nat, room \in 0 .. Capacity :
             pool' = [pool EXCEPT ![p].used[k] = Append(@, set), ![p].pools = pools, ![p].room = room]
<1>1. p \in Pools /\ k \in Keys
  BY <1>00, KeyType DEF AllocateSet, IInv, RecordingHasPool
<1>2. pool[p].pools \in Nat /\ pool[p].room \in 0 .. Capacity
  BY <1>0, <1>1, Types DEF PoolStates
<1>3. n \in Nat /\ n <= MaxSets
  BY <1>0, <1>00, Types, LenProperties
<1>4. \/ n < MaxSets /\ Put(n + 1) /\ Use(b, n + 1, layout)
      \/ Put(NullSet) /\ buffer' = buffer
  <2> DEFINE grow == pool[p].room = 0
  <2>1. /\ pool[p].pools + (IF grow THEN 1 ELSE 0) \in Nat
        /\ (IF grow THEN Capacity ELSE pool[p].room) - 1 \in 0 .. Capacity
    BY <1>2, KeysAssumption
  <2>2. \A more \in BOOLEAN : /\ pool[p].pools + (IF more THEN 1 ELSE 0) \in Nat
                              /\ (IF more THEN Capacity ELSE pool[p].room) \in 0 .. Capacity
    BY <1>2, KeysAssumption
  <2>3. CASE buffer' = buffer /\ \E more \in BOOLEAN :
               pool' = [pool EXCEPT ![p].used[k] = Append(@, NullSet),
                                    ![p].pools = pool[p].pools + (IF more THEN 1 ELSE 0),
                                    ![p].room = IF more THEN Capacity ELSE pool[p].room]
    BY <2>2, <2>3
  <2>4. CASE /\ n < MaxSets /\ Use(b, n + 1, layout)
             /\ pool' = [pool EXCEPT ![p].used[k] = Append(@, n + 1),
                                     ![p].pools = pool[p].pools + (IF grow THEN 1 ELSE 0),
                                     ![p].room = (IF grow THEN Capacity ELSE pool[p].room) - 1]
    BY <2>1, <2>4
  <2> QED BY <1>00, <2>3, <2>4 DEF AllocateSet, KeyOf
<1>5. CASE n < MaxSets /\ Put(n + 1) /\ Use(b, n + 1, layout)
  <2>1. n + 1 \in Sets /\ n + 1 # NullSet /\ n + 1 \notin 1 .. Len(layouts)
    <3>1. n < MaxSets
      BY <1>5
    <3> QED BY <1>00, <1>3, <3>1, KeysAssumption DEF Sets, NullSet
  <2>2. /\ \A q \in Pools, l \in Keys : ~Has(pool[q], l, n + 1)
        /\ \A c \in Buffers : \A i \in 1 .. Len(buffer[c].uses) : buffer[c].uses[i].set # n + 1
    BY <2>1, HadBefore
  <2>3. /\ PlacesInv' /\ UsedIn(pool'[p], n + 1)
        /\ \A e : \A q \in Pools : UsedIn(pool[q], e) => UsedIn(pool'[q], e)
    <3>1. PICK set : set = n + 1
      OBVIOUS
    <3>2. PICK pools \in Nat, room \in 0 .. Capacity :
            pool' = [pool EXCEPT ![p].used[k] = Append(@, set), ![p].pools = pools, ![p].room = room]
      BY <1>5, <3>1
    <3>3. set \in Sets /\ \A q \in Pools, l \in Keys : ~Has(pool[q], l, set)
      BY <2>1, <2>2, <3>1
    <3> QED BY <1>0, <1>1, <3>1, <3>2, <3>3, PutApart
  <2>4. UsedInv'
    BY <1>0, <1>00, <1>1, <1>5, <2>1, <2>2, <2>3, UseApart
  <2> QED BY <2>3, <2>4 DEF SharedInv
<1>6. CASE Put(NullSet) /\ buffer' = buffer
  <2>1. NullSet \in Sets
    BY KeysAssumption DEF NullSet, Sets
  <2>2. PlacesInv' /\ \A e : \A q \in Pools : UsedIn(pool[q], e) => UsedIn(pool'[q], e)
    <3>1. PICK set : set = NullSet
      OBVIOUS
    <3>2. PICK pools \in Nat, room \in 0 .. Capacity :
            pool' = [pool EXCEPT ![p].used[k] = Append(@, set), ![p].pools = pools, ![p].room = room]
      BY <1>6, <3>1
    <3>3. set \in Sets /\ ~(set # NullSet)
      BY <2>1, <3>1
    <3> QED BY <1>0, <1>1, <3>2, <3>3, PutApart
  <2>3. ASSUME NEW c \in Buffers, NEW i \in 1 .. Len(buffer[c].uses), buffer[c].uses[i].set # NullSet
        PROVE  buffer[c].pool \in Pools /\ UsedIn(pool'[buffer[c].pool], buffer[c].uses[i].set)
    <3>1. buffer[c].pool \in Pools /\ UsedIn(pool[buffer[c].pool], buffer[c].uses[i].set)
      BY <1>0, <2>3 DEF UsedInv
    <3> QED BY <2>2, <3>1
  <2>4. ASSUME NEW c \in Buffers, NEW d \in Buffers, NEW i \in 1 .. Len(buffer[c].uses),
               NEW j \in 1 .. Len(buffer[d].uses), buffer[c].uses[i].set = buffer[d].uses[j].set,
               buffer[c].uses[i].set # NullSet
        PROVE  c = d /\ i = j
    BY <1>0, <2>4 DEF UsedInv
  <2>5. buffer' = buffer
    BY <1>6
  <2>6. UsedInv'
    BY <2>3, <2>4, <2>5 DEF UsedInv, UsedIn
  <2> QED BY <2>2, <2>6 DEF SharedInv
<1> QED BY <1>4, <1>5, <1>6

\* Every action keeps sets apart.
LEMMA SharedInvInvariant == Spec => []SharedInv
<1>1. Init => SharedInv
  <2> SUFFICES ASSUME Init PROVE SharedInv
    OBVIOUS
  <2>1. \A p \in Pools, k \in Keys : pool[p].used[k] = <<>> /\ pool[p].unused[k] = <<>>
    BY NewPoolType DEF Init
  <2>2. Once(<<>>) /\ \A e : ~In(<<>>, e)
    BY DEF Once, In
  <2>3. PlacesInv
    BY <2>1, <2>2 DEF PlacesInv, PoolApart, Has
  <2>4. \A b \in Buffers : Len(buffer[b].uses) = 0
    BY DEF Init, NoBuffer
  <2>5. UsedInv
    BY <2>4 DEF UsedInv
  <2> QED BY <2>3, <2>5 DEF SharedInv
<1>2. IInv /\ SharedInv /\ [Next]_vars => SharedInv'
  <2> SUFFICES ASSUME IInv, SharedInv, [Next]_vars PROVE SharedInv'
    OBVIOUS
  <2>0. TypeOK
    BY DEF IInv
  <2>1. ASSUME NEW t \in Threads, NEW b \in Buffers, CreateCommandBuffer(t, b) PROVE SharedInv'
    BY <2>0, <2>1, CreateCommandBufferApart
  <2>2. ASSUME NEW b \in Buffers, NEW layout \in Layouts, ReuseSet(b, layout) \/ AllocateSet(b, layout)
        PROVE  SharedInv'
    BY <2>2, ReuseSetApart, AllocateSetApart
  <2>3. ASSUME NEW b \in Buffers, Submit(b) \/ DropTrackedObjects(b) PROVE SharedInv'
    BY <2>0, <2>3, SubmitApart, DropTrackedObjectsApart
  <2>4. ASSUME NEW t \in Threads, DisposeThreadLocalCachedResources(t) PROVE SharedInv'
    BY <2>0, <2>4, DisposeApart
  <2>5. CASE UNCHANGED vars
    <3>1. PlacesInv'
      BY <2>5 DEF vars, SharedInv, PlacesInv, PoolApart, Has
    <3>2. UsedInv'
      BY <2>5, UsesKept DEF vars, SharedInv
    <3> QED BY <3>1, <3>2 DEF SharedInv
  <2> QED BY <2>1, <2>2, <2>3, <2>4, <2>5 DEF Next
<1> QED BY <1>1, <1>2, IInvInvariant, PTL DEF Spec

(***************************************************************************)
(* For any number of threads, command buffers and pools: no two draws of   *)
(* command buffers that are recorded or executed have a descriptor set in  *)
(* common, and AllocateDescriptorSets cannot hand out a set in use, though *)
(* buffers of several frames share a pool and whoever ends last reclaims   *)
(* it.                                                                     *)
(***************************************************************************)
THEOREM SetsNotSharedInvariant == Spec => []SetsNotShared
<1>1. SharedInv => SetsNotShared
  <2> SUFFICES ASSUME SharedInv, NEW set \in Sets \ {NullSet}
               PROVE  Cardinality(Uses(set)) <= 1 /\ (Uses(set) # {} => ~Offered(set))
    BY DEF SetsNotShared
  <2>1. ASSUME NEW u \in Uses(set)
        PROVE  /\ u = <<u[1], u[2]>> /\ u[1] \in Buffers /\ u[2] \in 1 .. Len(buffer[u[1]].uses)
               /\ buffer[u[1]].uses[u[2]].set = set
    BY <2>1 DEF Uses
  <2>2. Cardinality(Uses(set)) <= 1
    <3>1. CASE Uses(set) = {}
      BY <3>1, FS_EmptySet
    <3>2. CASE Uses(set) # {}
      <4>1. PICK u : u \in Uses(set)
        BY <3>2
      <4>2. ASSUME NEW v \in Uses(set) PROVE v = u
        <5>1. u[1] = v[1] /\ u[2] = v[2]
          BY <2>1, <4>1, <4>2 DEF SharedInv, UsedInv
        <5> QED BY <2>1, <4>1, <4>2, <5>1
      <4>3. Uses(set) = {u}
        BY <4>1, <4>2
      <4>4. Cardinality(Uses(set)) = 1
        BY <4>3, FS_Singleton
      <4> QED BY <4>4
    <3> QED BY <3>1, <3>2
  <2>3. ASSUME NEW u \in Uses(set), Offered(set) PROVE FALSE
    <3>1. PICK p \in Pools, k \in Keys : In(pool[p].unused[k], set)
      BY <2>3 DEF Offered, In
    <3>2. PICK q \in Pools, l \in Keys : In(pool[q].used[l], set)
      BY <2>1, <2>3 DEF SharedInv, UsedInv, UsedIn
    <3>3. p = q
      BY <3>1, <3>2 DEF SharedInv, PlacesInv, Has
    <3>4. k = l
      BY <3>1, <3>2, <3>3 DEF SharedInv, PlacesInv, PoolApart, Has
    <3> QED BY <3>1, <3>2, <3>3, <3>4 DEF SharedInv, PlacesInv, PoolApart
  <2> QED BY <2>2, <2>3
<1> QED BY <1>1, SharedInvInvariant, IInvInvariant, PTL
=============================================================================
