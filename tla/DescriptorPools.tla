-------------------------- MODULE DescriptorPools --------------------------
(***************************************************************************)
(* DescriptorPool and DescriptorPoolRecycler: the descriptor sets that     *)
(* command buffers use, kept by pipeline key from one frame to the next.   *)
(* A DescriptorPool is shared by the command buffers that a thread creates *)
(* until it disposes of its cached resources, and is reclaimed by whoever  *)
(* drops the last reference: the thread, or the fence waiter that drops    *)
(* the tracked objects of a finished submission.                           *)
(*                                                                         *)
(* A pipeline is named by its key; a layout by the pipeline and the        *)
(* immutable sampler of the variant, if any.  A set is a number, and       *)
(* NullSet the handle that a failed allocation leaves.  A Vulkan pool has  *)
(* room for Capacity sets and is freed as a whole.  The first Vulkan pool  *)
(* of a DescriptorPool can always be created, and the Context lives.       *)
(***************************************************************************)
EXTENDS Integers, SequencesExt, FiniteSets

CONSTANTS
  Threads,              \* which record command buffers
  Buffers,              \* bound: the command buffers that live at a time
  Pools,                \* bound: the DescriptorPools that live at a time
  PipelineKeys,         \* the keys of the pipelines
  Samplers,             \* immutable samplers
  Layouts,              \* what is drawn with: pipelines, and variants of them
  kMaxRecycledPools,
  Capacity,             \* of a Vulkan pool, in sets
  MaxSets,              \* bound: the sets ever allocated, one failure a pool aside
  None

ASSUME KeysAssumption ==
  /\ PipelineKeys \subseteq Nat \ {0}
  /\ None \notin Samplers \cup Pools
  /\ Layouts \subseteq PipelineKeys \X (Samplers \cup {None})
  /\ kMaxRecycledPools \in Nat \ {0} /\ Capacity \in Nat \ {0} /\ MaxSets \in Nat

VARIABLES
  cached,       \* cached_descriptor_pool_ of each thread
  buffer,       \* the tracked objects of each command buffer
  pool,         \* each DescriptorPool
  recycled,     \* recycled_
  layouts       \* history: the layout each set was allocated with

vars == <<cached, buffer, pool, recycled, layouts>>

NullSet == 0
Keys == PipelineKeys \cup {-k : k \in PipelineKeys}
Sets == 0 .. MaxSets

NoBuffer == [state |-> "none", pool |-> None, uses |-> <<>>]
NoSets == [k \in Keys |-> <<>>]
NewPool == [used |-> NoSets, unused |-> NoSets, pools |-> 0, room |-> 0]

TypeOK ==
  /\ cached \in [Threads -> Pools \cup {None}]
  /\ buffer \in [Buffers ->
       [state: {"none", "recording", "submitted"}, pool: Pools \cup {None}, uses: Seq([set: Sets, layout: Layouts])]]
  /\ pool \in [Pools ->
       [used: [Keys -> Seq(Sets)], unused: [Keys -> Seq(Sets)], pools: Nat, room: 0 .. Capacity]]
  /\ recycled \in Seq(Pools) /\ Len(recycled) <= kMaxRecycledPools
  /\ layouts \in Seq(Layouts) /\ Len(layouts) <= MaxSets

-----------------------------------------------------------------------------
(* References.                                                             *)

Referenced(p) ==
  \/ \E t \in Threads : cached[t] = p
  \/ \E b \in Buffers : buffer[b].pool = p
  \/ \E i \in 1 .. Len(recycled) : recycled[i] = p

\* A fault: the newest pool stays, the reclaimed one is put on top.
KeepAll(p) == Append(recycled, p)

\* DescriptorPoolRecycler::Reclaim: there is room for the pool when the newest
\* ones have been destroyed.
Recycled(p) ==
  Append(SubSeq(recycled, 1, IF Len(recycled) < kMaxRecycledPools THEN Len(recycled)
                             ELSE kMaxRecycledPools - 1), p)

\* The sets of a reclaimed pool are all unused.
AllUnused(p) ==
  [pool EXCEPT ![p].unused = [k \in Keys |-> pool[p].unused[k] \o pool[p].used[k]],
               ![p].used = NoSets]

\* A fault: a pool is reclaimed with the first command buffer that ends.
ReclaimEarly(p, others) ==
  IF p = None THEN UNCHANGED <<pool, recycled>>
  ELSE pool' = AllUnused(p) /\ recycled' = IF others THEN recycled ELSE Recycled(p)

\* A reference to the pool is dropped, and others tells whether there are more:
\* if not, ~DescriptorPool gives the pool to the recycler, unless it is empty.
Release(p, others) ==
  IF p = None \/ others THEN UNCHANGED <<pool, recycled>>
  ELSE IF pool[p].pools = 0 THEN pool' = [pool EXCEPT ![p] = NewPool] /\ UNCHANGED recycled
  ELSE pool' = AllUnused(p) /\ recycled' = Recycled(p)

-----------------------------------------------------------------------------
(* The life of a command buffer.                                           *)

\* The pool of the thread, else one of the recycler, else a new one.
CreateCommandBuffer(t, b) ==
  /\ buffer[b] = NoBuffer
  /\ \E p \in Pools :
       /\ IF cached[t] # None THEN p = cached[t] /\ UNCHANGED <<pool, recycled>>
          ELSE IF recycled # <<>>
               THEN p = Last(recycled) /\ recycled' = Front(recycled) /\ UNCHANGED pool
          ELSE ~Referenced(p) /\ pool' = [pool EXCEPT ![p] = NewPool] /\ UNCHANGED recycled
       /\ cached' = [cached EXCEPT ![t] = p]
       /\ buffer' = [buffer EXCEPT ![b] =
                       [state |-> "recording", pool |-> p, uses |-> <<>>]]
  /\ UNCHANGED layouts

\* A fault: a variant has the key of its pipeline.
KeyOfPipeline(k, s) == k

\* The key of a pipeline, negated for its variants with an immutable sampler.
GetPipelineKey(k, s) == IF s = None THEN k ELSE -k

Use(b, set, layout) ==
  buffer' = [buffer EXCEPT ![b].uses = Append(@, [set |-> set, layout |-> layout])]

\* AllocateDescriptorSets, when the pool has an unused set under the key.
ReuseSet(b, layout) ==
  LET p == buffer[b].pool
      k == GetPipelineKey(layout[1], layout[2])
      unused == pool[p].unused[k]
  IN  /\ buffer[b].state = "recording"
      /\ unused # <<>>
      /\ pool' = [pool EXCEPT ![p].unused[k] = Front(unused),
                              ![p].used[k] = Append(@, Last(unused))]
      /\ Use(b, Last(unused), layout)
      /\ UNCHANGED <<cached, recycled, layouts>>

Held(p) ==
  UNION {{s[i] : i \in 1 .. Len(s)} : s \in {pool[p].used[k] \o pool[p].unused[k] : k \in Keys}}

\* AllocateDescriptorSets, when it has not: from the last Vulkan pool, or from
\* another one if that is full.  A set is recorded as used even if there is none.
AllocateSet(b, layout) ==
  LET p == buffer[b].pool
      k == GetPipelineKey(layout[1], layout[2])
      grow == pool[p].room = 0
      put(set, pools, room) ==
        pool' = [pool EXCEPT ![p].used[k] = Append(@, set), ![p].pools = pools, ![p].room = room]
  IN  /\ buffer[b].state = "recording"
      /\ pool[p].unused[k] = <<>>
      /\ \/ /\ Len(layouts) < MaxSets
            /\ put(Len(layouts) + 1, pool[p].pools + (IF grow THEN 1 ELSE 0),
                   (IF grow THEN Capacity ELSE pool[p].room) - 1)
            /\ layouts' = Append(layouts, layout)
            /\ Use(b, Len(layouts) + 1, layout)
         \/ /\ NullSet \notin Held(p)
            /\ \E more \in IF ~grow THEN {FALSE} ELSE IF pool[p].pools = 0 THEN {TRUE} ELSE BOOLEAN :
                 put(NullSet, pool[p].pools + (IF more THEN 1 ELSE 0),
                     IF more THEN Capacity ELSE pool[p].room)
            /\ UNCHANGED <<buffer, layouts>>
      /\ UNCHANGED <<cached, recycled>>

Submit(b) ==
  /\ buffer[b].state = "recording"
  /\ buffer' = [buffer EXCEPT ![b].state = "submitted"]
  /\ UNCHANGED <<cached, pool, recycled, layouts>>

\* The GPU is done with the buffer, or its client dropped it unsubmitted.
DropTrackedObjects(b) ==
  LET p == buffer[b].pool
  IN  /\ buffer[b] # NoBuffer
      /\ buffer' = [buffer EXCEPT ![b] = NoBuffer]
      /\ Release(p, \/ \E t \in Threads : cached[t] = p
                    \/ \E c \in Buffers \ {b} : buffer[c].pool = p)
      /\ UNCHANGED <<cached, layouts>>

DisposeThreadLocalCachedResources(t) ==
  LET p == cached[t]
  IN  /\ p # None
      /\ cached' = [cached EXCEPT ![t] = None]
      /\ Release(p, \E b \in Buffers : buffer[b].pool = p)
      /\ UNCHANGED <<buffer, layouts>>

-----------------------------------------------------------------------------
Init ==
  /\ cached = [t \in Threads |-> None]
  /\ buffer = [b \in Buffers |-> NoBuffer]
  /\ pool = [p \in Pools |-> NewPool]
  /\ recycled = <<>>
  /\ layouts = <<>>

Next ==
  \/ \E t \in Threads, b \in Buffers : CreateCommandBuffer(t, b)
  \/ \E b \in Buffers, layout \in Layouts : ReuseSet(b, layout) \/ AllocateSet(b, layout)
  \/ \E b \in Buffers : Submit(b) \/ DropTrackedObjects(b)
  \/ \E t \in Threads : DisposeThreadLocalCachedResources(t)

Spec == Init /\ [][Next]_vars

-----------------------------------------------------------------------------
(* Properties.                                                             *)

\* The uses of a set by command buffers that have not ended.
Uses(set) ==
  {u \in Buffers \X (1 .. MaxSets) :
     u[2] <= Len(buffer[u[1]].uses) /\ buffer[u[1]].uses[u[2]].set = set}

\* A set that some pool would hand out next.
Offered(set) ==
  \E p \in Pools, k \in Keys : \E i \in 1 .. Len(pool[p].unused[k]) : pool[p].unused[k][i] = set

(* A descriptor set is bound by one draw at a time: as long as the command *)
(* buffer that uses it is recorded or executed, no pool offers the set,    *)
(* although buffers of several frames share a pool and end in any order.   *)
SetsNotShared ==
  \A set \in Sets \ {NullSet} :
    /\ Cardinality(Uses(set)) <= 1
    /\ Uses(set) # {} => ~Offered(set)

(* A set that is handed out was allocated for the same pipeline, and for a *)
(* variant if it is asked for one: recycling keeps pipelines apart, and a  *)
(* pipeline from its variants.                                             *)
SetsOfPipeline ==
  \A b \in Buffers : \A i \in 1 .. Len(buffer[b].uses) :
    LET use == buffer[b].uses[i]
    IN  use.set # NullSet =>
          /\ layouts[use.set][1] = use.layout[1]
          /\ layouts[use.set][2] = None <=> use.layout[2] = None

(* "Note: immutable sampler variant of a pipeline is the negation of the   *)
(* existing pipeline key. This keeps the descriptors separate."  A set     *)
(* that is handed out was allocated with the very layout it is asked for.  *)
(* False: the variants of a pipeline are all told apart from the pipeline, *)
(* and not from one another.                                               *)
VariantsApart ==
  \A b \in Buffers : \A i \in 1 .. Len(buffer[b].uses) :
    LET use == buffer[b].uses[i]
    IN  use.set # NullSet => layouts[use.set] = use.layout
=============================================================================
