------------------------ MODULE ThreadMergerProofs --------------------------
(***************************************************************************)
(* That the mergers of a pair of queues agree with the dispatcher about    *)
(* who is merged, and in which calls alone a CHECK of theirs fails, for    *)
(* any number of mergers and queues and any leases.                        *)
(*                                                                         *)
(* A call at the shared merger is alone there with its pair: it is on the  *)
(* one thread that is offered the raster tasks of the pair, or it is of an *)
(* unconfined merger, which has the pair to itself and a mutex_.  So what  *)
(* it does cannot spoil another's checks.                                  *)
(***************************************************************************)
EXTENDS ThreadMerger, TLAPS

\* t holds the mutex_ of m.
Holds(t, m) == (At(t, "shared") \/ At(t, "callback")) /\ call[t].merger = m

OneHolder ==
  \A t, u \in Queues, m \in Mergers : Holds(t, m) /\ Holds(u, m) => t = u

IInv == TypeOK /\ LeaseAgreesWithQueues /\ ChecksStillHold /\ CheckFailures /\ OneHolder

(***************************************************************************)
(* The pairs of two mergers are the same if their raster queues are, and   *)
(* no queue is subsumed in one and subsumes in another.                    *)
(***************************************************************************)
LEMMA PairsDisjoint ==
  ASSUME NEW m \in Mergers, NEW n \in Mergers
  PROVE  /\ Pair(m)[1] # Pair(n)[2]
         /\ Pair(m)[2] = Pair(n)[2] => Pair(m) = Pair(n)
  BY MergersAssumption DEF Pair

(***************************************************************************)
(* The shape of a call at the shared merger, and of what it returns to.    *)
(***************************************************************************)
LEMMA SharedCallType ==
  ASSUME TypeOK, NEW t \in Queues, At(t, "shared")
  PROVE  /\ call[t].merger \in Mergers
         /\ call[t].op \in {"merge", "extend", "unmerge", "decrement"}
         /\ call[t].op \in {"merge", "extend"} => call[t].term \in 1 .. MaxLease
         /\ \A at \in {"callback", "aborted"} :
              LET next == [call[t] EXCEPT !.at = at]
              IN  /\ next \in Calls /\ next.at = at
                  /\ next.op = call[t].op /\ next.merger = call[t].merger
  <1>1. call[t] \in Calls
    BY DEF TypeOK, At, NoCall
  <1>2. CASE call[t] \in [op: {"merge", "extend"}, merger: Mergers,
                          term: 1 .. MaxLease, at: {"shared", "callback", "aborted"}]
    BY <1>2 DEF Calls
  <1>3. CASE call[t] \in [op: {"unmerge", "decrement"}, merger: Mergers,
                          at: {"shared", "callback", "aborted"}]
    BY <1>3 DEF Calls
  <1>4. CASE call[t] \in [op: {"wait"}, merger: Mergers, at: {"waiting", "woken"}]
    BY <1>4 DEF At
  <1> QED BY <1>1, <1>2, <1>3, <1>4 DEF Calls

(***************************************************************************)
(* A notification turns waiters into woken ones and touches no other call. *)
(***************************************************************************)
LEMMA NotifiedCalls ==
  ASSUME NEW calls \in [Queues -> {NoCall} \cup Calls], NEW m \in Mergers
  PROVE  /\ Notified(m, calls) \in [Queues -> {NoCall} \cup Calls]
         /\ \A t \in Queues :
              \/ Notified(m, calls)[t] = calls[t]
              \/ Notified(m, calls)[t].at = "woken"
  <1>1. ASSUME NEW t \in Queues,
               calls[t] = [op |-> "wait", merger |-> m, at |-> "waiting"]
        PROVE  /\ Notified(m, calls)[t] = [op |-> "wait", merger |-> m, at |-> "woken"]
               /\ Notified(m, calls)[t] \in Calls
    BY <1>1 DEF Notified, Calls
  <1>2. ASSUME NEW t \in Queues,
               calls[t] # [op |-> "wait", merger |-> m, at |-> "waiting"]
        PROVE  Notified(m, calls)[t] = calls[t]
    BY <1>2 DEF Notified
  <1>3. Notified(m, calls) = [t \in Queues |-> Notified(m, calls)[t]]
    BY DEF Notified
  <1> QED BY <1>1, <1>2, <1>3

(***************************************************************************)
(* A step that adds no call at the shared merger, and changes neither the  *)
(* leases nor the queues, keeps the invariant.                             *)
(***************************************************************************)
LEMMA QuietStep ==
  ASSUME IInv, UNCHANGED <<subsumes, lease, failed>>,
         disabled' \subseteq Pairs,
         call' \in [Queues -> {NoCall} \cup Calls],
         \A t \in Queues : \/ call'[t] = call[t]
                           \/ failed = "none" /\ call'[t] = NoCall
                           \/ failed = "none" /\ call'[t].at \in {"waiting", "woken"}
  PROVE  IInv'
  <1>1. TypeOK' /\ LeaseAgreesWithQueues'
    BY DEF IInv, TypeOK, LeaseAgreesWithQueues, IsMerged, IsAllLeaseTermsZero
  <1>3. CheckFailures'
    BY DEF IInv, CheckFailures, Aborted, At, IsMerged, IsAllLeaseTermsZero
  <1>4. OneHolder'
    <2>1. ASSUME NEW t \in Queues, NEW m \in Mergers, Holds(t, m)'
          PROVE  Holds(t, m)
      BY <2>1 DEF Holds, At, NoCall
    <2> QED BY <2>1 DEF IInv, OneHolder
  <1>2. ChecksStillHold'
    <2>1. SUFFICES ASSUME NEW t \in Queues, failed' = "none", At(t, "shared")'
                   PROVE  /\ MayRun(t, call[t].merger, call[t].op)'
                          /\ (call[t].op = "merge" => ~IsMerged(call[t].merger))'
                          /\ (call[t].op \in {"extend", "decrement"}
                                => IsMerged(call[t].merger))'
      BY DEF ChecksStillHold
    <2>2. call'[t] = call[t]
      BY <2>1 DEF At, NoCall
    <2> QED BY <2>1, <2>2 DEF IInv, ChecksStillHold, At, MayRun, RasterTaskThreads,
                              IsMerged, IsAllLeaseTermsZero
  <1> QED BY <1>1, <1>2, <1>3, <1>4 DEF IInv

(***************************************************************************)
(* A step by which t, which may run the call, comes to the shared merger   *)
(* with the answer of IsMerged it has seen.                                *)
(***************************************************************************)
LEMMA CallStep ==
  ASSUME IInv, NEW t \in Queues, NEW m \in Mergers, NEW c \in Calls,
         MayCall(t, m, c.op), c.merger = m, c.at = "shared",
         c.op = "merge" => ~IsMerged(m),
         c.op \in {"extend", "decrement"} => IsMerged(m),
         call' = [call EXCEPT ![t] = c],
         UNCHANGED <<subsumes, lease, disabled, failed>>
  PROVE  IInv'
  <1>1. TypeOK' /\ CheckFailures' /\ LeaseAgreesWithQueues'
    BY DEF IInv, TypeOK, CheckFailures, LeaseAgreesWithQueues, IsMerged,
           IsAllLeaseTermsZero, MayCall
  <1>3. OneHolder'
    <2>1. ASSUME NEW u \in Queues, NEW n \in Mergers, Holds(u, n)', u # t
          PROVE  Holds(u, n) /\ n # m
      <3>1. call'[u] = call[u]
        BY <2>1 DEF IInv, TypeOK
      <3>2. Holds(u, n)
        BY <2>1, <3>1 DEF Holds, At
      <3> QED BY <3>2 DEF Holds, MayCall, Locked
    <2>2. ASSUME NEW n \in Mergers, Holds(t, n)' PROVE n = m
      BY <2>2 DEF Holds, IInv, TypeOK
    <2> QED BY <2>1, <2>2 DEF IInv, OneHolder
  <1>2. ASSUME NEW u \in Queues, failed' = "none", At(u, "shared")'
        PROVE  /\ MayRun(u, call[u].merger, call[u].op)'
               /\ (call[u].op = "merge" => ~IsMerged(call[u].merger))'
               /\ (call[u].op \in {"extend", "decrement"} => IsMerged(call[u].merger))'
    <2>1. CASE u = t
      <3>1. call'[u] = c
        BY <2>1 DEF IInv, TypeOK
      <3> QED BY <2>1, <3>1 DEF MayCall, MayRun, RasterTaskThreads, IsMerged,
                                IsAllLeaseTermsZero
    <2>2. CASE u # t
      <3>1. call'[u] = call[u]
        BY <2>2 DEF IInv, TypeOK
      <3> QED BY <1>2, <3>1 DEF IInv, ChecksStillHold, At, MayRun, RasterTaskThreads,
                                IsMerged, IsAllLeaseTermsZero
    <2> QED BY <2>1, <2>2
  <1> QED BY <1>1, <1>2, <1>3 DEF IInv, ChecksStillHold

(***************************************************************************)
(* Two calls at the shared merger are of different pairs.                  *)
(***************************************************************************)
LEMMA OneCallPerPair ==
  ASSUME IInv, failed = "none", NEW t \in Queues, NEW u \in Queues, t # u,
         At(t, "shared"), At(u, "shared")
  PROVE  Pair(call[t].merger) # Pair(call[u].merger)
  <1>1. call[t].merger \in Mergers /\ call[u].merger \in Mergers
    BY SharedCallType DEF IInv
  <1>2. call[t].merger # call[u].merger
    BY <1>1 DEF IInv, OneHolder, Holds
  <1>3. SUFFICES ASSUME Pair(call[t].merger) = Pair(call[u].merger)
                 PROVE  FALSE
    OBVIOUS
  <1>4. PlatformOf[call[t].merger] = PlatformOf[call[u].merger]
        /\ RasterOf[call[t].merger] = RasterOf[call[u].merger]
    BY <1>3 DEF Pair
  <1>5. call[t].merger \notin Unconfined /\ call[u].merger \notin Unconfined
    BY <1>1, <1>2, <1>4, MergersAssumption
  <1>6. t \in RasterTaskThreads(call[t].merger) /\ u \in RasterTaskThreads(call[u].merger)
    BY <1>5 DEF IInv, ChecksStillHold, MayRun
  <1> QED BY <1>3, <1>4, <1>6 DEF RasterTaskThreads

(***************************************************************************)
(* What the shared merger does for a call of t: the leases and the queues  *)
(* of the pair change together, those of no other pair do.                 *)
(***************************************************************************)
LEMMA SharedStep ==
  ASSUME IInv, NEW t \in Queues, At(t, "shared"), failed = "none",
         failed' = "none",
         subsumes' \subseteq Pairs, lease' \in [Mergers -> NoRecord .. MaxLease],
         UNCHANGED disabled,
         call' \in [Queues -> {NoCall} \cup Calls],
         \A u \in Queues : u # t => call'[u] = call[u],
         ~At(t, "shared")',
         \A n \in Mergers : Holds(t, n)' => Holds(t, n),
         Pair(call[t].merger) \in subsumes'
           <=> ~IsAllLeaseTermsZero(Pair(call[t].merger), lease'),
         \A n \in Mergers : Pair(n) # Pair(call[t].merger) =>
            lease'[n] = lease[n] /\ (Pair(n) \in subsumes' <=> Pair(n) \in subsumes)
  PROVE  IInv'
  <1> DEFINE m == call[t].merger
  <1>0. m \in Mergers
    BY SharedCallType DEF IInv
  <1>1. TypeOK'
    BY DEF IInv, TypeOK, Failures
  <1>2. CheckFailures'
    BY DEF CheckFailures
  <1>3. ASSUME NEW n \in Mergers, Pair(n) # Pair(m)
        PROVE  IsMerged(n)' <=> IsMerged(n)
    BY <1>3 DEF IsMerged, IsAllLeaseTermsZero
  <1>4. LeaseAgreesWithQueues'
    <2>1. SUFFICES ASSUME failed' = "none", NEW n \in Mergers
                   PROVE  Pair(n) \in subsumes' <=> IsMerged(n)'
      BY DEF LeaseAgreesWithQueues, Pair
    <2>2. CASE Pair(n) = Pair(m)
      <3>1. Pair(m) \in subsumes' <=> ~IsAllLeaseTermsZero(Pair(m), lease')
        BY <2>1
      <3>2. IsMerged(n)' <=> ~IsAllLeaseTermsZero(Pair(n), lease')
        BY DEF IsMerged, IsAllLeaseTermsZero, Pair
      <3> QED BY <2>2, <3>1, <3>2
    <2>3. CASE Pair(n) # Pair(m)
      BY <2>3, <1>3 DEF IInv, LeaseAgreesWithQueues
    <2> QED BY <2>2, <2>3
  <1>5. ChecksStillHold'
    <2>1. SUFFICES ASSUME failed' = "none", NEW u \in Queues, At(u, "shared")'
                   PROVE  /\ MayRun(u, call[u].merger, call[u].op)'
                          /\ (call[u].op = "merge" => ~IsMerged(call[u].merger))'
                          /\ (call[u].op \in {"extend", "decrement"}
                                => IsMerged(call[u].merger))'
      BY DEF ChecksStillHold
    <2>2. u # t /\ call'[u] = call[u] /\ At(u, "shared")
      BY <2>1 DEF At
    <2>3. call[u].merger \in Mergers /\ Pair(call[u].merger) # Pair(m)
      BY <2>2, OneCallPerPair, SharedCallType DEF IInv
    <2>4. /\ MayRun(u, call[u].merger, call[u].op)
          /\ call[u].op = "merge" => ~IsMerged(call[u].merger)
          /\ call[u].op \in {"extend", "decrement"} => IsMerged(call[u].merger)
      BY <2>2 DEF IInv, ChecksStillHold
    <2>5. IsMerged(call[u].merger)' <=> IsMerged(call[u].merger)
      BY <2>2, <2>3, <1>3
    <2>6. Pair(call[u].merger) \in subsumes' <=> Pair(call[u].merger) \in subsumes
      BY <2>3
    <2> QED BY <2>2, <2>4, <2>5, <2>6 DEF MayRun, RasterTaskThreads, Pair
  <1>6. OneHolder'
    <2>1. ASSUME NEW u \in Queues, NEW n \in Mergers, Holds(u, n)' PROVE Holds(u, n)
      BY <2>1 DEF Holds, At
    <2> QED BY <2>1 DEF IInv, OneHolder
  <1> QED BY <1>1, <1>2, <1>4, <1>5, <1>6 DEF IInv

(***************************************************************************)
(* A CHECK of the shared merger fails in the call of t.                    *)
(***************************************************************************)
LEMMA AbortStep ==
  ASSUME IInv, NEW t \in Queues, At(t, "shared"), failed = "none",
         NEW check \in {"unmerge", "lease_term"}, Abort(check, t),
         check = "unmerge" =>
           call[t].op = "unmerge" /\ Pair(call[t].merger) \notin subsumes,
         check = "lease_term" =>
           call[t].op = "decrement" /\ lease[call[t].merger] = 0 /\ lease' = lease,
         lease' \in [Mergers -> NoRecord .. MaxLease], UNCHANGED disabled
  PROVE  IInv'
  <1>1. /\ failed' = check /\ UNCHANGED subsumes
        /\ call' = [call EXCEPT ![t] = call'[t]]
        /\ call'[t] = [call[t] EXCEPT !.at = "aborted"]
    BY DEF Abort, IInv, TypeOK
  <1>2. /\ call'[t] \in Calls /\ call'[t].at = "aborted"
        /\ call'[t].op = call[t].op /\ call'[t].merger = call[t].merger
    BY <1>1, SharedCallType DEF IInv
  <1>3. TypeOK'
    BY <1>1, <1>2 DEF IInv, TypeOK, Failures
  <1>4. LeaseAgreesWithQueues' /\ ChecksStillHold'
    BY <1>1 DEF LeaseAgreesWithQueues, ChecksStillHold
  <1>5. CheckFailures'
    <2>1. CASE check = "unmerge"
      <3>1. Aborted(t, "unmerge")' /\ (Pair(call[t].merger) \notin subsumes)'
        BY <1>1, <1>2, <2>1 DEF Aborted, At, Pair
      <3> QED BY <1>1, <2>1, <3>1 DEF CheckFailures
    <2>2. CASE check = "lease_term"
      <3>1. Aborted(t, "decrement")' /\ (lease[call[t].merger] = 0)'
        BY <1>1, <1>2, <2>2 DEF Aborted, At
      <3>2. call[t].merger \in Mergers /\ IsMerged(call[t].merger)
        BY <2>2, SharedCallType DEF IInv, ChecksStillHold
      <3>3. IsMerged(call[t].merger)' /\ (Pair(call[t].merger) \in subsumes)'
        BY <1>1, <1>2, <2>2, <3>2
           DEF IInv, LeaseAgreesWithQueues, IsMerged, IsAllLeaseTermsZero, Pair
      <3> QED BY <1>1, <2>2, <3>1, <3>3 DEF CheckFailures
    <2> QED BY <2>1, <2>2
  <1>6. OneHolder'
    <2>1. ASSUME NEW u \in Queues, NEW n \in Mergers, Holds(u, n)' PROVE Holds(u, n)
      <3>1. u # t
        BY <1>2, <2>1 DEF Holds, At
      <3>2. call'[u] = call[u]
        BY <1>1, <3>1 DEF IInv, TypeOK
      <3> QED BY <2>1, <3>2 DEF Holds, At
    <2> QED BY <2>1 DEF IInv, OneHolder
  <1> QED BY <1>3, <1>4, <1>5, <1>6 DEF IInv

-----------------------------------------------------------------------------
(***************************************************************************)
(* What MessageLoopTaskQueues answers: the CHECKs of the shared merger     *)
(* hold where it calls with the leases it should.                          *)
(***************************************************************************)
LEMMA MergeSucceeds ==
  ASSUME IInv, failed = "none", NEW t \in Queues, NEW m \in Mergers,
         ~IsMerged(m), MergeQueues(Pair(m), t)
  PROVE  /\ subsumes' = subsumes \cup {Pair(m)}
         /\ ReturnToCallback(t)
         /\ failed' = "none"
  <1>1. Pair(m) \notin subsumes
    BY DEF IInv, LeaseAgreesWithQueues
  <1>2. ASSUME NEW s \in subsumes
        PROVE  s[2] \notin {Pair(m)[1], Pair(m)[2]} /\ s[1] # Pair(m)[2]
    <2>1. PICK n \in Mergers : s = Pair(n)
      BY DEF IInv, TypeOK, Pairs
    <2> QED BY <1>1, <2>1, PairsDisjoint
  <1> QED BY <1>2 DEF MergeQueues

LEMMA UnmergeSucceeds ==
  ASSUME IInv, failed = "none", NEW t \in Queues, NEW m \in Mergers,
         IsMerged(m), UnmergeQueues(Pair(m), t)
  PROVE  /\ subsumes' = subsumes \ {Pair(m)}
         /\ ReturnToCallback(t)
         /\ failed' = "none"
  <1>1. Pair(m) \in subsumes
    BY DEF IInv, LeaseAgreesWithQueues
  <1>2. ASSUME NEW s \in subsumes
        PROVE  s[2] # Pair(m)[1]
    <2>1. PICK n \in Mergers : s = Pair(n)
      BY DEF IInv, TypeOK, Pairs
    <2> QED BY <2>1, PairsDisjoint
  <1> QED BY <1>1, <1>2 DEF UnmergeQueues

(***************************************************************************)
(* The two ways a call leaves the shared merger.                           *)
(***************************************************************************)
LEMMA Returned ==
  ASSUME IInv, NEW t \in Queues, At(t, "shared"), Return(t) \/ ReturnToCallback(t)
  PROVE  /\ call' \in [Queues -> {NoCall} \cup Calls]
         /\ \A u \in Queues : u # t => call'[u] = call[u]
         /\ ~At(t, "shared")'
         /\ \A n \in Mergers : Holds(t, n)' => Holds(t, n)
  <1>1. CASE Return(t)
    BY <1>1 DEF Return, IInv, TypeOK, At, NoCall, Holds
  <1>2. CASE ReturnToCallback(t)
    <2>1. call'[t] = [call[t] EXCEPT !.at = "callback"]
      BY <1>2 DEF ReturnToCallback, IInv, TypeOK
    <2>2. call'[t] \in Calls /\ call'[t].at = "callback" /\ call'[t].merger = call[t].merger
      BY <2>1, SharedCallType DEF IInv
    <2>3. call' = [call EXCEPT ![t] = call'[t]]
      BY <1>2, <2>1 DEF ReturnToCallback, IInv, TypeOK
    <2> QED BY <2>2, <2>3 DEF IInv, TypeOK, At, Holds
  <1> QED BY <1>1, <1>2

(***************************************************************************)
(* The state before a call at the shared merger.                           *)
(***************************************************************************)
LEMMA AtSharedMerger ==
  ASSUME IInv, NEW t \in Queues, NEW op, Calling(t, op)
  PROVE  /\ failed = "none" /\ At(t, "shared") /\ call[t].op = op
         /\ call[t].merger \in Mergers
         /\ op = "merge" => ~IsMerged(call[t].merger)
         /\ op \in {"extend", "decrement"} => IsMerged(call[t].merger)
         /\ op \in {"merge", "extend"} => call[t].term \in 1 .. MaxLease
         /\ subsumes \subseteq Pairs
         /\ lease \in [Mergers -> NoRecord .. MaxLease]
  BY SharedCallType DEF Calling, IInv, ChecksStillHold, TypeOK

-----------------------------------------------------------------------------
LEMMA InitHolds == Init => IInv
  <1> SUFFICES ASSUME Init PROVE IInv
    OBVIOUS
  <1>1. TypeOK
    BY MergersAssumption DEF Init, TypeOK, NoRecord, Failures
  <1>2. \A m \in Mergers : ~IsMerged(m)
    <2>1. \A m \in Mergers : lease[m] = NoRecord
      BY DEF Init
    <2>2. NoRecord \in Int /\ NoRecord <= 0
      BY DEF NoRecord
    <2>3. \A m \in Mergers : lease[m] <= 0
      BY <2>1, <2>2
    <2> QED BY <2>3 DEF IsMerged, IsAllLeaseTermsZero
  <1> QED BY <1>1, <1>2 DEF Init, IInv, LeaseAgreesWithQueues, ChecksStillHold,
                            CheckFailures, OneHolder, Holds, At, NoCall

(***************************************************************************)
(* The clients' calls, up to the shared merger.                            *)
(***************************************************************************)
LEMMA CallMergerHolds ==
  ASSUME IInv, NEW t \in Queues, NEW m \in Mergers, CallMerger(t, m)
  PROVE  IInv'
  <1>0. t \in DOMAIN call /\ call \in [Queues -> {NoCall} \cup Calls] /\ disabled \subseteq Pairs
    BY DEF IInv, TypeOK
  <1>1. ASSUME NEW term \in 1 .. MaxLease, MergeWithLease(t, m, term)
        PROVE  IInv'
    <2>1. CASE IsMerged(m)
      <3>1. call' = Notified(m, call)
        BY <1>1, <2>1 DEF MergeWithLease
      <3>2. UNCHANGED <<subsumes, lease, disabled, failed>>
        BY <1>1 DEF MergeWithLease
      <3>3. /\ call' \in [Queues -> {NoCall} \cup Calls]
            /\ \A u \in Queues : call'[u] = call[u] \/ call'[u].at = "woken"
        BY <1>0, <3>1, NotifiedCalls
      <3>4. failed = "none"
        BY <1>1 DEF MergeWithLease, MayCall
      <3> QED BY <1>0, <3>2, <3>3, <3>4, QuietStep
    <2>2. CASE ~IsMerged(m)
      <3> DEFINE c == [op |-> "merge", merger |-> m, term |-> term, at |-> "shared"]
      <3>1. c \in Calls /\ c.merger = m /\ c.op = "merge" /\ c.at = "shared"
        BY DEF Calls
      <3>2. call' = [call EXCEPT ![t] = c] /\ MayCall(t, m, "merge")
            /\ UNCHANGED <<subsumes, lease, disabled, failed>>
        BY <1>1, <2>2 DEF MergeWithLease
      <3> HIDE DEF c
      <3> QED BY <2>2, <3>1, <3>2, CallStep
    <2> QED BY <2>1, <2>2
  <1>2. ASSUME NEW term \in 1 .. MaxLease, ExtendLeaseTo(t, m, term)
        PROVE  IInv'
    <2> DEFINE c == [op |-> "extend", merger |-> m, term |-> term, at |-> "shared"]
    <2>1. c \in Calls /\ c.merger = m /\ c.op = "extend" /\ c.at = "shared"
      BY DEF Calls
    <2>2. call' = [call EXCEPT ![t] = c] /\ MayCall(t, m, "extend") /\ IsMerged(m)
          /\ UNCHANGED <<subsumes, lease, disabled, failed>>
      BY <1>2 DEF ExtendLeaseTo
    <2> HIDE DEF c
    <2> QED BY <2>1, <2>2, CallStep
  <1>3. CASE UnMergeNowIfLastOne(t, m)
    <2> DEFINE c == [op |-> "unmerge", merger |-> m, at |-> "shared"]
    <2>1. c \in Calls /\ c.merger = m /\ c.op = "unmerge" /\ c.at = "shared"
      BY DEF Calls
    <2>2. call' = [call EXCEPT ![t] = c] /\ MayCall(t, m, "unmerge")
          /\ UNCHANGED <<subsumes, lease, disabled, failed>>
      BY <1>3 DEF UnMergeNowIfLastOne
    <2> HIDE DEF c
    <2> QED BY <2>1, <2>2, CallStep
  <1>4. CASE DecrementLease(t, m)
    <2> DEFINE c == [op |-> "decrement", merger |-> m, at |-> "shared"]
    <2>1. c \in Calls /\ c.merger = m /\ c.op = "decrement" /\ c.at = "shared"
      BY DEF Calls
    <2>2. call' = [call EXCEPT ![t] = c] /\ MayCall(t, m, "decrement") /\ IsMerged(m)
          /\ UNCHANGED <<subsumes, lease, disabled, failed>>
      BY <1>4 DEF DecrementLease
    <2> HIDE DEF c
    <2> QED BY <2>1, <2>2, CallStep
  <1> QED BY <1>1, <1>2, <1>3, <1>4 DEF CallMerger

(***************************************************************************)
(* The shared merger's operations.                                         *)
(***************************************************************************)
LEMMA SharedMergeHolds ==
  ASSUME IInv, NEW t \in Queues, SharedMergeWithLease(t)
  PROVE  IInv'
  <1> DEFINE m == call[t].merger
  <1>1. /\ failed = "none" /\ At(t, "shared") /\ m \in Mergers /\ ~IsMerged(m)
        /\ call[t].term \in 1 .. MaxLease
        /\ subsumes \subseteq Pairs /\ lease \in [Mergers -> NoRecord .. MaxLease]
    BY AtSharedMerger DEF SharedMergeWithLease
  <1>2. /\ MergeQueues(Pair(m), t)
        /\ lease' = IF failed' = "none" THEN [lease EXCEPT ![m] = call[t].term] ELSE lease
        /\ UNCHANGED disabled
    BY <1>1 DEF SharedMergeWithLease
  <1>3. subsumes' = subsumes \cup {Pair(m)} /\ ReturnToCallback(t) /\ failed' = "none"
    BY <1>1, <1>2, MergeSucceeds
  <1>4. lease' = [lease EXCEPT ![m] = call[t].term]
    BY <1>2, <1>3
  <1>5. lease' \in [Mergers -> NoRecord .. MaxLease] /\ subsumes' \subseteq Pairs
    BY <1>1, <1>3, <1>4, MergersAssumption DEF NoRecord, Pairs
  <1>6. Pair(m) \in subsumes' /\ ~IsAllLeaseTermsZero(Pair(m), lease')
    BY <1>1, <1>3, <1>4, <1>5, MergersAssumption DEF IsAllLeaseTermsZero
  <1>7. \A n \in Mergers : Pair(n) # Pair(m) =>
          lease'[n] = lease[n] /\ (Pair(n) \in subsumes' <=> Pair(n) \in subsumes)
    BY <1>1, <1>3, <1>4
  <1> QED BY <1>1, <1>2, <1>3, <1>5, <1>6, <1>7, Returned, SharedStep

LEMMA SharedUnMergeHolds ==
  ASSUME IInv, NEW t \in Queues, SharedUnMergeNowIfLastOne(t)
  PROVE  IInv'
  <1> DEFINE m == call[t].merger
  <1>1. /\ failed = "none" /\ At(t, "shared") /\ call[t].op = "unmerge" /\ m \in Mergers
        /\ subsumes \subseteq Pairs /\ lease \in [Mergers -> NoRecord .. MaxLease]
    BY AtSharedMerger DEF SharedUnMergeNowIfLastOne
  <1>2. lease' = [lease EXCEPT ![m] = NoRecord] /\ UNCHANGED disabled
    BY DEF SharedUnMergeNowIfLastOne
  <1>3. lease' \in [Mergers -> NoRecord .. MaxLease]
    BY <1>1, <1>2, MergersAssumption DEF NoRecord
  <1>4. Pair(m) \in subsumes <=> IsMerged(m)
    BY <1>1 DEF IInv, LeaseAgreesWithQueues
  <1>5. CASE IsAllLeaseTermsZero(Pair(m), lease') /\ IsMerged(m)
    <2>1. subsumes' = subsumes \ {Pair(m)} /\ ReturnToCallback(t) /\ failed' = "none"
      BY <1>1, <1>5, UnmergeSucceeds DEF SharedUnMergeNowIfLastOne
    <2>2. \A n \in Mergers : Pair(n) # Pair(m) =>
            lease'[n] = lease[n] /\ (Pair(n) \in subsumes' <=> Pair(n) \in subsumes)
      BY <1>1, <1>2, <2>1
    <2> QED BY <1>1, <1>2, <1>3, <1>5, <2>1, <2>2, Returned, SharedStep
  <1>6. CASE IsAllLeaseTermsZero(Pair(m), lease') /\ ~IsMerged(m)
    <2>1. Abort("unmerge", t)
      BY <1>4, <1>6 DEF SharedUnMergeNowIfLastOne, UnmergeQueues
    <2> QED BY <1>1, <1>2, <1>3, <1>4, <1>6, <2>1, AbortStep
  <1>7. CASE ~IsAllLeaseTermsZero(Pair(m), lease')
    <2>1. ReturnToCallback(t) /\ UNCHANGED <<subsumes, failed>>
      BY <1>7 DEF SharedUnMergeNowIfLastOne
    <2>2. \A n \in Mergers : Pair(n) # Pair(m) =>
            lease'[n] = lease[n] /\ (Pair(n) \in subsumes' <=> Pair(n) \in subsumes)
      BY <1>1, <1>2, <2>1
    <2>3. IsMerged(m)
      <3>1. PICK n \in Mergers : Pair(n) = Pair(m) /\ ~(lease'[n] <= 0)
        BY <1>7 DEF IsAllLeaseTermsZero
      <3>2. n # m
        BY <1>1, <1>2, <3>1 DEF NoRecord
      <3>3. lease'[n] = lease[n]
        BY <1>1, <1>2, <3>2
      <3> QED BY <3>1, <3>3 DEF IsMerged, IsAllLeaseTermsZero
    <2> QED BY <1>1, <1>2, <1>3, <1>4, <1>7, <2>1, <2>2, <2>3, Returned, SharedStep
  <1> QED BY <1>5, <1>6, <1>7

LEMMA SharedDecrementHolds ==
  ASSUME IInv, NEW t \in Queues, SharedDecrementLease(t)
  PROVE  IInv'
  <1> DEFINE m == call[t].merger
  <1>1. /\ failed = "none" /\ At(t, "shared") /\ m \in Mergers /\ IsMerged(m)
        /\ call[t].op = "decrement"
        /\ subsumes \subseteq Pairs /\ lease \in [Mergers -> NoRecord .. MaxLease]
    BY AtSharedMerger DEF SharedDecrementLease
  <1>2. Pair(m) \in subsumes
    BY <1>1 DEF IInv, LeaseAgreesWithQueues
  <1>3. CASE lease[m] = 0
    <2>1. Abort("lease_term", t) /\ UNCHANGED <<lease, disabled>>
      BY <1>3 DEF SharedDecrementLease
    <2> QED BY <1>1, <1>3, <2>1, AbortStep
  <1>4. CASE lease[m] # 0
    <2>1. /\ lease' = [lease EXCEPT ![m] = IF @ = NoRecord THEN @ ELSE @ - 1]
          /\ UNCHANGED disabled
      BY <1>4 DEF SharedDecrementLease
    <2>2. lease' \in [Mergers -> NoRecord .. MaxLease]
      BY <1>1, <1>4, <2>1, MergersAssumption DEF NoRecord
    <2>3. CASE IsAllLeaseTermsZero(Pair(m), lease')
      <3>1. subsumes' = subsumes \ {Pair(m)} /\ ReturnToCallback(t) /\ failed' = "none"
        BY <1>1, <1>4, <2>3, UnmergeSucceeds DEF SharedDecrementLease
      <3>2. \A n \in Mergers : Pair(n) # Pair(m) =>
              lease'[n] = lease[n] /\ (Pair(n) \in subsumes' <=> Pair(n) \in subsumes)
        BY <1>1, <2>1, <3>1
      <3> QED BY <1>1, <2>1, <2>2, <2>3, <3>1, <3>2, Returned, SharedStep
    <2>4. CASE ~IsAllLeaseTermsZero(Pair(m), lease')
      <3>1. Return(t) /\ UNCHANGED <<subsumes, failed>>
        BY <1>4, <2>4 DEF SharedDecrementLease
      <3>2. \A n \in Mergers : Pair(n) # Pair(m) =>
              lease'[n] = lease[n] /\ (Pair(n) \in subsumes' <=> Pair(n) \in subsumes)
        BY <1>1, <2>1, <3>1
      <3> QED BY <1>1, <1>2, <2>1, <2>2, <2>4, <3>1, <3>2, Returned, SharedStep
    <2> QED BY <2>3, <2>4
  <1> QED BY <1>3, <1>4

LEMMA SharedExtendHolds ==
  ASSUME IInv, NEW t \in Queues, SharedExtendLeaseTo(t)
  PROVE  IInv'
  <1> DEFINE m == call[t].merger
  <1>1. /\ failed = "none" /\ At(t, "shared") /\ m \in Mergers /\ IsMerged(m)
        /\ call[t].term \in 1 .. MaxLease
        /\ subsumes \subseteq Pairs /\ lease \in [Mergers -> NoRecord .. MaxLease]
    BY AtSharedMerger DEF SharedExtendLeaseTo
  <1>2. /\ lease' = [lease EXCEPT ![m] = call[t].term]
        /\ Return(t) /\ UNCHANGED <<subsumes, disabled, failed>>
    BY DEF SharedExtendLeaseTo
  <1>3. lease' \in [Mergers -> NoRecord .. MaxLease]
    BY <1>1, <1>2, MergersAssumption DEF NoRecord
  <1>4. Pair(m) \in subsumes /\ ~IsAllLeaseTermsZero(Pair(m), lease')
    BY <1>1, <1>2, <1>3, MergersAssumption DEF IInv, LeaseAgreesWithQueues, IsAllLeaseTermsZero
  <1>5. \A n \in Mergers : Pair(n) # Pair(m) =>
          lease'[n] = lease[n] /\ (Pair(n) \in subsumes' <=> Pair(n) \in subsumes)
    BY <1>1, <1>2
  <1> QED BY <1>1, <1>2, <1>3, <1>4, <1>5, Returned, SharedStep

(***************************************************************************)
(* The steps that change no lease and merge nothing.                       *)
(***************************************************************************)
LEMMA QuietStepsHold ==
  ASSUME IInv, NEW t \in Queues,
         MergeUnmergeCallback(t) \/ Rewait(t) \/ SpuriousWake(t)
  PROVE  IInv'
  <1>0. /\ call \in [Queues -> {NoCall} \cup Calls] /\ disabled \subseteq Pairs
        /\ failed = "none"
    BY DEF IInv, TypeOK, MergeUnmergeCallback, Rewait, SpuriousWake
  <1>a. ASSUME NEW step, At(t, step), step \in {"waiting", "woken"}
        PROVE  call[t] \in [op: {"wait"}, merger: Mergers, at: {"waiting", "woken"}]
    BY <1>0, <1>a DEF At, NoCall, Calls
  <1>1. CASE MergeUnmergeCallback(t)
    <2> DEFINE done == [call EXCEPT ![t] = NoCall]
    <2>1. done \in [Queues -> {NoCall} \cup Calls]
          /\ \A u \in Queues : done[u] = call[u] \/ done[u] = NoCall
      BY <1>0
    <2>2. call[t].merger \in Mergers
      BY <1>0, <1>1 DEF MergeUnmergeCallback, At, Calls, NoCall
    <2>3. call' = Notified(call[t].merger, done) \/ call' = done
      BY <1>1 DEF MergeUnmergeCallback
    <2>4. UNCHANGED <<subsumes, lease, disabled, failed>>
      BY <1>1 DEF MergeUnmergeCallback
    <2> HIDE DEF done
    <2>5. /\ call' \in [Queues -> {NoCall} \cup Calls]
          /\ \A u \in Queues : call'[u] = done[u] \/ call'[u].at = "woken"
      BY <2>1, <2>2, <2>3, NotifiedCalls
    <2>6. \A u \in Queues : \/ call'[u] = call[u]
                             \/ call'[u] = NoCall
                             \/ call'[u].at \in {"waiting", "woken"}
      BY <2>1, <2>5
    <2> QED BY <1>0, <2>4, <2>5, <2>6, QuietStep
  <1>2. CASE Rewait(t)
    <2>1. call[t] \in [op: {"wait"}, merger: Mergers, at: {"waiting", "woken"}]
      BY <1>2, <1>a DEF Rewait
    <2> DEFINE again == [call[t] EXCEPT !.at = "waiting"]
    <2>2. again \in Calls /\ again.at = "waiting"
      BY <2>1 DEF Calls
    <2>3. call' = [call EXCEPT ![t] = NoCall] \/ call' = [call EXCEPT ![t] = again]
      BY <1>0, <1>2 DEF Rewait
    <2>4. UNCHANGED <<subsumes, lease, disabled, failed>>
      BY <1>2 DEF Rewait
    <2> HIDE DEF again
    <2> QED BY <1>0, <2>2, <2>3, <2>4, QuietStep
  <1>3. CASE SpuriousWake(t)
    <2>1. call[t] \in [op: {"wait"}, merger: Mergers, at: {"waiting", "woken"}]
      BY <1>3, <1>a DEF SpuriousWake
    <2> DEFINE woken == [call[t] EXCEPT !.at = "woken"]
    <2>2. woken \in Calls /\ woken.at = "woken"
      BY <2>1 DEF Calls
    <2>3. call' = [call EXCEPT ![t] = woken]
      BY <1>0, <1>3 DEF SpuriousWake
    <2>4. UNCHANGED <<subsumes, lease, disabled, failed>>
      BY <1>3 DEF SpuriousWake
    <2> HIDE DEF woken
    <2> QED BY <1>0, <2>2, <2>3, <2>4, QuietStep
  <1> QED BY <1>1, <1>2, <1>3

LEMMA MergerStepsHold ==
  ASSUME IInv, NEW m \in Mergers,
         WaitUntilMerged(m) \/ \E enable \in BOOLEAN : SetEnabled(m, enable)
  PROVE  IInv'
  <1>0. call \in [Queues -> {NoCall} \cup Calls] /\ disabled \subseteq Pairs
    BY DEF IInv, TypeOK
  <1>1. CASE WaitUntilMerged(m)
    <2> DEFINE c == [op |-> "wait", merger |-> m, at |-> "waiting"]
    <2>1. c \in Calls /\ c.at = "waiting"
      BY DEF Calls
    <2>2. call' = [call EXCEPT ![PlatformOf[m]] = c] /\ failed = "none"
          /\ UNCHANGED <<subsumes, lease, disabled, failed>>
      BY <1>1 DEF WaitUntilMerged
    <2> HIDE DEF c
    <2> QED BY <1>0, <2>1, <2>2, QuietStep
  <1>2. ASSUME NEW enable \in BOOLEAN, SetEnabled(m, enable)
        PROVE  IInv'
    <2>1. disabled' \subseteq Pairs /\ UNCHANGED <<subsumes, lease, call, failed>>
      BY <1>0, <1>2 DEF SetEnabled, Pairs
    <2> QED BY <1>0, <2>1, QuietStep
  <1> QED BY <1>1, <1>2

-----------------------------------------------------------------------------
(***************************************************************************)
(* Whatever the mergers of however many engines do, in any interleaving of *)
(* their steps: the queues are merged exactly while a lease runs, a call   *)
(* is still right when it reaches the shared merger, and a CHECK fails in  *)
(* nothing but an UnMergeNowIfLastOne called with nothing merged and the   *)
(* DecrementLease of a client whose lease is zero while another's is not.  *)
(***************************************************************************)
THEOREM MergerInvariant ==
  Spec => [](TypeOK /\ LeaseAgreesWithQueues /\ ChecksStillHold /\ CheckFailures)
  <1>1. IInv /\ [Next]_vars => IInv'
    <2> SUFFICES ASSUME IInv, [Next]_vars PROVE IInv'
      OBVIOUS
    <2>1. CASE Next
      <3>1. ASSUME NEW t \in Queues, NEW m \in Mergers, CallMerger(t, m) PROVE IInv'
        BY <3>1, CallMergerHolds
      <3>2. ASSUME NEW t \in Queues, Proceed(t) PROVE IInv'
        BY <3>2, SharedMergeHolds, SharedUnMergeHolds, SharedDecrementHolds,
           SharedExtendHolds, QuietStepsHold DEF Proceed
      <3>3. ASSUME NEW t \in Queues, SpuriousWake(t) PROVE IInv'
        BY <3>3, QuietStepsHold
      <3>4. ASSUME NEW m \in Mergers,
                   WaitUntilMerged(m) \/ \E enable \in BOOLEAN : SetEnabled(m, enable)
            PROVE  IInv'
        BY <3>4, MergerStepsHold
      <3> QED BY <2>1, <3>1, <3>2, <3>3, <3>4 DEF Next
    <2>2. CASE UNCHANGED vars
      BY <2>2, QuietStep DEF vars, IInv, TypeOK
    <2> QED BY <2>1, <2>2
  <1> QED BY <1>1, InitHolds, PTL DEF Spec, IInv

(***************************************************************************)
(* Leases, calls and the merge table stay in their types.                  *)
(***************************************************************************)
THEOREM TypeCorrectness == Spec => []TypeOK
  BY MergerInvariant, PTL

(***************************************************************************)
(* What a RasterThreadMerger has checked of the shared merger, without its *)
(* mutex, is still so when the shared merger acts.                         *)
(***************************************************************************)
THEOREM ChecksStillHoldInvariant == Spec => []ChecksStillHold
  BY MergerInvariant, PTL

(***************************************************************************)
(* The CHECK on what Merge answers never fails, the one on what Unmerge    *)
(* answers only where UnMergeNowIfLastOne is called with nothing merged,   *)
(* and that of the lease only where it has run out before another's.       *)
(***************************************************************************)
THEOREM CheckFailuresInvariant == Spec => []CheckFailures
  BY MergerInvariant, PTL
=============================================================================
