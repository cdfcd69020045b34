------------------------- MODULE ConnectionPoolProofs -------------------------
(***************************************************************************)
(* For every finite set of threads and every pool size: the pool is        *)
(* bounded, loses no wakeup, and can only be wedged by nested leases.      *)
(***************************************************************************)
EXTENDS ConnectionPool, FiniteSetTheorems, TLAPS

\* The inductive invariant.  LeasesNest says that a step of acquire takes a
\* lease that is not held yet, which the counting in PoolIsBounded needs.
PoolInv == TypeOK /\ LeasesNest /\ PoolIsBounded /\ NoLostWakeup

\* The sets whose sizes are compared are finite.
LEMMA FiniteParts ==
    ASSUME TypeOK
    PROVE  /\ IsFiniteSet(leases) /\ Cardinality(leases) \in Nat
           /\ IsFiniteSet(awake) /\ Cardinality(awake) \in Nat
           /\ IsFiniteSet(asleep) /\ Cardinality(asleep) \in Nat
<1>1. IsFiniteSet(Threads \X Depths)
  <2>1. IsFiniteSet(Depths)
    <3>1. IsFiniteSet({1} \cup {2}) BY FS_Singleton, FS_AddElement
    <3>2. Depths = {1} \cup {2} BY DEF Depths
    <3> QED BY <3>1, <3>2
  <2> QED BY <2>1, FS_Product, PoolAssumption
<1>2. IsFiniteSet(leases) /\ IsFiniteSet(awake) /\ IsFiniteSet(asleep)
  BY <1>1, FS_Subset, PoolAssumption DEF TypeOK
<1> QED BY <1>2, FS_CardinalityType

LEMMA InitPool == Init => PoolInv
<1> SUFFICES ASSUME Init PROVE PoolInv OBVIOUS
<1>1. TypeOK BY PoolAssumption DEF Init, TypeOK
<1>2. LeasesNest BY DEF Init, LeasesNest, Holds, Acquiring
<1>3. PoolIsBounded BY FS_EmptySet, PoolAssumption DEF Init, PoolIsBounded
<1>4. NoLostWakeup BY DEF Init, NoLostWakeup
<1> QED BY <1>1, <1>2, <1>3, <1>4 DEF PoolInv

\* Beginning an operation or a read-back only adds an awake thread.
LEMMA AskKeepsPool ==
    ASSUME PoolInv, NEW t \in Threads, WithConnection(t) \/ ReadBack(t)
    PROVE  PoolInv'
<1> USE DEF PoolInv
<1>0. /\ awake' = awake \cup {t} /\ asleep' = asleep
      /\ idle' = idle /\ inFlight' = inFlight /\ opened' = opened
      /\ leases' = leases /\ faults' = faults
      /\ t \notin Acquiring
  BY DEF WithConnection, ReadBack, pool, Busy
<1>1. TypeOK'
  <2>1. awake' \subseteq Threads /\ awake' \cap asleep' = {}
    BY <1>0 DEF TypeOK, Acquiring
  <2>2. reread' \subseteq Threads /\ ops' \in [Threads -> 0..MaxOps]
    BY PoolAssumption DEF TypeOK, WithConnection, ReadBack
  <2> QED BY <1>0, <2>1, <2>2 DEF TypeOK
<1>2. LeasesNest'
  BY <1>0 DEF LeasesNest, Holds, Acquiring, WithConnection, ReadBack, Busy, Depths
<1>3. PoolIsBounded' BY <1>0 DEF PoolIsBounded
<1>4. NoLostWakeup'
  <2>1. Cardinality(awake') = Cardinality(awake) + 1 /\ Cardinality(awake) \in Nat
    BY <1>0, FiniteParts, FS_AddElement DEF Acquiring
  <2> QED BY <1>0, <2>1, PoolAssumption DEF NoLostWakeup, TypeOK
<1> QED BY <1>1, <1>2, <1>3, <1>4

\* What taking a lease does to the sizes, whether the connection was idle or new.
LEMMA LeaseCounts ==
    ASSUME PoolInv, NEW t \in Threads, t \in awake, Lease(t)
    PROVE  /\ Cardinality(leases') = inFlight + 1
           /\ Cardinality(awake') = Cardinality(awake) - 1
           /\ leases' \subseteq Threads \X Depths
           /\ LeasesNest'
<1> USE DEF PoolInv
<1>1. <<t, NextDepth(t)>> \notin leases
  BY DEF NextDepth, Holds, LeasesNest, Acquiring
<1>2. Cardinality(leases') = inFlight + 1
  BY <1>1, FiniteParts, FS_AddElement DEF Lease, PoolIsBounded
<1>3. Cardinality(awake') = Cardinality(awake) - 1
  BY FiniteParts, FS_RemoveElement DEF Lease
<1>4. leases' \subseteq Threads \X Depths
  BY DEF Lease, TypeOK, NextDepth, Depths
<1>5. LeasesNest'
  <2> SUFFICES ASSUME NEW u \in Threads
               PROVE  /\ Holds(u, 2)' => Holds(u, 1)' /\ u \in (Nesting \cap reread)'
                                          /\ u \notin Acquiring'
                      /\ u \in Acquiring' /\ Holds(u, 1)' => u \in (Nesting \cap reread)'
    BY DEF LeasesNest
  <2>1. t \notin Acquiring'
    BY DEF Lease, Acquiring, TypeOK
  <2>2. CASE u = t
    <3>1. Holds(t, 2)' => Holds(t, 1) /\ Holds(t, 1)'
      BY DEF Lease, Holds, NextDepth, LeasesNest, Acquiring
    <3>2. Holds(t, 1) => t \in Nesting \cap reread
      BY DEF LeasesNest, Acquiring
    <3> QED BY <2>1, <2>2, <3>1, <3>2 DEF Lease
  <2>3. CASE u # t
    <3>1. (Holds(u, 1)' <=> Holds(u, 1)) /\ (Holds(u, 2)' <=> Holds(u, 2))
      BY <2>3 DEF Lease, Holds
    <3>2. u \in Acquiring' <=> u \in Acquiring
      BY <2>3 DEF Lease, Acquiring
    <3> QED BY <3>1, <3>2 DEF Lease, LeasesNest
  <2> QED BY <2>2, <2>3
<1> QED BY <1>2, <1>3, <1>4, <1>5

LEMMA TakeKeepsPool ==
    ASSUME PoolInv, NEW t \in Threads, TakeIdle(t) \/ Open(t)
    PROVE  PoolInv'
<1>0. t \in awake /\ Lease(t) /\ TypeOK /\ PoolIsBounded /\ NoLostWakeup
  BY DEF PoolInv, TakeIdle, Open
<1>1. /\ Cardinality(leases') = inFlight + 1
      /\ Cardinality(awake') = Cardinality(awake) - 1
      /\ leases' \subseteq Threads \X Depths
      /\ LeasesNest'
  BY <1>0, LeaseCounts
<1>2. inFlight' = inFlight + 1 /\ asleep' = asleep /\ awake' = awake \ {t}
  BY <1>0 DEF Lease
<1>3. idle' \in Nat /\ opened' \in Nat
  BY <1>0 DEF TypeOK, TakeIdle, Open
<1>4. TypeOK'
  BY <1>0, <1>1, <1>2, <1>3 DEF TypeOK, Lease
<1>5. PoolIsBounded'
  <2>1. CASE TakeIdle(t)
    BY <2>1, <1>0, <1>1, <1>2 DEF TakeIdle, PoolIsBounded, TypeOK
  <2>2. CASE Open(t)
    BY <2>2, <1>0, <1>1, <1>2, PoolAssumption DEF Open, MayOpen, PoolIsBounded, TypeOK
  <2> QED BY <2>1, <2>2
<1>6. NoLostWakeup'
  BY <1>0, <1>1, <1>2, FiniteParts, PoolAssumption DEF NoLostWakeup, TypeOK
<1> QED BY <1>1, <1>4, <1>5, <1>6 DEF PoolInv

\* A failed open wakes every sleeper, so nobody is left to be forgotten.
LEMMA FailKeepsPool ==
    ASSUME PoolInv, NEW t \in Threads, OpenFails(t)
    PROVE  PoolInv'
<1> USE DEF PoolInv
<1>0. /\ asleep' = {} /\ awake' = (awake \cup asleep) \ {t}
      /\ idle' = idle /\ inFlight' = inFlight /\ opened' = opened
      /\ leases' = leases /\ reread' = reread /\ ops' = ops
      /\ faults' = faults + 1 /\ faults < MaxFaults
  BY DEF OpenFails, pool
<1>1. TypeOK'
  BY <1>0, PoolAssumption DEF TypeOK
<1>2. LeasesNest'
  BY <1>0 DEF LeasesNest, Holds, Acquiring
<1>3. PoolIsBounded' BY <1>0 DEF PoolIsBounded
<1>4. NoLostWakeup' BY <1>0 DEF NoLostWakeup
<1> QED BY <1>1, <1>2, <1>3, <1>4

\* A thread goes to sleep only when no slot is free.
LEMMA WaitKeepsPool ==
    ASSUME PoolInv, NEW t \in Threads, Wait(t) \/ SpuriousWake(t)
    PROVE  PoolInv'
<1> USE DEF PoolInv
<1>0. /\ idle' = idle /\ inFlight' = inFlight /\ opened' = opened
      /\ leases' = leases /\ reread' = reread /\ ops' = ops /\ faults' = faults
      /\ Acquiring' = Acquiring
  BY DEF Wait, SpuriousWake, pool, Acquiring
<1>1. TypeOK'
  BY <1>0 DEF TypeOK, Wait, SpuriousWake
<1>2. LeasesNest'
  BY <1>0 DEF LeasesNest, Holds
<1>3. PoolIsBounded' BY <1>0 DEF PoolIsBounded
<1>4. NoLostWakeup'
  <2>1. CASE Wait(t)
    <3>1. Cardinality(awake') \in Nat
      <4>1. IsFiniteSet(awake \ {t}) BY FiniteParts, FS_RemoveElement
      <4>2. awake' = awake \ {t} BY <2>1 DEF Wait
      <4> QED BY <4>1, <4>2, FS_CardinalityType
    <3> QED BY <2>1, <3>1, <1>0, PoolAssumption DEF Wait, NoLostWakeup, TypeOK
  <2>2. CASE SpuriousWake(t)
    <3>1. t \in asleep /\ t \notin awake /\ awake' = awake \cup {t}
      BY <2>2 DEF SpuriousWake, TypeOK
    <3>2. Cardinality(awake') = Cardinality(awake) + 1 /\ Cardinality(awake) \in Nat
      BY <3>1, FiniteParts, FS_AddElement
    <3> QED BY <3>1, <3>2, <1>0, PoolAssumption DEF NoLostWakeup, TypeOK
  <2> QED BY <2>1, <2>2
<1> QED BY <1>1, <1>2, <1>3, <1>4

\* A release frees one slot and wakes one sleeper for it.
LEMMA ReleaseKeepsPool ==
    ASSUME PoolInv, NEW t \in Threads, Release(t)
    PROVE  PoolInv'
<1> USE DEF PoolInv
<1>1. PICK d \in Depths : /\ Holds(t, d) /\ (d = 1 => ~Holds(t, 2))
                          /\ leases' = leases \ {<<t, d>>}
  BY DEF Release
<1>2. Cardinality(leases') = inFlight - 1 /\ inFlight > 0
  <2>1. Cardinality(leases') = Cardinality(leases) - 1
    BY <1>1, FiniteParts, FS_RemoveElement DEF Holds
  <2>2. Cardinality(leases) # 0
    BY <1>1, FiniteParts, FS_EmptySet DEF Holds
  <2> QED BY <2>1, <2>2, FiniteParts DEF PoolIsBounded
<1>3. /\ idle' = idle + 1 /\ inFlight' = inFlight - 1 /\ opened' = opened
      /\ reread' = reread /\ ops' = ops /\ faults' = faults
      /\ Acquiring' = Acquiring
      /\ awake' \cap asleep' = {} /\ awake' \subseteq Threads /\ asleep' \subseteq Threads
  BY DEF Release, NotifyOne, Acquiring, TypeOK
<1>4. TypeOK'
  BY <1>1, <1>2, <1>3 DEF TypeOK
<1>5. LeasesNest'
  BY <1>1, <1>3 DEF LeasesNest, Holds, Release, Depths
<1>6. PoolIsBounded'
  BY <1>2, <1>3, PoolAssumption DEF PoolIsBounded, TypeOK
<1>7. NoLostWakeup'
  <2>1. CASE asleep = {} /\ UNCHANGED <<awake, asleep>>
    BY <2>1 DEF NoLostWakeup
  <2>2. ASSUME NEW s \in asleep, awake' = awake \cup {s}, asleep' = asleep \ {s}
        PROVE  NoLostWakeup'
    <3>1. Cardinality(awake') = Cardinality(awake) + 1 /\ Cardinality(awake) \in Nat
      BY <2>2, FiniteParts, FS_AddElement DEF TypeOK
    <3>2. PoolSize - inFlight <= Cardinality(awake)
      BY <2>2 DEF NoLostWakeup
    <3> QED BY <3>1, <3>2, <1>2, <1>3, PoolAssumption DEF NoLostWakeup, TypeOK
  <2> QED BY <2>1, <2>2 DEF Release, NotifyOne
<1> QED BY <1>4, <1>5, <1>6, <1>7

LEMMA StepKeepsPool == PoolInv /\ [Next]_vars => PoolInv'
<1> SUFFICES ASSUME PoolInv, [Next]_vars PROVE PoolInv' OBVIOUS
<1>1. CASE UNCHANGED vars
  BY <1>1 DEF PoolInv, TypeOK, LeasesNest, PoolIsBounded, NoLostWakeup,
              vars, Holds, Acquiring
<1>2. ASSUME NEW t \in Threads,
             \/ WithConnection(t) \/ ReadBack(t) \/ TakeIdle(t) \/ Open(t)
             \/ OpenFails(t) \/ Wait(t) \/ SpuriousWake(t) \/ Release(t)
      PROVE  PoolInv'
  BY <1>2, AskKeepsPool, TakeKeepsPool, FailKeepsPool, WaitKeepsPool, ReleaseKeepsPool
<1> QED BY <1>1, <1>2 DEF Next

\* The pool never opens more than PoolSize connections and accounts for every
\* one it opened, and no wakeup of its condition variable is lost.
THEOREM PoolCorrect == Spec => []PoolIsShared
<1>1. PoolInv => PoolIsShared BY DEF PoolInv, PoolIsShared
<1> QED BY <1>1, InitPool, StepKeepsPool, PTL DEF Spec

\* When nobody can go on, PoolSize nesting operations hold their outer lease
\* and sleep: a store without nested leases cannot wedge.
THEOREM OnlyNestingWedges == Spec => []WedgeIsNested
<1>1. PoolInv => WedgeIsNested
  <2> SUFFICES ASSUME PoolInv, Wedged
               PROVE  Cardinality({t \in Nesting \cap asleep : Holds(t, 1)}) = PoolSize
    BY DEF WedgeIsNested
  <2> DEFINE X == {t \in Nesting \cap asleep : Holds(t, 1)}
  <2> USE DEF PoolInv
  <2>1. awake = {}
    BY DEF Wedged, TypeOK, Busy, Acquiring
  <2>2. inFlight = PoolSize
    <3>1. Cardinality(awake) = 0 BY <2>1, FS_EmptySet
    <3> QED BY <3>1, PoolAssumption DEF Wedged, NoLostWakeup, PoolIsBounded, TypeOK
  <2>3. leases = {<<t, 1>> : t \in X}
    <3>1. ASSUME NEW l \in leases PROVE \E t \in X : l = <<t, 1>>
      <4>1. PICK t \in Threads, d \in Depths : l = <<t, d>>
        BY <3>1 DEF TypeOK
      <4>2. t \in asleep /\ Holds(t, d)
        BY <3>1, <4>1 DEF Wedged, Busy, Holds
      <4>3. d = 1 /\ t \in Nesting
        BY <4>2 DEF LeasesNest, Acquiring, Depths
      <4> QED BY <4>1, <4>2, <4>3
    <3> QED BY <3>1 DEF Holds
  <2>4. IsFiniteSet(X)
    BY FS_Subset, PoolAssumption
  <2>5. ExistsBijection(X, leases)
    <3> DEFINE f == [t \in X |-> <<t, 1>>]
    <3>1. f \in [X -> leases] BY <2>3
    <3>2. \A l \in leases : \E t \in X : f[t] = l BY <2>3
    <3>3. \A t, u \in X : f[t] = f[u] => t = u OBVIOUS
    <3> HIDE DEF f
    <3>4. f \in Bijection(X, leases)
      BY <3>1, <3>2, <3>3 DEF Bijection, Injection, Surjection, IsInjective
    <3> QED BY <3>4 DEF ExistsBijection
  <2>6. Cardinality(leases) = Cardinality(X)
    BY <2>4, <2>5, FS_Bijection
  <2> QED BY <2>2, <2>6 DEF PoolIsBounded
<1> QED BY <1>1, InitPool, StepKeepsPool, PTL DEF Spec
=============================================================================
