---------------------------- MODULE ConnectionPool ----------------------------
(***************************************************************************)
(* The bounded pool of SQLite connections of the Conversation store        *)
(* (licoup-conversation/src/store/mod.rs).  A thread that runs a store     *)
(* operation leases a connection for the closure of with_connection.  The  *)
(* operations that create a conversation, add a member or set a member's   *)
(* access lease a SECOND connection inside that closure, after their       *)
(* commit, to read the row back.                                           *)
(*                                                                         *)
(* The pool's mutex makes one round of the loop in acquire, and release,   *)
(* one step.  Connections carry no identity here: they are interchangeable *)
(* and a lease owns the one it took.                                       *)
(***************************************************************************)
EXTENDS Naturals, FiniteSets

CONSTANTS
    Threads,    \* the threads that use the store
    Nesting,    \* those among them whose operations lease twice
    PoolSize,   \* DEFAULT_CONVERSATION_POOL_SIZE
    MaxOps,     \* bound: operations per thread
    MaxFaults   \* bound: connections that fail to open

ASSUME PoolAssumption ==
    /\ IsFiniteSet(Threads)
    /\ Nesting \subseteq Threads
    /\ PoolSize \in Nat \ {0}
    /\ MaxOps \in Nat
    /\ MaxFaults \in Nat

VARIABLES
    idle,      \* PoolState.idle: how many connections rest in the pool
    inFlight,  \* PoolState.in_flight
    opened,    \* PoolState.opened
    leases,    \* the live PooledConnections, <<thread, depth>>
    awake,     \* threads in the loop of acquire that run or were notified
    asleep,    \* threads that wait on the condition variable
    reread,    \* threads whose operation has reached its inner lease
    ops,       \* operations a thread has begun
    faults     \* connections that failed to open

vars == <<idle, inFlight, opened, leases, awake, asleep, reread, ops, faults>>
pool == <<idle, inFlight, opened, leases>>

Depths == {1, 2}
Acquiring == awake \cup asleep
Holds(t, depth) == <<t, depth>> \in leases
Busy(t) == t \in Acquiring \/ \E d \in Depths : Holds(t, d)

\* The depth at which t takes its next lease.
NextDepth(t) == IF Holds(t, 1) THEN 2 ELSE 1

Init ==
    /\ idle = 0 /\ inFlight = 0 /\ opened = 0
    /\ leases = {} /\ awake = {} /\ asleep = {} /\ reread = {}
    /\ ops = [t \in Threads |-> 0]
    /\ faults = 0

-----------------------------------------------------------------------------

\* with_connection calls acquire.
WithConnection(t) ==
    /\ ~Busy(t)
    /\ ops[t] < MaxOps
    /\ ops' = [ops EXCEPT ![t] = @ + 1]
    /\ awake' = awake \cup {t}
    /\ reread' = reread \ {t}
    /\ UNCHANGED <<pool, asleep, faults>>

\* The closure of a nesting operation has committed and reads the row back
\* through a second with_connection.
ReadBack(t) ==
    /\ t \in Nesting \ reread
    /\ t \notin Acquiring
    /\ Holds(t, 1)
    /\ awake' = awake \cup {t}
    /\ reread' = reread \cup {t}
    /\ UNCHANGED <<pool, asleep, ops, faults>>

Lease(t) ==
    /\ inFlight' = inFlight + 1
    /\ leases' = leases \cup {<<t, NextDepth(t)>>}
    /\ awake' = awake \ {t}
    /\ UNCHANGED <<asleep, reread, ops, faults>>

TakeIdle(t) ==
    /\ t \in awake
    /\ idle > 0
    /\ idle' = idle - 1
    /\ opened' = opened
    /\ Lease(t)

MayOpen == idle = 0 /\ inFlight < PoolSize

Open(t) ==
    /\ t \in awake
    /\ MayOpen
    /\ opened' = opened + 1
    /\ idle' = idle
    /\ Lease(t)

\* The connection cannot be opened: notify_all, and acquire returns the error.
\* A thread that holds its outer lease drops it next.
OpenFails(t) ==
    /\ t \in awake
    /\ MayOpen
    /\ faults < MaxFaults
    /\ faults' = faults + 1
    /\ awake' = (awake \cup asleep) \ {t}
    /\ asleep' = {}
    /\ UNCHANGED <<pool, reread, ops>>

\* Mutant of Wait: the thread waits while one slot is still free.
WaitOneEarly(t) ==
    /\ t \in awake
    /\ idle = 0 /\ inFlight + 1 >= PoolSize
    /\ awake' = awake \ {t}
    /\ asleep' = asleep \cup {t}
    /\ UNCHANGED <<pool, reread, ops, faults>>

Wait(t) ==
    /\ t \in awake
    /\ idle = 0 /\ inFlight >= PoolSize
    /\ awake' = awake \ {t}
    /\ asleep' = asleep \cup {t}
    /\ UNCHANGED <<pool, reread, ops, faults>>

\* A condition variable may wake a thread that nobody notified.
SpuriousWake(t) ==
    /\ t \in asleep
    /\ asleep' = asleep \ {t}
    /\ awake' = awake \cup {t}
    /\ UNCHANGED <<pool, reread, ops, faults>>

\* Mutant of NotifyOne: release does not notify.
NotifyNobody == UNCHANGED <<awake, asleep>>

NotifyOne ==
    \/ asleep = {} /\ UNCHANGED <<awake, asleep>>
    \/ \E s \in asleep : awake' = awake \cup {s} /\ asleep' = asleep \ {s}

\* Drop of a PooledConnection, the inner one first.
Release(t) ==
    /\ t \notin Acquiring
    /\ \E d \in Depths :
          /\ Holds(t, d)
          /\ d = 1 => ~Holds(t, 2)
          /\ leases' = leases \ {<<t, d>>}
    /\ idle' = idle + 1
    /\ inFlight' = inFlight - 1
    /\ NotifyOne
    /\ UNCHANGED <<opened, reread, ops, faults>>

Step(t) ==
    \/ TakeIdle(t) \/ Open(t) \/ Wait(t) \/ Release(t)

Next ==
    \E t \in Threads :
        \/ WithConnection(t) \/ ReadBack(t) \/ TakeIdle(t) \/ Open(t)
        \/ OpenFails(t) \/ Wait(t) \/ SpuriousWake(t) \/ Release(t)

Spec == Init /\ [][Next]_vars

\* A thread that may go on in acquire or drop its lease eventually does; that
\* a connection fails to open or a thread begins another operation is not
\* required, nor that a sleeping thread wakes by itself.
FairSpec == Spec /\ \A t \in Threads : WF_vars(Step(t))

-----------------------------------------------------------------------------

TypeOK ==
    /\ idle \in Nat /\ inFlight \in Nat /\ opened \in Nat
    /\ leases \subseteq Threads \X Depths
    /\ awake \subseteq Threads /\ asleep \subseteq Threads
    /\ awake \cap asleep = {}
    /\ reread \subseteq Threads
    /\ ops \in [Threads -> 0..MaxOps]
    /\ faults \in 0..MaxFaults

\* How the leases of one thread nest: an inner lease is held over an outer one,
\* by a nesting operation that has reached its read-back, and a thread asks for
\* a second connection only there.
LeasesNest ==
    \A t \in Threads :
        /\ Holds(t, 2) => Holds(t, 1) /\ t \in Nesting \cap reread /\ t \notin Acquiring
        /\ t \in Acquiring /\ Holds(t, 1) => t \in Nesting \cap reread

\* "Long-running processes reuse at most this many configured connections"
\* (mod.rs:39): however acquire, release, failing opens and nested leases
\* interleave, every connection ever opened is either idle or leased and there
\* are never more than PoolSize of them.
PoolIsBounded ==
    /\ opened = idle + inFlight
    /\ inFlight = Cardinality(leases)
    /\ opened <= PoolSize

\* No lost wakeup: while a thread sleeps in acquire, every free slot of the
\* pool has a thread of its own that is awake and will look at it.
NoLostWakeup ==
    asleep # {} => PoolSize - inFlight <= Cardinality(awake)

\* acquire and release share one count and one condition variable: the pool is
\* never exceeded, and a slot that is free is never left to threads that sleep.
PoolIsShared == PoolIsBounded /\ NoLostWakeup

\* When every busy thread sleeps, the pool is used up by outer leases of
\* operations that wait for their inner one: nothing else can wedge the store.
Wedged == asleep # {} /\ \A t \in Threads : Busy(t) => t \in asleep
WedgeIsNested ==
    Wedged => Cardinality({t \in Nesting \cap asleep : Holds(t, 1)}) = PoolSize

\* As long as fewer nesting operations than connections run at a time, every
\* store operation gets its leases and ends.
FewNested == Cardinality({t \in Nesting : Busy(t)}) < PoolSize
OperationEnds ==
    []FewNested => \A t \in Threads : Busy(t) ~> ~Busy(t)
=============================================================================
