--------------------------- MODULE ChildWorkProofs ---------------------------
(***************************************************************************)
(* Theorems about ChildWork, for any number of revisions, requests and     *)
(* faults.  CursorsAgree and OneStart depend on what a call may still rely *)
(* on when it writes: it read the cursors in an earlier transaction.       *)
(***************************************************************************)
EXTENDS ChildWork, WellFoundedInduction, TLAPS

\* Steps at which a call has an operation, one that is registered, and one
\* whose acceptance is recorded.
HasAccepted == {"lived", "started", "inspect", "relive", "restarted", "record",
                "clear", "open", "reopen"}
HasRegistered == {"late", "accept"}
HasOperation == {"accepted", "dispatch", "start", "restore"} \cup HasRegistered \cup HasAccepted

CallKnows(t) ==
    /\ pc[t] \in CallerSteps
    /\ pc[t] \in HasOperation => my[t].of \in Revisions
    /\ pc[t] \in HasRegistered => dispatch[my[t].of] # "none"
    /\ pc[t] \in HasAccepted => my[t].of \in accepted

TurnKnows(r) ==
    /\ pc[r] \in TurnSteps
    /\ pc[r] \in {"run", "name"} => dispatch[r] = "open"
    /\ pc[r] = "name" => r \in accepted

LaunchIsRegistered ==
    \A r \in Revisions : launched[r] <= 1 /\ (launched[r] > 0 => dispatch[r] # "none")

GoalIsAsked ==
    /\ goal.revision <= clients
    /\ goal.lifecycle # "absent" => goal.revision >= 1

WorkInv ==
    /\ CursorsAgree /\ LaunchIsRegistered /\ GoalIsAsked
    /\ \A t \in Callers : CallKnows(t)
    /\ \A r \in Revisions : TurnKnows(r)

-----------------------------------------------------------------------------

LEMMA ThreadKinds ==
    /\ Callers \cup Revisions = Threads /\ Callers \cap Revisions = {}
    /\ Attend \in Callers /\ Ingress \in Callers
BY ChildWorkAssumption DEF Callers, Attend, Ingress, Threads, Revisions

\* The oldest of some obligations is one of them.
LEMMA OldestIsMember ==
    ASSUME NEW S \in SUBSET Revisions
    PROVE  Oldest(S) \in 0..MaxRevision /\ (S # {} => Oldest(S) \in S)
<1>1. CASE S = {}
  BY <1>1, ChildWorkAssumption DEF Oldest
<1>2. CASE S # {}
  <2>1. S \subseteq Nat BY ChildWorkAssumption DEF Revisions
  <2>2. PICK r \in S : \A q \in S : ~(<<q, r>> \in OpToRel(<, Nat))
    BY <1>2, <2>1, WFMin, NatLessThanWellFounded, Zenon
  <2>3. ASSUME NEW q \in S PROVE r <= q
    <3> SUFFICES ASSUME q < r PROVE FALSE BY <2>1
    <3>1. <<q, r>> \in Nat \X Nat /\ <<q, r>>[1] < <<q, r>>[2] BY <2>1
    <3>2. <<q, r>> \in OpToRel(<, Nat) BY <3>1, Zenon DEF OpToRel
    <3> QED BY <2>2, <3>2, Zenon
  <2>4. Oldest(S) \in S BY <1>2, <2>3 DEF Oldest
  <2>5. S \subseteq 0..MaxRevision BY ChildWorkAssumption DEF Revisions
  <2> QED BY <2>4, <2>5
<1> QED BY <1>1, <1>2

LEMMA OperationIsTyped ==
    ASSUME NEW r \in Revisions
    PROVE  [Forgotten EXCEPT !.of = r] \in Locals /\ [Forgotten EXCEPT !.of = r].of = r
<1>1. Forgotten \in Locals BY ChildWorkAssumption DEF Forgotten, Locals, GoalControls
<1> QED BY <1>1, ChildWorkAssumption DEF Locals, Revisions

LEMMA FirstIsTyped ==
    ASSUME NEW m \in Locals
    PROVE  LET first == [m EXCEPT !.of = m.live, !.live = 0, !.first = TRUE]
           IN  first \in Locals /\ first.of = m.live
<1> DEFINE here == [m EXCEPT !.of = m.live]
           past == [here EXCEPT !.live = 0]
           first == [past EXCEPT !.first = TRUE]
<1> HIDE DEF here, past, first
<1>1. here \in Locals /\ here.of = m.live BY DEF Locals, here
<1>2. 0 \in 0..MaxRevision BY ChildWorkAssumption
<1>3. past \in Locals /\ past.of = m.live BY <1>1, <1>2 DEF Locals, past
<1>4. first \in Locals /\ first.of = m.live BY <1>3 DEF Locals, first
<1>5. first = [m EXCEPT !.of = m.live, !.live = 0, !.first = TRUE]
  BY DEF Locals, here, past, first
<1> QED BY <1>4, <1>5

LEMMA GoalMoves ==
    ASSUME NEW g \in Goals, NEW n \in 0..MaxRevision, NEW c \in GoalControls
    PROVE  LET h == [g EXCEPT !.revision = n, !.control = c]
           IN  h \in Goals /\ h.revision = n /\ h.lifecycle = g.lifecycle
<1> DEFINE moved == [g EXCEPT !.revision = n]
           h == [moved EXCEPT !.control = c]
<1> HIDE DEF moved, h
<1>1. moved \in Goals /\ moved.revision = n /\ moved.lifecycle = g.lifecycle
  BY DEF Goals, moved
<1>2. h \in Goals /\ h.revision = n /\ h.lifecycle = g.lifecycle BY <1>1 DEF Goals, h
<1>3. h = [g EXCEPT !.revision = n, !.control = c] BY DEF Goals, moved, h
<1> QED BY <1>2, <1>3

LEMMA OwnIsTyped == Own \in [Threads -> Locals]
<1>1. Forgotten \in Locals BY ChildWorkAssumption DEF Forgotten, Locals, GoalControls
<1> QED BY <1>1, OperationIsTyped, ThreadKinds DEF Own

LEMMA InitWork == Init => WorkInv
<1> SUFFICES ASSUME Init PROVE WorkInv OBVIOUS
<1>1. TypeOK
  BY OwnIsTyped, ChildWorkAssumption
  DEF Init, TypeOK, CallerSteps, Terminal, Goals, GoalControls
<1>2. CursorsAgree BY <1>1 DEF CursorsAgree, Init
<1>3. LaunchIsRegistered /\ GoalIsAsked BY DEF Init, LaunchIsRegistered, GoalIsAsked
<1>4. ASSUME NEW t \in Threads
      PROVE  pc[t] = "idle"
  BY DEF Init
<1> QED
  BY <1>2, <1>3, <1>4, ThreadKinds
  DEF WorkInv, CallKnows, TurnKnows, HasOperation, HasRegistered, HasAccepted,
      CallerSteps, TurnSteps

\* A step of one call that writes cursors at most: what the other threads
\* rely on stays, because accepted only grows.
LEMMA CallKeepsWork ==
    ASSUME WorkInv, NEW t \in Callers, NEW step, NEW local,
           UNCHANGED <<goal, turns, clients, bindable>>, faults' \in 0..MaxFaults,
           pc' = [pc EXCEPT ![t] = step], my' = [my EXCEPT ![t] = local],
           local \in Locals, step \in CallerSteps,
           step \in HasOperation => local.of \in Revisions,
           step \in HasRegistered => dispatch[local.of] # "none",
           step \in HasAccepted => local.of \in accepted',
           accepted \subseteq accepted', accepted' \subseteq Registered,
           intent' = intent, pending' \subseteq pending,
           started' \subseteq accepted', pending' \cap started' = {},
           live' \in 0..MaxRevision, live' # 0 => live' \in accepted'
    PROVE  WorkInv'
<1>1. t \in Threads /\ t \notin Revisions BY ThreadKinds
<1>2. TypeOK /\ CursorsAgree BY DEF WorkInv, CursorsAgree
<1>3. TypeOK'
  BY <1>1, <1>2 DEF TypeOK, CursorsAgree, turns, Registered
<1>4. CursorsAgree'
  BY <1>2, <1>3 DEF CursorsAgree, Registered, turns
<1>5. LaunchIsRegistered' /\ GoalIsAsked'
  BY DEF WorkInv, LaunchIsRegistered, GoalIsAsked, turns
<1>6. ASSUME NEW u \in Callers PROVE CallKnows(u)'
  <2>1. u \in Threads /\ CallKnows(u) BY ThreadKinds DEF WorkInv
  <2>2. CASE u = t
    BY <1>1, <1>2, <2>2 DEF CallKnows, TypeOK, turns
  <2>3. CASE u # t
    BY <1>1, <1>2, <2>1, <2>3 DEF CallKnows, TypeOK, turns
  <2> QED BY <2>2, <2>3
<1>7. ASSUME NEW r \in Revisions PROVE TurnKnows(r)'
  <2>1. r \in Threads /\ r # t /\ TurnKnows(r) BY <1>1, ThreadKinds DEF WorkInv
  <2> QED BY <1>1, <1>2, <2>1 DEF TurnKnows, TypeOK, turns
<1> QED BY <1>4, <1>5, <1>6, <1>7 DEF WorkInv

\* A step of a call that reads only.
LEMMA ReadKeepsWork ==
    ASSUME WorkInv, NEW t \in Callers, NEW step \in CallerSteps, NEW local \in Locals,
           UNCHANGED <<ledger, turns, clients, bindable>>, faults' \in 0..MaxFaults,
           pc' = [pc EXCEPT ![t] = step], my' = [my EXCEPT ![t] = local],
           step \in HasOperation => local.of \in Revisions,
           step \in HasRegistered => dispatch[local.of] # "none",
           step \in HasAccepted => local.of \in accepted
    PROVE  WorkInv'
<1>1. CursorsAgree /\ TypeOK BY DEF WorkInv, CursorsAgree
<1>2. UNCHANGED <<goal, intent, pending, accepted, started, live>> BY DEF ledger
<1>3. /\ accepted \subseteq accepted' /\ accepted' \subseteq Registered
      /\ pending' \subseteq pending /\ started' \subseteq accepted'
      /\ pending' \cap started' = {} /\ live' \in 0..MaxRevision
      /\ live' # 0 => live' \in accepted'
  BY <1>1, <1>2 DEF CursorsAgree, TypeOK
<1> QED BY <1>2, <1>3, CallKeepsWork

\* A call that returns holds nothing.
LEMMA ReturnKeepsWork ==
    ASSUME WorkInv, NEW t \in Callers, Return(t),
           UNCHANGED <<ledger, turns, clients, bindable>>, faults' \in 0..MaxFaults
    PROVE  WorkInv'
<1>1. Own[t] \in Locals BY OwnIsTyped, ThreadKinds
<1>2. "idle" \in CallerSteps /\ "idle" \notin HasOperation \cup HasRegistered \cup HasAccepted
  BY DEF CallerSteps, HasOperation, HasRegistered, HasAccepted
<1> QED BY <1>1, <1>2, ReadKeepsWork DEF Return, Goto

LEMMA StartReadsKeepWork ==
    ASSUME WorkInv, NEW t \in Callers,
           ReadGoal(t) \/ ReadLive(t) \/ ReadPending(t) \/ ReadAccepted(t) \/ ReadDispatch(t)
    PROVE  WorkInv'
<1> USE DEF Goto, Reads, ReadsAndReturns, Untouched, counters, ledger, turns
<1>1. TypeOK /\ t \in Threads /\ my[t] \in Locals /\ my = [my EXCEPT ![t] = my[t]]
      /\ CallKnows(t)
  BY ThreadKinds DEF WorkInv, CursorsAgree, TypeOK
<1>2. UNCHANGED <<clients, faults, bindable>> /\ faults' \in 0..MaxFaults
      /\ UNCHANGED <<ledger, turns, clients, bindable>>
  BY <1>1 DEF TypeOK, ReadGoal, ReadLive, ReadPending, ReadAccepted, ReadDispatch
<1>3. ASSUME Return(t) PROVE WorkInv'
  BY <1>2, <1>3, ReturnKeepsWork
<1>4. CASE ReadGoal(t)
  <2>1. CASE goal.lifecycle # "active"
    BY <1>3, <1>4, <2>1 DEF ReadGoal
  <2>2. CASE goal.lifecycle = "active"
    <3>1. [my[t] EXCEPT !.control = goal.control] \in Locals
      BY <1>1 DEF TypeOK, Locals, Goals
    <3>2. "live" \in CallerSteps \ (HasOperation \cup HasRegistered \cup HasAccepted)
      BY DEF CallerSteps, HasOperation, HasRegistered, HasAccepted
    <3>3. /\ pc' = [pc EXCEPT ![t] = "live"]
          /\ my' = [my EXCEPT ![t] = [my[t] EXCEPT !.control = goal.control]]
      BY <1>4, <2>2 DEF ReadGoal
    <3> QED BY <1>2, <3>1, <3>2, <3>3, ReadKeepsWork
  <2> QED BY <2>1, <2>2
<1>5. CASE ReadLive(t)
  <2>1. [my[t] EXCEPT !.live = live] \in Locals
    BY <1>1 DEF TypeOK, Locals
  <2>2. "pending" \in CallerSteps \ (HasOperation \cup HasRegistered \cup HasAccepted)
    BY DEF CallerSteps, HasOperation, HasRegistered, HasAccepted
  <2>3. /\ pc' = [pc EXCEPT ![t] = "pending"]
        /\ my' = [my EXCEPT ![t] = [my[t] EXCEPT !.live = live]]
    BY <1>5 DEF ReadLive
  <2> QED BY <1>2, <2>1, <2>2, <2>3, ReadKeepsWork
<1>6. CASE ReadPending(t)
  <2> DEFINE p == Oldest(pending)
             m == [my[t] EXCEPT !.pending = p]
             first == [m EXCEPT !.of = m.live, !.live = 0, !.first = TRUE]
             owed == [Forgotten EXCEPT !.of = p]
  <2>1. p \in 0..MaxRevision BY <1>1, OldestIsMember DEF TypeOK
  <2>2. m \in Locals /\ m.live = my[t].live BY <1>1, <2>1 DEF Locals
  <2>3. first \in Locals /\ first.of = m.live
    BY <2>2, FirstIsTyped
  <2>4. CASE Awaits(m, p) /\ my' = [my EXCEPT ![t] = first] /\ Reads(t, "restore")
    <3>1. "restore" \in CallerSteps \ (HasRegistered \cup HasAccepted)
      BY DEF CallerSteps, HasRegistered, HasAccepted
    <3>2. first.of \in Revisions
      BY <2>2, <2>3, <2>4, ChildWorkAssumption DEF Awaits, Locals, Revisions
    <3> QED BY <1>2, <2>3, <2>4, <3>1, <3>2, ReadKeepsWork
  <2>5. CASE Owes(m) /\ my' = [my EXCEPT ![t] = owed] /\ Reads(t, "accepted")
    <3>1. "accepted" \in CallerSteps \ (HasRegistered \cup HasAccepted)
      BY DEF CallerSteps, HasRegistered, HasAccepted
    <3>2. m.pending = p BY <1>1 DEF Locals
    <3>3. p \in Revisions
      BY <2>1, <2>5, <3>2, ChildWorkAssumption DEF Owes, Revisions
    <3>4. owed \in Locals /\ owed.of = p BY <3>3, OperationIsTyped
    <3> QED BY <1>2, <2>5, <3>1, <3>3, <3>4, ReadKeepsWork
  <2>6. CASE Return(t) BY <1>3, <2>6
  <2> QED BY <1>6, <2>4, <2>5, <2>6 DEF ReadPending
<1>7. CASE ReadAccepted(t)
  <2>1. PICK step \in {"restore", "dispatch"} : pc' = [pc EXCEPT ![t] = step]
    BY <1>7 DEF ReadAccepted
  <2>2. step \in CallerSteps \ (HasRegistered \cup HasAccepted)
    BY DEF CallerSteps, HasRegistered, HasAccepted
  <2>3. my[t].of \in Revisions
    BY <1>1, <1>7 DEF ReadAccepted, CallKnows, HasOperation
  <2>4. my' = [my EXCEPT ![t] = my[t]] BY <1>1, <1>7 DEF ReadAccepted
  <2> QED BY <1>1, <1>2, <2>1, <2>2, <2>3, <2>4, ReadKeepsWork
<1>8. CASE ReadDispatch(t)
  <2>1. my[t].of \in Revisions
    BY <1>1, <1>8 DEF ReadDispatch, CallKnows, HasOperation
  <2>2. CASE dispatch[my[t].of] = "failed"
    BY <1>3, <1>8, <2>2 DEF ReadDispatch
  <2>3. CASE dispatch[my[t].of] # "failed"
    <3>1. my' = [my EXCEPT ![t] = my[t]] BY <1>1, <1>8, <2>3 DEF ReadDispatch
    <3>2. CASE dispatch[my[t].of] = "none"
      <4>1. "start" \in CallerSteps \ (HasRegistered \cup HasAccepted)
        BY DEF CallerSteps, HasRegistered, HasAccepted
      <4>2. pc' = [pc EXCEPT ![t] = "start"] BY <1>8, <2>3, <3>2 DEF ReadDispatch
      <4> QED BY <1>1, <1>2, <2>1, <3>1, <4>1, <4>2, ReadKeepsWork
    <3>3. CASE dispatch[my[t].of] # "none"
      <4>1. "late" \in CallerSteps \ HasAccepted
        BY DEF CallerSteps, HasAccepted
      <4>2. pc' = [pc EXCEPT ![t] = "late"] BY <1>8, <2>3, <3>3 DEF ReadDispatch
      <4> QED BY <1>1, <1>2, <2>1, <3>1, <3>3, <4>1, <4>2, ReadKeepsWork
    <3> QED BY <3>2, <3>3
  <2> QED BY <2>2, <2>3
<1> QED BY <1>4, <1>5, <1>6, <1>7, <1>8

LEMMA RestoreReadsKeepWork ==
    ASSUME WorkInv, NEW t \in Callers,
           RestoreAccepted(t) \/ InspectTurn(t) \/ ReadRecord(t)
    PROVE  WorkInv'
<1> USE DEF Goto, Reads, ReadsAndReturns, Untouched, counters
<1>1. TypeOK /\ t \in Threads /\ my[t] \in Locals /\ my = [my EXCEPT ![t] = my[t]]
      /\ CallKnows(t)
  BY ThreadKinds DEF WorkInv, CursorsAgree, TypeOK
<1>2. faults' \in 0..MaxFaults /\ UNCHANGED <<ledger, turns, clients, bindable>>
  BY <1>1 DEF TypeOK, RestoreAccepted, InspectTurn, ReadRecord
<1>3. CASE Return(t) BY <1>2, <1>3, ReturnKeepsWork
<1>4. CASE ~Return(t)
  <2>1. /\ UNCHANGED my
        /\ my[t].of \in Revisions /\ my[t].of \in accepted
        /\ \E step \in HasAccepted : pc' = [pc EXCEPT ![t] = step]
    BY <1>1, <1>4 DEF RestoreAccepted, InspectTurn, ReadRecord, CallKnows, HasAccepted,
                      HasOperation
  <2>2. PICK step \in HasAccepted : pc' = [pc EXCEPT ![t] = step] BY <2>1
  <2>3. step \in CallerSteps \ HasRegistered
    BY DEF CallerSteps, HasAccepted, HasRegistered
  <2>4. my' = [my EXCEPT ![t] = my[t]] BY <1>1, <2>1
  <2> QED BY <1>1, <1>2, <2>1, <2>2, <2>3, <2>4, ReadKeepsWork
<1> QED BY <1>3, <1>4

\* What a call writes about its operation, wherever it goes then.
LEMMA CursorWritesKeepWork ==
    ASSUME WorkInv, NEW t \in Callers,
           \/ AcceptLate(t) \/ Accept(t) \/ RecordLive(t) \/ RecordStarted(t)
           \/ Relive(t) \/ Restart(t) \/ ClearLive(t) \/ OpenStarted(t) \/ OpenLive(t)
    PROVE  WorkInv'
<1> USE DEF Goto, Return, Untouched, counters
<1>1. TypeOK /\ CursorsAgree /\ t \in Threads /\ my[t] \in Locals
      /\ my = [my EXCEPT ![t] = my[t]] /\ CallKnows(t)
  BY ThreadKinds DEF WorkInv, CursorsAgree, TypeOK
<1>2. faults' \in 0..MaxFaults /\ UNCHANGED <<goal, intent, turns, clients, bindable>>
  BY <1>1 DEF TypeOK, AcceptLate, Accept, RecordLive, RecordStarted, Relive, Restart,
              ClearLive, OpenStarted, OpenLive, ReadsAndReturns, ledger, turns
<1>3. Own[t] \in Locals /\ "idle" \in CallerSteps
      /\ "idle" \notin HasOperation \cup HasRegistered \cup HasAccepted
  BY <1>1, OwnIsTyped DEF CallerSteps, HasOperation, HasRegistered, HasAccepted
<1>4. my[t].of \in Revisions
      /\ (pc[t] \in HasRegistered => dispatch[my[t].of] # "none")
      /\ (pc[t] \in HasAccepted => my[t].of \in accepted)
  BY <1>1 DEF CallKnows, HasOperation, HasRegistered, HasAccepted, AcceptLate, Accept,
              RecordLive, RecordStarted, Relive, Restart, ClearLive, OpenStarted, OpenLive
<1>5. CASE AcceptLate(t) \/ Accept(t)
  <2>1. /\ accepted' = accepted \cup {my[t].of} /\ dispatch[my[t].of] # "none"
        /\ UNCHANGED <<pending, started, live>> /\ my' = [my EXCEPT ![t] = my[t]]
        /\ \E step \in {"restore", "lived"} : pc' = [pc EXCEPT ![t] = step]
    BY <1>1, <1>4, <1>5 DEF AcceptLate, Accept, HasRegistered
  <2>2. accepted' \subseteq Registered /\ my[t].of \in accepted'
    BY <1>1, <1>4, <2>1 DEF CursorsAgree, Registered
  <2>3. PICK step \in {"restore", "lived"} : pc' = [pc EXCEPT ![t] = step] BY <2>1
  <2>4. step \in CallerSteps \ HasRegistered BY DEF CallerSteps, HasRegistered
  <2>5. /\ accepted \subseteq accepted' /\ pending' \subseteq pending
        /\ started' \subseteq accepted' /\ pending' \cap started' = {}
        /\ live' \in 0..MaxRevision /\ (live' # 0 => live' \in accepted')
    BY <1>1, <2>1 DEF CursorsAgree, TypeOK
  <2> QED BY <1>1, <1>2, <1>4, <2>1, <2>2, <2>3, <2>4, <2>5, CallKeepsWork
<1>6. CASE (RecordLive(t) \/ Relive(t)) /\ ~bindable
  BY <1>2, <1>6, ReturnKeepsWork DEF RecordLive, Relive, ReadsAndReturns
<1>7. CASE ((RecordLive(t) \/ Relive(t)) /\ bindable) \/ OpenLive(t)
  <2>1. /\ live' = my[t].of /\ my[t].of \in accepted
        /\ UNCHANGED <<pending, accepted, started>>
    BY <1>4, <1>7 DEF RecordLive, Relive, OpenLive, HasAccepted
  <2>2. /\ accepted \subseteq accepted' /\ accepted' \subseteq Registered
        /\ pending' \subseteq pending /\ started' \subseteq accepted'
        /\ pending' \cap started' = {}
        /\ live' \in 0..MaxRevision /\ live' \in accepted'
    BY <1>1, <1>4, <2>1, ChildWorkAssumption DEF CursorsAgree, TypeOK, Revisions
  <2>3. CASE OpenLive(t)
    <3>1. pc' = [pc EXCEPT ![t] = "idle"] /\ my' = [my EXCEPT ![t] = Own[t]]
      BY <2>3 DEF OpenLive
    <3> QED BY <1>2, <1>3, <2>2, <3>1, CallKeepsWork
  <2>4. CASE (RecordLive(t) \/ Relive(t)) /\ bindable
    <3>1. /\ my' = [my EXCEPT ![t] = my[t]]
          /\ \E step \in {"started", "restarted"} : pc' = [pc EXCEPT ![t] = step]
      BY <1>1, <2>4 DEF RecordLive, Relive
    <3>2. PICK step \in {"started", "restarted"} : pc' = [pc EXCEPT ![t] = step] BY <3>1
    <3>3. step \in CallerSteps \ HasRegistered BY DEF CallerSteps, HasRegistered
    <3> QED BY <1>1, <1>2, <1>4, <2>1, <2>2, <3>1, <3>2, <3>3, CallKeepsWork
  <2> QED BY <1>7, <2>3, <2>4
<1>8. CASE RecordStarted(t) \/ Restart(t) \/ OpenStarted(t)
  <2>1. /\ started' = started \cup {my[t].of} /\ pending' = pending \ {my[t].of}
        /\ my[t].of \in accepted /\ UNCHANGED <<accepted, live>>
    BY <1>4, <1>8 DEF RecordStarted, Restart, OpenStarted, Start, HasAccepted
  <2>2. /\ accepted \subseteq accepted' /\ accepted' \subseteq Registered
        /\ pending' \subseteq pending /\ started' \subseteq accepted'
        /\ pending' \cap started' = {}
        /\ live' \in 0..MaxRevision /\ (live' # 0 => live' \in accepted')
    BY <1>1, <2>1 DEF CursorsAgree, TypeOK
  <2>3. CASE OpenStarted(t)
    <3>1. pc' = [pc EXCEPT ![t] = "reopen"] /\ my' = [my EXCEPT ![t] = my[t]]
      BY <1>1, <2>3 DEF OpenStarted
    <3>2. "reopen" \in CallerSteps \ HasRegistered BY DEF CallerSteps, HasRegistered
    <3> QED BY <1>1, <1>2, <1>4, <2>1, <2>2, <3>1, <3>2, CallKeepsWork
  <2>4. CASE RecordStarted(t) \/ Restart(t)
    <3>1. pc' = [pc EXCEPT ![t] = "idle"] /\ my' = [my EXCEPT ![t] = Own[t]]
      BY <2>4 DEF RecordStarted, Restart
    <3> QED BY <1>2, <1>3, <2>2, <3>1, CallKeepsWork
  <2> QED BY <1>8, <2>3, <2>4
<1>9. CASE ClearLive(t)
  <2>1. live' = 0 /\ UNCHANGED <<pending, accepted, started>> BY <1>9 DEF ClearLive
  <2>2. /\ accepted \subseteq accepted' /\ accepted' \subseteq Registered
        /\ pending' \subseteq pending /\ started' \subseteq accepted'
        /\ pending' \cap started' = {}
        /\ live' \in 0..MaxRevision /\ (live' # 0 => live' \in accepted')
    BY <1>1, <2>1, ChildWorkAssumption DEF CursorsAgree, TypeOK
  <2>3. CASE Return(t) BY <1>2, <1>3, <2>2, <2>3, CallKeepsWork
  <2>4. CASE ~Return(t)
    <3> DEFINE owed == [Forgotten EXCEPT !.of = my[t].pending]
    <3>1. /\ my[t].pending # 0 /\ pc' = [pc EXCEPT ![t] = "accepted"]
          /\ my' = [my EXCEPT ![t] = owed]
      BY <1>9, <2>4 DEF ClearLive, Owes
    <3>2. my[t].pending \in Revisions
      BY <1>1, <3>1, ChildWorkAssumption DEF Locals, Revisions
    <3>3. owed \in Locals /\ owed.of \in Revisions BY <3>2, OperationIsTyped
    <3>4. "accepted" \in CallerSteps \ (HasRegistered \cup HasAccepted)
      BY DEF CallerSteps, HasRegistered, HasAccepted
    <3> QED BY <1>2, <2>2, <3>1, <3>3, <3>4, CallKeepsWork
  <2> QED BY <2>3, <2>4
<1> QED BY <1>5, <1>6, <1>7, <1>8, <1>9

\* Registration: the operation has no turn yet, so nobody relies on it.
LEMMA StartKeepsWork ==
    ASSUME WorkInv, NEW t \in Callers, StartTurn(t) \/ StartIsAbandoned(t)
    PROVE  WorkInv'
<1> DEFINE q == my[t].of
<1> USE DEF Goto, Untouched, counters
<1>1. TypeOK /\ CursorsAgree /\ t \in Threads /\ t \notin Revisions /\ my[t] \in Locals
      /\ CallKnows(t) /\ pc[t] = "start"
  BY ThreadKinds DEF WorkInv, CursorsAgree, TypeOK, StartTurn, StartIsAbandoned
<1>2. q \in Revisions /\ q \in Threads BY <1>1, ThreadKinds DEF CallKnows, HasOperation
<1>3. CASE q \in Registered
  <2>1. UNCHANGED <<ledger, turns, clients, bindable>> /\ Return(t) /\ faults' \in 0..MaxFaults
    BY <1>1, <1>3 DEF StartTurn, StartIsAbandoned, ReadsAndReturns, TypeOK
  <2> QED BY <2>1, ReturnKeepsWork
<1>4. CASE q \notin Registered
  <2>1. dispatch[q] = "none" /\ launched[q] = 0 /\ pc[q] = "idle"
    BY <1>1, <1>2, <1>4
    DEF Registered, WorkInv, LaunchIsRegistered, TurnKnows, TurnSteps, TypeOK
  <2>2. PICK state \in {"open", "failed"} :
        /\ dispatch' = [dispatch EXCEPT ![q] = state]
        /\ \/ /\ state = "open" /\ launched' = [launched EXCEPT ![q] = @ + 1]
              /\ pc' = [pc EXCEPT ![t] = "accept", ![q] = "run"]
              /\ UNCHANGED <<my, faults>>
           \/ /\ UNCHANGED launched
              /\ Return(t) /\ faults < MaxFaults /\ faults' = faults + 1
    BY <1>4 DEF StartTurn, StartIsAbandoned, Fault
  <2>3. UNCHANGED <<goal, intent, pending, accepted, started, live, named, clients, bindable>>
    BY <1>4 DEF StartTurn, StartIsAbandoned, Fault, ledger
  <2>4. /\ \A u \in Threads \ {t, q} : pc'[u] = pc[u] /\ my'[u] = my[u]
        /\ my'[q] = my[q]
        /\ \/ pc'[t] = "accept" /\ my'[t] = my[t] /\ pc'[q] = "run"
           \/ pc'[t] = "idle" /\ pc'[q] = pc[q]
    BY <1>1, <1>2, <2>2 DEF Return, TypeOK
  <2>5. \A r \in Revisions : dispatch[r] # "none" => dispatch'[r] = dispatch[r]
    BY <1>1, <2>1, <2>2 DEF TypeOK
  <2>6. dispatch'[q] = state BY <1>1, <1>2, <2>2 DEF TypeOK
  <2>7. TypeOK'
    <3>1. dispatch' \in [Revisions -> {"none", "open"} \cup Terminal]
      BY <1>1, <2>2 DEF TypeOK, Terminal
    <3>2. launched' \in [Revisions -> Nat] BY <1>1, <1>2, <2>2 DEF TypeOK
    <3>3. pc' \in [Threads -> CallerSteps \cup TurnSteps]
      BY <1>1, <2>2 DEF TypeOK, Return, CallerSteps, TurnSteps
    <3>4. my' \in [Threads -> Locals] BY <1>1, <2>2, OwnIsTyped DEF TypeOK, Return
    <3>5. faults' \in 0..MaxFaults BY <1>1, <2>2, ChildWorkAssumption DEF TypeOK
    <3> QED BY <1>1, <2>3, <3>1, <3>2, <3>3, <3>4, <3>5 DEF TypeOK
  <2>8. CursorsAgree'
    BY <1>1, <2>3, <2>5, <2>7 DEF CursorsAgree, Registered, TypeOK
  <2>9. LaunchIsRegistered'
    <3>1. ASSUME NEW r \in Revisions
          PROVE  launched'[r] <= 1 /\ (launched'[r] > 0 => dispatch'[r] # "none")
      BY <1>1, <1>2, <2>1, <2>2, <2>5, <2>6 DEF WorkInv, LaunchIsRegistered, TypeOK
    <3> QED BY <3>1 DEF LaunchIsRegistered
  <2>10. GoalIsAsked' BY <2>3 DEF WorkInv, GoalIsAsked
  <2>11. ASSUME NEW u \in Callers PROVE CallKnows(u)'
    <3>1. u \in Threads /\ u \notin Revisions /\ CallKnows(u) BY ThreadKinds DEF WorkInv
    <3>2. CASE u = t
      BY <1>2, <2>2, <2>4, <2>6, <3>2
      DEF CallKnows, CallerSteps, HasOperation, HasRegistered, HasAccepted, Return
    <3>3. CASE u # t
      <4>1. pc'[u] = pc[u] /\ my'[u] = my[u] BY <1>2, <2>4, <3>1, <3>3
      <4> QED BY <2>3, <2>5, <3>1, <4>1
              DEF CallKnows, HasOperation, HasRegistered, HasAccepted
    <3> QED BY <3>2, <3>3
  <2>12. ASSUME NEW r \in Revisions PROVE TurnKnows(r)'
    <3>1. r \in Threads /\ r # t /\ TurnKnows(r) BY <1>1, ThreadKinds DEF WorkInv
    <3>2. CASE r = q
      BY <1>1, <2>1, <2>2, <2>4, <2>6, <3>2 DEF TurnKnows, TurnSteps, Return, TypeOK
    <3>3. CASE r # q
      BY <2>3, <2>4, <2>5, <3>1, <3>3 DEF TurnKnows
    <3> QED BY <3>2, <3>3
  <2> QED BY <2>8, <2>9, <2>10, <2>11, <2>12 DEF WorkInv
<1> QED BY <1>3, <1>4

\* Any other call that fails.
LEMMA FailureKeepsWork ==
    ASSUME WorkInv, NEW t \in Callers, DispatchIsUnread(t) \/ CallFails(t)
    PROVE  WorkInv'
<1>1. TypeOK /\ t \in Threads /\ my[t] \in Locals /\ CallKnows(t)
      /\ my = [my EXCEPT ![t] = my[t]]
  BY ThreadKinds DEF WorkInv, CursorsAgree, TypeOK
<1>2. faults' \in 0..MaxFaults /\ UNCHANGED <<ledger, turns, clients, bindable>>
  BY <1>1, ChildWorkAssumption DEF TypeOK, DispatchIsUnread, CallFails, Fault
<1>3. CASE CallFails(t) BY <1>2, <1>3, ReturnKeepsWork DEF CallFails
<1>4. CASE DispatchIsUnread(t)
  <2>1. pc' = [pc EXCEPT ![t] = "start"] /\ my' = [my EXCEPT ![t] = my[t]]
        /\ my[t].of \in Revisions
    BY <1>1, <1>4 DEF DispatchIsUnread, Goto, CallKnows, HasOperation
  <2>2. "start" \in CallerSteps \ (HasRegistered \cup HasAccepted)
    BY DEF CallerSteps, HasRegistered, HasAccepted
  <2> QED BY <1>1, <1>2, <2>1, <2>2, ReadKeepsWork
<1> QED BY <1>3, <1>4

\* The attendance takes up a Goal.
LEMMA AttendanceKeepsWork ==
    ASSUME WorkInv, AttendWork \/ RecoverLive
    PROVE  WorkInv'
<1> USE DEF Goto, Reads, ReadsAndReturns, Untouched, counters
<1>1. TypeOK /\ Attend \in Callers /\ Attend \in Threads /\ my[Attend] \in Locals
      /\ my = [my EXCEPT ![Attend] = my[Attend]]
  BY ThreadKinds DEF WorkInv, CursorsAgree, TypeOK
<1>2. faults' \in 0..MaxFaults /\ UNCHANGED <<ledger, turns, clients, bindable>>
  BY <1>1 DEF TypeOK, AttendWork, RecoverLive
<1>3. CASE AttendWork
  <2>1. pc' = [pc EXCEPT ![Attend] = "goal"] /\ my' = [my EXCEPT ![Attend] = my[Attend]]
    BY <1>1, <1>3 DEF AttendWork
  <2>2. "goal" \in CallerSteps \ (HasOperation \cup HasRegistered \cup HasAccepted)
    BY DEF CallerSteps, HasOperation, HasRegistered, HasAccepted
  <2> QED BY <1>1, <1>2, <2>1, <2>2, ReadKeepsWork
<1>4. CASE RecoverLive
  <2>1. CASE live = 0 BY <1>1, <1>2, <1>4, <2>1, ReturnKeepsWork DEF RecoverLive
  <2>2. CASE live # 0
    <3> DEFINE local == [my[Attend] EXCEPT !.of = live]
    <3>1. local \in Locals /\ local.of = live BY <1>1 DEF Locals, TypeOK
    <3>2. live \in Revisions BY <1>1, <2>2, ChildWorkAssumption DEF TypeOK, Revisions
    <3>3. "restore" \in CallerSteps \ (HasRegistered \cup HasAccepted)
      BY DEF CallerSteps, HasRegistered, HasAccepted
    <3>4. pc' = [pc EXCEPT ![Attend] = "restore"] /\ my' = [my EXCEPT ![Attend] = local]
      BY <1>4, <2>2 DEF RecoverLive
    <3> QED BY <1>1, <1>2, <3>1, <3>2, <3>3, <3>4, ReadKeepsWork
  <2> QED BY <2>1, <2>2
<1> QED BY <1>3, <1>4

LEMMA TurnKeepsWork ==
    ASSUME WorkInv, NEW r \in Revisions,
           NameTurn(r) \/ UpdateLiveNativeTurn(r) \/ TurnEnds(r) \/ EvictTurn(r)
    PROVE  WorkInv'
<1> USE DEF Goto, Untouched, counters, ledger, turns, threads
<1>1. TypeOK /\ CursorsAgree /\ r \in Threads /\ r \notin Callers /\ TurnKnows(r)
  BY ThreadKinds DEF WorkInv, CursorsAgree
<1>2. PICK step \in TurnSteps : pc' = [pc EXCEPT ![r] = step] /\ (step = "name" => live = r)
  <2>1. pc = [pc EXCEPT ![r] = pc[r]] BY <1>1 DEF TypeOK
  <2> QED BY <1>1, <2>1
          DEF NameTurn, UpdateLiveNativeTurn, TurnEnds, FinishTurn, EvictTurn, TurnSteps,
              TurnKnows
<1>3. /\ UNCHANGED <<goal, intent, pending, accepted, started, launched, my, clients, faults, bindable>>
      /\ live' = live \/ (live' = r /\ pc[r] = "name")
      /\ named' \subseteq Revisions
  BY <1>1 DEF NameTurn, UpdateLiveNativeTurn, TurnEnds, FinishTurn, EvictTurn, TypeOK
<1>4. PICK state \in {"open"} \cup Terminal \cup {dispatch[r]} :
      /\ dispatch' = [dispatch EXCEPT ![r] = state]
      /\ state = "none" => dispatch[r] = "none"
      /\ step \in {"run", "name"} => state = "open"
  <2>1. dispatch = [dispatch EXCEPT ![r] = dispatch[r]] BY <1>1 DEF TypeOK
  <2> QED BY <1>1, <1>2, <2>1
          DEF NameTurn, UpdateLiveNativeTurn, TurnEnds, FinishTurn, EvictTurn, TurnKnows,
              Terminal, TypeOK
<1>5. TypeOK'
  <2>1. dispatch' \in [Revisions -> {"none", "open"} \cup Terminal] BY <1>1, <1>4 DEF TypeOK
  <2>2. pc' \in [Threads -> CallerSteps \cup TurnSteps] BY <1>1, <1>2 DEF TypeOK
  <2>3. live' \in 0..MaxRevision
    BY <1>1, <1>3, ChildWorkAssumption DEF TypeOK, Revisions
  <2> QED BY <1>1, <1>3, <2>1, <2>2, <2>3 DEF TypeOK
<1>6. \A q \in Revisions : dispatch'[q] = "none" => dispatch[q] = "none"
  BY <1>1, <1>4 DEF TypeOK
<1>7. CursorsAgree'
  BY <1>1, <1>3, <1>5, <1>6 DEF CursorsAgree, Registered, TurnKnows, TypeOK
<1>8. LaunchIsRegistered' /\ GoalIsAsked'
  BY <1>3, <1>6 DEF WorkInv, LaunchIsRegistered, GoalIsAsked
<1>9. ASSUME NEW u \in Callers PROVE CallKnows(u)'
  <2>1. u \in Threads /\ u # r /\ CallKnows(u) BY <1>1, ThreadKinds DEF WorkInv
  <2>2. pc'[u] = pc[u] BY <1>1, <1>2, <2>1 DEF TypeOK
  <2> QED BY <1>3, <1>6, <2>1, <2>2 DEF CallKnows, HasOperation, HasRegistered, HasAccepted
<1>10. ASSUME NEW q \in Revisions PROVE TurnKnows(q)'
  <2>1. q \in Threads /\ TurnKnows(q) BY ThreadKinds DEF WorkInv
  <2>2. CASE q = r
    <3>1. pc'[r] = step /\ dispatch'[r] = state BY <1>1, <1>2, <1>4 DEF TypeOK
    <3>2. step = "name" => r \in accepted'
      BY <1>1, <1>2, <1>3, ChildWorkAssumption DEF CursorsAgree, Revisions
    <3> QED BY <1>2, <1>4, <2>2, <3>1, <3>2 DEF TurnKnows
  <2>3. CASE q # r
    <3>1. pc'[q] = pc[q] /\ dispatch'[q] = dispatch[q]
      BY <1>1, <1>2, <1>4, <2>1, <2>3 DEF TypeOK
    <3> QED BY <1>3, <2>1, <3>1 DEF TurnKnows
  <2> QED BY <2>2, <2>3
<1> QED BY <1>7, <1>8, <1>9, <1>10 DEF WorkInv

\* Obligations are written for a revision the Goal has, once.
LEMMA ClientKeepsWork ==
    ASSUME WorkInv, Client
    PROVE  WorkInv'
<1> USE DEF threads, turns
<1>1. TypeOK /\ CursorsAgree /\ GoalIsAsked BY DEF WorkInv, CursorsAgree
<1>2. clients' = clients + 1 /\ clients' \in 0..MaxClients
      /\ UNCHANGED <<faults, bindable>>
  <2>1. Ask BY DEF Client, CommitProposal, AppendEvidence, ControlGoal, AcceptCompletion
  <2> QED BY <1>1, <2>1, ChildWorkAssumption DEF Ask, TypeOK
<1>3. UNCHANGED <<accepted, started, live, dispatch, launched, named, my>>
  BY DEF Client, CommitProposal, AppendEvidence, ControlGoal, AcceptCompletion
<1>4. goal' \in Goals /\ GoalIsAsked'
  <2>1. ASSUME NEW create \in BOOLEAN, CommitProposal(create)
        PROVE  goal' \in Goals /\ GoalIsAsked'
    <3>1. CASE goal' = goal
      BY <1>1, <1>2, <3>1 DEF GoalIsAsked, TypeOK, Goals
    <3>2. CASE goal' = [revision |-> 1, lifecycle |-> "active", control |-> "enabled"]
      BY <1>1, <1>2, <3>2, ChildWorkAssumption DEF GoalIsAsked, TypeOK, Goals, GoalControls
    <3> QED BY <2>1, <3>1, <3>2 DEF CommitProposal
  <2>2. ASSUME AppendEvidence
        PROVE  goal' \in Goals /\ GoalIsAsked'
    BY <1>1, <1>2, <2>2, ChildWorkAssumption DEF AppendEvidence, GoalIsAsked, TypeOK, Goals
  <2>3. ASSUME ControlGoal
        PROVE  goal' \in Goals /\ GoalIsAsked'
    <3>1. PICK c \in Controls :
              goal' = [goal EXCEPT !.revision = @ + 1, !.control = c[2]]
      BY <2>3 DEF ControlGoal
    <3>2. c[2] \in GoalControls BY DEF Controls, GoalControls
    <3>3. goal.revision + 1 \in 0..MaxRevision
      BY <1>1, <1>2, ChildWorkAssumption DEF GoalIsAsked, TypeOK, Goals
    <3>4. /\ goal' \in Goals /\ goal'.revision = goal.revision + 1
          /\ goal'.lifecycle = goal.lifecycle
      <4>1. goal \in Goals BY <1>1 DEF TypeOK
      <4>2. \A n \in 0..MaxRevision, k \in GoalControls :
              LET h == [goal EXCEPT !.revision = n, !.control = k]
              IN  h \in Goals /\ h.revision = n /\ h.lifecycle = goal.lifecycle
        BY <4>1, GoalMoves, Zenon
      <4> QED BY <3>1, <3>2, <3>3, <4>2, Zenon
    <3> QED BY <1>1, <1>2, <3>4 DEF GoalIsAsked, TypeOK, Goals
  <2>4. ASSUME AcceptCompletion
        PROVE  goal' \in Goals /\ GoalIsAsked'
    <3>1. goal' = [[goal EXCEPT !.lifecycle = "closed"] EXCEPT !.control = "enabled"]
      BY <1>1, <2>4 DEF AcceptCompletion, TypeOK, Goals
    <3> DEFINE closed == [goal EXCEPT !.lifecycle = "closed"]
    <3>2. closed \in Goals /\ closed.revision = goal.revision BY <1>1 DEF TypeOK, Goals
    <3> HIDE DEF closed
    <3>3. [closed EXCEPT !.control = "enabled"] \in Goals
          /\ [closed EXCEPT !.control = "enabled"].revision = goal.revision
      BY <3>2 DEF Goals, GoalControls
    <3>4. goal' \in Goals /\ goal'.revision = goal.revision BY <3>1, <3>3 DEF closed
    <3>5. goal.lifecycle = "active" BY <2>4 DEF AcceptCompletion
    <3> QED BY <1>1, <1>2, <3>4, <3>5 DEF GoalIsAsked, TypeOK, Goals
  <2> QED BY <2>1, <2>2, <2>3, <2>4 DEF Client
<1>5. \/ UNCHANGED <<intent, pending>>
      \/ /\ goal'.revision \in Revisions /\ goal'.revision \notin started
         /\ intent' = intent \cup {goal'.revision}
         /\ pending' = pending \cup {goal'.revision}
  <2>1. ASSUME NEW create \in BOOLEAN, CommitProposal(create)
        PROVE  Oblige(goal'.revision) /\ goal'.revision \in Revisions
    <3>1. Oblige(goal'.revision) /\ goal'.lifecycle # "absent"
      BY <1>1, <2>1 DEF CommitProposal
    <3> QED BY <1>4, <3>1, ChildWorkAssumption DEF GoalIsAsked, Revisions, Goals
  <2>2. ASSUME AppendEvidence
        PROVE  Oblige(goal'.revision) /\ goal'.revision \in Revisions
    <3>1. Oblige(goal'.revision) /\ goal'.lifecycle # "absent"
      BY <1>1, <2>2 DEF AppendEvidence, TypeOK
    <3> QED BY <1>4, <3>1, ChildWorkAssumption DEF GoalIsAsked, Revisions, Goals
  <2>3. ASSUME Oblige(goal'.revision), goal'.revision \in Revisions
        PROVE  \/ UNCHANGED <<intent, pending>>
               \/ /\ goal'.revision \in Revisions /\ goal'.revision \notin started
                  /\ intent' = intent \cup {goal'.revision}
                  /\ pending' = pending \cup {goal'.revision}
    BY <2>3 DEF Oblige
  <2> QED BY <2>1, <2>2, <2>3 DEF Client, ControlGoal, AcceptCompletion
<1>6. \/ UNCHANGED pc
      \/ pc' = [pc EXCEPT ![Ingress] = "goal"]
  BY DEF Client, CommitProposal, AppendEvidence, ControlGoal, AcceptCompletion, Goto
<1>7. TypeOK'
  <2>1. pc' \in [Threads -> CallerSteps \cup TurnSteps]
    BY <1>1, <1>6 DEF TypeOK, CallerSteps
  <2>2. intent' \subseteq Revisions /\ pending' \subseteq Revisions BY <1>1, <1>5 DEF TypeOK
  <2> QED BY <1>1, <1>2, <1>3, <1>4, <2>1, <2>2 DEF TypeOK
<1>8. CursorsAgree' BY <1>1, <1>3, <1>5, <1>7 DEF CursorsAgree, Registered
<1>9. LaunchIsRegistered' BY <1>3 DEF WorkInv, LaunchIsRegistered
<1>10. ASSUME NEW u \in Callers PROVE CallKnows(u)'
  <2>1. u \in Threads /\ CallKnows(u) /\ (pc'[u] = pc[u] \/ pc'[u] = "goal")
    BY <1>1, <1>6, ThreadKinds DEF WorkInv, TypeOK
  <2> QED BY <1>3, <2>1
          DEF CallKnows, CallerSteps, HasOperation, HasRegistered, HasAccepted
<1>11. ASSUME NEW r \in Revisions PROVE TurnKnows(r)'
  <2>1. r \in Threads /\ TurnKnows(r) /\ pc'[r] = pc[r]
    BY <1>1, <1>6, ThreadKinds DEF WorkInv, TypeOK
  <2> QED BY <1>3, <2>1 DEF TurnKnows
<1> QED BY <1>4, <1>8, <1>9, <1>10, <1>11 DEF WorkInv

\* The end of the process ends the turns and every call.
LEMMA CrashKeepsWork ==
    ASSUME WorkInv, Crash
    PROVE  WorkInv'
<1>1. TypeOK /\ CursorsAgree BY DEF WorkInv, CursorsAgree
<1>2. UNCHANGED <<goal, intent, pending, accepted, started, live, launched, clients, bindable>>
      /\ faults' \in 0..MaxFaults
  BY <1>1, ChildWorkAssumption DEF Crash, Fault, ledger, TypeOK
<1>3. \A r \in Revisions : dispatch'[r] = "none" <=> dispatch[r] = "none"
  BY DEF Crash
<1>4. TypeOK'
  <2>1. dispatch' \in [Revisions -> {"none", "open"} \cup Terminal]
    BY <1>1 DEF Crash, TypeOK, Terminal
  <2>2. pc' \in [Threads -> CallerSteps \cup TurnSteps]
    BY DEF Crash, CallerSteps
  <2>3. my' \in [Threads -> Locals] /\ named' \subseteq Revisions
    BY OwnIsTyped DEF Crash
  <2> QED BY <1>1, <1>2, <2>1, <2>2, <2>3 DEF TypeOK
<1>5. CursorsAgree' BY <1>1, <1>2, <1>3, <1>4 DEF CursorsAgree, Registered, TypeOK
<1>6. LaunchIsRegistered' /\ GoalIsAsked'
  BY <1>2, <1>3 DEF WorkInv, LaunchIsRegistered, GoalIsAsked
<1>7. ASSUME NEW u \in Callers PROVE CallKnows(u)'
  <2>1. u \in Threads BY ThreadKinds
  <2>2. pc'[u] \in {"idle", "cold"} BY <2>1 DEF Crash
  <2> QED BY <2>2 DEF CallKnows, CallerSteps, HasOperation, HasRegistered, HasAccepted
<1>8. ASSUME NEW r \in Revisions PROVE TurnKnows(r)'
  <2>1. r \in Threads /\ r # Attend BY ThreadKinds
  <2>2. pc'[r] = "idle" BY <2>1 DEF Crash
  <2> QED BY <2>2 DEF TurnKnows, TurnSteps
<1> QED BY <1>5, <1>6, <1>7, <1>8 DEF WorkInv

LEMMA StepKeepsWork == WorkInv /\ [Next]_vars => WorkInv'
<1> SUFFICES ASSUME WorkInv, [Next]_vars PROVE WorkInv' OBVIOUS
<1>1. CASE UNCHANGED vars
  BY <1>1
  DEF vars, ledger, turns, threads, counters, WorkInv, CursorsAgree, TypeOK, Registered,
      LaunchIsRegistered, GoalIsAsked, CallKnows, TurnKnows
<1>2. CASE Client BY <1>2, ClientKeepsWork
<1>3. ASSUME NEW t \in Callers, CallerStep(t) PROVE WorkInv'
  BY <1>3, StartReadsKeepWork, RestoreReadsKeepWork, CursorWritesKeepWork, StartKeepsWork
  DEF CallerStep
<1>4. ASSUME NEW r \in Revisions,
             NameTurn(r) \/ UpdateLiveNativeTurn(r) \/ TurnEnds(r) \/ EvictTurn(r)
      PROVE  WorkInv'
  BY <1>4, TurnKeepsWork
<1>5. CASE AttendWork \/ RecoverLive BY <1>5, AttendanceKeepsWork
<1>6. CASE Failure BY <1>6, FailureKeepsWork, StartKeepsWork DEF Failure
<1>7. CASE Crash BY <1>7, CrashKeepsWork
<1> QED BY <1>1, <1>2, <1>3, <1>4, <1>5, <1>6, <1>7 DEF Next

-----------------------------------------------------------------------------

\* Whatever two threads, failing calls and restarts do between the separate
\* transactions of start_admitted_child_work, an operation gets one turn.
THEOREM StartsOnce == Spec => []OneStart
<1>1. WorkInv => OneStart BY DEF WorkInv, LaunchIsRegistered, OneStart
<1> QED BY <1>1, InitWork, StepKeepsWork, PTL DEF Spec

\* The cursors of the ledger are true of the turns at every moment, also
\* between the transactions that write them one by one.
THEOREM CursorsAreTrue == Spec => []CursorsAgree
<1>1. WorkInv => CursorsAgree BY DEF WorkInv
<1> QED BY <1>1, InitWork, StepKeepsWork, PTL DEF Spec
=============================================================================
