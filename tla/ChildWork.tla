------------------------------- MODULE ChildWork -------------------------------
(***************************************************************************)
(* The work an Assistant owes on one Goal (assistant_continuity/host.rs    *)
(* over the continuity ledger of licoup-conversation).                     *)
(*                                                                         *)
(* A change of the Goal that calls for work writes an obligation for the   *)
(* Goal's revision.  Starting it registers a turn of the child             *)
(* Conversation under an identity made of Goal and revision, so that a     *)
(* revision stands for the obligation, its operation and its dispatch.     *)
(* What the turn produced comes back as evidence, which is a new revision. *)
(*                                                                         *)
(* Every call of the ledger is a transaction of its own and no lock spans  *)
(* two of them.  The callers are the attendance thread, the thread that    *)
(* commits an Assistant's proposal, the turns' own threads, and requests.  *)
(* Turn r's thread is number r.  The recipient of the work does not        *)
(* change.                                                                 *)
(***************************************************************************)
EXTENDS Integers

CONSTANTS
    MaxRevision,
    MaxClients,     \* changes of the Goal that users and Assistants ask for
    MaxFaults       \* calls that fail and processes that end

Revisions == 1..MaxRevision

ASSUME ChildWorkAssumption ==
    /\ MaxClients \in Nat /\ MaxFaults \in Nat
    /\ MaxRevision \in Nat /\ MaxRevision >= MaxClients

Attend == 0
Ingress == -1
Threads == -1..MaxRevision
Callers == {Attend, Ingress}

VARIABLES
    goal,       \* revision, lifecycle, control
    \* continuity_source_cursors of the Goal
    intent, pending, accepted, started,
    live,       \* the operation the live cursor names, or 0
    \* the turns of the child Conversation
    dispatch, launched,
    \* memory
    named,      \* turns whose native identity the registry knows
    bindable,   \* whether the recipient's agent has a runtime for live control
    pc, my,
    clients, faults

ledger == <<goal, intent, pending, accepted, started, live>>
turns == <<dispatch, launched, named>>
threads == <<pc, my>>
counters == <<clients, faults>>
vars == <<ledger, turns, bindable, threads, counters>>

Terminal == {"completed", "failed", "cancelled"}
Registered == {r \in Revisions : dispatch[r] # "none"}

CallerSteps == {"idle", "cold", "goal", "live", "pending", "accepted", "dispatch",
                "late", "start", "accept", "lived", "started",
                "restore", "inspect", "relive", "restarted", "record", "clear",
                "open", "reopen"}
TurnSteps == {"idle", "run", "name"}

GoalControls == {"enabled", "paused", "cancel_requested"}

\* A Goal that is neither achieved, cancelled nor superseded is active here.
Goals == [revision : 0..MaxRevision, lifecycle : {"absent", "active", "closed"},
          control : GoalControls]

\* What a call keeps between two transactions: the control and the cursors it
\* has read, the operation it is at, and whether that is the live one it met first.
Locals == [control : GoalControls,
           live : 0..MaxRevision, pending : 0..MaxRevision,
           of : 0..MaxRevision, first : BOOLEAN]

TypeOK ==
    /\ goal \in Goals
    /\ intent \subseteq Revisions /\ pending \subseteq Revisions
    /\ accepted \subseteq Revisions /\ started \subseteq Revisions
    /\ live \in 0..MaxRevision
    /\ dispatch \in [Revisions -> {"none", "open"} \cup Terminal]
    /\ launched \in [Revisions -> Nat]
    /\ named \subseteq Revisions /\ bindable \in BOOLEAN
    /\ pc \in [Threads -> CallerSteps \cup TurnSteps]
    /\ my \in [Threads -> Locals]
    /\ clients \in 0..MaxClients /\ faults \in 0..MaxFaults

Forgotten == [control |-> "enabled", live |-> 0, pending |-> 0, of |-> 0, first |-> FALSE]
Own == [t \in Threads |-> IF t \in Revisions THEN [Forgotten EXCEPT !.of = t] ELSE Forgotten]

Init ==
    /\ goal = [revision |-> 0, lifecycle |-> "absent", control |-> "enabled"]
    /\ intent = {} /\ pending = {} /\ accepted = {} /\ started = {} /\ live = 0
    /\ dispatch = [r \in Revisions |-> "none"] /\ launched = [r \in Revisions |-> 0]
    /\ named = {} /\ bindable \in BOOLEAN
    /\ pc = [t \in Threads |-> "idle"] /\ my = Own
    /\ clients = 0 /\ faults = 0

Goto(t, step) == pc' = [pc EXCEPT ![t] = step]
Return(t) == Goto(t, "idle") /\ my' = [my EXCEPT ![t] = Own[t]]
Ask == clients < MaxClients /\ clients' = clients + 1 /\ UNCHANGED <<faults, bindable>>
Fault == faults < MaxFaults /\ faults' = faults + 1 /\ UNCHANGED <<clients, bindable>>

-----------------------------------------------------------------------------
(* The ledger.                                                             *)

\* Mutated form: an obligation that was started may be written again.
ObligeAgain(r) == intent' = intent \cup {r} /\ pending' = pending \cup {r}

\* persist_child_work_obligation: once for a revision, whatever became of it.
Oblige(r) ==
    IF r \in started \cup intent
    THEN UNCHANGED <<intent, pending>>
    ELSE intent' = intent \cup {r} /\ pending' = pending \cup {r}

\* write_child_work_started.
Start(r) == started' = started \cup {r} /\ pending' = pending \ {r}

\* A proposal is committed, and the thread goes on to start the work.  One
\* that creates the Goal starts its progress afresh, also when it is there.
CommitProposal(create) ==
    /\ pc[Ingress] = "idle" /\ Ask
    /\ IF create
       THEN /\ goal.lifecycle # "closed" /\ goal.control = "enabled"
            /\ goal' = [revision |-> 1, lifecycle |-> "active", control |-> "enabled"]
       ELSE goal.lifecycle # "absent" /\ UNCHANGED goal
    /\ Oblige(goal'.revision)
    /\ Goto(Ingress, "goal")
    /\ UNCHANGED <<accepted, started, live, turns, my>>

\* append_criterion_evidence, of a request or of a turn that has settled, and
\* also for a Goal that is closed or paused.
AppendEvidence ==
    /\ Ask /\ goal.lifecycle # "absent"
    /\ goal' = [goal EXCEPT !.revision = @ + 1]
    /\ Oblige(goal'.revision)
    /\ UNCHANGED <<accepted, started, live, turns, threads>>

\* apply_goal_event for the controls users have.
Controls ==
    {<<"enabled", "paused">>, <<"paused", "paused">>, <<"paused", "enabled">>}
        \cup {<<c, "cancel_requested">> : c \in GoalControls}

\* pause_goal, resume_goal, request_cancel and what a user says of the Goal in
\* the Conversation: a new revision without work.  A cancellation also asks
\* the live turn to stop, and a turn may end as cancelled at any time.
ControlGoal ==
    /\ Ask /\ goal.lifecycle = "active"
    /\ \E c \in Controls :
        /\ c[1] = goal.control
        /\ goal' = [goal EXCEPT !.revision = @ + 1, !.control = c[2]]
    /\ UNCHANGED <<intent, pending, accepted, started, live, turns, threads>>

\* accept_completion: the Goal is closed at the revision it has.
AcceptCompletion ==
    /\ Ask /\ goal.lifecycle = "active"
    /\ goal' = [goal EXCEPT !.lifecycle = "closed", !.control = "enabled"]
    /\ UNCHANGED <<intent, pending, accepted, started, live, turns, threads>>

-----------------------------------------------------------------------------
(* start_admitted_child_work.                                              *)

Untouched == UNCHANGED <<counters, bindable>>
Reads(t, step) == UNCHANGED <<ledger, turns>> /\ Untouched /\ Goto(t, step)
ReadsAndReturns(t) == UNCHANGED <<ledger, turns>> /\ Untouched /\ Return(t)

Oldest(S) == IF S = {} THEN 0 ELSE CHOOSE r \in S : \A q \in S : r <= q

\* Where the call goes once nothing is live that it has to wait for.
Owes(m) == m.control = "enabled" /\ m.pending # 0

ReadGoal(t) ==
    /\ pc[t] = "goal"
    /\ IF goal.lifecycle # "active"
       THEN ReadsAndReturns(t)
       ELSE /\ my' = [my EXCEPT ![t].control = goal.control]
            /\ Reads(t, "live")

ReadLive(t) ==
    /\ pc[t] = "live"
    /\ my' = [my EXCEPT ![t].live = live]
    /\ Reads(t, "pending")

\* Mutated form: whatever is live is waited for.
AwaitsAny(m, p) == m.live # 0

\* The live operation is restored first if it is the one that is owed, or if
\* nothing is.
Awaits(m, p) == m.live # 0 /\ p \in {0, m.live}

ReadPending(t) ==
    /\ pc[t] = "pending"
    /\ LET p == Oldest(pending)
           m == [my[t] EXCEPT !.pending = p]
       IN  \/ /\ Awaits(m, p)
              /\ my' = [my EXCEPT ![t] = [m EXCEPT !.of = m.live, !.live = 0, !.first = TRUE]]
              /\ Reads(t, "restore")
           \/ /\ ~Awaits(m, p) /\ Owes(m)
              /\ my' = [my EXCEPT ![t] = [Forgotten EXCEPT !.of = p]]
              /\ Reads(t, "accepted")
           \/ ~Awaits(m, p) /\ ~Owes(m) /\ ReadsAndReturns(t)

\* reconcile_registered_child_work: what was accepted is restored, what failed
\* is left alone, and what was registered only is accepted now.
ReadAccepted(t) ==
    /\ pc[t] = "accepted"
    /\ UNCHANGED my
    /\ Reads(t, IF my[t].of \in accepted THEN "restore" ELSE "dispatch")

ReadDispatch(t) ==
    /\ pc[t] = "dispatch"
    /\ IF dispatch[my[t].of] = "failed"
       THEN ReadsAndReturns(t)
       ELSE /\ Reads(t, IF dispatch[my[t].of] = "none" THEN "start" ELSE "late")
            /\ UNCHANGED my

\* A dispatch that cannot be read is taken for one that is not there.
DispatchIsUnread(t) ==
    /\ pc[t] = "dispatch"
    /\ Fault /\ Goto(t, "start")
    /\ UNCHANGED <<ledger, turns, my>>

AcceptLate(t) ==
    /\ pc[t] = "late"
    /\ accepted' = accepted \cup {my[t].of}
    /\ Goto(t, "restore") /\ Untouched
    /\ UNCHANGED <<goal, intent, pending, started, live, turns, my>>

\* Mutated form: a second registration of the identity is admitted.
StartAgain(t) ==
    /\ pc[t] = "start"
    /\ dispatch' = [dispatch EXCEPT ![my[t].of] = "open"]
    /\ launched' = [launched EXCEPT ![my[t].of] = @ + 1]
    /\ pc' = [pc EXCEPT ![t] = "accept", ![my[t].of] = "run"]
    /\ Untouched /\ UNCHANGED <<ledger, named, my>>

\* The start port registers the turn and launches its thread.  The identity
\* is a primary key: the second of two registrations is refused.
StartTurn(t) ==
    /\ pc[t] = "start"
    /\ IF my[t].of \in Registered
       THEN ReadsAndReturns(t)
       ELSE /\ dispatch' = [dispatch EXCEPT ![my[t].of] = "open"]
            /\ launched' = [launched EXCEPT ![my[t].of] = @ + 1]
            /\ pc' = [pc EXCEPT ![t] = "accept", ![my[t].of] = "run"]
            /\ Untouched /\ UNCHANGED <<ledger, named, my>>

\* The turn is registered and cannot be accepted, or its thread not spawned: it
\* is abandoned.  One whose response mode is refused stays open without thread.
StartIsAbandoned(t) ==
    /\ pc[t] = "start" /\ my[t].of \notin Registered
    /\ Fault
    /\ \E left \in {"failed", "open"} : dispatch' = [dispatch EXCEPT ![my[t].of] = left]
    /\ Return(t)
    /\ UNCHANGED <<ledger, launched, named>>

Accept(t) ==
    /\ pc[t] = "accept"
    /\ accepted' = accepted \cup {my[t].of}
    /\ Goto(t, "lived") /\ Untouched
    /\ UNCHANGED <<goal, intent, pending, started, live, turns, my>>

\* record_child_work_live, once the runtime of the recipient's agent is bound to
\* the turn (bind_live_child_control).  Only Codex and Pi have one: the call for
\* any other agent ends here, in an error, with the turn running.
RecordLive(t) ==
    /\ pc[t] = "lived"
    /\ IF bindable
       THEN /\ live' = my[t].of
            /\ Goto(t, "started") /\ Untouched
            /\ UNCHANGED <<goal, intent, pending, accepted, started, turns, my>>
       ELSE ReadsAndReturns(t)

RecordStarted(t) ==
    /\ pc[t] = "started"
    /\ Start(my[t].of)
    /\ Return(t) /\ Untouched
    /\ UNCHANGED <<goal, intent, accepted, live, turns>>

\* Any other call a caller makes may fail, and the caller returns.
CallFails(t) ==
    /\ pc[t] \notin {"idle", "cold", "dispatch"}
    /\ Fault
    /\ Return(t)
    /\ UNCHANGED <<ledger, turns>>

-----------------------------------------------------------------------------
(* restore_admitted_live_operation, of the operation my[t].of.             *)

RestoreAccepted(t) ==
    /\ pc[t] = "restore"
    /\ IF my[t].of \in accepted
       THEN Reads(t, "inspect") /\ UNCHANGED my
       ELSE ReadsAndReturns(t)

InspectTurn(t) ==
    /\ pc[t] = "inspect"
    /\ Reads(t, IF my[t].of \in named THEN "relive" ELSE "record")
    /\ UNCHANGED my

\* The registry knows the turn, also one that ended: the cursors are written
\* if the runtime can be bound, and otherwise the call has nothing more to do.
Relive(t) ==
    /\ pc[t] = "relive"
    /\ IF bindable
       THEN /\ live' = my[t].of
            /\ Goto(t, "restarted") /\ Untouched
            /\ UNCHANGED <<goal, intent, pending, accepted, started, turns, my>>
       ELSE ReadsAndReturns(t)

Restart(t) ==
    /\ pc[t] = "restarted"
    /\ Start(my[t].of)
    /\ Return(t) /\ Untouched
    /\ UNCHANGED <<goal, intent, accepted, live, turns>>

\* It does not: the stored dispatch tells.
ReadRecord(t) ==
    /\ pc[t] = "record"
    /\ Reads(t, IF dispatch[my[t].of] \in Terminal THEN "clear" ELSE "open")
    /\ UNCHANGED my

\* A turn that ended is not live.  If it did not fail, the call goes on to
\* what is owed; the call that reconciles an obligation never does.
ClearLive(t) ==
    /\ pc[t] = "clear"
    /\ live' = 0
    /\ IF my[t].first /\ dispatch[my[t].of] # "failed" /\ Owes(my[t])
       THEN Goto(t, "accepted") /\ my' = [my EXCEPT ![t] = [Forgotten EXCEPT !.of = my[t].pending]]
       ELSE Return(t)
    /\ Untouched
    /\ UNCHANGED <<goal, intent, pending, accepted, started, turns>>

OpenStarted(t) ==
    /\ pc[t] = "open"
    /\ Start(my[t].of)
    /\ Goto(t, "reopen") /\ Untouched
    /\ UNCHANGED <<goal, intent, accepted, live, turns, my>>

OpenLive(t) ==
    /\ pc[t] = "reopen"
    /\ live' = my[t].of
    /\ Return(t) /\ Untouched
    /\ UNCHANGED <<goal, intent, pending, accepted, started, turns>>

-----------------------------------------------------------------------------
(* The turn.  What runs it is modelled in DirectTurns and TurnStream.      *)

\* An event tells the native identity (record_event): the observer reads the
\* live cursor.
NameTurn(r) ==
    /\ pc[r] = "run"
    /\ named' = named \cup {r}
    /\ Goto(r, IF live = r THEN "name" ELSE "run")
    /\ Untouched /\ UNCHANGED <<ledger, dispatch, launched, my>>

\* It writes the cursor it read, if the runtime can be bound.
UpdateLiveNativeTurn(r) ==
    /\ pc[r] = "name"
    /\ live' = IF bindable THEN r ELSE live
    /\ Goto(r, "run") /\ Untouched
    /\ UNCHANGED <<goal, intent, pending, accepted, started, turns, my>>

\* The turn ends.
FinishTurn(r, outcome) ==
    /\ pc[r] = "run"
    /\ dispatch' = [dispatch EXCEPT ![r] = outcome]
    /\ Goto(r, "idle")
    /\ Untouched /\ UNCHANGED <<ledger, launched, named, my>>

\* A full registry forgets a turn that ended.
EvictTurn(r) ==
    /\ r \in named /\ pc[r] = "idle"
    /\ named' = named \ {r}
    /\ Untouched /\ UNCHANGED <<ledger, dispatch, launched, threads>>

-----------------------------------------------------------------------------
(* The attendance, and the end of the process.                             *)

\* recover_pending_child_work.
AttendWork ==
    /\ pc[Attend] = "idle" /\ pending # {}
    /\ Reads(Attend, "goal") /\ UNCHANGED my

\* The process ends.  The next one opens the store, which fails every turn
\* that was open, before it claims the Goals.
Crash ==
    /\ Fault
    /\ dispatch' = [r \in Revisions |-> IF dispatch[r] = "open" THEN "failed" ELSE dispatch[r]]
    /\ named' = {}
    /\ pc' = [t \in Threads |-> IF t = Attend THEN "cold" ELSE "idle"] /\ my' = Own
    /\ UNCHANGED <<ledger, launched>>

\* cold_recover: recover_admitted_live_operations, before the first round.
RecoverLive ==
    /\ pc[Attend] = "cold"
    /\ IF live = 0
       THEN ReadsAndReturns(Attend)
       ELSE my' = [my EXCEPT ![Attend].of = live] /\ Reads(Attend, "restore")

-----------------------------------------------------------------------------

CallerStep(t) ==
    \/ ReadGoal(t) \/ ReadLive(t) \/ ReadPending(t) \/ ReadAccepted(t)
    \/ ReadDispatch(t) \/ AcceptLate(t) \/ StartTurn(t)
    \/ Accept(t) \/ RecordLive(t) \/ RecordStarted(t)
    \/ RestoreAccepted(t) \/ InspectTurn(t) \/ Relive(t) \/ Restart(t)
    \/ ReadRecord(t) \/ ClearLive(t) \/ OpenStarted(t) \/ OpenLive(t)

TurnEnds(r) == \E outcome \in Terminal : FinishTurn(r, outcome)

Failure == \E t \in Callers : DispatchIsUnread(t) \/ StartIsAbandoned(t) \/ CallFails(t)

Client ==
    \/ \E create \in BOOLEAN : CommitProposal(create)
    \/ AppendEvidence
    \/ ControlGoal
    \/ AcceptCompletion

Next ==
    \/ Client
    \/ \E t \in Callers : CallerStep(t)
    \/ \E r \in Revisions : NameTurn(r) \/ UpdateLiveNativeTurn(r) \/ TurnEnds(r) \/ EvictTurn(r)
    \/ AttendWork \/ RecoverLive
    \/ Failure \/ Crash

Spec == Init /\ [][Next]_vars

\* Threads go on and turns end.  The attendance never stops, and every round
\* looks at the obligations.
Fairness ==
    /\ \A t \in Callers : WF_vars(CallerStep(t))
    /\ \A r \in Revisions : WF_vars(UpdateLiveNativeTurn(r)) /\ WF_vars(TurnEnds(r))
    /\ WF_vars(RecoverLive) /\ WF_vars(AttendWork)

FairSpec == Spec /\ Fairness

-----------------------------------------------------------------------------
(* Properties.                                                             *)

\* Whatever the threads, the failures and the restarts, an operation has one
\* turn at most ("without a second start"): start_admitted_child_work.
OneStart == \A r \in Revisions : launched[r] <= 1

\* What the cursors say is true of the turns: a started or live operation was
\* accepted, an accepted one is registered, and an obligation is open until
\* its start is recorded and never after (write_child_work_started).
CursorsAgree ==
    /\ TypeOK
    /\ started \subseteq accepted /\ accepted \subseteq Registered
    /\ live # 0 => live \in accepted
    /\ pending \subseteq intent /\ pending \cap started = {}

Met(r) == r \notin pending \/ goal.lifecycle # "active" \/ goal.control # "enabled"

\* An obligation for an agent whose runtime can be bound is met, or its Goal is
\* closed, paused or cancelled, or some call has failed or the process ended:
\* whichever of the two threads takes the obligation up (start_admitted_child_work).
ObligationIsMetWithoutFaults ==
    bindable => \A r \in Revisions : r \in pending ~> Met(r) \/ faults > 0

\* What CONTINUOUS-ASSISTANT.md says of an interrupted step, and of every Goal
\* that is not paused: a responsible next action is there and is taken.
ObligationIsMet == \A r \in Revisions : r \in pending ~> Met(r)
================================================================================
