----------------------------- MODULE StrategyRuns -----------------------------
(***************************************************************************)
(* One strategy run (adaptive_flywheel/service.rs, store.rs): its persisted *)
(* snapshot and command leases, the drive thread that claims, executes and *)
(* settles its commands, the requests that resume, retry, decide, execute  *)
(* and cancel it, and the host process that may crash.                     *)
(*                                                                         *)
(* Every action is one write transaction of the store.  A request is its   *)
(* event followed, as a step of its own, by start_drive.  Command ids are  *)
(* hashes, so that "the first by id" is any of the candidates.             *)
(***************************************************************************)
EXTENDS StrategyReducer

CONSTANTS
    Definitions,  \* compiled graphs, each with the field assistant: who owns the run
    Outcomes,     \* how an effect can end: "success" or a failure class
    MaxAsks,      \* bound: requests after the first
    MaxFaults,    \* bound: drive errors, failed starts, full engines
    MaxCrashes    \* bound: host crashes

ASSUME StrategyAssumption ==
    /\ Outcomes \subseteq {"success", "transient", "permanent", "quota", "authority",
                           "runtime", "in-doubt"}
    /\ \A d \in Definitions : Compiled(d)
    /\ MaxAsks \in Nat /\ MaxFaults \in Nat /\ MaxCrashes \in Nat

VARIABLES
    g,           \* the definition of the run
    run,         \* the persisted RunSnapshot
    live,        \* commands whose lease has not expired
    pc,          \* where the drive thread is; "off" when the run is not reserved
    hand,        \* what the drive is about to apply: [op, cmd, next]
    batch,       \* commands the drive has started, with their outcome (or None)
    reclaim,     \* commands whose leases the drive took over
    kick,        \* a request has applied its event and calls start_drive next
    owed,        \* commands a cancel request still has to settle as unknown
    caller,      \* the Assistant's execute call: "idle", "waiting" or "answered"
    authorized,  \* the definition's authorization is active
    asks, faults, crashes,
    ended,       \* history: the run has had a terminal outcome
    rewritten    \* history: an output took away or changed an item at work

vars == <<g, run, live, pc, hand, batch, reclaim, kick, owed, caller, authorized,
          asks, faults, crashes, ended, rewritten>>
driver == <<pc, hand, batch, reclaim>>
counts == <<asks, faults, crashes>>

NoHand == [op |-> "none", cmd |-> None, next |-> "off"]
NoBatch == <<>>
WithStatus(statuses) == {c \in Cmds(run) : Status(run, c) \in statuses}
RunActive == {"running", "waiting", "retryable"}
AssistantTerminal == Settled \cup {"authorization-required", "runtime-missing", "retryable"}

Init ==
    /\ g \in Definitions
    /\ \E route \in Routes(g), lists \in Inputs(g) :
          Start(g, route, lists).ok /\ run = Start(g, route, lists).s
    /\ live = {} /\ pc = "off" /\ hand = NoHand /\ batch = NoBatch /\ reclaim = {}
    /\ kick = TRUE /\ owed = {}
    /\ caller = IF g.assistant THEN "waiting" ELSE "idle"
    /\ authorized = TRUE
    /\ asks = 0 /\ faults = 0 /\ crashes = 0
    /\ ended = (run.status \in Settled)
    /\ rewritten = FALSE

-----------------------------------------------------------------------------
(* The drive thread.                                                       *)

\* apply_event inside the drive: an error ends drive_run.
Drives(m, next) ==
    /\ run' = IF m.ok THEN m.s ELSE run
    /\ pc' = IF m.ok THEN next ELSE "doubt"

\* release_live_host_leases: leases left by an earlier process are dropped.
ReleaseLiveLeases ==
    /\ pc = "reclaim"
    /\ reclaim' = live \cap WithStatus(Held)
    /\ live' = {}
    /\ pc' = "recover"
    /\ UNCHANGED <<g, run, hand, batch, kick, owed, caller, authorized, counts, rewritten>>

\* recover_leased_command: fail the command, and retry it in the same
\* transaction if it may be retried.
Recovered(route, c, why) ==
    LET failed == SettleFailure(g, route, run, c, why)
    IN  IF failed.ok /\ Status(failed.s, c) = "retryable" THEN Retry(g, failed.s, c) ELSE failed
RecoverLeased(route) ==
    /\ pc = "recover"
    /\ \E c \in Cmds(run) :
          /\ c \in IF reclaim # {} THEN reclaim ELSE WithStatus(Held) \ live
          /\ IF Status(run, c) \in Held
             THEN Drives(Recovered(route, c,
                            IF Status(run, c) = "claimed" \/ c \in reclaim
                            THEN "transient" ELSE "in-doubt"), pc)
             ELSE UNCHANGED <<run, pc>>
          /\ reclaim' = reclaim \ {c}
    /\ UNCHANGED <<g, live, hand, batch, kick, owed, caller, authorized, counts, rewritten>>
RecoveryEnds ==
    /\ pc = "recover"
    /\ reclaim = {} /\ WithStatus(Held) \subseteq live
    /\ pc' = "loop"
    /\ UNCHANGED <<g, run, live, hand, batch, reclaim, kick, owed, caller, authorized, counts, rewritten>>

\* recover_failed_effect: the event that gives a failed effect another attempt.
Recoverable(c) ==
    /\ g.kind[c.state] \in BoundKinds
    /\ \/ Status(run, c) = "retryable" /\ run.commands[c].why = "transient"
       \/ FallbackAdmitted(g, run, c)
RecoverEvent(c, next) ==
    [op |-> IF Status(run, c) = "retryable" THEN "retry" ELSE "fallback",
     cmd |-> c, next |-> next]

\* The top of the drive loop: recover_persisted_effects of an imported run, the
\* authorization gate, and then the claims.
Loop ==
    /\ pc = "loop"
    /\ LET lost == {c \in Cmds(run) : ~g.assistant /\ Recoverable(c)}
           denied == {c \in WithStatus({"retryable"}) : run.commands[c].why = "authority"}
           gate == run.status = "authorization-required"
           grants == {[op |-> "grant", cmd |-> c, next |-> "loop"] :
                         c \in PendingAuthorization(g, run)}
           retries == {[op |-> "retry", cmd |-> c, next |-> "loop"] : c \in denied}
       IN  \/ /\ lost # {}
              /\ \E c \in lost : hand' = RecoverEvent(c, "loop")
              /\ pc' = "apply"
           \/ /\ lost = {} /\ gate /\ authorized /\ grants \cup retries # {}
              /\ hand' \in IF grants # {} THEN grants ELSE retries
              /\ pc' = "apply"
           \/ /\ lost = {} /\ gate /\ (~authorized \/ grants \cup retries = {})
              /\ pc' = "off" /\ hand' = NoHand
           \/ /\ lost = {} /\ ~gate
              /\ pc' = "claim" /\ hand' = NoHand
    /\ UNCHANGED <<g, run, live, batch, reclaim, kick, owed, caller, authorized, counts, rewritten>>

Applied(route, h) ==
    CASE h.op = "grant" -> SettleSuccess(g, route, run, h.cmd, run.lists)
      [] h.op = "retry" -> Retry(g, run, h.cmd)
      [] h.op = "fallback" -> IssueFallback(g, run, h.cmd)
Apply(route) ==
    /\ pc = "apply"
    /\ Drives(Applied(route, hand), hand.next)
    /\ hand' = NoHand
    /\ UNCHANGED <<g, live, batch, reclaim, kick, owed, caller, authorized, counts, rewritten>>

\* claim_next_command.
\* Mutant of Claimable: the command about to be claimed is not counted.
ClaimableOneMore ==
    IF run.status \in RunActive /\ Cardinality(live \cap WithStatus(Held)) <= g.parallel
    THEN {c \in WithStatus({"pending"}) : g.kind[c.state] # "authorization"} ELSE {}
Claimable ==
    IF run.status \in RunActive /\ Cardinality(live \cap WithStatus(Held)) < g.parallel
    THEN {c \in WithStatus({"pending"}) : g.kind[c.state] # "authorization"} ELSE {}
ClaimNextCommand ==
    /\ pc = "claim"
    /\ \E c \in Claimable :
          /\ run' = Mark(run, {c}, "claimed")
          /\ live' = (live \cap WithStatus(Held)) \cup {c}
          /\ hand' = [op |-> "start", cmd |-> c, next |-> "claim"]
    /\ pc' = "start"
    /\ UNCHANGED <<g, batch, reclaim, kick, owed, caller, authorized, counts, rewritten>>
ClaimsEnd ==
    /\ pc = "claim"
    /\ Claimable = {}
    /\ pc' = IF batch = NoBatch THEN "off" ELSE "effects"
    /\ UNCHANGED <<g, run, live, hand, batch, reclaim, kick, owed, caller, authorized, counts, rewritten>>

\* The engine-wide MAX_ACTIVE_EFFECTS is used up by other runs, or this call has
\* executed MAX_DRIVE_EFFECTS_PER_CALL effects.
EngineIsFull ==
    /\ pc = "claim" /\ Claimable # {} /\ faults < MaxFaults
    /\ faults' = faults + 1
    /\ pc' = IF batch = NoBatch THEN "off" ELSE "effects"
    /\ UNCHANGED <<g, run, live, hand, batch, reclaim, kick, owed, caller, authorized,
                   asks, crashes, rewritten>>

StartCommand ==
    /\ pc = "start"
    /\ Drives(TransitionCommand(run, hand.cmd, {"pending", "claimed"}, "running"), "claim")
    /\ batch' = PutAll(batch, {hand.cmd}, None)
    /\ hand' = NoHand
    /\ UNCHANGED <<g, live, reclaim, kick, owed, caller, authorized, counts, rewritten>>

\* execute_command: authorize_effect admits the effect, whose outcome is up to
\* the actor or the script; a command that is no longer running fails.
Ends(c) ==
    IF ~authorized THEN {"authority"}
    ELSE IF Status(run, c) = "running" /\ c \in live THEN Outcomes ELSE {"permanent"}
ExecuteCommand ==
    /\ pc = "effects"
    /\ \E c \in DOMAIN batch :
          /\ batch[c] = None
          /\ \E o \in Ends(c) : batch' = [batch EXCEPT ![c] = o]
    /\ UNCHANGED <<g, run, live, pc, hand, reclaim, kick, owed, caller, authorized, counts, rewritten>>
EffectsEnd ==
    /\ pc = "effects"
    /\ \A c \in DOMAIN batch : batch[c] # None
    /\ pc' = "settle"
    /\ UNCHANGED <<g, run, live, hand, batch, reclaim, kick, owed, caller, authorized, counts, rewritten>>

\* renew_command_lease finds a command of the batch that was cancelled meanwhile.
RenewIsRefused ==
    /\ pc = "effects"
    /\ \E c \in DOMAIN batch : batch[c] = None
    /\ \E c \in DOMAIN batch : Status(run, c) \notin Held
    /\ pc' = "doubt" /\ batch' = NoBatch
    /\ UNCHANGED <<g, run, live, hand, reclaim, kick, owed, caller, authorized, counts, rewritten>>

\* Outcomes are applied one by one; the failures of an Assistant's run last.  The
\* output of a success may carry any of the lists the graph's worksets may get.
Without(c) == [d \in DOMAIN batch \ {c} |-> batch[d]]
AssistantFails == g.assistant /\ \A c \in DOMAIN batch : batch[c] # "success"
SettleOutcome(route, lists) ==
    /\ pc = "settle"
    /\ \E c \in DOMAIN batch :
          /\ batch' = Without(c)
          /\ \/ /\ batch[c] = "success"
                /\ LET m == SettleSuccess(g, route, run, c, lists)
                   IN  /\ Drives(m, "settle")
                       /\ rewritten' = (rewritten \/ (m.ok /\ Rewrites(g, run, lists)))
                /\ hand' = NoHand
             \/ /\ batch[c] # "success" /\ ~g.assistant
                /\ Drives(SettleFailure(g, route, run, c, batch[c]), "after")
                /\ hand' = [NoHand EXCEPT !.cmd = c] /\ rewritten' = rewritten
             \/ /\ AssistantFails
                /\ Drives(SettleAssistantEffectFailure(run, c, batch[c]),
                          IF Without(c) = NoBatch THEN "off" ELSE "settle")
                /\ hand' = NoHand /\ rewritten' = rewritten
    /\ UNCHANGED <<g, live, reclaim, kick, owed, caller, authorized, counts>>
SettleEnds ==
    /\ pc = "settle" /\ batch = NoBatch
    /\ pc' = "loop"
    /\ UNCHANGED <<g, run, live, hand, batch, reclaim, kick, owed, caller, authorized, counts, rewritten>>

\* recover_failed_effect after a failure was settled.
AfterFailure ==
    /\ pc = "after"
    /\ IF Recoverable(hand.cmd)
       THEN hand' = RecoverEvent(hand.cmd, "settle") /\ pc' = "apply"
       ELSE hand' = NoHand /\ pc' = "settle"
    /\ UNCHANGED <<g, run, live, batch, reclaim, kick, owed, caller, authorized, counts, rewritten>>

\* settle_drive_failure
DriveFailure(s) == IF s.status \in AssistantTerminal THEN s ELSE SettleAssistantDriveFailure(s)
SettleDriveFailure ==
    /\ pc = "doubt"
    /\ run' = DriveFailure(run)
    /\ pc' = "off" /\ hand' = NoHand /\ batch' = NoBatch /\ reclaim' = {}
    /\ UNCHANGED <<g, live, kick, owed, caller, authorized, counts, rewritten>>

\* Any other error of the drive: the store, the usage ledger, a lost thread.
DriveErrs ==
    /\ pc \notin {"off", "doubt"} /\ faults < MaxFaults
    /\ faults' = faults + 1
    /\ pc' = "doubt"
    /\ UNCHANGED <<g, run, live, hand, batch, reclaim, kick, owed, caller, authorized,
                   asks, crashes, rewritten>>

DriveStep ==
    \/ ReleaseLiveLeases \/ RecoveryEnds \/ Loop \/ ClaimNextCommand \/ ClaimsEnd
    \/ StartCommand \/ ExecuteCommand \/ EffectsEnd \/ RenewIsRefused \/ SettleEnds
    \/ AfterFailure \/ SettleDriveFailure
    \/ /\ pc \in {"recover", "apply", "settle"}
       /\ \E route \in Routes(g) :
             \/ RecoverLeased(route) \/ Apply(route)
             \/ \E lists \in Inputs(g) : SettleOutcome(route, lists)

-----------------------------------------------------------------------------
(* Requests.                                                               *)

Asks == asks < MaxAsks /\ ~kick /\ asks' = asks + 1
Requested(m) == m.ok /\ run' = m.s /\ kick' = TRUE

\* strategy.run.start with the same idempotency key: the run is driven again.
StartAgain ==
    /\ Asks /\ ~g.assistant
    /\ kick' = TRUE
    /\ UNCHANGED <<g, run, live, driver, owed, caller, authorized, faults, crashes, rewritten>>

\* strategy.run.resume without a decision, and strategy.run.retry.
ResumeRun(route) ==
    /\ Asks /\ ~g.assistant
    /\ \/ /\ run.status = "authorization-required" /\ authorized
          /\ \E c \in PendingAuthorization(g, run) : Requested(SettleSuccess(g, route, run, c, run.lists))
       \/ /\ run.status = "authorization-required" /\ authorized
          /\ PendingAuthorization(g, run) = {}
          /\ \E c \in WithStatus({"retryable"}) :
                run.commands[c].why = "authority" /\ Requested(Retry(g, run, c))
       \/ /\ run.status \in {"runtime-missing", "retryable"}
          /\ \E c \in WithStatus({"retryable"}) : Requested(Retry(g, run, c))
    /\ UNCHANGED <<g, live, driver, owed, caller, authorized, faults, crashes, rewritten>>
RetryRun ==
    /\ Asks /\ ~g.assistant
    /\ \E c \in WithStatus({"retryable"}) : Requested(Retry(g, run, c))
    /\ UNCHANGED <<g, live, driver, owed, caller, authorized, faults, crashes, rewritten>>

\* The master agent's decision: with strategy.run.resume for an imported run,
\* with the replayed execute call for an Assistant's run.
DecideCallback(route, decision) ==
    /\ Asks
    /\ run.pending # <<>>
    /\ caller # "waiting"
    /\ Requested(Decide(g, route, run, decision))
    /\ caller' = IF g.assistant THEN "waiting" ELSE caller
    /\ UNCHANGED <<g, live, driver, owed, authorized, faults, crashes, rewritten>>

\* strategy.assistant.workflow.execute, replayed without a decision.
ExecuteAgain ==
    /\ Asks /\ g.assistant /\ caller # "waiting"
    /\ caller' = "waiting"
    /\ kick' = (run.status \notin AssistantTerminal)
    /\ UNCHANGED <<g, run, live, driver, owed, authorized, faults, crashes, rewritten>>

\* start_drive: nothing happens while another drive holds the reservation.
StartDrive ==
    /\ kick
    /\ kick' = FALSE
    /\ pc' = IF pc = "off" THEN "reclaim" ELSE pc
    /\ UNCHANGED <<g, run, live, hand, batch, reclaim, owed, caller, authorized, counts, rewritten>>

\* start_drive cannot register the entry turn or spawn the thread.
SettleStartFailure ==
    /\ kick /\ pc = "off" /\ faults < MaxFaults
    /\ kick' = FALSE /\ faults' = faults + 1
    /\ LET entries == {c \in WithStatus({"pending"}) : g.kind[c.state] \in BoundKinds}
       IN  \/ \E c \in entries : run' = SettleAssistantEffectFailure(run, c, "transient").s
           \/ entries = {} /\ run' = DriveFailure(run)
    /\ UNCHANGED <<g, live, driver, owed, caller, authorized, asks, crashes, rewritten>>

\* Mutant of WaitForAssistantTerminal: a run nobody drives is not driven again.
WaitOnly ==
    /\ caller = "waiting" /\ ~kick
    /\ run.status \in AssistantTerminal \/ run.pending # <<>>
    /\ caller' = "answered"
    /\ UNCHANGED <<g, run, live, driver, kick, owed, authorized, counts, rewritten>>

\* One round of wait_for_assistant_terminal.
WaitForAssistantTerminal ==
    /\ caller = "waiting" /\ ~kick
    /\ \/ /\ run.status \in AssistantTerminal \/ run.pending # <<>>
          /\ caller' = "answered" /\ kick' = kick
       \/ /\ run.status \notin AssistantTerminal /\ run.pending = <<>>
          /\ pc = "off"
          /\ kick' = TRUE /\ caller' = caller
    /\ UNCHANGED <<g, run, live, driver, owed, authorized, counts, rewritten>>

\* strategy.run.cancel: the request, and then one transaction for every command
\* whose cancellation is unknown; an error abandons the rest.
CancelRun ==
    /\ asks < MaxAsks /\ asks' = asks + 1
    /\ owed = {}
    /\ run' = Cancel(run)
    /\ owed' = {c \in Cmds(run') : Status(run', c) = "cancel-requested"}
    /\ UNCHANGED <<g, live, driver, kick, caller, authorized, faults, crashes, rewritten>>
CancelRest ==
    /\ \E c \in owed :
          LET m == CancelUnknown(run, c)
          IN  run' = m.s /\ owed' = IF m.ok THEN owed \ {c} ELSE {}
    /\ UNCHANGED <<g, live, driver, kick, caller, authorized, counts, rewritten>>

\* strategy.authorization.revoke, and a renewed authorization.
SetAuthorization ==
    /\ asks < MaxAsks /\ asks' = asks + 1
    /\ authorized' = ~authorized
    /\ UNCHANGED <<g, run, live, driver, kick, owed, caller, faults, crashes, rewritten>>

\* The host process ends; what the store holds remains.
Crash ==
    /\ crashes < MaxCrashes
    /\ crashes' = crashes + 1
    /\ pc' = "off" /\ hand' = NoHand /\ batch' = NoBatch /\ reclaim' = {}
    /\ kick' = FALSE /\ owed' = {} /\ caller' = "idle"
    /\ UNCHANGED <<g, run, live, authorized, asks, faults, rewritten>>

\* EFFECT_LEASE_DURATION_MS pass while nobody renews.
LeaseExpires ==
    /\ pc = "off"
    /\ \E c \in live \cap WithStatus(Held) : live' = live \ {c}
    /\ UNCHANGED <<g, run, driver, kick, owed, caller, authorized, counts, rewritten>>

Decisions == {"advance", "return", "terminate"}
Request ==
    \/ StartAgain \/ RetryRun \/ ExecuteAgain \/ CancelRun \/ SetAuthorization
    \/ /\ asks < MaxAsks
       /\ \E route \in Routes(g) :
             ResumeRun(route) \/ \E d \in Decisions : DecideCallback(route, d)

Remember == ended' = (ended \/ run'.status \in Settled)
Next ==
    /\ \/ DriveStep \/ StartDrive \/ WaitForAssistantTerminal \/ CancelRest \/ Request
       \/ EngineIsFull \/ DriveErrs \/ SettleStartFailure \/ Crash \/ LeaseExpires
    /\ Remember

Spec == Init /\ [][Next]_vars

\* The threads of the host run, effects end, and the calls they serve go on.
\* Faults, requests, crashes and the passing of a lease are never required.
FairSpec ==
    /\ Spec
    /\ WF_vars(DriveStep /\ Remember) /\ WF_vars(StartDrive /\ Remember)
    /\ WF_vars(WaitForAssistantTerminal /\ Remember) /\ WF_vars(CancelRest /\ Remember)

-----------------------------------------------------------------------------

RunStatuses == Settled \cup AssistantTerminal \cup RunActive \cup {"cancel-requested"}
CommandStatuses == {"pending", "claimed", "running", "succeeded", "failed", "retryable",
                    "cancel-requested", "cancelled", "in-doubt"}
Whys == Outcomes \cup {None, "transient", "in-doubt", "authority", "permanent"}
TypeOK ==
    /\ run.status \in RunStatuses
    /\ run.active \subseteq States(g) /\ run.done \subseteq States(g)
    /\ run.active \cap run.done = {}
    /\ \A c \in Cmds(run) :
          /\ Status(run, c) \in CommandStatuses
          /\ c.visit \in 1..run.visits[c.state]
          /\ run.commands[c].why \in Whys
    /\ live \cup reclaim \cup owed \cup DOMAIN batch \subseteq Cmds(run)
    /\ caller \in {"idle", "waiting", "answered"}

\* "a run never exceeds its declared maxParallelism": claim_next_command counts
\* live leases only, and yet no more commands are held than that, also after a
\* crash left leased commands behind or leases ran out.
ParallelismIsBounded == Cardinality(WithStatus(Held)) <= g.parallel

\* The typed state of a run, within its parallelism.
RunInv == TypeOK /\ ParallelismIsBounded

\* "maxAttempts counts the full lineage across retries and fallback candidates
\* for one state visit or workset item": however often effects fail, leases are
\* recovered and users retry, no lineage gets more commands than that
\* (LineageWithinBudget in the reducer).
AttemptBudget ==
    \A c \in Cmds(run) :
        Cardinality({d \in Cmds(run) : Lineage(d) = Lineage(c)}) <= g.attempts

\* At most one attempt of a lineage is open, or waits for a retry or fallback:
\* no effect is ever executed twice side by side.
Pursued(c) == Status(run, c) \in Unstarted \cup {"running", "cancel-requested"}
                 \/ FallbackBase(g, run, c)
OneLiveAttempt ==
    \A c, d \in Cmds(run) :
        Lineage(c) = Lineage(d) /\ Pursued(c) /\ Pursued(d) => c = d

\* Both limits on a lineage, which retries, fallbacks, recoveries and requests of
\* users share: as many attempts as the graph allows, one after another.
LineagesInv == rewritten \/ (AttemptBudget /\ OneLiveAttempt)

\* A join is passed once for a visit of each of its branches, and only after the
\* branch has been left: however successes, failures, retries and fallbacks of
\* the branches are ordered, none is still active behind it.
JoinWaitsForAll ==
    \A st \in States(g) : g.kind[st] = "join" =>
        \A p \in Predecessors(g, st) :
            /\ run.visits[st] <= run.visits[p]
            /\ run.visits[st] = run.visits[p] => p \notin run.active

\* An item of a workset at work is on its list, which outputs may have made longer
\* since it was issued, and its predecessors have succeeded in the same visit.
WorksetInOrder ==
    \A c \in AtWork(g, run) :
        LET l == List(g, run, c.state)
        IN  /\ c.item \in DOMAIN l
            /\ \A i \in l[c.item] :
                  \E d \in Cmds(run) :
                      d.item = i /\ VisitOf(d) = VisitOf(c) /\ Status(run, d) = "succeeded"

\* "lets already-running fenced commands settle, then takes `failure` exactly
\* once": a workset that was left has no command of that visit open any more.
WorksetSettles ==
    \A st \in States(g) :
        g.kind[st] = "workset" /\ st \notin run.active => ~VisitUnsettled(g, run, st)

\* The graph is followed: forks come together and worksets are worked off in the
\* order their lists declare, whatever fails, is retried or falls back on the way
\* and whatever outputs add to the lists, until one takes away or changes an item
\* that is at work.
GraphIsFollowed == rewritten \/ (JoinWaitsForAll /\ WorksetInOrder /\ WorksetSettles)

\* A run that is not over always has something that takes it further: a command
\* to recover, claim, grant, retry or fall back from, a decision to wait for, or a
\* cancellation to finish.  The exceptions are the Assistant's run that a crash
\* has left to its replayed call, and lists rewritten under work.
NoWedge ==
    ~ended /\ ~rewritten /\ pc = "off" /\ (g.assistant => crashes = 0) =>
        \/ WithStatus(Held \cup {"cancel-requested"}) # {}
        \/ run.pending # <<>>
        \/ /\ run.status \in RunActive
           /\ \E c \in WithStatus({"pending"}) : g.kind[c.state] # "authorization"
        \/ run.status = "authorization-required" /\ PendingAuthorization(g, run) # {}
        \/ \E c \in Cmds(run) : Retry(g, run, c).ok
        \/ ~g.assistant /\ \E c \in Cmds(run) : FallbackAdmitted(g, run, c)

\* "expired running work is retained as in-doubt and is never blindly retried":
\* a command in doubt stays so and its lineage gets no further attempt.  And a
\* completed run is over: no late outcome, request or recovery changes it.  Both
\* until a list is rewritten under work, which may satisfy it before its time.
SettledStays ==
    [][~rewritten' =>
       /\ \A c \in Cmds(run) : Status(run, c) = "in-doubt" =>
              /\ Status(run', c) = "in-doubt"
              /\ {d \in Cmds(run') : Lineage(d) = Lineage(c)} \subseteq Cmds(run)
       /\ run.status = "completed" => run' = run]_vars

\* What became of a command is never rewritten: a success, a cancellation and a
\* doubt stay on record, whichever late outcome, recovery, retry, fallback,
\* decision or cancel request comes after them.
OutcomesStay ==
    [][\A c \in Cmds(run) : Status(run, c) \in {"succeeded", "cancelled", "in-doubt"} =>
          c \in Cmds(run') /\ Status(run', c) = Status(run, c)]_vars

\* The Assistant's execute call comes back as long as the host stays up and no list
\* is rewritten under work, whatever the drive meets: errors, a full engine,
\* cancellation, lists that grow or are refused.
ExecuteReturns ==
    caller = "waiting" ~> caller # "waiting" \/ crashes > 0 \/ rewritten

\* Retries and fallbacks come to an end: every drive ends.
DriveEnds == pc # "off" ~> pc = "off"

\* Both: drives end, and so do the execute calls that wait for what they did.
DrivesReturn == DriveEnds /\ ExecuteReturns

=============================================================================
