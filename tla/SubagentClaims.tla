-------------------------- MODULE SubagentClaims --------------------------
(***************************************************************************)
(* Delegation between the Agent members of one Conversation.               *)
(*                                                                         *)
(* A tool call of the Subagent MCP server (domain/subagent_mcp) claims an  *)
(* edge caller -> target, starts the delegated turn under the claim's id   *)
(* and marks the claim, or finds the active claim of an edge and cancels   *)
(* it.  Each of these is a request to the Conversation host, which gives   *)
(* every connection a thread; the server waits three seconds for the       *)
(* answer, so a request may be handled after the call has given up on it.  *)
(* The host settles the delegated turn, writes the outcome back to the     *)
(* claim and signals the caller once, from the settlement or from the      *)
(* watchdog, whichever is first.                                           *)
(***************************************************************************)
EXTENDS Naturals, TLC

CONSTANTS
    Members,      \* Agent memberships of the Conversation
    Calls,        \* tool calls that may be under way at a time
    Edges,        \* the pairs <<caller, target>> of members they are about
    Tools,        \* which of "delegate", "cancel" they are
    Timeouts,     \* whether a turn's timeout is bounded: a subset of BOOLEAN
    Ends,         \* how lane operations may end: a subset of the outcomes
    MaxClaims,    \* bound on claims
    MaxDepth,     \* MAX_SUBAGENT_INVOCATION_DEPTH
    Most,         \* bound on each kind of mishap
    MaxMishaps    \* bound on mishaps

\* A host that cannot be reached, an answer that comes too late, a store call that
\* fails, a member that leaves, a host that ends, a store that another component
\* opens while the host runs.
Mishaps == {"connect", "timeout", "store", "leave", "crash", "reopen"}

ASSUME ClaimsAssumption ==
    /\ Edges \subseteq Members \X Members /\ 0 \notin Members
    /\ Tools \subseteq {"delegate", "cancel"} /\ Timeouts \subseteq BOOLEAN
    /\ Ends \subseteq {"completed", "failed", "cancelled"}
    /\ MaxClaims \in Nat /\ MaxDepth \in Nat \ {0}
    /\ Most \in [Mishaps -> Nat] /\ MaxMishaps \in Nat

Ids  == 1..MaxClaims
None == 0

VARIABLES
    member,     \* the active members
    claim,      \* subagent_dispatch_claims
    dispatch,   \* conversation_dispatches.state of the claim's id
    up,         \* the host runs
    live,       \* delegated turns whose thread runs
    watchdog,   \* subagent_watchdog
    notice,     \* what the settlement and the watcher still have to do for a claim
    fired,      \* subagent_callback_fired
    signals,    \* callback turns started for the claim
    call,       \* a tool call: the request it waits for
    wire,       \* requests the host has not answered
    count       \* mishaps so far

storeVars == <<member, claim, dispatch>>
hostVars  == <<up, live, watchdog, notice, fired, signals>>
callVars  == <<call, wire>>
vars      == <<storeVars, hostVars, callVars, count>>

OpenStates  == {"claimed", "running", "cancel-requested", "reconciliation-required"}
Outcomes    == {"completed", "failed", "cancelled"}
ClaimStates == OpenStates \cup Outcomes
Steps       == {"idle", "claim", "send", "find", "cancel"} \cup ClaimStates

Claims == [state : ClaimStates \cup {"none", "gone"}, caller : Members \cup {None},
           target : Members \cup {None}, parent : Ids \cup {None}, depth : 0..MaxDepth,
           deadline : BOOLEAN]

\* A request names an edge or, once there is one, a claim.
Idle     == [step |-> "idle", caller |-> None, target |-> None, parent |-> None, id |-> None]
Requests == [step : Steps, caller : Members \cup {None}, target : Members \cup {None},
             parent : Ids \cup {None}, id : Ids \cup {None}]

TypeOK ==
    /\ member \subseteq Members
    /\ claim \in [Ids -> Claims]
    /\ dispatch \in [Ids -> Outcomes \cup {"none", "open", "gone"}]
    /\ up \in BOOLEAN
    /\ live \subseteq Ids /\ watchdog \subseteq Ids /\ fired \subseteq Ids
    /\ notice \in [{"turn", "timer"} \X Ids -> {"none", "read", "fire"}]
    /\ signals \in [Ids -> Nat]
    /\ call \in [Calls -> Requests]
    /\ wire \subseteq [call : Calls, req : Requests, checked : BOOLEAN]
    /\ count \in [Mishaps -> Nat]

Init ==
    /\ member = Members
    /\ claim = [d \in Ids |-> [state |-> "none", caller |-> None, target |-> None, parent |-> None,
                               depth |-> 0, deadline |-> FALSE]]
    /\ dispatch = [d \in Ids |-> "none"]
    /\ up = TRUE /\ live = {} /\ watchdog = {} /\ fired = {}
    /\ notice = [n \in {"turn", "timer"} \X Ids |-> "none"]
    /\ signals = [d \in Ids |-> 0]
    /\ call = [c \in Calls |-> Idle] /\ wire = {}
    /\ count = [k \in Mishaps |-> 0]

Mishap(kind) ==
    /\ count[kind] < Most[kind]
    /\ count["connect"] + count["timeout"] + count["store"]
          + count["leave"] + count["crash"] + count["reopen"] < MaxMishaps
    /\ count' = [count EXCEPT ![kind] = @ + 1]

Open(d)   == claim[d].state \in OpenStates
Exists(d) == claim[d].state \in ClaimStates

Edge(d) == <<claim[d].caller, claim[d].target>>

-----------------------------------------------------------------------------
(* The store.                                                              *)

\* valid_claim_transition
ValidTransition(s, t) ==
    \/ s = "claimed" /\ t \in {"running", "reconciliation-required"} \cup Outcomes
    \/ s = "running" /\ t \in {"completed", "failed", "cancel-requested", "reconciliation-required"}
    \/ s = "cancel-requested" /\ t \in {"reconciliation-required"} \cup Outcomes
    \/ s = "reconciliation-required" /\ t \in {"running"} \cup Outcomes

\* reconcile_subagent_claims: what the dispatch says, for the open claims.
Reconciled ==
    [d \in Ids |->
        IF Open(d) /\ dispatch[d] \in Outcomes \cup {"open"}
        THEN [claim[d] EXCEPT !.state = IF dispatch[d] = "open" THEN "running" ELSE dispatch[d]]
        ELSE claim[d]]

\* The claims from p up to the root of its lineage.
Ancestors(p) ==
    LET up_to[i \in 0..MaxClaims] ==
            IF i = 0 THEN {p} \ {None}
            ELSE up_to[i - 1] \cup ({claim[a].parent : a \in up_to[i - 1]} \ {None})
    IN  up_to[MaxClaims]

\* The lineage walk of claim_subagent_dispatch.
LineageAdmits(k) ==
    k.parent # None =>
        /\ Exists(k.parent)
        /\ claim[k.parent].target = k.caller
        /\ \A a \in Ancestors(k.parent) :
            Exists(a) /\ k.target \notin {claim[a].caller, claim[a].target}

DepthOf(k) == IF k.parent = None THEN 1 ELSE claim[k.parent].depth + 1

\* claim_subagent_dispatch admits the edge.
Admitted(k) ==
    /\ k.caller # k.target
    /\ {k.caller, k.target} \subseteq member
    /\ \A d \in Ids : Edge(d) = <<k.caller, k.target>> => Reconciled[d].state \notin OpenStates
    /\ LineageAdmits(k)
    /\ DepthOf(k) <= MaxDepth

\* new_id: claims get their ids in order.
Fresh(d) == claim[d].state = "none" /\ \A e \in Ids : e < d => claim[e].state # "none"

-----------------------------------------------------------------------------
(* Tool calls: SubagentMcpApplication::dispatch and cancel.                *)

\* Call c proceeds to request r, or ends.
Proceed(c, r, rest) ==
    /\ call' = [call EXCEPT ![c] = r]
    /\ wire' = rest \cup (IF r = Idle THEN {} ELSE {[call |-> c, req |-> r, checked |-> FALSE]})

\* The next request of a call that works on claim d.
On(d, s) == IF s = "idle" THEN Idle ELSE [Idle EXCEPT !.step = s, !.id = d]

\* A new call: no request of an earlier one is on the wire under its name.
New(c) == call[c] = Idle /\ \A m \in wire : m.call # c

\* The call that made request m proceeds to r, if it still waits for the answer.
Answer(m, r) ==
    IF call[m.call] = m.req THEN Proceed(m.call, r, wire \ {m})
    ELSE wire' = wire \ {m} /\ UNCHANGED call

\* lico_subagent_delegate and lico_subagent_continue.  The parent is the claim
\* whose turn a process was started for (LICOUP_MCP_PARENT_DISPATCH_ID), if any.
Delegate(c, e, p) ==
    /\ "delegate" \in Tools /\ New(c)
    /\ p # None => dispatch[p] # "none"
    /\ Proceed(c, [step |-> "claim", caller |-> e[1], target |-> e[2], parent |-> p, id |-> None], wire)
    /\ UNCHANGED <<storeVars, hostVars, count>>

\* lico_subagent_cancel
CancelCall(c, e) ==
    /\ "cancel" \in Tools /\ New(c)
    /\ Proceed(c, [Idle EXCEPT !.step = "find", !.caller = e[1], !.target = e[2]], wire)
    /\ UNCHANGED <<storeVars, hostVars, count>>

\* Mutated form: a turn whose start was not answered counts as failed.
AfterErrorFailed(s) == IF s \in {"send", "cancel"} THEN "failed" ELSE "idle"

\* What a call does when its request s failed and may have had an effect.
AfterError(s) == IF s \in {"send", "cancel"} THEN "reconciliation-required" ELSE "idle"

\* Mutated form: the claim is left alone when the turn could not be started.
AfterRefusalIgnored(s) == AfterError("claim")

\* ... and when the host could not be reached: nothing was sent.
AfterRefusal(s) == IF s = "send" THEN "failed" ELSE AfterError(s)

\* IO_WAIT is over: the request may still be handled, unless it was lost.
Timeout(c) ==
    /\ call[c] # Idle
    /\ IF \E m \in wire : m.call = c /\ m.req = call[c] THEN Mishap("timeout") ELSE UNCHANGED count
    /\ Proceed(c, On(call[c].id, AfterError(call[c].step)), wire)
    /\ UNCHANGED <<storeVars, hostVars>>

\* The host cannot be reached, or has no capacity for the request.
ConnectFails(m) ==
    /\ m \in wire /\ call[m.call] = m.req /\ ~m.checked
    /\ Mishap("connect")
    /\ Answer(m, On(m.req.id, AfterRefusal(m.req.step)))
    /\ UNCHANGED <<storeVars, hostVars>>

-----------------------------------------------------------------------------
(* The host answers requests.                                              *)

\* The host takes up request m.
Handles(m, steps) == up /\ m \in wire /\ m.req.step \in steps

\* conversation.subagent.claim
ClaimSubagentDispatch(m, d) ==
    /\ Handles(m, {"claim"})
    /\ Admitted(m.req) /\ Fresh(d)
    /\ claim' = [Reconciled EXCEPT ![d] =
           [state |-> "claimed", caller |-> m.req.caller, target |-> m.req.target,
            parent |-> m.req.parent, depth |-> DepthOf(m.req), deadline |-> FALSE]]
    /\ Answer(m, On(d, "send"))
    /\ UNCHANGED <<member, dispatch, hostVars, count>>

ClaimIsRefused(m) ==
    /\ Handles(m, {"claim"})
    /\ (~Admitted(m.req) /\ UNCHANGED count) \/ Mishap("store")
    /\ Answer(m, Idle)
    /\ UNCHANGED <<storeVars, hostVars>>

\* agent.conversation.dispatch: start_background opens the turn under the
\* claim's id, arms the watchdog unless the timeout is unbounded, and answers
\* once a thread drives the turn.  Without one the turn is still to be abandoned.
StartBackground(m, bounded, driven) ==
    LET d == m.req.id IN
    /\ Handles(m, {"send"}) /\ ~m.checked
    /\ claim[d].target \in member /\ dispatch[d] = "none"
    /\ dispatch' = [dispatch EXCEPT ![d] = "open"]
    /\ live' = live \cup {d}
    /\ IF bounded /\ Exists(d)
       THEN /\ watchdog' = watchdog \cup {d}
            /\ claim' = [claim EXCEPT ![d].deadline = Open(d)]
       ELSE UNCHANGED <<watchdog, claim>>
    /\ \/ driven /\ Answer(m, On(d, "running")) /\ UNCHANGED count
       \/ /\ ~driven /\ Mishap("store")
          /\ wire' = (wire \ {m}) \cup {[m EXCEPT !.checked = TRUE]} /\ UNCHANGED call
    /\ UNCHANGED <<member, up, notice, fired, signals>>

StartIsRefused(m) ==
    /\ Handles(m, {"send"}) /\ ~m.checked
    /\ (claim[m.req.id].target \notin member /\ UNCHANGED count) \/ Mishap("store")
    /\ Answer(m, On(m.req.id, AfterError("send")))
    /\ UNCHANGED <<storeVars, hostVars>>

\* conversation.subagent.claim.active: the open claim of the edge.
ActiveSubagentClaim(m) ==
    LET D == {d \in Ids : /\ Edge(d) = <<m.req.caller, m.req.target>>
                          /\ Reconciled[d].state \in OpenStates}
    IN
    /\ Handles(m, {"find"})
    /\ claim' = Reconciled
    /\ \/ D = {} /\ Answer(m, Idle)
       \/ \E d \in D : Answer(m, On(d, "cancel-requested"))
    /\ UNCHANGED <<member, dispatch, hostVars, count>>

\* conversation.subagent.claim.update: update_subagent_claim_state reads ...
ReadClaim(m) ==
    LET valid == ValidTransition(claim[m.req.id].state, m.req.step) IN
    /\ Handles(m, ClaimStates) /\ ~m.checked
    /\ \/ /\ valid
          /\ wire' = (wire \ {m}) \cup {[m EXCEPT !.checked = TRUE]}
          /\ UNCHANGED <<call, count>>
       \/ ~valid /\ Answer(m, Idle) /\ UNCHANGED count
       \/ Answer(m, Idle) /\ Mishap("store")
    /\ UNCHANGED <<storeVars, hostVars>>

\* What follows an update of the claim.
AfterUpdate(s) == IF s = "cancel-requested" THEN "cancel" ELSE "idle"

\* ... and writes without looking again; only the unique index of open edges
\* can refuse the write.
WriteClaim(m) ==
    LET d == m.req.id
        s == m.req.step
        taken == /\ s \in OpenStates /\ Exists(d)
                 /\ \E e \in Ids \ {d} : Open(e) /\ Edge(e) = Edge(d)
    IN
    /\ Handles(m, ClaimStates) /\ m.checked
    /\ IF Exists(d) /\ ~taken
       THEN claim' = [claim EXCEPT ![d].state = s, ![d].deadline = @ /\ s \in OpenStates]
       ELSE UNCHANGED claim
    /\ Answer(m, On(d, IF taken THEN "idle" ELSE AfterUpdate(s)))
    /\ UNCHANGED <<member, dispatch, hostVars, count>>

\* agent.conversation.active and agent.conversation.cancel: only a live turn
\* takes the request.
CancelActive(m) ==
    /\ Handles(m, {"cancel"})
    /\ Answer(m, IF m.req.id \in live THEN Idle ELSE On(m.req.id, AfterError("cancel")))
    /\ UNCHANGED <<storeVars, hostVars, count>>

-----------------------------------------------------------------------------
(* The delegated turn, its watchdog and the caller's callback.             *)

\* finish: finish_runtime_dispatch settles the dispatch and writes the outcome
\* back to the claim where the transition is valid.
Settle(d, s) ==
    /\ dispatch[d] = "open"
    /\ dispatch' = [dispatch EXCEPT ![d] = s]
    /\ claim' = IF ValidTransition(claim[d].state, s) THEN [claim EXCEPT ![d].state = s] ELSE claim
    /\ live' = live \ {d}
    /\ notice' = [notice EXCEPT ![<<"turn", d>>] = "read"]
    /\ UNCHANGED <<member, up, watchdog, fired, signals, count>>

\* force_terminal: the outcome is not stored and nobody is notified.
ForceTerminal(d) ==
    /\ (dispatch[d] # "open" /\ UNCHANGED count) \/ Mishap("store")
    /\ live' = live \ {d}
    /\ UNCHANGED <<storeVars, up, watchdog, notice, fired, signals>>

\* abandon_turn, in the thread that answers the request.
AbandonTurn(m) ==
    /\ Handles(m, {"send"}) /\ m.checked
    /\ Settle(m.req.id, "failed") \/ ForceTerminal(m.req.id)
    /\ Answer(m, On(m.req.id, AfterError("send")))

\* run_started_turn: the lane operation has ended.
Finish(d, s) ==
    /\ d \in live
    /\ ~\E m \in wire : m.req.step = "send" /\ m.req.id = d /\ m.checked
    /\ Settle(d, s) \/ ForceTerminal(d)
    /\ UNCHANGED callVars

\* Mutated form: a claim without a deadline is not notified.
NotifyWatchedOnly(d) ==
    /\ notice[<<"turn", d>>] = "read"
    /\ notice' = [notice EXCEPT ![<<"turn", d>>] = IF d \in watchdog THEN "fire" ELSE "none"]
    /\ watchdog' = watchdog \ {d}
    /\ claim' = [claim EXCEPT ![d].deadline = FALSE]
    /\ UNCHANGED <<member, dispatch, up, live, fired, signals, callVars, count>>

\* notify_subagent_terminal
NotifySubagentTerminal(d) ==
    /\ notice[<<"turn", d>>] = "read"
    /\ IF Exists(d)
       THEN /\ watchdog' = watchdog \ {d}
            /\ claim' = [claim EXCEPT ![d].deadline = FALSE]
            /\ notice' = [notice EXCEPT ![<<"turn", d>>] = "fire"]
       ELSE /\ notice' = [notice EXCEPT ![<<"turn", d>>] = "none"]
            /\ UNCHANGED <<watchdog, claim>>
    /\ UNCHANGED <<member, dispatch, up, live, fired, signals, callVars, count>>

\* subagent_watchdog_main: the deadline has passed.
Expire(d) ==
    /\ d \in watchdog
    /\ watchdog' = watchdog \ {d}
    /\ notice' = [notice EXCEPT ![<<"timer", d>>] = "read"]
    /\ UNCHANGED <<storeVars, up, live, fired, signals, callVars, count>>

\* fire_subagent_timeout
FireSubagentTimeout(d) ==
    /\ notice[<<"timer", d>>] = "read"
    /\ notice' = [notice EXCEPT ![<<"timer", d>>] = IF Open(d) THEN "fire" ELSE "none"]
    /\ UNCHANGED <<storeVars, up, live, watchdog, fired, signals, callVars, count>>

\* Mutated form: the fired-once guard is left out.
CallbackUnguarded(w, d) ==
    /\ notice[<<w, d>>] = "fire"
    /\ notice' = [notice EXCEPT ![<<w, d>>] = "none"]
    /\ fired' = fired \cup {d}
    /\ signals' = [signals EXCEPT ![d] = @ + 1]
    /\ UNCHANGED <<storeVars, up, live, watchdog, callVars, count>>

\* dispatch_subagent_callback: the first one to come starts the callback turn,
\* unless the caller cannot be addressed or the turn cannot be started.
DispatchSubagentCallback(w, d) ==
    /\ notice[<<w, d>>] = "fire"
    /\ notice' = [notice EXCEPT ![<<w, d>>] = "none"]
    /\ fired' = fired \cup {d}
    /\ \/ /\ d \notin fired /\ claim[d].caller \in member
          /\ signals' = [signals EXCEPT ![d] = @ + 1]
          /\ UNCHANGED count
       \/ /\ d \in fired \/ claim[d].caller \notin member
          /\ UNCHANGED <<signals, count>>
       \/ /\ d \notin fired
          /\ Mishap("store") /\ UNCHANGED signals
    /\ UNCHANGED <<storeVars, up, live, watchdog, callVars>>

-----------------------------------------------------------------------------
(* Members, history, crashes.                                              *)

LeaveMember(a) ==
    /\ up /\ a \in member /\ Mishap("leave")
    /\ member' = member \ {a}
    /\ UNCHANGED <<claim, dispatch, hostVars, callVars>>

AddMember(a) ==
    /\ up /\ a \in Members \ member
    /\ member' = member \cup {a}
    /\ UNCHANGED <<claim, dispatch, hostVars, callVars, count>>

\* clear_conversation_history: refused while a dispatch or a claim is open.
ClearConversationHistory ==
    /\ up
    /\ \E d \in Ids : Exists(d)
    /\ \A d \in Ids : dispatch[d] # "open" /\ ~Open(d)
    /\ claim' = [d \in Ids |-> IF Exists(d) THEN [claim[d] EXCEPT !.state = "gone"] ELSE claim[d]]
    /\ dispatch' = [d \in Ids |-> IF dispatch[d] = "none" THEN "none" ELSE "gone"]
    /\ UNCHANGED <<member, hostVars, callVars, count>>

\* cold_recover: open dispatches fail, reconcile_terminal_subagent_claims settles
\* the open claims whose dispatch is settled.
ColdRecover ==
    /\ dispatch' = [d \in Ids |-> IF dispatch[d] = "open" THEN "failed" ELSE dispatch[d]]
    /\ claim' = [d \in Ids |-> IF Open(d) /\ dispatch'[d] \in Outcomes
                               THEN [claim[d] EXCEPT !.state = dispatch'[d]] ELSE claim[d]]

Crash ==
    /\ up /\ Mishap("crash")
    /\ up' = FALSE
    /\ live' = {} /\ watchdog' = {} /\ fired' = {} /\ wire' = {}
    /\ notice' = [n \in {"turn", "timer"} \X Ids |-> "none"]
    /\ UNCHANGED <<storeVars, signals, call>>

\* The host opens the store and rearm_persisted_watchdogs runs.
Boot ==
    /\ ~up /\ up' = TRUE
    /\ ColdRecover
    /\ watchdog' = {d \in Ids : claim'[d].deadline /\ claim'[d].state \in OpenStates}
    /\ UNCHANGED <<member, live, notice, fired, signals, callVars, count>>

\* ConversationStore::open by another component while the host runs.
ReopenStore ==
    /\ up /\ Mishap("reopen")
    /\ ColdRecover
    /\ UNCHANGED <<member, hostVars, callVars>>

HostStep(m) ==
    \/ \E d \in Ids : ClaimSubagentDispatch(m, d)
    \/ ClaimIsRefused(m)
    \/ \E bounded \in Timeouts, driven \in BOOLEAN : StartBackground(m, bounded, driven)
    \/ StartIsRefused(m) \/ ActiveSubagentClaim(m) \/ ReadClaim(m) \/ WriteClaim(m)
    \/ CancelActive(m)

TurnStep(d) ==
    \/ \E s \in Ends : Finish(d, s)
    \/ \E m \in wire : m.req.id = d /\ AbandonTurn(m)
    \/ NotifySubagentTerminal(d)
    \/ FireSubagentTimeout(d)
    \/ \E w \in {"turn", "timer"} : DispatchSubagentCallback(w, d)

Next ==
    \/ \E c \in Calls, e \in Edges :
        CancelCall(c, e) \/ \E p \in Ids \cup {None} : Delegate(c, e, p)
    \/ \E c \in Calls : Timeout(c)
    \/ \E m \in wire : ConnectFails(m) \/ HostStep(m)
    \/ \E d \in Ids : TurnStep(d) \/ Expire(d)
    \/ \E a \in Members : LeaveMember(a) \/ AddMember(a)
    \/ ClearConversationHistory
    \/ Crash \/ Boot \/ ReopenStore

\* Lane operations return and the host's threads run, whether or not a call fails.
Fairness == \A d \in Ids : WF_vars(TurnStep(d) /\ UNCHANGED count)

Spec     == Init /\ [][Next]_vars
FairSpec == Spec /\ Fairness
-----------------------------------------------------------------------------
(* Properties.                                                             *)

\* subagent_callback_fired: settlement, watchdog and restarts give the caller at
\* most one signal per claim.
OneSignal == \A d \in Ids : signals[d] <= 1

\* The store's writeback, the lazy and the boot reconciliation and the late
\* updates of tool calls never settle a claim differently from its turn.
ClaimTellsOutcome ==
    \A d \in Ids : claim[d].state \in Outcomes => dispatch[d] \in {"none", claim[d].state}

\* The same over well-typed claims: writeback and reconciliation only write
\* states that valid_claim_transition knows, and never another outcome.
ClaimsAgree == TypeOK /\ ClaimTellsOutcome

\* A tool call settles its claim or starts the turn: an open claim without a
\* dispatch has a call that still works on it, and so its edge is not blocked
\* for ever.
NoStrandedEdge ==
    \A d \in Ids : Open(d) /\ dispatch[d] = "none" =>
        \E c \in Calls : call[c].id = d

\* Nothing has happened that the tool calls have no answer to: the host runs, its
\* members stay, answers come in time, and at most one request did not reach it.
Unharmed ==
    /\ count["timeout"] = 0 /\ count["store"] = 0 /\ count["leave"] = 0 /\ count["crash"] = 0
    /\ count["connect"] <= 1

\* At most one request that does not reach the host strands no edge, however calls
\* race and whoever opens the store: the call gives its claim up, or cancels it.
EdgesAreFreed == Unharmed => NoStrandedEdge

\* Whatever answers are late or requests lost, the store works, the host and its
\* members stay, and no other component opens the store.
CallersAreReachable ==
    count["store"] = 0 /\ count["leave"] = 0 /\ count["crash"] = 0 /\ count["reopen"] = 0

\* Every delegated turn ends in a signal to its caller, by settlement or by
\* watchdog, unless the claim was cleared before.
CallerIsSignalled ==
    \A d \in Ids : dispatch[d] = "open" ~>
        signals[d] = 1 \/ claim[d].state = "gone" \/ ~CallersAreReachable

=============================================================================
