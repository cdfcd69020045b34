---------------------------- MODULE DirectTurns ----------------------------
(***************************************************************************)
(* One Conversation: the durable rows of its direct turns, dispatches and  *)
(* agent answers (licoup-conversation/src/store), the host threads that    *)
(* open, drive and settle them (stdio_rpc/server/conversation.rs) and the  *)
(* requests that address a posted message (client_conversation/service.rs).*)
(* Every store call is one SQLite transaction and one action here; between *)
(* two of them any other thread may run, the host may be killed, and       *)
(* another component may open the same database file.                      *)
(***************************************************************************)
EXTENDS Naturals, FiniteSets

CONSTANTS
    Members,      \* agent memberships of the Conversation
    Posts,        \* posted messages, numbered by their event sequence
    Sends,        \* plain sends: numbers of dispatches no posted message caused
    Requests,     \* dispatch requests, each made once for one posted message
    MaxTracked,   \* MAX_TRACKED_TURNS, the registry's capacity
    MaxCrashes,   \* bound on host crashes
    MaxReopens,   \* bound on store openings while the host runs
    MaxFaults,    \* bound on failing calls
    MaxLeaves     \* bound on members leaving

ASSUME NumberingAssumption ==
    /\ Posts \subseteq Nat /\ Sends \subseteq Nat /\ Posts \cap Sends = {}

ASSUME BoundsAssumption ==
    /\ MaxTracked \in Nat \ {0} /\ MaxCrashes \in Nat /\ MaxReopens \in Nat
    /\ MaxFaults \in Nat /\ MaxLeaves \in Nat

\* A direct turn is unique per source event and membership, and its dispatch
\* has the turn's identity.  A plain send has a dispatch and no direct turn.
Turns == Posts \X Members
Ids   == (Posts \cup Sends) \X Members

VARIABLES
    stage,      \* posted message: "unposted", "posted" or "deleted"
    mention,    \* the memberships a posted message addresses
    status,     \* membership: "active" or "left"
    turn,       \* direct_turns.state
    dispatch,   \* conversation_dispatches.state
    answer,     \* the agent's message event: "none", "open" or "final"
    up,         \* the host runs
    reg,        \* PersistentTurn registry: "none", "live" or "done"
    worker,     \* step of the host thread that starts or drives an identity
    rpc,        \* step of a dispatch request
    source,     \* the posted message of a request
    todo,       \* turns of a request not claimed yet
    mine,       \* turns whose execution context a request holds
    follow,     \* active memberships to steer, then the ones to queue
    crashes, reopens, faults, leaves   \* how often the bounded events happened

store  == <<stage, mention, status, turn, dispatch, answer>>
host   == <<up, reg, worker>>
client == <<rpc, source, todo, mine, follow>>
count  == <<crashes, reopens, faults, leaves>>
vars   == <<store, host, client, count>>

Lifecycle == INSTANCE TurnLifecycle WITH Turns <- Ids

OpenTurn         == Lifecycle!OpenTurn
TerminalTurn     == Lifecycle!TerminalTurn
OpenDispatch     == {"accepted", "running"}
TerminalDispatch == {"completed", "failed", "cancelled"}

Workers == {"none", "claimed", "marked", "begun", "driving", "boundary",
            "rejected", "failing"}

Running(m)   == {i \in Ids : i[2] = m /\ reg[i] = "live"}
LiveTurns    == {i \in Ids : reg[i] = "live"}
Fault        == up /\ faults < MaxFaults /\ faults' = faults + 1
NoFault      == up /\ faults' = faults

TypeOK ==
    /\ stage \in [Posts -> {"unposted", "posted", "deleted"}]
    /\ mention \in [Posts -> SUBSET Members]
    /\ status \in [Members -> {"active", "left"}]
    /\ turn \in [Ids -> Lifecycle!TurnStates \cup {"none"}]
    /\ dispatch \in [Ids -> OpenDispatch \cup TerminalDispatch \cup {"none"}]
    /\ answer \in [Ids -> {"none", "open", "final"}]
    /\ up \in BOOLEAN
    /\ reg \in [Ids -> {"none", "live", "done"}]
    /\ worker \in [Ids -> Workers]
    /\ rpc \in [Requests -> {"idle", "addressed", "enqueued", "executing",
                             "failing", "done"}]
    /\ source \in [Requests -> Posts \cup {0}]
    /\ todo \in [Requests -> SUBSET Turns]
    /\ mine \in [Requests -> SUBSET Turns]
    /\ follow \in [Requests -> SUBSET Members]
    /\ crashes \in 0..MaxCrashes /\ reopens \in 0..MaxReopens
    /\ faults \in 0..MaxFaults /\ leaves \in 0..MaxLeaves

Init ==
    /\ stage = [p \in Posts |-> "unposted"]
    /\ mention = [p \in Posts |-> {}]
    /\ status = [m \in Members |-> "active"]
    /\ turn = [i \in Ids |-> "none"]
    /\ dispatch = [i \in Ids |-> "none"]
    /\ answer = [i \in Ids |-> "none"]
    /\ up = TRUE
    /\ reg = [i \in Ids |-> "none"]
    /\ worker = [i \in Ids |-> "none"]
    /\ rpc = [r \in Requests |-> "idle"]
    /\ source = [r \in Requests |-> 0]
    /\ todo = [r \in Requests |-> {}]
    /\ mine = [r \in Requests |-> {}]
    /\ follow = [r \in Requests |-> {}]
    /\ crashes = 0 /\ reopens = 0 /\ faults = 0 /\ leaves = 0

-----------------------------------------------------------------------------
(* The store's history and membership operations.                          *)

\* persist_posted_message: the event, and no turn yet.
PostMessage(p, A) ==
    /\ up /\ stage[p] = "unposted"
    /\ \A q \in Posts : q < p => stage[q] # "unposted"
    /\ stage' = [stage EXCEPT ![p] = "posted"]
    /\ mention' = [mention EXCEPT ![p] = A]
    /\ UNCHANGED <<status, turn, dispatch, answer, host, client, count>>

\* Delete the turns, dispatches and answers that the messages D caused.
Forget(D, I) ==
    /\ stage' = [p \in Posts |-> IF p \in D THEN "deleted" ELSE stage[p]]
    /\ turn' = [i \in Ids |-> IF i \in I THEN "none" ELSE turn[i]]
    /\ dispatch' = [i \in Ids |-> IF i \in I THEN "none" ELSE dispatch[i]]
    /\ answer' = [i \in Ids |-> IF i \in I THEN "none" ELSE answer[i]]
    /\ UNCHANGED <<mention, status, host, client, count>>

\* delete_posted_message: refused while a turn of the message is open.
DeletePostedMessage(p) ==
    /\ up /\ stage[p] = "posted"
    /\ \A i \in {p} \X Members : turn[i] \notin OpenTurn
    /\ Forget({p}, {p} \X Members)

\* Mutated form: only direct turns block the clear.
ClearChecksTurnsOnly ==
    /\ up
    /\ \A i \in Ids : turn[i] \notin OpenTurn
    /\ Forget({p \in Posts : stage[p] = "posted"}, Ids)

\* clear_conversation_history: refused while anything of it is open.
ClearConversationHistory ==
    /\ up
    /\ \A i \in Ids : /\ answer[i] # "open"
                      /\ turn[i] \notin OpenTurn
                      /\ dispatch[i] \notin OpenDispatch
    /\ Forget({p \in Posts : stage[p] = "posted"}, Ids)

LeaveMember(m) ==
    /\ up /\ status[m] = "active" /\ leaves < MaxLeaves
    /\ leaves' = leaves + 1
    /\ status' = [status EXCEPT ![m] = "left"]
    /\ UNCHANGED <<stage, mention, turn, dispatch, answer, host, client,
                   crashes, reopens, faults>>

AddMember(m) ==
    /\ up /\ status[m] = "left"
    /\ status' = [status EXCEPT ![m] = "active"]
    /\ UNCHANGED <<stage, mention, turn, dispatch, answer, host, client, count>>

-----------------------------------------------------------------------------
(* dispatch_posted_message, one request r.                                 *)

\* Resolve the addressed memberships and take the snapshot of active turns.
\* A message that addresses nobody follows up on the one active turn, if any.
AddressMessage(r, p) ==
    LET addressed == {m \in mention[p] : status[m] = "active"}
        active    == {m \in Members : Running(m) # {}}
    IN  /\ up /\ rpc[r] = "idle" /\ stage[p] = "posted"
        /\ rpc' = [rpc EXCEPT ![r] = "addressed"]
        /\ source' = [source EXCEPT ![r] = p]
        /\ todo' = [todo EXCEPT ![r] =
               {i \in {p} \X (addressed \ active) : turn[i] = "none"}]
        /\ follow' = [follow EXCEPT ![r] =
               IF addressed # {} THEN addressed \cap active
               ELSE IF Cardinality(LiveTurns) = 1 THEN active ELSE {}]
        /\ UNCHANGED <<store, host, mine, count>>

\* enqueue_mention_turns: a deleted message or an already stored turn rolls the
\* whole transaction back; a membership that left is skipped.
Runnable(S) == {i \in S : status[i[2]] = "active"}
Enqueueable(r, S) ==
    /\ stage[source[r]] = "posted"
    /\ \A i \in Runnable(S) : turn[i] = "none"
EnqueueMentionTurns(S) ==
    turn' = [i \in Ids |-> IF i \in Runnable(S) THEN "pending" ELSE turn[i]]

EnqueueStart(r) ==
    /\ up /\ rpc[r] = "addressed"
    /\ todo[r] = {} \/ Enqueueable(r, todo[r])
    /\ EnqueueMentionTurns(todo[r])
    /\ todo' = [todo EXCEPT ![r] = Runnable(todo[r])]
    /\ rpc' = [rpc EXCEPT ![r] = "enqueued"]
    /\ UNCHANGED <<stage, mention, status, dispatch, answer, host, source, mine,
                   follow, count>>

EnqueueStartFails(r) ==
    /\ up /\ rpc[r] = "addressed"
    /\ todo[r] # {} /\ ~Enqueueable(r, todo[r])
    /\ rpc' = [rpc EXCEPT ![r] = "done"]
    /\ todo' = [todo EXCEPT ![r] = {}]
    /\ UNCHANGED <<store, host, source, mine, follow, count>>

\* steer_active_turn for every active membership; Q are the ones whose lane
\* cannot take the text now.  A message already queued for one is not steered.
SteerActiveTurns(r, Q) ==
    /\ up /\ rpc[r] = "enqueued"
    /\ \A m \in Q \cap mention[source[r]] : turn[<<source[r], m>>] = "none"
    /\ follow' = [follow EXCEPT ![r] = Q]
    /\ rpc' = [rpc EXCEPT ![r] = "executing"]
    /\ UNCHANGED <<store, host, source, todo, mine, count>>

\* Phase one of execute_direct_turns handles one turn after the other.
PhaseOne(r, i) ==
    /\ up /\ rpc[r] = "executing" /\ i \in todo[r]
    /\ \A j \in mine[r] : worker[j] # "claimed"

\* Mutated form: the claim does not compare the state it replaces.
ClaimWithoutGuard(r, i) ==
    /\ PhaseOne(r, i)
    /\ turn[i] # "none" /\ status[i[2]] = "active"
    /\ turn' = [turn EXCEPT ![i] = "claimed"]
    /\ worker' = [worker EXCEPT ![i] = "claimed"]
    /\ todo' = [todo EXCEPT ![r] = @ \ {i}]
    /\ mine' = [mine EXCEPT ![r] = @ \cup {i}]
    /\ UNCHANGED <<stage, mention, status, dispatch, answer, up, reg, rpc, source,
                   follow, count>>

\* claim_direct_turn
ClaimDirectTurn(r, i) ==
    /\ PhaseOne(r, i)
    /\ turn[i] = "pending" /\ status[i[2]] = "active"
    /\ turn' = [turn EXCEPT ![i] = "claimed"]
    /\ worker' = [worker EXCEPT ![i] = "claimed"]
    /\ todo' = [todo EXCEPT ![r] = @ \ {i}]
    /\ mine' = [mine EXCEPT ![r] = @ \cup {i}]
    /\ UNCHANGED <<stage, mention, status, dispatch, answer, up, reg, rpc, source,
                   follow, count>>

\* A second claimant receives no context.
ClaimIsLost(r, i) ==
    /\ PhaseOne(r, i)
    /\ turn[i] # "pending"
    /\ todo' = [todo EXCEPT ![r] = @ \ {i}]
    /\ UNCHANGED <<store, host, rpc, source, mine, follow, count>>

\* The context of a membership that left cannot be loaded: the claim is rolled
\* back, the later turns are not claimed and the request fails.
ClaimFails(r, i) ==
    /\ PhaseOne(r, i)
    /\ turn[i] = "pending" /\ status[i[2]] = "left"
    /\ todo' = [todo EXCEPT ![r] = {}]
    /\ rpc' = [rpc EXCEPT ![r] = "failing"]
    /\ UNCHANGED <<store, host, source, mine, follow, count>>

\* mark_direct_turn_running
MarkDirectTurnRunning(i) ==
    /\ up /\ worker[i] = "claimed" /\ turn[i] = "claimed"
    /\ turn' = [turn EXCEPT ![i] = "running"]
    /\ worker' = [worker EXCEPT ![i] = "marked"]
    /\ UNCHANGED <<stage, mention, status, dispatch, answer, up, reg, client, count>>

\* The workers of phase two have all returned.
Returned(r) ==
    /\ todo[r] = {}
    /\ \A i \in mine[r] : worker[i] \in {"none", "driving", "boundary"}

EnqueueBoundary(r) ==
    LET queued == {source[r]} \X follow[r] IN
    /\ up /\ rpc[r] = "executing" /\ Returned(r)
    /\ queued = {} \/ Enqueueable(r, queued)
    /\ EnqueueMentionTurns(queued)
    /\ rpc' = [rpc EXCEPT ![r] = "done"]
    /\ UNCHANGED <<stage, mention, status, dispatch, answer, host, source, todo,
                   mine, follow, count>>

\* The request answers an error: a message to be queued is not queued.
RequestFails(r) ==
    /\ up /\ Returned(r)
    /\ \/ rpc[r] = "failing"
       \/ /\ rpc[r] = "executing" /\ follow[r] # {}
          /\ ~Enqueueable(r, {source[r]} \X follow[r])
    /\ rpc' = [rpc EXCEPT ![r] = "done"]
    /\ UNCHANGED <<store, host, source, todo, mine, follow, count>>

-----------------------------------------------------------------------------
(* The host thread that starts, drives and settles one identity i.         *)

\* A turn claimed by a request starts only when the request's phase one is over.
MayStart(i) == up /\ worker[i] = "marked" /\ \A r \in Requests : i \in mine[r] => todo[r] = {}

\* begin_with: a full registry first gives up one settled entry, or refuses.
Tracked  == {i \in Ids : reg[i] # "none"}
Evicted  == IF Cardinality(Tracked) < MaxTracked THEN {reg}
            ELSE {[reg EXCEPT ![i] = "none"] : i \in {j \in Ids : reg[j] = "done"}}
Capacity == Evicted # {}
Register(i) == \E kept \in Evicted : reg' = [kept EXCEPT ![i] = "live"]

\* prepare_runtime_dispatch
Prepare(i) ==
    /\ status[i[2]] = "active" /\ dispatch[i] = "none"
    /\ dispatch' = [dispatch EXCEPT ![i] = "accepted"]
    /\ answer' = [answer EXCEPT ![i] = "open"]
    /\ UNCHANGED <<stage, mention, status, turn>>

Begin(i) ==
    /\ MayStart(i)
    /\ Prepare(i)
    /\ Register(i)
    /\ worker' = [worker EXCEPT ![i] = "begun"]
    /\ UNCHANGED <<up, client, count>>

\* spawn_send: a dispatch of its own, whose thread serves no queue afterwards.
SpawnSend(i) ==
    /\ up /\ i \notin Turns /\ reg[i] = "none" /\ worker[i] = "none"
    /\ Prepare(i)
    /\ Register(i)
    /\ worker' = [worker EXCEPT ![i] = "begun"]
    /\ UNCHANGED <<up, client, count>>

\* The registry is full of live turns, or a settled entry is given up and then
\* the membership has left or the store refuses.
BeginIsRejected(i) ==
    /\ MayStart(i)
    /\ \/ NoFault /\ ~Capacity /\ UNCHANGED reg
       \/ NoFault /\ status[i[2]] = "left" /\ reg' \in Evicted
       \/ Fault /\ reg' \in Evicted
    /\ worker' = [worker EXCEPT ![i] = "rejected"]
    /\ UNCHANGED <<store, up, client, crashes, reopens, leaves>>

\* The dispatch is prepared and admit_runtime_response_mode fails: the dispatch
\* is open and no registry entry owns it.
AdmissionFails(i) ==
    /\ MayStart(i) /\ Fault
    /\ Prepare(i)
    /\ reg' \in Evicted
    /\ worker' = [worker EXCEPT ![i] = "rejected"]
    /\ UNCHANGED <<up, client, crashes, reopens, leaves>>

\* run_direct_turn fails before it calls the sender (no instruction delivery
\* for the adapter, an unreadable profile): nothing settles the turn.
RunIsAborted(r, i) ==
    /\ MayStart(i) /\ i \in mine[r] /\ Fault
    /\ worker' = [worker EXCEPT ![i] = "none"]
    /\ rpc' = [rpc EXCEPT ![r] = "failing"]
    /\ UNCHANGED <<store, up, reg, source, todo, mine, follow, crashes, reopens, leaves>>

\* Mutated form: the guarded update does not name the states it may replace.
AnyDispatch(i) == dispatch[i] # "none"

\* append_runtime_frame refuses a dispatch that is not active.
Active(i) == dispatch[i] \in OpenDispatch /\ answer[i] = "open"

\* Mutated form: the turn is driven once the request that claimed it has answered.
RecordAcceptedLate(i) ==
    /\ up /\ worker[i] = "begun" /\ Active(i)
    /\ \A r \in Requests : i \in mine[r] => rpc[r] = "done"
    /\ dispatch' = [dispatch EXCEPT ![i] = "running"]
    /\ worker' = [worker EXCEPT ![i] = "driving"]
    /\ UNCHANGED <<stage, mention, status, turn, answer, up, reg, client, count>>

\* The accepted frame commits and the driving thread is spawned.
RecordAccepted(i) ==
    /\ up /\ worker[i] = "begun" /\ Active(i)
    /\ dispatch' = [dispatch EXCEPT ![i] = "running"]
    /\ worker' = [worker EXCEPT ![i] = "driving"]
    /\ UNCHANGED <<stage, mention, status, turn, answer, up, reg, client, count>>

TurnOutcome == [completed |-> "succeeded", cancelled |-> "cancelled", failed |-> "failed"]

\* finish_runtime_dispatch: dispatch, turn and answer settle in one transaction.
FinishRuntimeDispatch(i, s) ==
    /\ Active(i)
    /\ dispatch' = [dispatch EXCEPT ![i] = s]
    /\ turn' = [turn EXCEPT ![i] = IF @ = "running" THEN TurnOutcome[s] ELSE @]
    /\ answer' = [answer EXCEPT ![i] = "final"]
    /\ UNCHANGED <<stage, mention, status>>

Settled(i) == reg' = [reg EXCEPT ![i] = IF @ = "live" THEN "done" ELSE @]

\* A frame cannot be stored: persist_runtime_failure settles the turn as failed,
\* or only in memory (force_terminal) when that cannot be stored either.
AcceptedFails(i) ==
    /\ up /\ worker[i] = "begun"
    /\ \/ Fault /\ (FinishRuntimeDispatch(i, "failed") \/ UNCHANGED store)
       \/ NoFault /\ ~Active(i) /\ UNCHANGED store
    /\ Settled(i)
    /\ worker' = [worker EXCEPT ![i] = IF i \in Turns THEN "rejected" ELSE "none"]
    /\ UNCHANGED <<up, client, crashes, reopens, leaves>>

\* After a background turn its thread serves the membership's queue.
AfterFinish(i) == IF i \in Turns THEN "boundary" ELSE "none"

\* The lane operation returned and finish stores its outcome.
Finish(i, s) ==
    /\ up /\ worker[i] = "driving"
    /\ FinishRuntimeDispatch(i, s)
    /\ Settled(i)
    /\ worker' = [worker EXCEPT ![i] = AfterFinish(i)]
    /\ UNCHANGED <<up, client, count>>

\* The outcome of a successful operation cannot be stored; its failure is, and
\* the thread returns at once.
FinishIsRetried(i) ==
    /\ worker[i] = "driving" /\ Fault
    /\ FinishRuntimeDispatch(i, "failed")
    /\ Settled(i)
    /\ worker' = [worker EXCEPT ![i] = "none"]
    /\ UNCHANGED <<up, client, crashes, reopens, leaves>>

\* Neither can be stored: force_terminal.  Only the thread of an operation that
\* failed by itself still serves the queue.
ForceTerminal(i) ==
    /\ worker[i] = "driving"
    /\ Fault \/ (NoFault /\ ~Active(i))
    /\ Settled(i)
    /\ \E w \in {"none", AfterFinish(i)} : worker' = [worker EXCEPT ![i] = w]
    /\ UNCHANGED <<store, up, client, crashes, reopens, leaves>>

Pending(m)   == {i \in Turns : i[2] = m /\ turn[i] = "pending"}
Oldest(i, S) == i \in S /\ \A j \in S : i[1] <= j[1]

\* start_next_boundary_turn: claim_next_pending_direct_turn moves the oldest
\* queued turn of the membership straight to running.
StartNextBoundaryTurn(i) ==
    /\ up /\ worker[i] = "boundary" /\ status[i[2]] = "active"
    /\ \E n \in Turns :
        /\ Oldest(n, Pending(i[2]))
        /\ turn' = [turn EXCEPT ![n] = "running"]
        /\ worker' = [worker EXCEPT ![i] = "none", ![n] = "marked"]
    /\ UNCHANGED <<stage, mention, status, dispatch, answer, up, reg, client, count>>

NoBoundaryTurn(i) ==
    /\ up /\ worker[i] = "boundary"
    /\ Pending(i[2]) = {} \/ status[i[2]] = "left"
    /\ worker' = [worker EXCEPT ![i] = "none"]
    /\ UNCHANGED <<store, up, reg, client, count>>

\* fail_direct_turn_unless_dispatched looks for the dispatch in one lease and
\* fails the turn in another.
CheckDispatched(i) ==
    /\ up /\ worker[i] = "rejected"
    /\ worker' = [worker EXCEPT ![i] = IF dispatch[i] = "none" THEN "failing" ELSE "none"]
    /\ UNCHANGED <<store, up, reg, client, count>>

FailDirectTurn(i) ==
    /\ up /\ worker[i] = "failing" /\ turn[i] = "running"
    /\ turn' = [turn EXCEPT ![i] = "failed"]
    /\ answer' = [answer EXCEPT ![i] = "final"]
    /\ worker' = [worker EXCEPT ![i] = "none"]
    /\ UNCHANGED <<stage, mention, status, dispatch, up, reg, client, count>>

\* The turn's row was deleted meanwhile, with a dispatch that had settled: the
\* call fails, and so does the request that waits for it.
FailIsRefused(i) ==
    /\ up /\ worker[i] = "failing" /\ turn[i] # "running"
    /\ worker' = [worker EXCEPT ![i] = "none"]
    /\ rpc' = [r \in Requests |-> IF i \in mine[r] THEN "failing" ELSE rpc[r]]
    /\ UNCHANGED <<store, up, reg, source, todo, mine, follow, count>>

-----------------------------------------------------------------------------
(* Crash, recovery, and the store opened again.                            *)

\* Mutated form: a dispatch that has no frame yet is not recovered.
RecoverStartedOnly ==
    LET recoverable == {i \in Ids : dispatch[i] = "running"} IN
    /\ dispatch' = [i \in Ids |-> IF i \in recoverable THEN "failed" ELSE dispatch[i]]
    /\ turn' = [i \in Ids |-> IF i \in recoverable /\ turn[i] \in {"claimed", "running"}
                              THEN "interrupted" ELSE turn[i]]
    /\ answer' = [i \in Ids |-> IF i \in recoverable THEN "final" ELSE answer[i]]
    /\ UNCHANGED <<stage, mention, status>>

\* Mutated form: the recovered dispatch leaves its direct turn running.
RecoverDispatchOnly ==
    LET recoverable == {i \in Ids : dispatch[i] \in OpenDispatch} IN
    /\ dispatch' = [i \in Ids |-> IF i \in recoverable THEN "failed" ELSE dispatch[i]]
    /\ answer' = [i \in Ids |-> IF answer[i] = "open" THEN "final" ELSE answer[i]]
    /\ UNCHANGED <<stage, mention, status, turn>>

\* cold_recover
ColdRecover ==
    LET recoverable == {i \in Ids : dispatch[i] \in OpenDispatch} IN
    /\ dispatch' = [i \in Ids |-> IF i \in recoverable THEN "failed" ELSE dispatch[i]]
    /\ turn' = [i \in Ids |-> IF i \in recoverable /\ turn[i] \in {"claimed", "running"}
                              THEN "interrupted" ELSE turn[i]]
    /\ answer' = [i \in Ids |-> IF answer[i] = "open" THEN "final" ELSE answer[i]]
    /\ UNCHANGED <<stage, mention, status>>

\* The host process ends: its memory and its requests are gone.
Crash ==
    /\ up /\ crashes < MaxCrashes
    /\ crashes' = crashes + 1
    /\ up' = FALSE
    /\ reg' = [i \in Ids |-> "none"]
    /\ worker' = [i \in Ids |-> "none"]
    /\ rpc' = [r \in Requests |-> IF rpc[r] = "idle" THEN "idle" ELSE "done"]
    /\ todo' = [r \in Requests |-> {}]
    /\ mine' = [r \in Requests |-> {}]
    /\ follow' = [r \in Requests |-> {}]
    /\ UNCHANGED <<store, source, reopens, faults, leaves>>

\* ConversationStore::open at host start.
Boot ==
    /\ ~up
    /\ ColdRecover
    /\ up' = TRUE
    /\ UNCHANGED <<reg, worker, client, count>>

\* ConversationStore::open by the strategy service or the Conversation MCP
\* server while the host runs: the same recovery, over the host's live turns.
ReopenStore ==
    /\ up /\ reopens < MaxReopens
    /\ reopens' = reopens + 1
    /\ ColdRecover
    /\ UNCHANGED <<host, client, crashes, faults, leaves>>

-----------------------------------------------------------------------------
RequestStep(r) ==
    \/ EnqueueStart(r) \/ EnqueueStartFails(r)
    \/ \E Q \in SUBSET follow[r] : SteerActiveTurns(r, Q)
    \/ \E i \in Turns : ClaimDirectTurn(r, i) \/ ClaimIsLost(r, i) \/ ClaimFails(r, i)
    \/ EnqueueBoundary(r) \/ RequestFails(r)

ThreadStep(i) ==
    \/ MarkDirectTurnRunning(i) \/ Begin(i) \/ BeginIsRejected(i) \/ AdmissionFails(i)
    \/ \E r \in Requests : RunIsAborted(r, i)
    \/ RecordAccepted(i) \/ AcceptedFails(i)
    \/ \E s \in TerminalDispatch : Finish(i, s)
    \/ FinishIsRetried(i) \/ ForceTerminal(i)
    \/ StartNextBoundaryTurn(i) \/ NoBoundaryTurn(i)
    \/ CheckDispatched(i) \/ FailDirectTurn(i) \/ FailIsRefused(i)

ClientStep ==
    \/ \E p \in Posts, A \in SUBSET Members : PostMessage(p, A)
    \/ \E p \in Posts : DeletePostedMessage(p)
    \/ ClearConversationHistory
    \/ \E m \in Members : LeaveMember(m) \/ AddMember(m)
    \/ \E r \in Requests, p \in Posts : AddressMessage(r, p)
    \/ \E i \in Ids : SpawnSend(i)

Next ==
    \/ ClientStep
    \/ \E r \in Requests : RequestStep(r)
    \/ \E i \in Ids : ThreadStep(i)
    \/ Crash \/ Boot \/ ReopenStore

\* The host's threads make progress without waiting for a call to fail, lane
\* operations return, and a host that crashed is started again.
Fairness ==
    /\ \A r \in Requests : WF_vars(RequestStep(r))
    /\ \A i \in Ids : WF_vars(ThreadStep(i) /\ UNCHANGED faults)
    /\ WF_vars(Boot)

Spec     == Init /\ [][Next]_vars
FairSpec == Spec /\ Fairness
-----------------------------------------------------------------------------
(* Properties.                                                             *)

\* finish_runtime_dispatch, fail_direct_turn and cold_recover each settle the
\* rows they own in one transaction, so no interleaving of threads, crashes and
\* recoveries leaves the dispatch, the answer event and the direct turn of one
\* identity telling different outcomes.
AnswerAgrees(i) ==
    /\ dispatch[i] \in OpenDispatch <=> answer[i] = "open"
    /\ dispatch[i] \in TerminalDispatch => answer[i] = "final"
TurnAgrees(i) ==
    /\ dispatch[i] \in OpenDispatch => turn[i] = "running"
    /\ dispatch[i] = "completed" <=> turn[i] = "succeeded"
    /\ dispatch[i] = "cancelled" <=> turn[i] = "cancelled"
    /\ dispatch[i] = "failed" => turn[i] \in {"failed", "interrupted"}
    /\ turn[i] \in TerminalTurn => answer[i] = "final"
SettlementAgrees ==
    /\ \A i \in Ids : AnswerAgrees(i)
    /\ \A i \in Turns : TurnAgrees(i)

\* What the threads rely on between two of their transactions: the strengthening
\* that makes SettlementAgrees inductive.  A thread that holds a running turn and
\* has not opened its dispatch finds neither changed by anybody else, and a
\* thread that failed the check for a dispatch still has none.
ThreadAgrees(i) ==
    /\ i \notin Turns => turn[i] = "none"
    /\ worker[i] \in {"claimed", "marked", "rejected", "failing"} => i \in Turns
    /\ worker[i] = "marked" => turn[i] = "running" /\ dispatch[i] = "none"
    /\ worker[i] = "failing" => dispatch[i] = "none"
RequestAgrees ==
    \A r \in Requests : IF rpc[r] = "idle" THEN mine[r] = {} ELSE source[r] \in Posts
SettlementInv ==
    /\ SettlementAgrees
    /\ \A i \in Ids : ThreadAgrees(i)
    /\ RequestAgrees

\* begin_with registers the turn whose dispatch it opened, and finish and
\* cold_recover close what is open: while no call fails, an open dispatch always
\* has a live registry entry, so nothing keeps "running" that nobody drives.
OpenDispatchOwned ==
    up /\ faults = 0 => \A i \in Ids : dispatch[i] \in OpenDispatch => reg[i] = "live"

\* A registered turn that is not terminal still has its open dispatch and its
\* open answer: neither a deletion, a clear, a leaving member nor a second
\* settlement takes the rows away from the thread that will finish them.
LiveTurnOwnsDispatch ==
    \A i \in Ids : reg[i] = "live" => Active(i)

\* A turn that is stored as claimed or running is in the hands of a host thread.
NoAbandonedTurn ==
    up => \A i \in Turns : turn[i] \in {"claimed", "running"} => worker[i] # "none"

\* Rows and threads belong together while nothing fails: a live turn owns its
\* rows, and an open turn its thread, through posts, clears, deletions, leaves and
\* rejected starts.
LiveTurnsAreWhole == LiveTurnOwnsDispatch /\ NoAbandonedTurn

\* A settled dispatch keeps its first outcome: a late finish after a recovery,
\* or a recovery after a finish, never rewrites it.
OutcomeIsFinal ==
    [][\A i \in Ids : dispatch[i] \in TerminalDispatch
                        => dispatch'[i] \in {dispatch[i], "none"}]_vars

\* The compare-and-set guards of the store persist only transitions of the
\* canonical state machine.
ImplementsTurnLifecycle == Lifecycle!Spec

\* Every opened dispatch settles, by its thread or by the recovery after a
\* crash, unless a store call failed.
DispatchSettles ==
    \A i \in Ids : dispatch[i] \in OpenDispatch
                      ~> (dispatch[i] \notin OpenDispatch \/ faults > 0)

\* Every dispatch request answers.
RequestAnswers == \A r \in Requests : rpc[r] # "idle" ~> rpc[r] = "done"

=============================================================================
