# A verification project for LicoUp

LicoUp hosts conversations between a human and several agent processes. Its own
core logic is the Conversation runtime: a SQLite store that owns every durable
fact (`crates/licoup-conversation`), a host process that opens, drives and settles
agent turns on threads (`bin/licoup/stdio_rpc/server/conversation.rs`), a service
that turns a posted message into turns (`domain/client_conversation/service.rs`)
and a Subagent MCP server through which agents delegate to each other
(`domain/subagent_mcp`). Around it stand the engine that runs strategies
(`domain/adaptive_flywheel`), the host of the Assistant's Goals
(`domain/assistant_continuity`), the cache of remote tool catalogues
(`crates/lico-catalog-convergence`) and the update of the client itself
(`client_update`, `client_state_migration.rs`). This directory models these parts
in TLA+, checks them with TLC on small instances and proves the central invariants
with TLAPS.

`PROJECT.json` lists the components, the runs, the lines every definition models,
the hazards, the findings and the theorems.

## 1. Inventory

| Component | State | Operations | Hard behaviour | What makes it correct |
|---|---|---|---|---|
| Turn state machine (`state_machine/mod.rs`) | `TurnState` | `transition` | terminal states absorb | only its edges are ever stored |
| Conversation store (`store/mod.rs`) | `direct_turns`, `conversation_dispatches`, `events`, `memberships` | enqueue, claim, mark running, prepare, append frame, finish, fail, clear, delete, leave, add | each call is one transaction, threads interleave between them | the rows of one turn never tell different outcomes; an outcome is final |
| Cold recovery (`store/recovery.rs`) | the same rows | `cold_recover`, inside every `ConversationStore::open` | a crash between any two transactions; an opening while a host runs | nothing is left open that nobody drives |
| Dispatch service (`client_conversation/service.rs`) | one request: addressed members, snapshot of active turns, claimed contexts | `dispatch_posted_message`, `execute_direct_turns`, `run_direct_turn` | the snapshot is stale when used, phases fail half way | every request answers; no message is silently lost |
| Turn runtime (`server/conversation.rs`) | registry of `PersistentTurn`: high-water cursor, cache, terminal, cancel flag | begin, record, finish, force, abandon, attach, cancel, boundary queue | late outcomes, full registry, eviction under a reader | no replay gap, no outcome before the last frame, no lost cancel request |
| Subagent claims (`store/dispatches.rs`, `subagent_mcp/mod.rs`, `subagent_mcp_host_client.rs`) | `subagent_dispatch_claims` (lineage, state, deadline), watchdog, fired set | claim, start, update, cancel, writeback, reconcile, expire, call back | late handling after a three-second timeout; two authorities for one outcome; watchdog races settlement | one signal per claim; the claim tells the turn's outcome; no claim strands its edge |
| Connection pool (`store/mod.rs`) | idle connections, leases in flight, waiting threads | acquire, release, nested read-back | leases taken while one is held; a wakeup for the wrong thread | never more than the pool, no lost wakeup, somebody who waits is served |
| Strategy runs (`adaptive_flywheel/reducer.rs`, `service.rs`, `store.rs`) | `RunSnapshot`, command leases, drive thread, authorization | start, drive, claim, settle, recover, resume, retry, decide, execute, cancel, revoke | retries against budgets, leases of a dead host, joins and worksets under failures, a cancel during effects | no effect runs twice side by side, budgets hold, a run that is not over can go on |
| Client update and state migration (`client_update/native_runner`, `client_state_migration.rs`) | bundle and backup, handoff, ledger, markers, stores | prepare, move, copy, launch, watch, restore; claim, probe, migrate, mark, record | a script and an admission without a common lock; a stop between any two file operations; two builds at once | no downgrade of state, an interrupted migration continues, the old bundle is kept until the claim |
| Catalogue convergence (`lico-catalog-convergence`, `domain/catalog_convergence.rs`) | cached partitions, pending invalidations, fences, file | invalidate, refresh, reconnect, list, observe, purge, restart | notifications and snapshots late, repeated, contradicting; a write that fails after the memory changed | a listing never goes back, covers every accepted invalidation and is on disk |
| Settlement arbiter (`settlement.rs`) | per-turn settlement | begin, settle | transport closure races the native outcome | first settlement wins |
| Child work (`assistant_continuity/host.rs` over `continuity/`) | Goal (revision, lifecycle, control), cursors: intent, pending, accepted, live, started | commit, append evidence, control, complete; start, reconcile, restore, recover | two threads start one obligation in many transactions; a failure or a restart between any two | one turn for an operation; cursors are true of the turns; what is owed is done |
| Continuity ledger, the rest (`continuity/`) | heads, receipts, agreements, grants, wakes | admit, commit, persist | compare-and-set, replay | one head, idempotent replays |
| Assistant rotation (`store/mod.rs`) | memberships, assistant binding | set, rotate | rotation under live turns | one active assistant |
| Work context (`licoup-agent-runtime/work_context`) | writer, resume fences | open, write, resume | stale writers | one writer |

Interaction. The service and the MCP servers call the store directly or over the
host's local socket, which gives each connection a thread. The service hands
claimed turns to the runtime, which opens the dispatch, drives the lane operation
on a thread of its own, stores frames and settles. A finished background turn
serves the membership's queue on the same thread. Settling a turn also settles the
claim of the same id and signals the caller. Every component that opens the store
runs the recovery. Threads share the store (one transaction per call, over a pool
of connections), the registry and each turn's mutex. The strategy service keeps its
runs in a database of its own and calls the Conversation service for its effects.
The catalogue runtime serves requests of the desktop under one mutex. The continuity
host starts the work of a Goal as turns of a child Conversation through the turn
runtime, and keeps its cursors in the same store. The update script and the
admission of the client's state meet only in files.

## 2. Modules

| Module | Models | Code |
|---|---|---|
| `TurnLifecycle` | the abstract specification: a turn moves along the edges of `transition` | `state_machine/mod.rs` |
| `DirectTurns` | one Conversation: posts, direct turns, dispatches, answers, members; host threads; dispatch requests; crash, restart, reopening | `store/mod.rs`, `recovery.rs`, `service.rs`, `conversation.rs` |
| `DirectTurnsProofs` | theorems about `DirectTurns` | |
| `TurnStream`, `TurnStreamProofs` | one turn: frames, cache, observers, deferred cancellation, settlement in memory | `conversation.rs`, `store/mod.rs` |
| `SubagentClaims`, `MCSubagentClaims`, `SubagentClaimsProofs` | delegation: tool calls, requests on the wire, claims, delegated turns, watchdog and callback | `subagent_mcp/mod.rs`, `subagent_mcp_host_client.rs`, `subagent_mesh.rs`, `dispatches.rs`, `conversation.rs` |
| `ConnectionPool`, `ConnectionPoolProofs` | the pool and the operations that lease twice | `store/mod.rs` |
| `StrategyReducer` | the reducer, as operators from graph, snapshot and event to the next snapshot | `adaptive_flywheel/reducer.rs`, `model.rs` |
| `StrategyRuns`, `MCStrategyRuns`, `StrategyRunsProofs` | one run over the reducer: drive thread, leases, requests, crash; the graphs | `adaptive_flywheel/service.rs`, `store.rs` |
| `ClientUpdate`, `MCClientUpdate`, `ClientUpdateProofs` | bundle, script, handoff, admission of the state | `client_state_migration.rs`, `client_update/native_runner` |
| `ChildWork`, `ChildWorkProofs` | the obligations of one Goal and the threads that start, restore and recover them | `assistant_continuity/host.rs`, `continuity/commit.rs`, `persist.rs`, `lifecycle.rs` |
| `CatalogRuntime`, `MCCatalogRuntime`, `CatalogRuntimeProofs` | engine, file and runtime of the catalogue cache | `lico-catalog-convergence`, `domain/catalog_convergence.rs` |

**DirectTurns.** An identity is a pair of a number (a posted message, or a plain
send) and a member: `direct_turns` is unique per source event and membership, and
the dispatch takes the turn's id. `turn`, `dispatch` and `answer` are the columns
of the three rows; `reg` is the registry; `worker` is the step of the thread that
starts or drives the identity; `rpc`, `source`, `todo`, `mine` and `follow` are the
locals of a `dispatch_posted_message` call. An action is one store transaction with
the memory updates of the same thread around it. `Crash` clears what is in memory
and `Boot` runs the recovery; `ReopenStore` is the same recovery run by another
component over a live host, which `ConversationStore::open` does in the strategy
service and in the Conversation MCP server. A failing call is a `Fault`.

**TurnStream.** `stored` and `high` are the store's and the memory's high-water
marks; a frame that is stored and then fails to bind the session makes them
differ. Cached frames are a set of cursors; eviction drops any prefix, because it
depends on byte sizes the model leaves out. An observer captures a snapshot under
the lock, replays it page by page without the lock and waits on the condition
variable. `keeper` is auxiliary: it records where an unanswered cancel request is,
which the code spreads over a flag and the locals of threads.

**SubagentClaims.** A tool call is the request it waits for; `wire` holds the
requests the host has not answered, also those whose call gave up. A call's name is
used again once nothing of it is on the wire. `update_subagent_claim_state` takes
two steps, as it reads and writes without a transaction (`checked`); a start whose
thread cannot be spawned takes two as well, the second being `abandon_turn`.
`notice` are the steps of the settlement and of the watchdog between reading the
claim and starting the callback. `dispatch` keeps of the delegated turn only what
claims depend on: open, or its outcome; `DirectTurns` models the rest. `count` tells
how often each kind of mishap has happened (`Mishaps`: a request that does not reach
the host, an answer that comes too late, a store call that fails, a member that leaves,
a host that ends, a store opened again); `Most` bounds each kind and `MaxMishaps` all of
them together.

**ConnectionPool.** The pool's mutex makes one round of the loop in `acquire`, and
`release`, one step. `leases` are the live `PooledConnection`s, by thread and depth:
operations that create a conversation, add a member or set a member's access lease
again inside their closure. `notify_one` wakes any one sleeping thread, and a
sleeping thread may wake by itself, as the condition variable allows.

**StrategyReducer, StrategyRuns.** The reducer's operators return a record of
success and next snapshot, as `reduce` returns a `Result`. A command is named by
what its id is hashed from: state, visit, item, candidate, attempt. Guards over
payloads become a `route` that chooses among the edges a guarded transition has.
`lists` are the item lists in the input of the run. `schedule_workset` reads the list of
its workset again at every settlement (`List`), refuses one that is too long, names an
unknown predecessor or has a cycle (`ListIsValid`; an item without an identifier of its
own is refused in the same way), and counts the items that have succeeded against its
length (`WorksetSatisfied`). A success first merges its output, which may replace any
list by any other of the graph's (`Merge`). `merge_run_context` lets the output of the
greatest command identity win; identities are hashes, so the model lets any output win
or lose, which is at least what the code does. `rewritten` is history: an output has
taken away or changed an item that a workset has issued in its present visit
(`Rewrites`); lists that only grow, or change elsewhere, leave it alone.
In `StrategyRuns` an action is one write transaction; a request is its event and
then, as a step of its own, `start_drive`. `pc`, `hand`, `batch` and `reclaim` are
the drive thread, `live` the leases that have not expired, `owed` what a cancel
request still has to settle, `caller` the Assistant's execute call, which polls.

**ClientUpdate.** A step is one file operation, since the machine can stop between
any two. `pc`, `ver`, `mem` and `plan` are the admissions of native processes, which
run on when their client is gone; `gui` is the client that holds the instance lock,
`script` the Linux update script, of which one runs at a time (a handoff that exists
is never replaced). `restore_pre_claim`'s removal and move of the bundle are one
step. `overtaken` is history: a build was admitted while a client of an older one
was ready. The conversation database (`Creating`) is created by its migration: a file
first, then statements that commit one by one, the row with the version last
(`CreateStore`, `VersionStore`); in between it is `partial`, which no probe accepts. A
store that is `outdated` is current by its version and has an inner schema of an earlier
build, which the admission upgrades before it reconciles the ledger (`UpgradeStore`). A
frontier is its set of domains: `migration_handler_target` knows one
edge per domain.

**CatalogRuntime.** One request is one step, as the runtime serves all of them under
a mutex. A refresh that could not be written is its own action with both outcomes
of the file. A process that ends between the replacement in memory and the write
leaves the same state as one that ended before the request. `shown`, `accepted` and
`halfPurged` are history. `refresh_partition` and `mark_disconnected` are used only
by the crate's tests and are left out.

**ChildWork.** A revision names the obligation, its operation and its dispatch, as
the identifiers are derived from it. `intent`, `pending`, `accepted`, `started` and
`live` are the named cursors of the Goal, `dispatch` the rows of the child
Conversation's turns, `named` the turns of the registry whose native identity is
known. `pc` and `my` are the position and the locals of the two threads that run
`start_admitted_child_work`; a step is one transaction, since no lock spans two.
`launched` counts the threads a turn got and is history. `bindable` says whether
`bind_live_child_control` finds a work runtime for the recipient's agent, which it does
for Codex and Pi alone; where it does not, `start_admitted_child_work` ends in an error
after the turn was accepted, and `restore_admitted_live_operation` writes nothing. The
recipient does not change, and lifecycles that are not over are one value,
because only `is_terminal` is asked. Evidence is appended by anybody at any time:
how a settled turn becomes evidence is left out.

## 3. Runs

Nine passing runs and three that show a disagreement. With two workers each ends
within about three minutes; the passing runs fire every action and reach between 10^4 and
10^6 states.

| Run | Instance | Shows |
|---|---|---|
| `crash` | one member, two posts, two requests, one fault, one crash, one reopening, registry of two | rows agree, open dispatches are owned, outcomes are final, `TurnLifecycle` is implemented; with fairness, dispatches settle and requests answer |
| `calm` | two members, a post and a send, one leave | without failures no live turn loses its rows and no stored running turn is without thread |
| `replay` | one observer, one canceller, three frames and the accepted one, pages of one, one fault | no gap, no outcome before the last frame, no unstored success, no lost cancel request; with fairness, every stream ends |
| `claims` | one claim, two tool calls of both kinds, a watchdog or none; two mishaps, each of another kind | one signal at most; the claim never tells another outcome than its turn; unless an answer was late, a store call failed, a member left or the host ended, no claim is stranded; with fairness, every delegated turn signals its caller, unless a store call failed, a member left, the host ended or the store was opened again |
| `stranded` (violation) | one call, one timeout | a late claim request strands the edge |
| `pool` | four threads, two of them nesting, two connections, two operations each, one failing open | the pool is bounded, no wakeup is lost, only nested leases can wedge it; with fairness, operations end while fewer nesting operations than connections run |
| `strategy` | eight definitions (fork and join; a workset of up to three items, also one at a time or planned by an actor; a gated script with callbacks), owned by an import or by the Assistant; outputs that make item lists longer, shorter, empty, reordered or invalid; one request, one fault, one crash | outcomes are not rewritten, parallelism is kept; attempt budget, one live attempt, joins and worksets in order, no wedge, doubt is kept and completed runs stay, until an output takes away or changes an item at work; with fairness, drives end and execute calls return |
| `update` | two builds, the newer with a second domain, two native processes, one stop, one fault, one build by hand, two starts | the high-water never falls, interrupted admissions can be repeated unless they left a database between its file and its version row, ready clients run over migrated state, the backup is kept until the claim; with fairness, admissions and updates end |
| `rollback` (violation) | the same without faults | the script restores the old bundle over a claimed handoff |
| `child` | two revisions, two requests (proposal, evidence, control, completion), an agent that can be bound or cannot, one failing call or end of the process | one turn for an operation, true cursors; with fairness, an obligation for an agent that can be bound is met, unless its Goal is suspended or over, as long as no call fails and the process does not end |
| `child_obligation` (violation) | the same without failing calls | an obligation for an agent that cannot be bound is never met |
| `catalog` | two keys, room for one, two revisions of each kind, a conflicting and a malformed snapshot | listings never go back, cover accepted invalidations and are durable; purged partitions stay purged; the engine is bounded |

Why the bounds are enough. The hazards are races of two parties over one turn (two
requests, or a thread and a recovery), so two requests and one or two posts reach
them; the registry of two is full with two live turns and evicts with one settled.
A replay needs a page that is not the last, a frame evicted between two pages, and
a frame after the capture: three frames with pages of one. Faults, crashes
and reopenings are bounded by one: each is a transition from an arbitrary reachable
state. The mishaps of `claims` are two of different kinds, since what a second call meets
is left by the first: a lost request and a second opening, a late answer and a crash.
Lineages of more than one claim and two late answers do not occur in this instance, and
neither does a lane operation that fails by itself; they are covered by the proofs of
the invariants.

A wedge of the pool needs as many nesting operations as connections, and a lost
wakeup a waiter beside them: two connections, two nesting threads and two others
(the code's pool of four is the same argument with larger numbers, and is covered
by the proof). Strategy graphs are chosen so that each state kind, each retry and
fallback rule and both owners occur, and the lists of a workset so that one of them is
a part of another, one reorders it, one is empty and the rest are refused; one request
per run is enough because a request is a transition from any reachable state of a
drive. The update needs an old and a
new build and a domain that only the new one has; two starts by the user bring an
overlap of builds, and an orphan admission a second process. Catalogue revisions are
compared only, so two of each kind and two keys with room for one give stale, equal,
newer and conflicting pairs and a full engine. A Goal needs an older and a newer
obligation and two threads over one of them: two revisions, and two requests to make
them. The safety properties of `child` are proved for all bounds.

Deadlock checking is off but in `catalog`: elsewhere the environment (posts,
requests, claims, starts) is bounded and the system may come to rest.

Each property of a passing run has a mutant: a definition is replaced by a form
with a plausible bug (comments "Mutated form" and "Mutant of") and TLC must report
the property. Where several small invariants make one point they are checked as one
conjunction: `LiveTurnsAreWhole`, `StreamIsWhole`, `ClaimsAgree`, `PoolIsShared`,
`RunInv`, `LineagesInv`, `GraphIsFollowed`, `DrivesReturn`, `EngineInv`.
Elsewhere, where type correctness is proved no run repeats it.

### Fairness

- `DirectTurns`: weak fairness of each request's and each host thread's next step
  and of `Boot`. Threads of the host are scheduled by the operating system and hold
  no lock while they wait for one another; a lane operation ends by itself or by the
  dispatch timeout policy; a host that died is started by the next client.
- `TurnStream`: weak fairness of the driving thread and of observers, which
  run on their own threads. Nothing is assumed of clients.
- `SubagentClaims`: weak fairness of the steps of delegated turns (end of the lane
  operation, notification, callback). Tool calls, timeouts and the expiry of a
  watchdog are not assumed to happen.

- `ConnectionPool`: weak fairness of a thread's next step inside `acquire` or of
  dropping its lease. A failing open, a new operation and a spurious wakeup are not
  assumed.
- `StrategyRuns`: weak fairness of the drive thread, of `start_drive` after a
  request's event, of the caller's poll and of the rest of a cancel request: each is
  the code of one running thread. Effects end because dispatches do (`DirectTurns`).
  Requests, crashes and the expiry of leases are not assumed.
- `ClientUpdate`: weak fairness of each admission's next file operation and of the
  script's next command; strong fairness of taking the admission lock, which the
  kernel's file lock gives a waiter when holders come and go; and of the exit of a
  client that has applied an update, which exits by itself. Nothing is assumed of
  users, faults or stops.
- `ChildWork`: weak fairness of the next step of each call, of the end of a turn
  (`DirectTurns`) and of the attendance, whose thread wakes periodically and in every
  round looks at all obligations; a review it is held by is assumed to come back.
  Failing calls and the end of the process are not
  assumed.
- `CatalogRuntime` has none: it only answers requests.

In all of them, fairness is of steps in which no call fails, so no property holds
because a failure is forced. `DispatchSettles` excludes executions with a failing store call, since
`force_terminal` leaves the row to the next recovery by design.

## 4. Findings

Three disagreements between the code and its documents have a run; quotes and lines
are in `PROJECT.json`.

1. `stranded`: a claim handled after the call's timeout blocks its edge for good.
2. `rollback`: the script tests for the claim, looks for the candidate and restores
   in separate commands, so the old bundle comes back, or the new one is deleted,
   after a claim. A client the user starts between the copy and the script's own
   start is enough.
3. `child_obligation`: for an agent without a work runtime a start that was accepted is
   never recorded, so that the obligation stays the oldest of its Goal and keeps every
   newer one waiting. No failure is needed.

The following were met while modelling; the models contain the behaviour and the
properties are stated so that they hold beside it.

Conversation runtime:
- Cold recovery "for a host terminated during a turn" also runs when another
  component opens the store, and fails the live turns of a running host.
- Recovery finds turns only through their dispatch: one claimed but not yet
  dispatched at the crash stays `claimed` or `running`. `NoAbandonedTurn` is checked
  without crashes (as part of `LiveTurnsAreWhole`).
- The snapshot of active turns is stale when a follow-up is queued
  (`service.rs:1072`): a message queued behind a turn that has just finished is not
  served until the next one.
- A dropped frame does not fail the turn that returned normally.
- A cancel request put back before the session is bound waits for the next frame
  (`server/conversation.rs:449`).
- Recovery settles all claims before the watchdogs are re-armed, so a restart drops
  the timeout callback.
- The writeback skips `running -> cancelled`, so a claim may stay open past its turn
  until the edge is used again or the host restarts; and it may meet a newer claim
  of the same edge (`dispatches.rs:267`).
- As many nested leases as connections wedge the pool (`OnlyNestingWedges`).

Strategies:
- `settle_success` ignores the status of the run, and a fallback after a cancel may
  take a cancelled run up again, so only `completed` is final
  (`docs/functionality/ADAPTIVE-FLYWHEEL.md:181` promises it of every terminal state).
- After a crash, an execute call that is repeated polls a run nobody drives
  (`ADAPTIVE-FLYWHEEL.md:197`); `ExecuteReturns` is stated for a host that stays up, and
  `NoWedge` of an Assistant's run for one without a crash: `recover_leased_command` fails
  the command (`store.rs:1078`), what recovers a failed effect is skipped for an
  Assistant's run (`service.rs:1204`), and a command that has a fallback left is then
  neither replaced nor final.
- The item list of a workset is replaced while items of it run (`reducer.rs:628`,
  `:1283`, `:1911`). When the list loses an item that is at work, the number of items that
  have succeeded meets its length early: the workset is left and the run may complete
  with that item running, and its late success sets the completed run to `running` again.
  When it loses an item that has succeeded already, the numbers may never meet: nothing
  is ready, no command is left, the run stays `running` and an execute call polls for
  ever. The model does all of this; `GraphIsFollowed`, `LineagesInv`, `NoWedge`,
  `SettledStays` and `ExecuteReturns` are stated for executions up to the first output
  that takes away or changes an item at work (`rewritten`), and hold under every other
  change of a list. `ADAPTIVE-FLYWHEEL.md:90` allows the merge and says nothing of the
  items at work.
- A fork with an authorization in one branch that is entered before another branch loses
  the status `authorization-required` to the entry of the other. The drive
  (`service.rs:1208`) and a resume (`service.rs:371`) look at the status alone, so the
  authorization is not granted any more. The graphs checked have none in a branch, and
  `NoWedge` counts a pending authorization only while the run asks for it.
- A callback decided with `return` in front of a join waits for a branch that will
  not arrive again (`reducer.rs:616`); the graphs checked have none.
- `ADAPTIVE-FLYWHEEL.md:216` says that "an initial join ... is rejected". The compiler
  counts the transitions into a join and does not look at `initial` (`graph.rs:392`): it
  accepts a graph that starts at a join whose one predecessor is behind it in a loop.
  `start_run` enters the join over none of its edges, and the run is `waiting` with no
  command and no decision to wait for. A graph may start inside a branch as well.
- `start_drive` finds the run reserved by a drive that is about to end and leaves
  the new event undriven until the next request (`service.rs:1128`).

Child work:
- An obligation whose turn ended before its start was recorded is never cleared:
  `reconcile_registered_child_work` returns, and as the oldest it keeps every newer
  one waiting. For an agent that cannot be bound this is the rule (`child_obligation`);
  for Codex and Pi a call that fails, or a process that ends, between the registration
  and `record_child_work_started` is enough. `ObligationIsMetWithoutFaults` says that
  nothing else is. `docs/architecture/CONTINUOUS-ASSISTANT.md` (section 9) says that
  recovery "first reconciles prior effects, then schedules a new admitted step".
- The control is read in the first transaction of a start, so a turn may start after
  a cancellation was requested (section 8: "A cancellation request blocks new work
  immediately").
- A turn whose response mode is refused stays open without a thread; the next round
  takes it for running and records its start.
- Two appliers of one settlement (the hook and the attendance) look for the evidence
  and append it in two transactions; both may append (not modelled).

Client update:
- A handoff left pending (the script ended under `set -e`) or claimed (the machine
  stopped) refuses every build but the one it names, newer ones too
  (`client_state_migration.rs:383`).
- A stop between the creation of the conversation database and its version row
  (`licoup-conversation/src/store/mod.rs:3604-3623` commits statement by statement) leaves
  a database that `probe_sqlite_meta` ends in `unsupported_state_shape` for
  (`client_state_migration.rs:899-926`), at every later admission and before anything
  could repair it. `docs/architecture/CLIENT-UPDATE-AND-STATE-MIGRATION.md:50` says
  "Recovery is forward-only: reinstall the same verified capable build or a newer signed
  build and retry admission", and `:36-39` that each durable step commits through its
  owning database transaction. `RestartIsAdmitted` names this exception and, by the proof,
  there is no other. A ready client that is stopped while it creates a database leaves
  the same.
- A frontier with two steps for one domain would make `reconcile_ledger` record
  steps that were not taken; no frontier has one.
- A build admitted under a ready client of an older one leaves the older client
  writing stores: `RestartIsAdmitted` excludes these executions by `overtaken`.

Catalogue cache:
- A notification at the cached revision, or a reconnect, blocks a partition until
  the remote revision changes: a refresh at the same revision lifts nothing.
- Pending invalidations are lost at a restart, and a fence after it is lifted by any
  newer snapshot.
- A pull that ends after a purge creates the partition again; an invalidation during
  a pull is joined to it and the partition stays blocked after it.
- `observe` records the revision at the time of the call, not the one listed.

## 5. Proofs

### Turns

`DirectTurnsProofs` proves, for every set of members, posts, sends and requests and
every bound, from the two named assumptions of `DirectTurns` (posts and sends are
disjoint sets of naturals; the bounds are naturals and the registry holds at least
one entry):

| Theorem | States |
|---|---|
| `TypeCorrect` | `Spec => []TypeOK` |
| `SettlementCorrect` | `Spec => []SettlementInv` |
| `OutcomeStays` | `Spec => OutcomeIsFinal` |
| `RefinesTurnLifecycle` | `Spec => ImplementsTurnLifecycle` |
| `OpenDispatchIsOwned` | `Spec => []OpenDispatchOwned` |
| `OnlyReopenTakesRows` | `Spec => [](reopens = 0 => LiveTurnOwnsDispatch)` |
| `OnlyFailuresAbandon` | `Spec => [](crashes = 0 /\ faults = 0 => NoAbandonedTurn)` |
| `LiveTurnsStayWhole` | `Spec => [](crashes = 0 /\ reopens = 0 /\ faults = 0 => LiveTurnsAreWhole)` |

The argument. `SettlementAgrees`, the property, is not inductive: a thread that
found no dispatch (`failing`) and then fails the turn would break it if somebody
opened the dispatch in between, and a thread about to open a dispatch (`marked`)
relies on the turn still being running. `ThreadAgrees` says what a thread may rely
on between two of its transactions, `RequestAgrees` that a request past its first
step has a source, so that only direct turns enter its lists. Both are local to an
identity, so a step is proved for the identity it changes and the others follow
from `SettlementIsLocal`. Refinement needs the same invariant: `SettlementInv`
excludes that a finish or a recovery meets a turn in a state without an edge to the
outcome. `OutcomeStays` follows from the guards of the finishing actions;
`OpenDispatchIsOwned` needs that eviction never takes a live registry entry
(`EvictionKeepsLive`).

`LiveTurnsAreWhole` is false in general: a crash or a failing call abandons turns, and a
second opening of the store takes rows from live threads (section 4). The last
three theorems say that nothing else does. Their premises are over the counters of
the specification, so they speak of every execution up to its first such event, and
the two halves need different ones: rows survive crashes and failing calls
(`RowsKept`, with `RegistryIsMemory`: a host that is down has no registry), and threads
survive a reopened store (`HeldBy`: every open turn is held by a thread or by a request
that will start or fail it). The run `calm` checks the case of all three.

### Frames and observers

`TurnStreamProofs`, for any number of frames, observers, cancel requests and faults and
any cache size, from the assumptions of `TurnStream`:

| Theorem | States |
|---|---|
| `StreamsAreWhole` | `Spec => []StreamIsWhole` |
| `ReplayHasNoGap` | `Spec => []NoReplayGap` |
| `ToldIsDurable` | `Spec => []ToldOutcomeIsDurable` |
| `CancelStays` | `Spec => []CancelIsRetained` |

`StreamInv` relates what the driver has stored to what the memory knows
(`DriverCounts`), says that the cache is the newest part of `1..high`
(`CacheIsNewest`), and what an observer may rely on after it has let go of the lock
(`ObserverKnows`): its snapshot is whole, so that a cache hit covers everything from
its cursor to the captured mark (`SnapIsWhole`), its cursor is behind that mark, and a
captured terminal came with the last mark there will ever be. The last is what makes
the outcome come after the frames, and it holds because nothing is stored once the
terminal is set. `CancelIsRetained` is inductive with the types: each compare-and-set
and put-back moves a request between the flag and one thread.

### Delegation

`SubagentClaimsProofs`, for any members, calls, edges and tools and any number of
claims and mishaps, from `ClaimsAssumption`:

| Theorem | States |
|---|---|
| `ClaimsTellTheOutcome` | `Spec => []ClaimsAgree` |
| `SignalledOnce` | `Spec => []OneSignal` |
| `OnlyHarmStrands` | `Spec => []EdgesAreFreed`, where `EdgesAreFreed == Unharmed => NoStrandedEdge` |

`ClaimTellsOutcome` depends on which requests may still be on the wire, because a late
update writes without looking again. `ClaimsInv` says what each of them relies on
(`MessageKnows`): a turn that may still be started has no outcome and neither has its
claim, and a call reports a failure only when it knows that no turn was started and no
request to start one is left; the turn of a claim is requested once
(`SendsAreUnique`). A step of the store keeps this when it is calm under the requests
that stay (`Calm`, `Undisturbed`), and the lemma `RequestsKnow` is where all steps meet.

`OneSignal` rests on two guards in one life of the host (`fired`, and one notice each of
settlement and watchdog) and across a restart on what is left: a crash forgets which
callbacks were fired, but also every notice, and the recovery at boot settles all claims
of started turns before the watchdogs are armed again (`Quiet`). The proof shows that
`rearm_persisted_watchdogs` therefore never finds a claim to arm.

`NoStrandedEdge` is false when an answer is late (the run `stranded`), after a crash and
when a member leaves under a start. `Unharmed` leaves these out and keeps everything
else, also one request that does not reach the host; a second one is lost together with
the report of the first and strands the claim, so the premise is as weak as it can be
in that count. Under it every call waits for the one request it has on the wire
(`CallsWait`), and an open claim without a turn has a request there that starts the turn
or gives the claim up (`EdgeKnows`): the states after `claimed` and the requests that
write them are reached only after the turn was started (`RequestIsSound`), and
`update_subagent_claim_state` never refuses to fail an open claim.

### Connection pool

`ConnectionPoolProofs`, for every finite set of threads and every pool size, from
`PoolAssumption`:

| Theorem | States |
|---|---|
| `PoolCorrect` | `PoolIsShared`: `PoolIsBounded`, `NoLostWakeup` |
| `OnlyNestingWedges` | `WedgeIsNested` |

`PoolIsBounded` and `NoLostWakeup` need each other, and `LeasesNest`: a release
frees a slot and wakes one thread, and a thread that goes to sleep has seen no free
slot. The steps are about cardinalities, so each action is a lemma on how it changes
`leases`, `awake` and `asleep`. A wedge then has `inFlight = PoolSize` and all leases
at depth one held by sleeping, hence nesting, threads.

### Client update

`ClientUpdateProofs`, for any versions, domains, frontiers, processes and bounds, from
`UpdateAssumption` (versions are positive, "none" is no process, a newer frontier contains
the older ones, which `validate_candidate_frontier` enforces):

| Theorem | States |
|---|---|
| `UpdateTypes` | `Spec => []TypeOK` |
| `InterruptedIsAdmitted` | `Spec => []RestartIsAdmitted` |
| `HighWaterRises` | `Spec => HighWaterIsForward` |
| `ReadyOverMigrated` | `Spec => ReadyIsMigrated` |
| `BackupOutlivesDoubt` | `Spec => BackupKeptUntilClaim` |

`RestartIsAdmitted` says that a build which is not older than the high-water is admitted,
unless one of its stores is a database that an interruption, or an admission still at
work, has left half created (`CreationInterrupted`). That a half-created database comes
from nothing else is an invariant of its own (`Creations`): an admission that has left
the step `apply` has written the version row, and only a stop or a failing process takes
it away from that step.

None of these properties is inductive. `IInv` adds: one process is past the lock
(`Mutex`), so the ledger it loaded is the ledger on disk (`Copies`); recorded domains
have markers and markers are in the frontier of the high-water (`Marked`); no store
contradicts its marker and no ready client is behind the high-water, unless
`overtaken` (`Supported`); what is planned is not marked, what is not planned is
recorded (`Plans`) and current (`Migrated`), and inner schemas are upgraded before the
plan is carried out. `Migrated` holds for a client's own
admission also after an overtaking, because a client that is being admitted writes
no stores. The steps of the client and the script are one lemma (`ElsewhereStep`),
those before the ledger is loaded another, those that return a third.

`BackupKeptUntilClaim` needs that an admission about to drop the backup still finds its
claim on disk (`Claimed`, `ClaimStands`). Proving it refuted an earlier form of the
property: with four starts an orphan of an earlier client can remove a pending handoff,
after which two updates overlap and a late failure to dispatch removes the claim of the
second before its build drops the backup. No script is then left that would restore the
bundle, so nothing is lost, and the property now names this case (no handoff, and the
script off or at its last step).

### Child work

`ChildWorkProofs`, for any number of revisions, requests and faults, from
`ChildWorkAssumption` (a request makes at most one revision):

| Theorem | States |
|---|---|
| `StartsOnce` | `Spec => []OneStart` |
| `CursorsAreTrue` | `Spec => []CursorsAgree` |

Neither is inductive: a call writes the cursors of an operation it learnt of several
transactions before. `WorkInv` adds what a call may rely on at each of its steps
(`CallKnows`: it has an operation, one that is registered, or one that is accepted)
and what a turn's thread may (`TurnKnows`: its dispatch is open, and it writes the
live cursor only of an accepted operation), that a turn with a thread is registered
(`LaunchIsRegistered`) and that the Goal's revision exists (`GoalIsAsked`). These
facts last because registrations and acceptances are never taken back. All steps of
a call that write cursors at most follow from one lemma (`CallKeepsWork`);
registration, the turns, the requests and the end of the process have their own.

### Catalogue cache

`CatalogRuntimeProofs`, for any finite set of keys, any snapshots and notices, from
`CatalogAssumption`:

| Theorem | States |
|---|---|
| `ListingsGoForward` | `Spec => []ListedIsForward` |
| `ListingsCoverInvalidations` | `Spec => []ListedCoversInvalidations` |
| `ListingsAreDurable` | `Spec => []ListedIsDurable` |
| `EngineIsConsistent` | `EngineInv`: `TypeOK`, `PurgedStaysPurged`, `CohortTellsState`, `ObservedIsBehind`, `EngineIsBounded` |
| `OnlyNewerUnblocks` | `Spec => UnblockedByNewer` |
| `EngineStaysBounded` | `Spec => []EngineIsBounded` |

The inductive invariant adds that the file holds well-formed snapshots, that a
partition without fence is in the file (`UnfencedIsDurable`), that what was listed is
covered by the cached snapshot, or by the file when the partition is fenced
(`ShownIsCovered`), and that an accepted invalidation is either covered or still
pending (`AcceptedIsKept`). The bound is proved from cardinalities: an invalidation
adds at most what `Room` leaves, a refresh moves one key from tracked to cached.

### Strategy runs

For every graph and any number of requests, faults, expired leases and crashes:

- `RunStaysWithinLimits`: the state of a run is typed, and no more of its commands are
  claimed or running than `max_parallelism`.
- `OutcomesAreFinal`: a command that succeeded, was cancelled or is in doubt stays so.

And, until an output takes away or changes an item at work (`rewritten`), whatever else
outputs make of the lists:

- `LineagesStayWithinBudget`: no lineage gets more commands than `maxAttempts`, and one
  of them at most is open or waits for a retry or a fallback.
- `RunsFollowTheGraph`: a join is passed once per visit of its branches and only after
  each of them has been left, workset items are issued after their predecessors on the
  list have succeeded, and a workset is left when nothing of its visit is open any more.
- `SettledRunsStaySettled`: a command in doubt stays so and its lineage gets no other
  attempt; nothing changes a completed run.

The assumption on a graph is `Compiled`, what `compile_workflow_inner` has ensured
before a run is created: finitely many states, edges between them, an edge to leave
every automatic state and both edges of every effect (`StateEdges`), positive limits,
finite item lists for every workset (`Worksets`), and parallel regions
(`ParallelRegions`). A `Branch` is what its start reaches without passing a join, which
the code collects with a queue; here it is the least closed set, so that facts about
branches are proved without an induction over paths. TLC evaluates `Compiled` on the
graphs of `MCStrategyRuns`.

`claim_next_command` compares the number of *live* leases with the limit, while a crash
leaves claimed commands behind whose leases have run out. The bound therefore rests on
`LeasesHeld`: from the end of the recovery on, every held command has a live lease, so
that what is counted is all there is. This needs that nothing but `ClaimNextCommand`
makes a command held, that a command handed to `start` is not pending any more, and
that leases end only while nobody drives.

The proof is made of one fact per event of the reducer: from a `Snapshot` it yields a
`Snapshot`, and `Keeps` holds between the two (no command is lost, becomes held or
becomes pending again, no final outcome changes). A new command must not replace an old
one of the same name, which is why a snapshot says that commands are of visits there
have been. The chains of automatic states are drained by a recursive function
(`Drained`); the library's induction theorems cannot be instantiated by the installed
provers, so that its existence and what its values have in common are proved from the
least number for which they fail (`LeastNumber`, from the well-foundedness of the
naturals), and likewise for the branches of a fork.

The last three theorems need more than types, since their properties hold only because
a state is active for one visit at a time: a fallback takes the current visit of its
state, so that a graph which enters a state twice side by side would break them. The
invariant `FitInv` says so in two parts, until an item at work is rewritten.

- `Tokens`: the places of a run are its active states, the states whose callback waits
  for a decision, and the branches that have arrived at a join. Any two of them, and
  the states a reduction is about to enter, are in different branches of one fork
  (`Apart`); a join has been visited less often than a branch that still has a place
  (`Joined`); a completed run has no place left (`Over`). A step from a state of a
  branch stays in it or goes to the join of its region, which is why the places stay
  apart; a join that is passed leaves one place and takes up those of all its branches.
- `Sound`: a command that stands (open, waiting for a retry, in doubt, or failed with a
  candidate left) is of the present visit of an active state, and nothing else of its
  lineage stands or has succeeded; what is used up of a lineage is the number of its
  commands; items are on the list and are issued in its order, which a list that keeps
  what is at work does not change. A state is entered when it is no place of the
  run, hence nothing of it stands, and the new visit has no commands yet.

Every event is shown to lead from a snapshot that is `Fit` to another, through the
`Work` steps of the automatic states as before (`Fits`), and to leave the lineages in
doubt alone (`LeavesDoubts`). For a completed run there is no place and so no command
that stands, and every event is refused or returns the snapshot it was given.

### Only model-checked

The liveness properties (`DispatchSettles`, `RequestAnswers`, `ObserverEnds`,
`CallerIsSignalled`, `OperationEnds`, `DrivesReturn`, `AdmissionEnds`,
`UpdateConcludes`, `ObligationIsMetWithoutFaults`), which are out of the prover's reach, and
of `StrategyRuns` the invariant `NoWedge`. `NoWedge` is not true of every graph the
compiler accepts: a run that starts at a join, or returns to one, waits for ever (see
the findings above), nor after an output has taken away items at work. It holds of the
graphs of `MCStrategyRuns`, with lists that grow, shrink and change around it.

## 6. Plan

1. `StrategyRuns`: `NoWedge` under conditions on the graph that the compiler does not
   check: no initial join, no callback edge at a join, no initial state inside a branch.
2. Delegation: that lineages stay paths of bounded depth needs an induction over
   ancestors.
3. `Settlement` (the arbiter of `settlement.rs` over `TurnLifecycle`), the rest of the
   continuity ledger (an abstract one-head register, and the commit protocol of
   `continuity/` shown to implement it under replays; settlements, wakes and their
   reviews beside `ChildWork`), `AssistantRotation`, `WorkContext`.

## 7. Not modelled

`PROJECT.json` gives the reason for each component. The repository is far larger than
these modules: most of its lines are adapters to third-party agents, parsers of their
streams, transports, HTTP gateways, command tables, read models and the desktop user
interface, which keep no protocol state of their own. What they answer is a
nondeterministic input of the modules here. Of the modelled components are left out:
the validation of strategy graphs beyond `Compiled`, downloading and verifying releases,
the macOS and Windows update scripts, strategy addressing and continuity hooks of the
dispatch service, and of the continuity host the interpretation of messages, the
application of settlements, wakes and reviews.
