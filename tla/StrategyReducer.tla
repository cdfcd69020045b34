---------------------------- MODULE StrategyReducer ----------------------------
(***************************************************************************)
(* The reducer of strategy runs (adaptive_flywheel/reducer.rs): pure       *)
(* operators from a compiled graph, a RunSnapshot and an event to the next *)
(* snapshot.  A graph g is a record                                        *)
(*   initial, kind[state], edges (a sequence of [from, to, on, mode]),     *)
(*   workset[state] (its id), lists[id] (the item lists that the input of  *)
(*   the run or an output may give it), maxItems (limits                   *)
(*   .max_workset_items), attempts (limits.max_attempts), parallel         *)
(*   (limits.max_parallelism), retry (RetryPolicy.max_attempts), anyClass  *)
(*   (~transient_only), transient (after_transient_attempts), onQuota,     *)
(*   candidates (bindings per slot).                                       *)
(* Retry policy and slot are the same for every state of a graph.  An item *)
(* list is a function from its items to the sets of their predecessors.    *)
(* Guards over payloads are abstracted to a route: the edge each guarded   *)
(* transition takes in one reduction.                                      *)
(***************************************************************************)
EXTENDS Naturals, Sequences, FiniteSets

CONSTANT None   \* no item, no predecessor, no failure

\* Statuses of a run and of a command.
Settled == {"completed", "failed", "cancelled", "blocked", "cancel-in-doubt"}
Unstarted == {"pending", "claimed", "retryable"}
Open == {"pending", "claimed", "running"}
Held == {"claimed", "running"}

\* The function f with the value v at every member of xs.
PutAll(f, xs, v) == [x \in DOMAIN f \cup xs |-> IF x \in xs THEN v ELSE f[x]]

States(g) == DOMAIN g.kind
Edges(g) == {g.edges[i] : i \in 1..Len(g.edges)}
From(g, st, on) == {e \in Edges(g) : e.from = st /\ e.on = on}
Predecessors(g, st) == {e.from : e \in {d \in Edges(g) : d.to = st}}
Starts(g, fork) == {e.to : e \in {d \in Edges(g) : d.from = fork}}
Branches(g, st) ==
    LET upTo[n \in 0..Len(g.edges)] ==
            IF n = 0 THEN <<>>
            ELSE IF g.edges[n].from = st THEN Append(upTo[n - 1], g.edges[n].to)
                                         ELSE upTo[n - 1]
    IN  upTo[Len(g.edges)]

\* What compile_workflow has ensured of every graph a run is started with.  Edges
\* lead from state to state, an automatic state can be completed, an effect can
\* succeed and fail, the branches of a fork have targets of their own.
AutomaticKinds == {"pass", "choice", "join"}
EffectKinds == {"authorization", "actor", "script", "workset"}
EndKinds == {"succeed", "fail", "blocked"}
Kinds == AutomaticKinds \cup EffectKinds \cup EndKinds \cup {"fork"}
StateEdges(g) ==
    /\ \A st \in States(g) :
          /\ g.kind[st] \in AutomaticKinds => From(g, st, "complete") # {}
          /\ g.kind[st] \in EffectKinds =>
                From(g, st, "success") # {} /\ From(g, st, "failure") # {}
          /\ g.kind[st] = "fork" => Cardinality(Starts(g, st)) >= 2
    /\ \A i, k \in 1..Len(g.edges) :
          /\ g.kind[g.edges[i].from] = "fork"
          /\ g.edges[i].from = g.edges[k].from /\ g.edges[i].to = g.edges[k].to
          => i = k

\* The parallel regions of a graph.  A branch is what can be reached from its start
\* without passing a join: the least set that holds the start and is closed under
\* the edges to other states than joins.  It is entered from the fork alone, left
\* from one state for the join of the region, and holds no fork, join or end; the
\* join is reached from the branches alone.  Every other join has one predecessor.
Branch(g, st) ==
    {x \in States(g) : \A B \in SUBSET States(g) :
        st \in B /\ (\A e \in Edges(g) : e.from \in B /\ g.kind[e.to] # "join" => e.to \in B)
            => x \in B}
Exits(g, st) == {x \in Branch(g, st) : \E e \in Edges(g) : e.from = x /\ g.kind[e.to] = "join"}
Region(g, fork, join) ==
    /\ g.kind[join] = "join"
    /\ Predecessors(g, join) = UNION {Exits(g, st) : st \in Starts(g, fork)}
    /\ \A st \in Starts(g, fork) :
          /\ Predecessors(g, st) = {fork}
          /\ \E exit \in Branch(g, st) : Exits(g, st) = {exit}
          /\ \A x \in Branch(g, st) :
                /\ g.kind[x] \notin EndKinds \cup {"fork", "join"}
                /\ x # st => Predecessors(g, x) \subseteq Branch(g, st)
                /\ \A e \in Edges(g) : e.from = x /\ g.kind[e.to] = "join" => e.to = join
ParallelRegions(g) ==
    /\ \A f \in States(g) : g.kind[f] = "fork" => \E j \in States(g) : Region(g, f, j)
    /\ \A j \in States(g) : g.kind[j] = "join" =>
          \/ \E p \in States(g) : Predecessors(g, j) = {p}
          \/ \E f \in States(g) : g.kind[f] = "fork" /\ Region(g, f, j)
Worksets(g) ==
    /\ \A st \in States(g) : g.kind[st] = "workset" => g.workset[st] \in DOMAIN g.lists
    /\ \A w \in DOMAIN g.lists : \A l \in g.lists[w] : IsFiniteSet(DOMAIN l)
Compiled(g) ==
    /\ IsFiniteSet(States(g)) /\ g.initial \in States(g) /\ None \notin States(g)
    /\ g.kind \in [States(g) -> Kinds]
    /\ g.edges \in Seq([from : States(g), to : States(g),
                        on : {"complete", "success", "failure"}, mode : {"flow", "callback"}])
    /\ StateEdges(g)
    /\ ParallelRegions(g)
    /\ Worksets(g)
    /\ g.parallel \in Nat \ {0} /\ g.attempts \in Nat \ {0}

\* select_transition: unguarded edges are taken, guarded ones as routed.
Guarded(g) == {p \in States(g) \X {"complete", "success", "failure"} :
                  g.kind[p[1]] # "fork" /\ Cardinality(From(g, p[1], p[2])) > 1}
Routes(g) == {r \in [Guarded(g) -> Edges(g)] :
                  \A p \in Guarded(g) : r[p] \in From(g, p[1], p[2])}
SelectTransition(g, route, st, on) ==
    IF <<st, on>> \in DOMAIN route THEN route[<<st, on>>]
                                   ELSE CHOOSE e \in From(g, st, on) : TRUE

\* A command's id is derived from its state, visit, item, candidate and attempt.
Lineage(c) == <<c.state, c.visit, c.item>>
VisitOf(c) == <<c.state, c.visit>>
Cmds(s) == DOMAIN s.commands
Status(s, c) == s.commands[c].status
Used(s, l) == IF l \in DOMAIN s.used THEN s.used[l] ELSE 0
VisitCommands(s, st) == {c \in Cmds(s) : VisitOf(c) = <<st, s.visits[st]>>}
ItemsWith(s, st, statuses) ==
    {c.item : c \in {d \in VisitCommands(s, st) : Status(s, d) \in statuses}}
Mark(s, cs, status) ==
    [s EXCEPT !.commands = [c \in Cmds(s) |->
        IF c \in cs THEN [@[c] EXCEPT !.status = status] ELSE @[c]]]

\* The item lists in the input of a run.
Inputs(g) ==
    {lists \in [DOMAIN g.lists -> UNION {g.lists[w] : w \in DOMAIN g.lists}] :
        \A w \in DOMAIN g.lists : lists[w] \in g.lists[w]}
EmptySnapshot(g, lists) ==
    [status |-> "pending", lists |-> lists, active |-> {}, done |-> {},
     visits |-> [st \in States(g) |-> 0],
     arrivals |-> [st \in States(g) |-> {}],
     used |-> <<>>, pending |-> <<>>, commands |-> <<>>]

-----------------------------------------------------------------------------
(* The Machine: a snapshot, the states still to enter (depth first), the   *)
(* automatic completions queued behind them, and whether every ensure! of  *)
(* the reduction held.                                                     *)

Machine(s) == [s |-> s, enter |-> <<>>, auto |-> <<>>, ok |-> TRUE]
Entering(s, st, pred) == [Machine(s) EXCEPT !.enter = <<<<st, pred>>>>]
Refused(s) == [Machine(s) EXCEPT !.ok = FALSE]

LineageWithinBudget(g, s, l) == Used(s, l) + 1 <= g.attempts
BumpAttemptLineage(s, l) == [s EXCEPT !.used = PutAll(@, {l}, Used(s, l) + 1)]
AddCommand(s, l, c) ==
    [BumpAttemptLineage(s, l) EXCEPT
        !.commands = PutAll(@, {c}, [status |-> "pending", why |-> None])]

NewCommand(s, st, item) ==
    [state |-> st, visit |-> s.visits[st], item |-> item, ordinal |-> 0, attempt |-> 1]
EmitCommand(s, st, item) ==
    LET c == NewCommand(s, st, item) IN AddCommand(s, Lineage(c), c)

\* schedule_workset.  The list is read from the run's input each time.  One that
\* is too long, names an unknown predecessor or has a cycle is refused.  The
\* workset is satisfied when as many items have succeeded in this visit as the
\* list has, otherwise every item that is not issued yet and whose predecessors
\* have succeeded is issued.
List(g, s, st) == s.lists[g.workset[st]]
ListIsValid(g, l) ==
    LET items == DOMAIN l
    IN  /\ Cardinality(items) <= g.maxItems
        /\ \A i \in items : l[i] \subseteq items
        /\ \A X \in (SUBSET items) \ {{}} : \E i \in X : l[i] \cap X = {}
WorksetSatisfied(g, s, st) ==
    LET items == DOMAIN List(g, s, st)
    IN  items = {} \/ Cardinality(ItemsWith(s, st, {"succeeded"})) = Cardinality(items)
ReadyItems(g, s, st) ==
    {i \in DOMAIN List(g, s, st) :
        /\ i \notin {c.item : c \in VisitCommands(s, st)}
        /\ List(g, s, st)[i] \subseteq ItemsWith(s, st, {"succeeded"})}
ScheduleWorkset(g, s, st) ==
    LET new == {NewCommand(s, st, i) : i \in ReadyItems(g, s, st)}
    IN  [s EXCEPT
           !.used = PutAll(@, {Lineage(c) : c \in new}, 1),
           !.commands = PutAll(@, new, [status |-> "pending", why |-> None])]

ParkCallback(s, st, edge) ==
    [s EXCEPT !.pending = Append(@, [state |-> st, visit |-> s.visits[st], to |-> edge.to]),
              !.status = "waiting"]

\* What follows once st is left by the event on.
Follow(g, route, m, st, on) ==
    LET edge == SelectTransition(g, route, st, on)
    IN  IF edge.mode = "callback"
        THEN [m EXCEPT !.s = ParkCallback(m.s, st, edge)]
        ELSE [m EXCEPT !.enter = <<<<edge.to, st>>>> \o @]

CompleteState(g, route, m, st, on) ==
    Follow(g, route,
           [m EXCEPT !.s = [m.s EXCEPT !.active = @ \ {st}, !.done = @ \cup {st}]], st, on)

\* The failure edge leaves a state without completing it.
FailState(g, route, s, st) ==
    Follow(g, route, Machine([s EXCEPT !.active = @ \ {st}]), st, "failure")

\* The head of enter is entered.
\* Mutant of JoinWaits: every incoming edge has to be taken.
JoinWaitsForEdges(g, s, st, pred) ==
    /\ g.kind[st] = "join"
    /\ Cardinality(s.arrivals[st] \cup ({pred} \ {None}))
          # Cardinality({e \in Edges(g) : e.to = st})
JoinWaits(g, s, st, pred) ==
    /\ g.kind[st] = "join"
    /\ s.arrivals[st] \cup ({pred} \ {None}) # Predecessors(g, st)
EnterHead(g, m) ==
    LET st == m.enter[1][1]
        pred == m.enter[1][2]
        n == [m EXCEPT !.enter = Tail(@)]
        s == [m.s EXCEPT !.arrivals[st] = {}, !.done = @ \ {st}, !.active = @ \cup {st},
                         !.visits[st] = @ + 1, !.status = "running"]
        left == [s EXCEPT !.active = @ \ {st}]
        over == [left EXCEPT !.done = @ \cup {st}]
        waits == [m.s EXCEPT !.arrivals[st] = @ \cup ({pred} \ {None}), !.status = "waiting"]
        kind == g.kind[st]
    IN  CASE JoinWaits(g, m.s, st, pred) ->
               [n EXCEPT !.s = waits]
          [] kind \in {"pass", "choice", "join"} /\ ~JoinWaits(g, m.s, st, pred) ->
               [n EXCEPT !.s = s, !.auto = Append(@, <<st, "complete">>)]
          [] kind = "fork" ->
               [n EXCEPT !.s = over,
                         !.enter = [i \in 1..Len(Branches(g, st)) |->
                                       <<Branches(g, st)[i], st>>] \o @]
          [] kind = "authorization" ->
               [n EXCEPT !.s = [EmitCommand(s, st, None) EXCEPT
                                   !.status = "authorization-required"]]
          [] kind \in {"actor", "script"} ->
               [n EXCEPT !.s = EmitCommand(s, st, None)]
          [] kind = "workset" ->
               IF ~ListIsValid(g, List(g, s, st))
               THEN [m EXCEPT !.ok = FALSE]
               ELSE IF WorksetSatisfied(g, s, st)
               THEN [n EXCEPT !.s = s, !.auto = Append(@, <<st, "success">>)]
               ELSE [n EXCEPT !.s = ScheduleWorkset(g, s, st)]
          [] kind = "succeed" ->
               [n EXCEPT !.s = [over EXCEPT !.status = "completed"]]
          [] kind = "fail" -> [n EXCEPT !.s = [left EXCEPT !.status = "failed"]]
          [] kind = "blocked" -> [n EXCEPT !.s = [left EXCEPT !.status = "blocked"]]

\* enter and drain_automatic: run the machine until nothing is left.  A state
\* is entered over each of its edges at most once and completed once, because
\* graphs without an effect on a cycle are rejected.
Work(g, route, m) ==
    CASE m.enter # <<>> -> EnterHead(g, m)
      [] m.enter = <<>> /\ m.auto # <<>> ->
           CompleteState(g, route, [m EXCEPT !.auto = Tail(@)],
                         m.auto[1][1], m.auto[1][2])
      [] OTHER -> m
Fuel(g) == 1 + Len(g.edges) + Cardinality(States(g))
Drained(g, route, m) ==
    LET after[n \in 0..Fuel(g)] ==
            IF n = 0 THEN {m} ELSE {Work(g, route, w) : w \in after[n - 1]}
    IN  CHOOSE d \in {[w EXCEPT !.ok = @ /\ w.enter = <<>> /\ w.auto = <<>>] :
                          w \in after[Fuel(g)]} : TRUE

-----------------------------------------------------------------------------
(* Retry, fallback and the aggregate outcome of a workset visit.           *)

BoundKinds == {"actor", "workset"}

\* retry_policy_allows
RetryLimit(g, c, why) ==
    IF g.kind[c.state] \in BoundKinds /\ why = "transient" /\ g.transient < g.retry
    THEN g.transient ELSE g.retry
RetryPolicyAllows(g, c, why) ==
    /\ why \in {"transient", "authority", "runtime"} \/ (why = "permanent" /\ g.anyClass)
    /\ c.attempt < RetryLimit(g, c, why)

\* fallback_reason_base: a failed command of an active state still has a
\* candidate to fall back to.
FallbackBase(g, s, c) ==
    /\ Status(s, c) = "failed"
    /\ g.kind[c.state] \in BoundKinds
    /\ c.state \in s.active
    /\ s.commands[c].why = "transient" \/ (s.commands[c].why = "quota" /\ g.onQuota)
    /\ c.ordinal + 1 < g.candidates
    /\ LineageWithinBudget(g, s, Lineage(c))
FailedForGood(g, s, c) == Status(s, c) = "failed" /\ ~FallbackBase(g, s, c)

\* fallback_reason: the siblings of a workset item have to be settled first.
FallbackAdmitted(g, s, c) ==
    /\ FallbackBase(g, s, c)
    /\ g.kind[c.state] = "workset" =>
          \A d \in Cmds(s) \ {c} : VisitOf(d) = VisitOf(c) =>
              /\ Status(s, d) \notin Unstarted \cup {"running", "cancel-requested", "in-doubt"}
              /\ ~FailedForGood(g, s, d)

VisitUnsettled(g, s, st) ==
    \E c \in VisitCommands(s, st) :
        \/ Status(s, c) \in Unstarted \cup {"running", "cancel-requested", "in-doubt"}
        \/ FallbackBase(g, s, c)

WaitFor(why) == CASE why = "authority" -> "authorization-required"
                  [] why = "runtime" -> "runtime-missing"
                  [] OTHER -> "retryable"

RefreshWorksetStatus(s, st) ==
    LET retry == {c \in VisitCommands(s, st) : Status(s, c) = "retryable"}
        for(why) == \E c \in retry : s.commands[c].why = why
    IN  [s EXCEPT !.status =
            CASE \E c \in VisitCommands(s, st) : Status(s, c) = "in-doubt" -> "cancel-in-doubt"
              [] OTHER -> IF retry = {} THEN "running"
                          ELSE IF for("authority") THEN WaitFor("authority")
                          ELSE IF for("runtime") THEN WaitFor("runtime")
                          ELSE "retryable"]

\* workset_failure_ready: an item has failed for good.  What has not started
\* is cancelled; once nothing of the visit runs, the failure edge is taken.
\* Mutant of WorksetFailureReady: the failure edge is taken at once.
WorksetFailsAtOnce(g, route, s, st) ==
    FailState(g, route, Mark(s, {c \in VisitCommands(s, st) : Status(s, c) \in Unstarted},
                             "cancelled"), st)
WorksetFailureReady(g, route, s, st) ==
    LET stopped == Mark(s, {c \in VisitCommands(s, st) :
                               Status(s, c) \in Unstarted \/ FallbackBase(g, s, c)}, "cancelled")
    IN  IF VisitUnsettled(g, stopped, st)
        THEN Machine(RefreshWorksetStatus(stopped, st))
        ELSE IF "failed" \notin {Status(stopped, c) : c \in VisitCommands(stopped, st)}
        THEN Machine(stopped)
        ELSE FailState(g, route, stopped, st)

-----------------------------------------------------------------------------
(* The events.  Each yields a Machine; ok is FALSE where the code returns  *)
(* an error and the transaction rolls back.                                *)

Start(g, route, lists) ==
    Drained(g, route, Entering(EmptySnapshot(g, lists), g.initial, None))

TransitionCommand(s, c, expected, next) ==
    IF Status(s, c) \in expected THEN Machine(Mark(s, {c}, next)) ELSE Refused(s)

\* merge_run_context: the output of an effect may replace item lists.
Merge(s, lists) == [s EXCEPT !.lists = lists]

SettleSuccess(g, route, s, c, lists) ==
    LET st == c.state
        t == Mark(Merge(s, lists), {c}, "succeeded")
        workset == g.kind[st] = "workset"
    IN  IF Status(s, c) \notin Open THEN Refused(s)
        ELSE IF workset /\ \E d \in VisitCommands(t, st) : FailedForGood(g, t, d)
        THEN Drained(g, route, WorksetFailureReady(g, route, t, st))
        ELSE IF workset /\ ~ListIsValid(g, List(g, t, st))
        THEN Refused(s)
        ELSE IF workset /\ ~WorksetSatisfied(g, t, st)
        THEN Machine(RefreshWorksetStatus(ScheduleWorkset(g, t, st), st))
        ELSE Drained(g, route, CompleteState(g, route, Machine(t), st, "success"))

\* An effect's failure: retried, left to a fallback, in doubt, or final.
SettleFailure(g, route, s, c, why) ==
    LET st == c.state
        workset == g.kind[st] = "workset"
        retryable == RetryPolicyAllows(g, c, why) /\ LineageWithinBudget(g, s, Lineage(c))
        t == [s EXCEPT !.commands[c] = [
                 status |-> IF retryable THEN "retryable"
                            ELSE IF why = "in-doubt" THEN "in-doubt" ELSE "failed",
                 why |-> why]]
        otherFailed == workset /\ \E d \in VisitCommands(t, st) \ {c} : FailedForGood(g, t, d)
        says(status) == Machine(IF workset THEN RefreshWorksetStatus(t, st)
                                           ELSE [t EXCEPT !.status = status])
    IN  CASE Status(s, c) \notin Open -> Refused(s)
          [] OTHER ->
               IF retryable THEN says(WaitFor(why))
               ELSE IF ~otherFailed /\ FallbackBase(g, t, c) THEN says("running")
               ELSE IF why = "in-doubt" THEN says("cancel-in-doubt")
               ELSE Drained(g, route, IF workset THEN WorksetFailureReady(g, route, t, st)
                                                 ELSE FailState(g, route, t, st))

\* settle_assistant_effect_failure and settle_assistant_drive_failure
CancelUnstartedAssistant(s) ==
    [Mark(s, {c \in Cmds(s) : Status(s, c) \in {"pending", "retryable", "cancel-requested"}},
          "cancelled") EXCEPT !.pending = <<>>]
SettleAssistantEffectFailure(s, c, why) ==
    LET status == IF why = "in-doubt" THEN "in-doubt" ELSE "failed"
        t == [s EXCEPT !.commands[c] = [status |-> status, why |-> why]]
    IN  IF Status(s, c) \notin Open THEN Refused(s)
        ELSE Machine([CancelUnstartedAssistant(t) EXCEPT
                        !.status = IF why = "in-doubt" THEN "cancel-in-doubt" ELSE "failed"])
SettleAssistantDriveFailure(s) ==
    LET t == CancelUnstartedAssistant(s)
        lost == [c \in Cmds(t) |-> IF Status(t, c) \in Held
                                   THEN [status |-> "in-doubt", why |-> "in-doubt"]
                                   ELSE t.commands[c]]
    IN  IF s.status \in Settled THEN s
        ELSE [t EXCEPT !.commands = lost, !.status = "cancel-in-doubt"]

\* Mutant of Reissued: the attempt that is replaced is not cancelled.
ReissuedBeside(g, s, c, new) ==
    IF new \in Cmds(s) \/ ~LineageWithinBudget(g, s, Lineage(c)) THEN Refused(s)
    ELSE Machine([AddCommand(s, Lineage(c), new) EXCEPT !.status = "running"])
Reissued(g, s, c, new) ==
    LET t == [AddCommand(Mark(s, {c}, "cancelled"), Lineage(c), new) EXCEPT !.status = "running"]
    IN  IF new \in Cmds(s) \/ ~LineageWithinBudget(g, s, Lineage(c)) THEN Refused(s)
        ELSE Machine(IF g.kind[c.state] = "workset" THEN RefreshWorksetStatus(t, c.state) ELSE t)

Retry(g, s, c) ==
    IF Status(s, c) # "retryable" \/ ~RetryPolicyAllows(g, c, s.commands[c].why) THEN Refused(s)
    ELSE Reissued(g, s, c, [c EXCEPT !.attempt = @ + 1])

IssueFallback(g, s, c) ==
    IF ~FallbackAdmitted(g, s, c) THEN Refused(s)
    ELSE Reissued(g, s, c, [c EXCEPT !.ordinal = @ + 1, !.attempt = 1,
                                     !.visit = s.visits[c.state]])

\* Mutant of Cancel: commands in doubt are cancelled with the others.
CancelForgetsDoubt(s) ==
    [Mark(s, {c \in Cmds(s) : Status(s, c) \in Unstarted \cup {"running", "in-doubt"}},
          "cancelled") EXCEPT !.pending = <<>>, !.status = "cancelled"]
Cancel(s) ==
    LET running == {c \in Cmds(s) : Status(s, c) \in {"running", "cancel-requested"}}
        t == Mark(Mark(s, {c \in Cmds(s) : Status(s, c) \in Unstarted}, "cancelled"),
                  running, "cancel-requested")
    IN  IF s.status \in {"completed", "cancelled", "failed"} THEN s
        ELSE [t EXCEPT !.pending = <<>>,
                       !.status = IF running = {} THEN "cancelled" ELSE "cancel-requested"]

CancelUnknown(s, c) ==
    IF Status(s, c) # "cancel-requested" THEN Refused(s)
    ELSE Machine([Mark(s, {c}, "in-doubt") EXCEPT !.status = "cancel-in-doubt"])

\* apply_callback_decision on the oldest wait.
Decide(g, route, s, decision) ==
    LET wait == Head(s.pending)
        t == [s EXCEPT !.pending = Tail(@), !.status = "running"]
    IN  CASE decision = "advance" -> Drained(g, route, Entering(t, wait.to, wait.state))
          [] decision = "return" -> Drained(g, route, Entering(t, wait.state, None))
          [] decision = "terminate" -> Machine(Cancel([s EXCEPT !.pending = Tail(@)]))

\* The lists take away or change an item a workset has issued in its present visit.
AtWork(g, s) ==
    {c \in Cmds(s) : /\ g.kind[c.state] = "workset" /\ c.state \in s.active
                     /\ c.visit = s.visits[c.state]}
Rewrites(g, s, lists) ==
    \E c \in AtWork(g, s) :
        LET l == lists[g.workset[c.state]]
        IN  c.item \notin DOMAIN l \/ l[c.item] # List(g, s, c.state)[c.item]

PendingAuthorization(g, s) ==
    {c \in Cmds(s) : g.kind[c.state] = "authorization" /\ Status(s, c) = "pending"}

=============================================================================
