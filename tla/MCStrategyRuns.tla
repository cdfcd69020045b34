---------------------------- MODULE MCStrategyRuns ----------------------------
(***************************************************************************)
(* Graphs for checking StrategyRuns.                                       *)
(***************************************************************************)
EXTENDS StrategyRuns, TLC

Edge(from, on, to) == [from |-> from, to |-> to, on |-> on, mode |-> "flow"]
Ask(from, on, to) == [Edge(from, on, to) EXCEPT !.mode = "callback"]

\* The same candidate is tried twice, and the budget leaves no other attempt.
Retrying == [attempts |-> 2, parallel |-> 2, retry |-> 2, anyClass |-> FALSE,
             transient |-> 2, onQuota |-> TRUE, candidates |-> 2]
\* The default retry policy: a failed candidate is followed by the next one.
FallingBack == [Retrying EXCEPT !.retry = 1, !.transient = 1]
NoItems == [workset |-> <<>>, lists |-> <<>>, maxItems |-> 0]

\* Two actors in parallel, joined.
Parallel == Retrying @@ NoItems @@ [
    initial |-> "fork",
    kind |-> [fork |-> "fork", a |-> "actor", b |-> "actor", join |-> "join",
              end |-> "succeed"],
    edges |-> <<Edge("fork", "complete", "a"), Edge("fork", "complete", "b"),
                Edge("a", "success", "join"), Edge("a", "failure", "join"),
                Edge("b", "success", "join"), Edge("b", "failure", "join"),
                Edge("join", "complete", "end")>>]

\* An item list is written as the sequence of its items' predecessors.
Chain == <<{}, {}, {1}>>
One == <<{}>>
Pair == <<{}, {1}>>
Loose == <<{}, {}>>
TooLong == <<{}, {}, {1}, {2}>>
Cyclic == <<{2}, {1}>>

\* Up to three items at two at a time; an output makes the list longer or shorter.
Workset == FallingBack @@ [
    initial |-> "w",
    kind |-> [w |-> "workset", end |-> "succeed", bad |-> "fail"],
    edges |-> <<Edge("w", "success", "end"), Edge("w", "failure", "bad")>>,
    workset |-> [w |-> "items"], maxItems |-> 3,
    lists |-> [items |-> {Chain, One}]]

\* Two items one at a time; an output changes their order or drops them all.
Narrow == [Workset EXCEPT !.parallel = 1, !.lists = [items |-> {Pair, Loose, <<>>}]]

\* An actor plans the work first; schedule_workset refuses some of its plans.
Planned == [Workset EXCEPT
    !.initial = "plan", !.kind = @ @@ [plan |-> "actor"],
    !.edges = @ \o <<Edge("plan", "success", "w"), Edge("plan", "failure", "bad")>>,
    !.lists = [items |-> {<<>>, Pair, TooLong, Cyclic}]]

\* Authorization, a script whose outcome is put before the master agent, and a
\* choice that may go back through it.
Gated == Retrying @@ NoItems @@ [
    initial |-> "gate",
    kind |-> [gate |-> "authorization", s |-> "script", pick |-> "choice", p |-> "pass",
              end |-> "succeed", stop |-> "blocked"],
    edges |-> <<Edge("gate", "success", "p"), Edge("gate", "failure", "stop"),
                Edge("p", "complete", "s"),
                Ask("s", "success", "pick"), Ask("s", "failure", "stop"),
                Edge("pick", "complete", "p"), Edge("pick", "complete", "end")>>]

Imported(d) == d @@ [assistant |-> FALSE]
Assistant(d) == d @@ [assistant |-> TRUE]

Every == {Imported(d) : d \in {Parallel, Workset, Narrow, Gated}}
            \cup {Assistant(d) : d \in {Parallel, Workset, Planned, Gated}}
=============================================================================
