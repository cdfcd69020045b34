-------------------------- MODULE StrategyRunsProofs --------------------------
(***************************************************************************)
(* Proofs about StrategyRuns, for every graph that compile_workflow        *)
(* accepts: the state of a run is typed and within its parallelism, what   *)
(* became of a command is never rewritten and, until an output takes away  *)
(* or changes a workset item at work (rewritten), lineages stay within     *)
(* their budget, joins and worksets are followed as declared, and neither  *)
(* a command in doubt nor a completed run is taken up again.               *)
(*                                                                         *)
(* Every event of the reducer, from the snapshot s to the snapshot t, has  *)
(* the properties the proofs are made of.  t is a Snapshot again, and      *)
(* Keeps(s, t): nothing is claimed, nothing becomes pending again and no   *)
(* final outcome is lost.  And t is Fit: the Tokens of a run, its active   *)
(* states, waits and arrivals, are in different branches of one parallel   *)
(* region and behind no join they still have to reach, and its commands    *)
(* are Sound: what stands is of the present visit of an active state and   *)
(* alone in its lineage, what a lineage has used up is the number of its   *)
(* commands, and an item at work is on the list its workset has now.  The  *)
(* work of draining the automatic states is followed one Work step at a    *)
(* time, by a least-number argument.                                       *)
(***************************************************************************)
EXTENDS StrategyRuns, TLAPS, FiniteSetTheorems, WellFoundedInduction, NaturalsInduction

Fields == {"status", "lists", "active", "done", "visits", "arrivals", "used", "pending", "commands"}
CommandFields == {"state", "visit", "item", "ordinal", "attempt"}
Final == {"succeeded", "cancelled", "in-doubt"}
Waits(d) == [state : States(d), visit : Nat, to : States(d)]

\* A command of the snapshot s of a run of the graph d.
CommandOK(d, s, c) ==
    /\ CommandFields \subseteq DOMAIN c
    /\ c.state \in States(d) /\ d.kind[c.state] \in EffectKinds
    /\ c.visit \in 1..s.visits[c.state]
    /\ {"status", "why"} \subseteq DOMAIN s.commands[c]
    /\ Status(s, c) \in CommandStatuses
    /\ s.commands[c].why \in Whys
Shape(d, s) ==
    /\ Fields \subseteq DOMAIN s
    /\ s.active \subseteq States(d) /\ s.done \subseteq States(d)
    /\ s.active \cap s.done = {}
    /\ s.visits \in [States(d) -> Nat]
    /\ s.pending \in Seq(Waits(d))
    /\ \A c \in Cmds(s) : CommandOK(d, s, c)
Snapshot(d, s) == Shape(d, s) /\ s.status \in RunStatuses

\* What no event of the reducer does on the way from s to t.
Keeps(s, t) ==
    /\ Cmds(s) \subseteq Cmds(t)
    /\ \A c \in Cmds(t) : Status(t, c) \in Held => c \in Cmds(s) /\ Status(s, c) \in Held
    /\ \A c \in Cmds(s) :
          /\ Status(t, c) = "pending" => Status(s, c) = "pending"
          /\ Status(s, c) \in Final => Status(t, c) = Status(s, c)

\* A machine that has got from s on its way; an event's machine that is done.
Automatics(d) == {p \in States(d) \X {"complete", "success"} : From(d, p[1], p[2]) # {}}
Moves(d, s, m) ==
    /\ {"s", "enter", "auto", "ok"} \subseteq DOMAIN m
    /\ Shape(d, m.s) /\ Keeps(s, m.s)
    /\ m.enter \in Seq(States(d) \X (States(d) \cup {None}))
    /\ m.auto \in Seq(Automatics(d))
Works(d, s, m) == Moves(d, s, m) /\ (m.s.status \in RunStatuses \/ m.enter # <<>>)
Yields(d, s, m) == m.ok => Snapshot(d, m.s) /\ Keeps(s, m.s)

\* The inductive invariant.  The drive claims only while it holds every lease:
\* from the end of the recovery on, a held command is one with a live lease.
Driving == {"loop", "apply", "claim", "start", "effects", "settle", "after"}
HandOK ==
    /\ pc \in {"apply", "start", "after"} => hand.cmd \in Cmds(run)
    /\ pc = "apply" => hand.next \in {"loop", "settle"} /\ hand.op \in {"grant", "retry", "fallback"}
    /\ pc = "start" => Status(run, hand.cmd) # "pending"
DriverOK ==
    /\ pc \in Driving \cup {"off", "reclaim", "recover", "doubt"}
    /\ live \cup reclaim \cup owed \cup DOMAIN batch \subseteq Cmds(run)
    /\ \A c \in DOMAIN batch : batch[c] \in Whys
    /\ caller \in {"idle", "waiting", "answered"}
LeasesHeld == pc \in Driving => WithStatus(Held) \subseteq live
Bounded == IsFiniteSet(WithStatus(Held)) /\ Cardinality(WithStatus(Held)) <= g.parallel
RunIInv ==
    /\ g \in Definitions
    /\ Snapshot(g, run)
    /\ DriverOK /\ HandOK /\ LeasesHeld /\ Bounded

-----------------------------------------------------------------------------
(* Snapshots.                                                              *)

LEMMA KeepsSelf == ASSUME NEW s PROVE Keeps(s, s)
BY DEF Keeps

LEMMA KeepsOn ==
    ASSUME NEW s, NEW t, NEW u, Keeps(s, t), Keeps(t, u)
    PROVE  Keeps(s, u)
<1>1. Cmds(s) \subseteq Cmds(u)
  BY DEF Keeps
<1>2. \A c \in Cmds(u) : Status(u, c) \in Held => c \in Cmds(s) /\ Status(s, c) \in Held
  BY DEF Keeps
<1>3. \A c \in Cmds(s) : Status(u, c) = "pending" => Status(s, c) = "pending"
  BY DEF Keeps
<1>4. \A c \in Cmds(s) : Status(s, c) \in Final => Status(u, c) = Status(s, c)
  BY DEF Keeps
<1> QED BY <1>1, <1>2, <1>3, <1>4 DEF Keeps

\* Everything of a snapshot but its commands.
Alike(s, t) ==
    /\ DOMAIN t = DOMAIN s
    /\ t.active = s.active /\ t.done = s.done /\ t.visits = s.visits
    /\ t.pending = s.pending /\ t.arrivals = s.arrivals /\ t.status = s.status
    /\ t.lists = s.lists

\* A step that leaves the commands alone, and no state before its last visit.
LEMMA SameCommands ==
    ASSUME NEW d, NEW s, NEW t, Shape(d, s),
           DOMAIN t = DOMAIN s, t.commands = s.commands,
           t.active \subseteq States(d), t.done \subseteq States(d), t.active \cap t.done = {},
           t.visits \in [States(d) -> Nat],
           \A st \in States(d) : s.visits[st] <= t.visits[st],
           t.pending \in Seq(Waits(d))
    PROVE  Shape(d, t) /\ Keeps(s, t)
<1>1. Keeps(s, t)
  BY DEF Keeps, Cmds, Status
<1>2. ASSUME NEW c \in Cmds(t) PROVE CommandOK(d, t, c)
  <2>1. CommandOK(d, s, c)
    BY DEF Shape, Cmds
  <2>2. c.visit \in 1..t.visits[c.state]
    <3>1. /\ c.state \in States(d) /\ c.visit \in 1..s.visits[c.state]
          /\ s.visits[c.state] \in Nat /\ t.visits[c.state] \in Nat
          /\ s.visits[c.state] <= t.visits[c.state]
      BY <2>1 DEF CommandOK, Shape
    <3> QED BY <3>1
  <2> QED BY <2>1, <2>2 DEF CommandOK, Status
<1> QED BY <1>1, <1>2 DEF Shape

\* A step that changes only commands.
LEMMA NewCommands ==
    ASSUME NEW d, NEW s, NEW t, Shape(d, s), Alike(s, t),
           \A c \in Cmds(t) : CommandOK(d, t, c)
    PROVE  Shape(d, t)
BY DEF Shape, Alike

LEMMA Marked ==
    ASSUME NEW d, NEW s, Shape(d, s), NEW cs, NEW v \in CommandStatuses
    PROVE  LET t == Mark(s, cs, v)
           IN  /\ Shape(d, t) /\ Alike(s, t) /\ Cmds(t) = Cmds(s)
               /\ \A c \in Cmds(s) : Status(t, c) = IF c \in cs THEN v ELSE Status(s, c)
               /\ \A c \in Cmds(s) : t.commands[c].why = s.commands[c].why
<1> DEFINE t == Mark(s, cs, v)
<1> Fields \subseteq DOMAIN s
  BY DEF Shape
<1>1. t.commands = [c \in Cmds(s) |->
         IF c \in cs THEN [s.commands[c] EXCEPT !.status = v] ELSE s.commands[c]]
  BY DEF Mark, Fields
<1>2. Alike(s, t)
  BY DEF Mark, Alike, Fields
<1>3. Cmds(t) = Cmds(s)
  BY <1>1 DEF Cmds
<1>4. ASSUME NEW c \in Cmds(s)
      PROVE  /\ Status(t, c) = IF c \in cs THEN v ELSE Status(s, c)
             /\ t.commands[c].why = s.commands[c].why
             /\ {"status", "why"} \subseteq DOMAIN t.commands[c]
  <2>1. {"status", "why"} \subseteq DOMAIN s.commands[c]
    BY DEF Shape, CommandOK
  <2> HIDE DEF t
  <2>2. CASE c \in cs
    <3>1. t.commands[c] = [s.commands[c] EXCEPT !.status = v]
      BY <1>1, <2>2
    <3> QED BY <2>1, <2>2, <3>1 DEF Status
  <2>3. CASE c \notin cs
    BY <1>1, <2>1, <2>3 DEF Status
  <2> QED BY <2>2, <2>3
<1>5. ASSUME NEW c \in Cmds(t) PROVE CommandOK(d, t, c)
  <2>1. CommandOK(d, s, c) BY <1>3 DEF Shape
  <2> QED BY <1>2, <1>3, <1>4, <2>1 DEF CommandOK, Alike
<1>6. Shape(d, t)
  BY <1>2, <1>5, NewCommands
<1> QED BY <1>2, <1>3, <1>4, <1>6

\* Marking commands that are not final, with a status nobody holds.
LEMMA MarkedKeeps ==
    ASSUME NEW d, NEW s, Shape(d, s), NEW cs,
           NEW v \in CommandStatuses \ (Held \cup {"pending"}),
           \A c \in Cmds(s) : c \in cs => Status(s, c) \notin Final
    PROVE  LET t == Mark(s, cs, v)
           IN  /\ Shape(d, t) /\ Keeps(s, t) /\ Alike(s, t) /\ Cmds(t) = Cmds(s)
               /\ \A c \in Cmds(s) : Status(t, c) = IF c \in cs THEN v ELSE Status(s, c)
               /\ \A c \in Cmds(s) : t.commands[c].why = s.commands[c].why
<1> DEFINE t == Mark(s, cs, v)
<1>1. /\ Shape(d, t) /\ Alike(s, t) /\ Cmds(t) = Cmds(s)
      /\ \A c \in Cmds(s) : Status(t, c) = IF c \in cs THEN v ELSE Status(s, c)
      /\ \A c \in Cmds(s) : t.commands[c].why = s.commands[c].why
  BY Marked
<1>2. Keeps(s, t)
  BY <1>1 DEF Keeps
<1> QED BY <1>1, <1>2

\* A command gets an outcome.
LEMMA OutcomeKeeps ==
    ASSUME NEW d, NEW s, Shape(d, s), NEW c \in Cmds(s), Status(s, c) \in Open,
           NEW v \in CommandStatuses \ (Held \cup {"pending"}), NEW why \in Whys
    PROVE  LET t == [s EXCEPT !.commands[c] = [status |-> v, why |-> why]]
           IN  /\ Shape(d, t) /\ Keeps(s, t) /\ Alike(s, t) /\ Cmds(t) = Cmds(s)
               /\ Status(t, c) = v /\ t.commands[c].why = why
               /\ \A b \in Cmds(s) \ {c} : t.commands[b] = s.commands[b]
<1> DEFINE t == [s EXCEPT !.commands[c] = [status |-> v, why |-> why]]
<1> Fields \subseteq DOMAIN s
  BY DEF Shape
<1>1. t.commands = [s.commands EXCEPT ![c] = [status |-> v, why |-> why]]
  BY DEF Fields
<1>2. Alike(s, t)
  BY DEF Alike, Fields
<1> HIDE DEF t
<1>3. Cmds(t) = Cmds(s)
  BY <1>1 DEF Cmds
<1>4. t.commands[c] = [status |-> v, why |-> why]
  BY <1>1 DEF Cmds
<1>5. \A b \in Cmds(s) \ {c} : t.commands[b] = s.commands[b]
  BY <1>1 DEF Cmds
<1>6. ASSUME NEW b \in Cmds(t) PROVE CommandOK(d, t, b)
  <2>1. CommandOK(d, s, b) BY <1>3 DEF Shape
  <2>2. CASE b = c BY <1>2, <1>4, <2>1, <2>2 DEF CommandOK, Alike, Status
  <2>3. CASE b # c BY <1>2, <1>3, <1>5, <2>1, <2>3 DEF CommandOK, Alike, Status
  <2> QED BY <2>2, <2>3
<1>7. Shape(d, t)
  BY <1>2, <1>6, NewCommands
<1>8. Keeps(s, t)
  BY <1>3, <1>4, <1>5 DEF Keeps, Status, Held, Final, Open
<1> QED BY <1>2, <1>3, <1>4, <1>5, <1>7, <1>8 DEF Status, t


\* Commands are added: new ones, of a visit that there has been.
LEMMA Added ==
    ASSUME NEW d, NEW s, Shape(d, s), NEW t, NEW new,
           Alike(s, t),
           t.commands = PutAll(s.commands, new, [status |-> "pending", why |-> None]),
           new \cap Cmds(s) = {},
           \A c \in new : /\ CommandFields \subseteq DOMAIN c
                          /\ c.state \in States(d) /\ d.kind[c.state] \in EffectKinds
                          /\ c.visit \in 1..s.visits[c.state]
    PROVE  Shape(d, t) /\ Keeps(s, t)
<1>1. Cmds(t) = Cmds(s) \cup new
  BY DEF Cmds, PutAll
<1>2. \A c \in Cmds(s) : t.commands[c] = s.commands[c]
  BY DEF Cmds, PutAll
<1>3. \A c \in new : t.commands[c] = [status |-> "pending", why |-> None]
  BY DEF PutAll
<1>4. Keeps(s, t)
  BY <1>1, <1>2, <1>3 DEF Keeps, Status, Held
<1>5. ASSUME NEW c \in Cmds(t) PROVE CommandOK(d, t, c)
  <2>1. CASE c \in Cmds(s)
    <3>1. CommandOK(d, s, c) BY <2>1 DEF Shape
    <3> QED BY <1>2, <2>1, <3>1 DEF CommandOK, Alike, Status
  <2>2. CASE c \in new
    BY <1>3, <2>2 DEF CommandOK, Alike, Status, CommandStatuses, Whys
  <2> QED BY <1>1, <2>1, <2>2
<1>6. Shape(d, t)
  BY <1>5, NewCommands
<1> QED BY <1>4, <1>6

LEMMA AddedOne ==
    ASSUME NEW d, NEW s, Shape(d, s), NEW c, c \notin Cmds(s), CommandFields \subseteq DOMAIN c,
           c.state \in States(d), d.kind[c.state] \in EffectKinds,
           c.visit \in 1..s.visits[c.state], NEW l
    PROVE  LET t == AddCommand(s, l, c) IN Shape(d, t) /\ Keeps(s, t) /\ Alike(s, t)
<1> DEFINE t == AddCommand(s, l, c)
<1>0. Fields \subseteq DOMAIN s
  BY DEF Shape
<1>1. Alike(s, t)
  BY <1>0 DEF AddCommand, BumpAttemptLineage, Alike, Fields
<1>2. t.commands = PutAll(s.commands, {c}, [status |-> "pending", why |-> None])
  BY <1>0 DEF AddCommand, BumpAttemptLineage, Fields
<1> HIDE DEF t
<1>3. Shape(d, t) /\ Keeps(s, t)
  BY <1>1, <1>2, Added
<1> QED BY <1>1, <1>3 DEF t

\* The first command of a visit is new: commands are of visits there have been.
LEMMA Emitted ==
    ASSUME NEW d, NEW s, Shape(d, s), NEW st \in States(d), d.kind[st] \in EffectKinds, NEW item,
           s.visits[st] > 0,
           \A c \in Cmds(s) : c.state = st => c.visit < s.visits[st]
    PROVE  LET t == EmitCommand(s, st, item) IN Shape(d, t) /\ Keeps(s, t) /\ Alike(s, t)
<1> DEFINE c == NewCommand(s, st, item)
<1>1. /\ CommandFields \subseteq DOMAIN c /\ c.state = st /\ c.visit = s.visits[st]
  BY DEF NewCommand, CommandFields
<1>2. s.visits[st] \in Nat
  BY DEF Shape
<1> HIDE DEF c
<1>3. c \notin Cmds(s)
  BY <1>1, <1>2
<1>4. c.visit \in 1..s.visits[c.state]
  BY <1>1, <1>2
<1> QED BY <1>1, <1>3, <1>4, AddedOne DEF EmitCommand, c

LEMMA Scheduled ==
    ASSUME NEW d, NEW s, Shape(d, s), NEW st \in States(d), d.kind[st] \in EffectKinds,
           s.visits[st] > 0
    PROVE  LET t == ScheduleWorkset(d, s, st) IN Shape(d, t) /\ Keeps(s, t) /\ Alike(s, t)
<1> DEFINE new == {NewCommand(s, st, i) : i \in ReadyItems(d, s, st)}
           t == ScheduleWorkset(d, s, st)
<1>0. Fields \subseteq DOMAIN s
  BY DEF Shape
<1>1. Alike(s, t)
  BY <1>0 DEF ScheduleWorkset, Alike, Fields
<1>2. t.commands = PutAll(s.commands, new, [status |-> "pending", why |-> None])
  BY <1>0 DEF ScheduleWorkset, Fields
<1>3. s.visits[st] \in Nat
  BY DEF Shape
<1>4. ASSUME NEW c \in new
      PROVE  /\ CommandFields \subseteq DOMAIN c /\ c.state = st /\ c.visit = s.visits[st]
             /\ c \notin Cmds(s)
  <2>1. PICK i \in ReadyItems(d, s, st) : c = NewCommand(s, st, i)
    OBVIOUS
  <2>2. CommandFields \subseteq DOMAIN c /\ c.state = st /\ c.visit = s.visits[st] /\ c.item = i
    BY <2>1 DEF NewCommand, CommandFields
  <2>3. i \notin {b.item : b \in VisitCommands(s, st)}
    BY DEF ReadyItems
  <2>4. c \notin VisitCommands(s, st)
    BY <2>2, <2>3
  <2> QED BY <2>2, <2>4 DEF VisitCommands, VisitOf
<1> HIDE DEF t, new
<1>5. new \cap Cmds(s) = {}
  BY <1>4
<1>6. \A c \in new : c.visit \in 1..s.visits[c.state]
  BY <1>3, <1>4
<1>7. Shape(d, t) /\ Keeps(s, t)
  BY <1>1, <1>2, <1>4, <1>5, <1>6, Added
<1> QED BY <1>1, <1>7 DEF t

-----------------------------------------------------------------------------
(* Least numbers, and the two recursive functions of the reducer.          *)

LEMMA LeastNumber ==
    ASSUME NEW T \in SUBSET Nat, NEW k \in T
    PROVE  \E n \in T : \A i \in T : n <= i
<1>1. IsWellFoundedOn(OpToRel(<, Nat), Nat)
  BY NatLessThanWellFounded
<1>2. PICK n \in T : \A i \in T : ~(<<i, n>> \in OpToRel(<, Nat))
  BY <1>1, WFMin
<1>3. \A i \in T : ~(i < n)
  BY <1>2 DEF OpToRel
<1> QED BY <1>3


LEMMA EdgesAreEdges ==
    ASSUME NEW d, Compiled(d)
    PROVE  /\ \A n \in 1..Len(d.edges) : d.edges[n].to \in States(d)
           /\ \A e \in Edges(d) : e.to \in States(d)
<1> DEFINE E == [from : States(d), to : States(d),
                 on : {"complete", "success", "failure"}, mode : {"flow", "callback"}]
<1>1. d.edges \in Seq(E)
  BY DEF Compiled
<1>2. \A e \in E : e.to \in States(d)
  OBVIOUS
<1> HIDE DEF E
<1>3. \A n \in 1..Len(d.edges) : d.edges[n] \in E
  BY <1>1
<1> QED BY <1>2, <1>3 DEF Edges

\* The branches of a fork are its starts, each of them once.
LEMMA BranchesAreStates ==
    ASSUME NEW d, Compiled(d), NEW st
    PROVE  /\ Branches(d, st) \in Seq(States(d))
           /\ \A i \in 1..Len(Branches(d, st)) : Branches(d, st)[i] \in Starts(d, st)
           /\ \A x \in Starts(d, st) : \E i \in 1..Len(Branches(d, st)) : Branches(d, st)[i] = x
           /\ d.kind[st] = "fork" => \A i, k \in 1..Len(Branches(d, st)) :
                                        Branches(d, st)[i] = Branches(d, st)[k] => i = k
<1> DEFINE N == Len(d.edges)
           Step(f, n) == IF n = 0 THEN <<>>
                         ELSE IF d.edges[n].from = st THEN Append(f[n - 1], d.edges[n].to)
                                                      ELSE f[n - 1]
           upTo == CHOOSE f : f = [n \in 0..N |-> Step(f, n)]
<1>1. Branches(d, st) = upTo[N]
  BY DEF Branches
<1>2. N \in Nat
  BY DEF Compiled
<1>3. \A n \in 1..N : d.edges[n].to \in States(d)
  BY EdgesAreEdges
<1> HIDE DEF N
<1>4. \A k \in Nat : \E f : f = [n \in 0..k |-> Step(f, n)]
  <2> DEFINE T == {k \in Nat : ~ \E f : f = [n \in 0..k |-> Step(f, n)]}
  <2> SUFFICES ASSUME NEW k0 \in T PROVE FALSE
    OBVIOUS
  <2>1. T \in SUBSET Nat
    OBVIOUS
  <2> HIDE DEF T
  <2>2. PICK k \in T : \A i \in T : k <= i
    BY <2>1, LeastNumber
  <2>3. k \in Nat /\ ~ \E f : f = [n \in 0..k |-> Step(f, n)]
    BY DEF T
  <2>4. CASE k = 0
    <3> DEFINE f == [n \in 0..0 |-> <<>>]
    <3>1. f = [n \in 0..k |-> Step(f, n)]
      BY <2>4
    <3> QED BY <2>3, <3>1
  <2>5. CASE k # 0
    <3>1. k - 1 \in Nat /\ ~(k <= k - 1)
      BY <2>3, <2>5
    <3>2. k - 1 \notin T
      BY <2>2, <3>1
    <3>3. PICK f : f = [n \in 0..(k - 1) |-> Step(f, n)]
      BY <3>1, <3>2 DEF T
    <3> DEFINE h == [n \in 0..k |-> IF n = k THEN Step(f, k) ELSE f[n]]
    <3> HIDE DEF Step
    <3>4. ASSUME NEW n \in 0..k PROVE h[n] = Step(h, n)
      <4>1. n = 0 \/ h[n - 1] = f[n - 1]
        BY <2>3
      <4>2. Step(h, n) = Step(f, n)
        BY <4>1 DEF Step
      <4>3. n # k => f[n] = Step(f, n)
        <5> SUFFICES ASSUME n # k PROVE f[n] = Step(f, n)
          OBVIOUS
        <5>1. n \in 0..(k - 1)
          BY <2>3
        <5> QED BY <3>3, <5>1
      <4> QED BY <4>2, <4>3
    <3>5. h = [n \in 0..k |-> Step(h, n)]
      BY <3>4
    <3> QED BY <2>3, <3>5 DEF Step
  <2> QED BY <2>4, <2>5
<1>5. upTo = [n \in 0..N |-> Step(upTo, n)]
  BY <1>2, <1>4
<1> HIDE DEF upTo, Step
\* What the first n edges give.
<1> DEFINE Good(n, q) ==
        /\ q \in Seq(States(d))
        /\ \A k \in 1..Len(q) : \E i \in 1..n : d.edges[i].from = st /\ q[k] = d.edges[i].to
        /\ \A i \in 1..n : d.edges[i].from = st => \E k \in 1..Len(q) : q[k] = d.edges[i].to
        /\ d.kind[st] = "fork" => \A i, k \in 1..Len(q) : q[i] = q[k] => i = k
<1> HIDE DEF Good
<1>a. ASSUME NEW n \in 1..N, NEW q, Good(n - 1, q), d.edges[n].from = st
      PROVE  Good(n, Append(q, d.edges[n].to))
  <2> DEFINE x == d.edges[n].to
             r == Append(q, x)
  <2>0. n - 1 \in Nat /\ n \in Nat /\ n \in 1..n /\ \A i \in 1..n : i = n \/ i \in 1..(n - 1)
    BY <1>2
  <2>1. q \in Seq(States(d)) /\ x \in States(d)
    BY <1>3, <1>a DEF Good
  <2>2. /\ r \in Seq(States(d)) /\ Len(r) = Len(q) + 1 /\ Len(q) \in Nat /\ r[Len(q) + 1] = x
        /\ \A k \in 1..Len(q) : r[k] = q[k]
    BY <2>1
  <2>3. \A k \in 1..Len(r) : k \in 1..Len(q) \/ k = Len(r)
    BY <2>2
  <2>4. 1..Len(q) \subseteq 1..Len(r) /\ Len(r) \in 1..Len(r)
    BY <2>2
  <2> HIDE DEF x, r
  <2>5. ASSUME NEW k \in 1..Len(r) PROVE \E i \in 1..n : d.edges[i].from = st /\ r[k] = d.edges[i].to
    <3>1. CASE k = Len(r) BY <1>a, <2>0, <2>2, <3>1 DEF x
    <3>2. CASE k \in 1..Len(q)
      <4>1. PICK i \in 1..(n - 1) : d.edges[i].from = st /\ q[k] = d.edges[i].to
        BY <1>a, <3>2 DEF Good
      <4>2. i \in 1..n BY <2>0
      <4> QED BY <2>2, <3>2, <4>1, <4>2
    <3> QED BY <2>3, <3>1, <3>2
  <2>6. ASSUME NEW i \in 1..n, d.edges[i].from = st PROVE \E k \in 1..Len(r) : r[k] = d.edges[i].to
    <3>1. CASE i = n BY <2>2, <2>4, <3>1 DEF x
    <3>2. CASE i \in 1..(n - 1)
      <4>1. PICK k \in 1..Len(q) : q[k] = d.edges[i].to
        BY <1>a, <2>6, <3>2 DEF Good
      <4> QED BY <2>2, <2>4, <4>1
    <3> QED BY <2>0, <3>1, <3>2
  <2>7. ASSUME d.kind[st] = "fork" PROVE \A i, k \in 1..Len(r) : r[i] = r[k] => i = k
    <3>1. \A k \in 1..Len(q) : q[k] # x
      <4> SUFFICES ASSUME NEW k \in 1..Len(q), q[k] = x PROVE FALSE
        OBVIOUS
      <4>1. PICK i \in 1..(n - 1) : d.edges[i].from = st /\ q[k] = d.edges[i].to
        BY <1>a DEF Good
      <4>2. i \in 1..N /\ n \in 1..N /\ i # n
        BY <1>2, <2>0
      <4>3. \A a, b \in 1..N :
              d.kind[d.edges[a].from] = "fork" /\ d.edges[a].from = d.edges[b].from
                 /\ d.edges[a].to = d.edges[b].to => a = b
        BY DEF Compiled, StateEdges, N
      <4> QED BY <1>a, <2>7, <4>1, <4>2, <4>3 DEF x
    <3>2. \A i, k \in 1..Len(q) : q[i] = q[k] => i = k
      BY <1>a, <2>7 DEF Good
    <3> QED BY <2>2, <2>3, <3>1, <3>2
  <2> QED BY <2>2, <2>5, <2>6, <2>7 DEF Good, r, x
<1>b. ASSUME NEW n \in 1..N, NEW q, Good(n - 1, q), d.edges[n].from # st PROVE Good(n, q)
  <2>0. n - 1 \in Nat /\ \A i \in 1..n : i = n \/ i \in 1..(n - 1)
    BY <1>2
  <2>1. \A i \in 1..(n - 1) : i \in 1..n
    BY <1>2
  <2> QED BY <1>b, <2>0, <2>1 DEF Good
<1>6. \A n \in 0..N : Good(n, upTo[n])
  <2> DEFINE T == {n \in 0..N : ~Good(n, upTo[n])}
  <2> SUFFICES ASSUME NEW k0 \in T PROVE FALSE
    OBVIOUS
  <2>1. T \in SUBSET Nat
    BY <1>2
  <2> HIDE DEF T
  <2>2. PICK k \in T : \A i \in T : k <= i
    BY <2>1, LeastNumber
  <2>3. k \in 0..N /\ ~Good(k, upTo[k])
    BY DEF T
  <2>4. upTo[k] = Step(upTo, k)
    BY <1>5, <2>3
  <2>5. CASE k = 0
    <3>1. upTo[k] = <<>>
      BY <2>4, <2>5 DEF Step
    <3>2. Good(k, <<>>)
      BY <2>5 DEF Good
    <3> QED BY <2>3, <3>1, <3>2
  <2>6. CASE k # 0
    <3>1. k - 1 \in 0..N /\ k \in 1..N /\ ~(k <= k - 1)
      BY <1>2, <2>3, <2>6
    <3>2. Good(k - 1, upTo[k - 1])
      BY <2>2, <3>1 DEF T
    <3>3. upTo[k] = IF d.edges[k].from = st THEN Append(upTo[k - 1], d.edges[k].to)
                                            ELSE upTo[k - 1]
      BY <2>4, <2>6 DEF Step
    <3> QED BY <1>a, <1>b, <2>3, <3>1, <3>2, <3>3
  <2> QED BY <2>5, <2>6
<1>7. Good(N, Branches(d, st))
  BY <1>1, <1>2, <1>6
<1> DEFINE B == Branches(d, st)
<1> HIDE DEF B
<1>8. \A i \in 1..Len(B) : B[i] \in Starts(d, st)
  <2> SUFFICES ASSUME NEW i \in 1..Len(B) PROVE B[i] \in Starts(d, st)
    OBVIOUS
  <2>1. PICK k \in 1..N : d.edges[k].from = st /\ B[i] = d.edges[k].to
    BY <1>7 DEF Good, B
  <2> QED BY <2>1 DEF Starts, Edges, N
<1>9. \A x \in Starts(d, st) : \E i \in 1..Len(B) : B[i] = x
  <2> SUFFICES ASSUME NEW x \in Starts(d, st) PROVE \E i \in 1..Len(B) : B[i] = x
    OBVIOUS
  <2>1. PICK k \in 1..N : d.edges[k].from = st /\ x = d.edges[k].to
    BY DEF Starts, Edges, N
  <2> QED BY <1>7, <2>1 DEF Good, B
<1>10. B \in Seq(States(d)) /\ (d.kind[st] = "fork" => \A i, k \in 1..Len(B) : B[i] = B[k] => i = k)
  BY <1>7 DEF Good, B
<1> QED BY <1>8, <1>9, <1>10 DEF B

\* The machines that draining passes through, one Work step after another.
Ended(w) == [w EXCEPT !.ok = @ /\ w.enter = <<>> /\ w.auto = <<>>]
Chain(d, route, m0, after) ==
    /\ after[0] = {m0}
    /\ \A n \in 1..Fuel(d) : after[n] = {Work(d, route, w) : w \in after[n - 1]}
    /\ after[Fuel(d)] # {} =>
          \E w \in after[Fuel(d)] : Drained(d, route, m0) = Ended(w)
LEMMA DrainedChain ==
    ASSUME NEW d, Compiled(d), NEW route, NEW m0
    PROVE  Fuel(d) \in Nat /\ \E after : Chain(d, route, m0, after)
<1> DEFINE N == Fuel(d)
           Step(f, n) == IF n = 0 THEN {m0} ELSE {Work(d, route, w) : w \in f[n - 1]}
           after == CHOOSE f : f = [n \in 0..N |-> Step(f, n)]
<1>1. Drained(d, route, m0) = CHOOSE r \in {Ended(w) : w \in after[N]} : TRUE
  BY DEF Drained, Ended
<1>2. N \in Nat
  <2>1. Len(d.edges) \in Nat
    BY DEF Compiled
  <2>2. Cardinality(States(d)) \in Nat
    BY FS_CardinalityType DEF Compiled
  <2> QED BY <2>1, <2>2 DEF Fuel
<1> HIDE DEF N
<1>4. \A k \in Nat : \E f : f = [n \in 0..k |-> Step(f, n)]
  <2> DEFINE T == {k \in Nat : ~ \E f : f = [n \in 0..k |-> Step(f, n)]}
  <2> SUFFICES ASSUME NEW k0 \in T PROVE FALSE
    OBVIOUS
  <2>1. T \in SUBSET Nat
    OBVIOUS
  <2> HIDE DEF T
  <2>2. PICK k \in T : \A i \in T : k <= i
    BY <2>1, LeastNumber
  <2>3. k \in Nat /\ ~ \E f : f = [n \in 0..k |-> Step(f, n)]
    BY DEF T
  <2>4. CASE k = 0
    <3> DEFINE f == [n \in 0..0 |-> {m0}]
    <3>1. f = [n \in 0..k |-> Step(f, n)]
      BY <2>4
    <3> QED BY <2>3, <3>1
  <2>5. CASE k # 0
    <3>1. k - 1 \in Nat /\ ~(k <= k - 1)
      BY <2>3, <2>5
    <3>2. k - 1 \notin T
      BY <2>2, <3>1
    <3>3. PICK f : f = [n \in 0..(k - 1) |-> Step(f, n)]
      BY <3>1, <3>2 DEF T
    <3> DEFINE h == [n \in 0..k |-> IF n = k THEN Step(f, k) ELSE f[n]]
    <3> HIDE DEF Step
    <3>4. ASSUME NEW n \in 0..k PROVE h[n] = Step(h, n)
      <4>1. n = 0 \/ h[n - 1] = f[n - 1]
        BY <2>3
      <4>2. Step(h, n) = Step(f, n)
        BY <4>1 DEF Step
      <4>3. n # k => f[n] = Step(f, n)
        <5> SUFFICES ASSUME n # k PROVE f[n] = Step(f, n)
          OBVIOUS
        <5>1. n \in 0..(k - 1)
          BY <2>3
        <5> QED BY <3>3, <5>1
      <4> QED BY <4>2, <4>3
    <3>5. h = [n \in 0..k |-> Step(h, n)]
      BY <3>4
    <3> QED BY <2>3, <3>5 DEF Step
  <2> QED BY <2>4, <2>5
<1>5. after = [n \in 0..N |-> Step(after, n)]
  BY <1>2, <1>4
<1> HIDE DEF after, Step
<1>6. \A n \in 0..N : after[n] = Step(after, n)
  BY <1>5
<1>7. after[0] = {m0}
  <2>1. after[0] = Step(after, 0)
    BY <1>2, <1>6
  <2> QED BY <2>1 DEF Step
<1>8. ASSUME NEW n \in 1..N PROVE after[n] = {Work(d, route, w) : w \in after[n - 1]}
  <2>1. after[n] = Step(after, n) /\ n # 0
    BY <1>2, <1>6
  <2> QED BY <2>1 DEF Step
<1>9. after[N] # {} => \E w \in after[N] : Drained(d, route, m0) = Ended(w)
  <2> SUFFICES ASSUME after[N] # {} PROVE \E w \in after[N] : Drained(d, route, m0) = Ended(w)
    OBVIOUS
  <2>1. {Ended(w) : w \in after[N]} # {}
    OBVIOUS
  <2>2. Drained(d, route, m0) \in {Ended(w) : w \in after[N]}
    BY <1>1, <2>1
  <2> QED BY <2>2
<1>10. Chain(d, route, m0, after)
  BY <1>7, <1>8, <1>9 DEF Chain, N
<1> QED BY <1>2, <1>10 DEF N

\* What every Work step keeps, draining keeps.
LEMMA DrainedWorks ==
    ASSUME NEW d, Compiled(d), NEW route, NEW s, NEW m0, Works(d, s, m0),
           \A m : Works(d, s, m) => Works(d, s, Work(d, route, m))
    PROVE  Yields(d, s, Drained(d, route, m0))
<1> DEFINE N == Fuel(d)
<1>0. N \in Nat /\ \E after : Chain(d, route, m0, after)
  BY DrainedChain
<1>1. N \in Nat
  BY <1>0
<1>a. PICK after : Chain(d, route, m0, after)
  BY <1>0
<1>2. /\ after[0] = {m0}
      /\ \A n \in 1..N : after[n] = {Work(d, route, w) : w \in after[n - 1]}
      /\ after[N] # {} => \E w \in after[N] : Drained(d, route, m0) = Ended(w)
  BY <1>a DEF Chain
<1> HIDE DEF N
<1>3. \A n \in 0..N : after[n] # {} /\ \A w \in after[n] : Works(d, s, w)
  <2> DEFINE T == {n \in 0..N : ~(after[n] # {} /\ \A w \in after[n] : Works(d, s, w))}
  <2> SUFFICES ASSUME NEW k0 \in T PROVE FALSE
    OBVIOUS
  <2>1. T \in SUBSET Nat
    BY <1>1
  <2> HIDE DEF T
  <2>2. PICK k \in T : \A i \in T : k <= i
    BY <2>1, LeastNumber
  <2>3. k \in 0..N /\ ~(after[k] # {} /\ \A w \in after[k] : Works(d, s, w))
    BY DEF T
  <2>4. CASE k = 0
    BY <1>2, <2>3, <2>4
  <2>5. CASE k # 0
    <3>1. k \in 1..N /\ k - 1 \in 0..N /\ ~(k <= k - 1)
      BY <1>1, <2>3, <2>5
    <3>2. after[k - 1] # {} /\ \A w \in after[k - 1] : Works(d, s, w)
      BY <2>2, <3>1 DEF T
    <3>3. after[k] = {Work(d, route, w) : w \in after[k - 1]}
      BY <1>2, <3>1
    <3> QED BY <2>3, <3>2, <3>3
  <2> QED BY <2>4, <2>5
<1>4. PICK w \in after[N] : Drained(d, route, m0) = Ended(w)
  BY <1>1, <1>2, <1>3
<1>5. Works(d, s, w)
  BY <1>1, <1>3
<1>6. Ended(w).s = w.s /\ (Ended(w).ok => w.enter = <<>>)
  BY <1>5 DEF Works, Moves, Ended
<1> QED BY <1>4, <1>5, <1>6 DEF Works, Moves, Yields, Snapshot


-----------------------------------------------------------------------------
(* Machines.                                                               *)

LEMMA Selected ==
    ASSUME NEW d, Compiled(d), NEW route \in Routes(d), NEW st, NEW on, From(d, st, on) # {}
    PROVE  SelectTransition(d, route, st, on).to \in States(d)
<1> DEFINE p == <<st, on>>
           e == SelectTransition(d, route, st, on)
<1>1. DOMAIN route = Guarded(d) /\ \A q \in Guarded(d) : route[q] \in From(d, q[1], q[2])
  BY DEF Routes
<1>2. CASE p \in DOMAIN route
  <2>1. route[p] \in From(d, p[1], p[2])
    BY <1>1, <1>2
  <2>2. e = route[p]
    BY <1>2 DEF SelectTransition
  <2> QED BY <2>1, <2>2, EdgesAreEdges DEF From
<1>3. CASE p \notin DOMAIN route
  <2>1. e = CHOOSE f \in From(d, st, on) : TRUE
    BY <1>3 DEF SelectTransition
  <2>2. e \in From(d, st, on)
    BY <2>1
  <2> QED BY <2>2, EdgesAreEdges DEF From
<1> QED BY <1>2, <1>3

\* What a machine's other fields are when one is replaced.
LEMMA MachineFields ==
    ASSUME NEW m, {"s", "enter", "auto", "ok"} \subseteq DOMAIN m, NEW v
    PROVE  /\ LET n == [m EXCEPT !.s = v]
              IN  DOMAIN n = DOMAIN m /\ n.s = v /\ n.enter = m.enter /\ n.auto = m.auto /\ n.ok = m.ok
           /\ LET n == [m EXCEPT !.enter = v]
              IN  DOMAIN n = DOMAIN m /\ n.s = m.s /\ n.enter = v /\ n.auto = m.auto /\ n.ok = m.ok
           /\ LET n == [m EXCEPT !.auto = v]
              IN  DOMAIN n = DOMAIN m /\ n.s = m.s /\ n.enter = m.enter /\ n.auto = v /\ n.ok = m.ok
           /\ LET n == [m EXCEPT !.ok = v]
              IN  DOMAIN n = DOMAIN m /\ n.s = m.s /\ n.enter = m.enter /\ n.auto = m.auto
OBVIOUS

\* The snapshot of a machine moves on.
LEMMA MovedOn ==
    ASSUME NEW d, NEW s, NEW m, Moves(d, s, m), NEW t, Shape(d, t), Keeps(m.s, t)
    PROVE  LET n == [m EXCEPT !.s = t]
           IN  Moves(d, s, n) /\ n.s = t /\ n.enter = m.enter /\ n.auto = m.auto
<1> DEFINE n == [m EXCEPT !.s = t]
<1>1. DOMAIN n = DOMAIN m /\ n.s = t /\ n.enter = m.enter /\ n.auto = m.auto
  BY MachineFields DEF Moves
<1>2. Keeps(s, t)
  BY KeepsOn DEF Moves
<1> HIDE DEF n
<1> QED BY <1>1, <1>2 DEF Moves, n

LEMMA Parked ==
    ASSUME NEW d, NEW s, Shape(d, s), NEW st \in States(d), NEW edge, edge.to \in States(d)
    PROVE  LET t == ParkCallback(s, st, edge)
           IN  Shape(d, t) /\ Keeps(s, t) /\ t.status = "waiting"
<1> DEFINE wait == [state |-> st, visit |-> s.visits[st], to |-> edge.to]
           t == ParkCallback(s, st, edge)
<1>1. Fields \subseteq DOMAIN s
  BY DEF Shape
<1>2. wait \in Waits(d)
  BY DEF Waits, Shape
<1>3. t = [s EXCEPT !.pending = Append(@, wait), !.status = "waiting"]
  BY DEF ParkCallback
<1> HIDE DEF t, wait
<1>4. /\ DOMAIN t = DOMAIN s /\ t.commands = s.commands /\ t.active = s.active /\ t.done = s.done
      /\ t.visits = s.visits /\ t.pending = Append(s.pending, wait) /\ t.status = "waiting"
  BY <1>1, <1>3 DEF Fields
<1>5. t.pending \in Seq(Waits(d))
  BY <1>2, <1>4 DEF Shape
<1>6. /\ t.active \subseteq States(d) /\ t.done \subseteq States(d) /\ t.active \cap t.done = {}
      /\ t.visits \in [States(d) -> Nat]
      /\ \A q \in States(d) : s.visits[q] <= t.visits[q]
  BY <1>4 DEF Shape
<1>7. Shape(d, t) /\ Keeps(s, t)
  BY <1>4, <1>5, <1>6, SameCommands
<1> QED BY <1>4, <1>7 DEF t

LEMMA Followed ==
    ASSUME NEW d, Compiled(d), NEW route \in Routes(d), NEW s, NEW m, Moves(d, s, m),
           NEW st \in States(d), NEW on, From(d, st, on) # {}
    PROVE  Works(d, s, Follow(d, route, m, st, on))
<1> DEFINE e == SelectTransition(d, route, st, on)
<1>1. e.to \in States(d)
  BY Selected
<1> HIDE DEF e
<1>2. CASE e.mode = "callback"
  <2> DEFINE t == ParkCallback(m.s, st, e)
  <2>1. Shape(d, t) /\ Keeps(m.s, t) /\ t.status = "waiting"
    BY <1>1, Parked DEF Moves
  <2>2. Follow(d, route, m, st, on) = [m EXCEPT !.s = t]
    BY <1>2 DEF Follow, e
  <2> HIDE DEF t
  <2> DEFINE n == [m EXCEPT !.s = t]
  <2>3. Moves(d, s, n) /\ n.s = t
    BY <2>1, MovedOn
  <2>4. "waiting" \in RunStatuses
    BY DEF RunStatuses, RunActive
  <2> QED BY <2>1, <2>2, <2>3, <2>4 DEF Works
<1>3. CASE e.mode # "callback"
  <2> DEFINE q == <<<<e.to, st>>>> \o m.enter
             n == [m EXCEPT !.enter = q]
  <2>1. Follow(d, route, m, st, on) = n
    BY <1>3 DEF Follow, e
  <2>2. q \in Seq(States(d) \X (States(d) \cup {None})) /\ q # <<>>
    <3>1. <<e.to, st>> \in States(d) \X (States(d) \cup {None})
      BY <1>1
    <3>2. m.enter \in Seq(States(d) \X (States(d) \cup {None}))
      BY DEF Moves
    <3> QED BY <3>1, <3>2
  <2> HIDE DEF q
  <2>3. DOMAIN n = DOMAIN m /\ n.s = m.s /\ n.enter = q /\ n.auto = m.auto
    BY MachineFields DEF Moves
  <2> QED BY <2>1, <2>2, <2>3 DEF Works, Moves
<1> QED BY <1>2, <1>3

LEMMA Left ==
    ASSUME NEW d, NEW s, Shape(d, s), NEW st \in States(d)
    PROVE  /\ LET t == [s EXCEPT !.active = @ \ {st}]
              IN  Shape(d, t) /\ Keeps(s, t) /\ t.status = s.status
           /\ LET t == [s EXCEPT !.active = @ \ {st}, !.done = @ \cup {st}]
              IN  Shape(d, t) /\ Keeps(s, t) /\ t.status = s.status
<1>0. Fields \subseteq DOMAIN s
  BY DEF Shape
<1>1. ASSUME NEW t, DOMAIN t = DOMAIN s, t.commands = s.commands, t.active = s.active \ {st},
             t.done = s.done \/ t.done = s.done \cup {st}, t.visits = s.visits, t.pending = s.pending
      PROVE  Shape(d, t) /\ Keeps(s, t)
  <2>1. /\ t.active \subseteq States(d) /\ t.done \subseteq States(d) /\ t.active \cap t.done = {}
        /\ t.visits \in [States(d) -> Nat]
        /\ \A q \in States(d) : s.visits[q] <= t.visits[q]
        /\ t.pending \in Seq(Waits(d))
    BY <1>1 DEF Shape
  <2> QED BY <1>1, <2>1, SameCommands
<1>2. LET t == [s EXCEPT !.active = @ \ {st}]
      IN  Shape(d, t) /\ Keeps(s, t) /\ t.status = s.status
  <2> DEFINE t == [s EXCEPT !.active = @ \ {st}]
  <2>1. /\ DOMAIN t = DOMAIN s /\ t.commands = s.commands /\ t.active = s.active \ {st}
        /\ t.done = s.done /\ t.visits = s.visits /\ t.pending = s.pending /\ t.status = s.status
    BY <1>0 DEF Fields
  <2> HIDE DEF t
  <2>2. Shape(d, t) /\ Keeps(s, t) BY <1>1, <2>1
  <2> QED BY <2>1, <2>2 DEF t
<1>3. LET t == [s EXCEPT !.active = @ \ {st}, !.done = @ \cup {st}]
      IN  Shape(d, t) /\ Keeps(s, t) /\ t.status = s.status
  <2> DEFINE t == [s EXCEPT !.active = @ \ {st}, !.done = @ \cup {st}]
  <2>1. /\ DOMAIN t = DOMAIN s /\ t.commands = s.commands /\ t.active = s.active \ {st}
        /\ t.done = s.done \cup {st} /\ t.visits = s.visits /\ t.pending = s.pending
        /\ t.status = s.status
    BY <1>0 DEF Fields
  <2> HIDE DEF t
  <2>2. Shape(d, t) /\ Keeps(s, t) BY <1>1, <2>1
  <2> QED BY <2>1, <2>2 DEF t
<1> QED BY <1>2, <1>3

LEMMA Completed ==
    ASSUME NEW d, Compiled(d), NEW route \in Routes(d), NEW s, NEW m, Moves(d, s, m),
           NEW st \in States(d), NEW on, From(d, st, on) # {}
    PROVE  Works(d, s, CompleteState(d, route, m, st, on))
<1> DEFINE t == [m.s EXCEPT !.active = @ \ {st}, !.done = @ \cup {st}]
           n == [m EXCEPT !.s = t]
<1>1. Shape(d, t) /\ Keeps(m.s, t)
  BY Left DEF Moves
<1>2. CompleteState(d, route, m, st, on) = Follow(d, route, n, st, on)
  BY DEF CompleteState
<1> HIDE DEF t
<1>3. Moves(d, s, n)
  BY <1>1, MovedOn
<1> QED BY <1>2, <1>3, Followed

\* A new machine, on a snapshot reached from s.
LEMMA Fresh ==
    ASSUME NEW d, NEW s, NEW t, Shape(d, t), Keeps(s, t)
    PROVE  /\ Moves(d, s, Machine(t)) /\ Machine(t).s = t /\ Machine(t).enter = <<>>
           /\ t.status \in RunStatuses => Works(d, s, Machine(t)) /\ Yields(d, s, Machine(t))
BY DEF Moves, Works, Machine, Yields, Snapshot

LEMMA FailureFollowed ==
    ASSUME NEW d, Compiled(d), NEW route \in Routes(d), NEW s, NEW t, Shape(d, t), Keeps(s, t),
           NEW st \in States(d), d.kind[st] \in EffectKinds
    PROVE  Works(d, s, FailState(d, route, t, st))
<1> DEFINE u == [t EXCEPT !.active = @ \ {st}]
<1>1. Shape(d, u) /\ Keeps(t, u)
  BY Left
<1>2. FailState(d, route, t, st) = Follow(d, route, Machine(u), st, "failure")
  BY DEF FailState
<1> HIDE DEF u
<1>3. Moves(d, s, Machine(u))
  BY <1>1, KeepsOn, Fresh
<1>4. From(d, st, "failure") # {}
  BY DEF Compiled, StateEdges
<1> QED BY <1>2, <1>3, <1>4, Followed


\* A state is entered: one more visit, of which there is no command yet.
LEMMA Entered ==
    ASSUME NEW d, NEW s, Shape(d, s), NEW st \in States(d)
    PROVE  LET t == [s EXCEPT !.arrivals[st] = {}, !.done = @ \ {st}, !.active = @ \cup {st},
                              !.visits[st] = @ + 1, !.status = "running"]
           IN  /\ Shape(d, t) /\ Keeps(s, t) /\ t.status = "running" /\ t.visits[st] > 0
               /\ \A c \in Cmds(t) : c.state = st => c.visit < t.visits[st]
<1> DEFINE t == [s EXCEPT !.arrivals[st] = {}, !.done = @ \ {st}, !.active = @ \cup {st},
                          !.visits[st] = @ + 1, !.status = "running"]
<1>0. Fields \subseteq DOMAIN s
  BY DEF Shape
<1>1. /\ DOMAIN t = DOMAIN s /\ t.commands = s.commands /\ t.active = s.active \cup {st}
      /\ t.done = s.done \ {st} /\ t.pending = s.pending /\ t.status = "running"
  BY <1>0 DEF Fields
<1>2. t.visits = [s.visits EXCEPT ![st] = s.visits[st] + 1]
  BY <1>0 DEF Fields
<1> HIDE DEF t
<1>3. /\ t.visits \in [States(d) -> Nat] /\ t.visits[st] = s.visits[st] + 1
      /\ \A q \in States(d) : s.visits[q] <= t.visits[q]
  BY <1>2 DEF Shape
<1>4. /\ t.active \subseteq States(d) /\ t.done \subseteq States(d) /\ t.active \cap t.done = {}
      /\ t.pending \in Seq(Waits(d))
  BY <1>1 DEF Shape
<1>5. Shape(d, t) /\ Keeps(s, t)
  BY <1>1, <1>3, <1>4, SameCommands
<1>6. s.visits[st] \in Nat
  BY DEF Shape
<1>7. ASSUME NEW c \in Cmds(t), c.state = st PROVE c.visit < t.visits[st]
  <2>1. c \in Cmds(s)
    BY <1>1 DEF Cmds
  <2>2. c.visit \in 1..s.visits[st]
    BY <1>7, <2>1 DEF Shape, CommandOK
  <2> QED BY <1>3, <1>6, <2>2
<1> QED BY <1>1, <1>3, <1>5, <1>6, <1>7 DEF t

\* The status of a run, and what arrived at a join, may become anything.
LEMMA Restated ==
    ASSUME NEW d, NEW s, Shape(d, s), NEW v
    PROVE  LET t == [s EXCEPT !.status = v]
           IN  Shape(d, t) /\ Keeps(s, t) /\ t.status = v
<1> DEFINE t == [s EXCEPT !.status = v]
<1>0. Fields \subseteq DOMAIN s
  BY DEF Shape
<1>1. /\ DOMAIN t = DOMAIN s /\ t.commands = s.commands /\ t.active = s.active
      /\ t.done = s.done /\ t.visits = s.visits /\ t.pending = s.pending /\ t.status = v
  BY <1>0 DEF Fields
<1> HIDE DEF t
<1>2. /\ t.active \subseteq States(d) /\ t.done \subseteq States(d) /\ t.active \cap t.done = {}
      /\ t.visits \in [States(d) -> Nat] /\ t.pending \in Seq(Waits(d))
      /\ \A q \in States(d) : s.visits[q] <= t.visits[q]
  BY <1>1 DEF Shape
<1>3. Shape(d, t) /\ Keeps(s, t)
  BY <1>1, <1>2, SameCommands
<1> QED BY <1>1, <1>3 DEF t

\* A step that changes only what is active or done, what arrived, and the status.
LEMMA Rearranged ==
    ASSUME NEW d, NEW s, NEW t, Shape(d, s),
           DOMAIN t = DOMAIN s, t.commands = s.commands, t.visits = s.visits,
           t.pending = s.pending,
           t.active \subseteq s.active, t.done \subseteq States(d), t.active \cap t.done = {}
    PROVE  Shape(d, t) /\ Keeps(s, t)
<1>1. /\ t.active \subseteq States(d) /\ t.visits \in [States(d) -> Nat]
      /\ t.pending \in Seq(Waits(d))
      /\ \A q \in States(d) : s.visits[q] <= t.visits[q]
  BY DEF Shape
<1> QED BY <1>1, SameCommands

LEMMA HeadEntered ==
    ASSUME NEW d, Compiled(d), NEW s0, NEW m, Moves(d, s0, m), m.enter # <<>>
    PROVE  Works(d, s0, EnterHead(d, m))
<1> DEFINE st == m.enter[1][1]
           pred == m.enter[1][2]
           n == [m EXCEPT !.enter = Tail(@)]
           s == [m.s EXCEPT !.arrivals[st] = {}, !.done = @ \ {st}, !.active = @ \cup {st},
                            !.visits[st] = @ + 1, !.status = "running"]
           left == [s EXCEPT !.active = @ \ {st}]
           over == [left EXCEPT !.done = @ \cup {st}]
           waits == [m.s EXCEPT !.arrivals[st] = @ \cup ({pred} \ {None}), !.status = "waiting"]
           emitted == EmitCommand(s, st, None)
           kind == d.kind[st]
           E == EnterHead(d, m)
           Pairs == States(d) \X (States(d) \cup {None})
<1>1. st \in States(d) /\ Tail(m.enter) \in Seq(Pairs)
  <2>1. m.enter \in Seq(Pairs)
    BY DEF Moves
  <2>2. m.enter[1] \in Pairs /\ Tail(m.enter) \in Seq(Pairs)
    BY <2>1
  <2> QED BY <2>2
<1>2. Moves(d, s0, n) /\ n.s = m.s /\ n.enter = Tail(m.enter) /\ n.auto = m.auto
  <2>1. DOMAIN n = DOMAIN m /\ n.s = m.s /\ n.enter = Tail(m.enter) /\ n.auto = m.auto
    BY MachineFields DEF Moves
  <2> HIDE DEF n
  <2> QED BY <1>1, <2>1 DEF Moves
<1>3. kind \in Kinds
  BY <1>1 DEF Compiled
\* The arms of the CASE.
<1>4. /\ JoinWaits(d, m.s, st, pred) => E = [n EXCEPT !.s = waits]
      /\ kind \in {"pass", "choice", "join"} /\ ~JoinWaits(d, m.s, st, pred) =>
            E = [n EXCEPT !.s = s, !.auto = Append(@, <<st, "complete">>)]
      /\ kind = "fork" => E = [n EXCEPT !.s = over,
                                 !.enter = [i \in 1..Len(Branches(d, st)) |->
                                               <<Branches(d, st)[i], st>>] \o @]
      /\ kind = "authorization" =>
            E = [n EXCEPT !.s = [emitted EXCEPT !.status = "authorization-required"]]
      /\ kind \in {"actor", "script"} => E = [n EXCEPT !.s = emitted]
      /\ kind = "workset" =>
            E = IF ~ListIsValid(d, List(d, s, st)) THEN [m EXCEPT !.ok = FALSE]
                ELSE IF WorksetSatisfied(d, s, st)
                THEN [n EXCEPT !.s = s, !.auto = Append(@, <<st, "success">>)]
                ELSE [n EXCEPT !.s = ScheduleWorkset(d, s, st)]
      /\ kind = "succeed" => E = [n EXCEPT !.s = [over EXCEPT !.status = "completed"]]
      /\ kind = "fail" => E = [n EXCEPT !.s = [left EXCEPT !.status = "failed"]]
      /\ kind = "blocked" => E = [n EXCEPT !.s = [left EXCEPT !.status = "blocked"]]
  <2>1. JoinWaits(d, m.s, st, pred) => kind = "join"
    BY DEF JoinWaits
  <2> QED BY <2>1 DEF EnterHead
<1> HIDE DEF E, kind, n
<1>5. /\ Shape(d, s) /\ Keeps(m.s, s) /\ s.status = "running" /\ s.visits[st] > 0
      /\ \A c \in Cmds(s) : c.state = st => c.visit < s.visits[st]
  BY <1>1, Entered DEF Moves
<1>6. Shape(d, waits) /\ Keeps(m.s, waits) /\ waits.status = "waiting"
  <2>1. Shape(d, m.s)
    BY DEF Moves
  <2>2. Fields \subseteq DOMAIN m.s
    BY <2>1 DEF Shape
  <2>3. /\ DOMAIN waits = DOMAIN m.s /\ waits.commands = m.s.commands
        /\ waits.visits = m.s.visits /\ waits.pending = m.s.pending
        /\ waits.active = m.s.active /\ waits.done = m.s.done /\ waits.status = "waiting"
    BY <2>2 DEF Fields
  <2> HIDE DEF waits
  <2>4. waits.done \subseteq States(d) /\ waits.active \cap waits.done = {}
    BY <2>1, <2>3 DEF Shape
  <2>5. Shape(d, waits) /\ Keeps(m.s, waits)
    BY <2>1, <2>3, <2>4, Rearranged
  <2> QED BY <2>3, <2>5
<1> HIDE DEF s, waits, st
<1>7. /\ Shape(d, left) /\ Keeps(m.s, left) /\ left.status = "running"
      /\ Shape(d, over) /\ Keeps(m.s, over) /\ over.status = "running"
  <2>1. Fields \subseteq DOMAIN s
    BY <1>5 DEF Shape
  <2>2. /\ DOMAIN left = DOMAIN s /\ left.commands = s.commands
        /\ left.visits = s.visits /\ left.pending = s.pending
        /\ left.active = s.active \ {st} /\ left.done = s.done /\ left.status = s.status
    BY <2>1 DEF Fields
  <2>3. /\ DOMAIN over = DOMAIN s /\ over.commands = s.commands
        /\ over.visits = s.visits /\ over.pending = s.pending
        /\ over.active = s.active \ {st} /\ over.done = s.done \cup {st} /\ over.status = s.status
    BY <2>1 DEF Fields
  <2> HIDE DEF left, over
  <2>4. /\ left.active \subseteq s.active /\ left.done \subseteq States(d)
        /\ left.active \cap left.done = {}
        /\ over.active \subseteq s.active /\ over.done \subseteq States(d)
        /\ over.active \cap over.done = {}
    BY <1>1, <1>5, <2>2, <2>3 DEF Shape
  <2>5. Shape(d, left) /\ Keeps(s, left)
    BY <1>5, <2>2, <2>4, Rearranged
  <2>6. Shape(d, over) /\ Keeps(s, over)
    BY <1>5, <2>3, <2>4, Rearranged
  <2> QED BY <1>5, <2>2, <2>3, <2>5, <2>6, KeepsOn
<1> HIDE DEF left, over
<1>9. kind \in EffectKinds => Shape(d, emitted) /\ Keeps(m.s, emitted) /\ emitted.status = "running"
  <2> SUFFICES ASSUME kind \in EffectKinds
               PROVE  Shape(d, emitted) /\ Keeps(m.s, emitted) /\ emitted.status = "running"
    OBVIOUS
  <2>1. Shape(d, emitted) /\ Keeps(s, emitted) /\ Alike(s, emitted)
    BY <1>1, <1>5, Emitted DEF kind
  <2> HIDE DEF emitted
  <2> QED BY <1>5, <2>1, KeepsOn DEF Alike
<1> HIDE DEF emitted
<1>10. {"running", "waiting", "authorization-required", "completed", "failed", "blocked"}
         \subseteq RunStatuses
  BY DEF RunStatuses, RunActive, AssistantTerminal, Settled
\* The machine with another snapshot, of a known status.
<1>11. ASSUME NEW t, Shape(d, t), Keeps(m.s, t), t.status \in RunStatuses
       PROVE  Works(d, s0, [n EXCEPT !.s = t])
  BY <1>2, <1>11, MovedOn DEF Works
\* The same, with its status changed.
<1>12. ASSUME NEW t, Shape(d, t), Keeps(m.s, t), NEW v \in RunStatuses
       PROVE  Works(d, s0, [n EXCEPT !.s = [t EXCEPT !.status = v]])
  <2> DEFINE u == [t EXCEPT !.status = v]
  <2>1. Shape(d, u) /\ Keeps(t, u) /\ u.status = v
    BY <1>12, Restated
  <2> HIDE DEF u
  <2>2. Keeps(m.s, u)
    BY <1>12, <2>1, KeepsOn
  <2>3. Works(d, s0, [n EXCEPT !.s = u])
    BY <1>11, <2>1, <2>2
  <2> QED BY <2>3 DEF u
\* The same, with a completion queued.
<1>13. ASSUME NEW on \in {"complete", "success"}, From(d, st, on) # {}
       PROVE  Works(d, s0, [n EXCEPT !.s = s, !.auto = Append(@, <<st, on>>)])
  <2> DEFINE o == [n EXCEPT !.s = s, !.auto = Append(@, <<st, on>>)]
             k == [n EXCEPT !.s = s]
  <2>1. Works(d, s0, k)
    BY <1>5, <1>10, <1>11
  <2>2. {"s", "enter", "auto", "ok"} \subseteq DOMAIN n
    BY <1>2 DEF Moves
  <2>3. k.s = s /\ k.enter = n.enter /\ k.auto = n.auto
    BY <2>2
  <2>4. DOMAIN o = DOMAIN k /\ o.s = s /\ o.enter = n.enter /\ o.auto = Append(n.auto, <<st, on>>)
    BY <2>2
  <2>5. <<st, on>> \in Automatics(d)
    BY <1>1, <1>13 DEF Automatics
  <2> HIDE DEF o, k
  <2>6. o.auto \in Seq(Automatics(d))
    BY <2>1, <2>3, <2>4, <2>5 DEF Works, Moves
  <2>7. Works(d, s0, o)
    BY <2>1, <2>3, <2>4, <2>6 DEF Works, Moves
  <2> QED BY <2>7 DEF o
<1>14. CASE JoinWaits(d, m.s, st, pred)
  BY <1>4, <1>6, <1>10, <1>11, <1>14 DEF E
<1>15. CASE kind \in AutomaticKinds /\ ~JoinWaits(d, m.s, st, pred)
  <2>1. From(d, st, "complete") # {}
    BY <1>1, <1>15 DEF Compiled, StateEdges, kind
  <2>2. E = [n EXCEPT !.s = s, !.auto = Append(@, <<st, "complete">>)]
    BY <1>4, <1>15 DEF AutomaticKinds
  <2> QED BY <1>13, <2>1, <2>2 DEF E
<1>16. CASE kind = "fork"
  <2> DEFINE B == Branches(d, st)
             q == [i \in 1..Len(B) |-> <<B[i], st>>]
             k == [n EXCEPT !.s = over]
             o == [n EXCEPT !.s = over, !.enter = q \o @]
  <2>1. B \in Seq(States(d))
    BY BranchesAreStates
  <2> HIDE DEF B
  <2>2. q \in Seq(Pairs)
    <3>1. \A i \in 1..Len(B) : <<B[i], st>> \in Pairs
      BY <1>1, <2>1
    <3>2. Len(B) \in Nat
      BY <2>1
    <3> HIDE DEF Pairs
    <3> QED BY <3>1, <3>2
  <2> HIDE DEF q
  <2>3. Works(d, s0, k)
    BY <1>7, <1>10, <1>11
  <2>4. {"s", "enter", "auto", "ok"} \subseteq DOMAIN n
    BY <1>2 DEF Moves
  <2>5. k.s = over /\ k.enter = n.enter /\ k.auto = n.auto /\ DOMAIN k = DOMAIN n
    BY <2>4
  <2>6. DOMAIN o = DOMAIN n /\ o.s = over /\ o.enter = q \o n.enter /\ o.auto = n.auto
    BY <2>4
  <2> HIDE DEF o, k
  <2>7. o.enter \in Seq(Pairs)
    <3>1. n.enter \in Seq(Pairs)
      BY <1>2 DEF Moves
    <3> HIDE DEF Pairs
    <3> QED BY <2>2, <2>6, <3>1
  <2>8. Works(d, s0, o)
    BY <1>7, <1>10, <2>3, <2>5, <2>6, <2>7 DEF Works, Moves
  <2> QED BY <1>4, <1>16, <2>8 DEF E, o, q, B
<1>17. CASE kind = "authorization"
  BY <1>4, <1>9, <1>10, <1>12, <1>17 DEF E, EffectKinds
<1>18. CASE kind \in {"actor", "script"}
  BY <1>4, <1>9, <1>10, <1>11, <1>18 DEF E, EffectKinds
<1>19. CASE kind = "workset"
  <2> DEFINE t == ScheduleWorkset(d, s, st)
  <2>1. From(d, st, "success") # {}
    BY <1>1, <1>19 DEF Compiled, StateEdges, kind, EffectKinds
  <2>2. Shape(d, t) /\ Keeps(s, t) /\ Alike(s, t)
    BY <1>1, <1>5, <1>19, Scheduled DEF kind, EffectKinds
  <2> HIDE DEF t
  <2>3. Keeps(m.s, t) /\ t.status \in RunStatuses
    BY <1>5, <1>10, <2>2, KeepsOn DEF Alike
  <2>4. Works(d, s0, [n EXCEPT !.s = t])
    BY <1>11, <2>2, <2>3
  <2>5. E = IF ~ListIsValid(d, List(d, s, st)) THEN [m EXCEPT !.ok = FALSE]
            ELSE IF WorksetSatisfied(d, s, st)
            THEN [n EXCEPT !.s = s, !.auto = Append(@, <<st, "success">>)]
            ELSE [n EXCEPT !.s = t]
    BY <1>4, <1>19 DEF t
  <2>6. Works(d, s0, [m EXCEPT !.ok = FALSE])
    <3> DEFINE o == [m EXCEPT !.ok = FALSE]
    <3>1. DOMAIN o = DOMAIN m /\ o.s = m.s /\ o.enter = m.enter /\ o.auto = m.auto
      BY MachineFields DEF Moves
    <3> HIDE DEF o
    <3>2. Works(d, s0, o)
      BY <3>1 DEF Works, Moves
    <3> QED BY <3>2 DEF o
  <2> QED BY <1>13, <2>1, <2>4, <2>5, <2>6 DEF E
<1>20. CASE kind = "succeed"
  BY <1>4, <1>7, <1>10, <1>12, <1>20 DEF E
<1>21. CASE kind \in {"fail", "blocked"}
  BY <1>4, <1>7, <1>10, <1>12, <1>21 DEF E
<1>22. \/ JoinWaits(d, m.s, st, pred)
       \/ kind \in AutomaticKinds /\ ~JoinWaits(d, m.s, st, pred)
       \/ kind \in {"fork", "authorization", "actor", "script", "workset", "succeed", "fail", "blocked"}
  BY <1>3 DEF Kinds, EffectKinds, EndKinds
<1> QED BY <1>14, <1>15, <1>16, <1>17, <1>18, <1>19, <1>20, <1>21, <1>22

LEMMA WorkWorks ==
    ASSUME NEW d, Compiled(d), NEW route \in Routes(d), NEW s, NEW m, Works(d, s, m)
    PROVE  Works(d, s, Work(d, route, m))
<1>1. CASE m.enter # <<>>
  <2>1. Work(d, route, m) = EnterHead(d, m)
    BY <1>1 DEF Work
  <2> QED BY <1>1, <2>1, HeadEntered DEF Works
<1>2. CASE m.enter = <<>> /\ m.auto # <<>>
  <2> DEFINE n == [m EXCEPT !.auto = Tail(@)]
             st == m.auto[1][1]
             on == m.auto[1][2]
  <2>1. Work(d, route, m) = CompleteState(d, route, n, st, on)
    BY <1>2 DEF Work
  <2>2. m.auto \in Seq(Automatics(d))
    BY DEF Works, Moves
  <2>3. m.auto[1] \in Automatics(d) /\ Tail(m.auto) \in Seq(Automatics(d))
    BY <1>2, <2>2
  <2>4. st \in States(d) /\ From(d, st, on) # {}
    BY <2>3 DEF Automatics
  <2>5. DOMAIN n = DOMAIN m /\ n.s = m.s /\ n.enter = m.enter /\ n.auto = Tail(m.auto)
    BY MachineFields DEF Works, Moves
  <2> HIDE DEF n, st, on
  <2>6. Moves(d, s, n)
    BY <2>3, <2>5 DEF Works, Moves
  <2> QED BY <2>1, <2>4, <2>6, Completed
<1>3. CASE m.enter = <<>> /\ m.auto = <<>>
  BY <1>3 DEF Work
<1> QED BY <1>1, <1>2, <1>3

\* Draining a machine yields a snapshot that keeps what there was.
LEMMA DrainedYields ==
    ASSUME NEW d, Compiled(d), NEW route \in Routes(d), NEW s, NEW m, Works(d, s, m)
    PROVE  Yields(d, s, Drained(d, route, m))
BY WorkWorks, DrainedWorks


-----------------------------------------------------------------------------
(* The events of the reducer.                                              *)

\* A snapshot of which only the waits and the status change.
LEMMA Rewritten ==
    ASSUME NEW d, NEW s, NEW t, Shape(d, s),
           DOMAIN t = DOMAIN s, t.active = s.active, t.done = s.done, t.visits = s.visits,
           t.pending \in Seq(Waits(d)), t.commands = s.commands
    PROVE  Shape(d, t) /\ Keeps(s, t)
<1>1. /\ t.active \subseteq States(d) /\ t.done \subseteq States(d) /\ t.active \cap t.done = {}
      /\ t.visits \in [States(d) -> Nat]
      /\ \A q \in States(d) : s.visits[q] <= t.visits[q]
  BY DEF Shape
<1> QED BY <1>1, SameCommands

LEMMA Refreshed ==
    ASSUME NEW d, NEW s, Shape(d, s), NEW st
    PROVE  LET t == RefreshWorksetStatus(s, st) IN Snapshot(d, t) /\ Keeps(s, t)
<1> DEFINE retry == {c \in VisitCommands(s, st) : Status(s, c) = "retryable"}
           for(why) == \E c \in retry : s.commands[c].why = why
           v == CASE \E c \in VisitCommands(s, st) : Status(s, c) = "in-doubt" -> "cancel-in-doubt"
                  [] OTHER -> IF retry = {} THEN "running"
                              ELSE IF for("authority") THEN WaitFor("authority")
                              ELSE IF for("runtime") THEN WaitFor("runtime")
                              ELSE "retryable"
           t == [s EXCEPT !.status = v]
<1>1. RefreshWorksetStatus(s, st) = t
  BY DEF RefreshWorksetStatus
<1>2. v \in RunStatuses
  BY DEF RunStatuses, Settled, AssistantTerminal, RunActive, WaitFor
<1> HIDE DEF v
<1>3. Shape(d, t) /\ Keeps(s, t) /\ t.status = v
  BY Restated
<1> QED BY <1>1, <1>2, <1>3 DEF Snapshot

LEMMA RefusedYields ==
    ASSUME NEW d, NEW s, NEW t
    PROVE  Yields(d, s, Refused(t)) /\ Refused(t).s = t /\ ~Refused(t).ok
BY DEF Refused, Machine, Yields

LEMMA WorksetFailed ==
    ASSUME NEW d, Compiled(d), NEW route \in Routes(d), NEW s, NEW t, Snapshot(d, t), Keeps(s, t),
           NEW st \in States(d), d.kind[st] \in EffectKinds
    PROVE  Works(d, s, WorksetFailureReady(d, route, t, st))
<1> DEFINE cs == {c \in VisitCommands(t, st) : Status(t, c) \in Unstarted \/ FallbackBase(d, t, c)}
           stopped == Mark(t, cs, "cancelled")
           next == IF VisitUnsettled(d, stopped, st)
                   THEN Machine(RefreshWorksetStatus(stopped, st))
                   ELSE IF "failed" \notin {Status(stopped, c) : c \in VisitCommands(stopped, st)}
                   THEN Machine(stopped)
                   ELSE FailState(d, route, stopped, st)
<1>1. WorksetFailureReady(d, route, t, st) = next
  BY DEF WorksetFailureReady
<1>2. \A c \in Cmds(t) : c \in cs => Status(t, c) \notin Final
  BY DEF FallbackBase, Unstarted, Final
<1> HIDE DEF cs
<1>3. Shape(d, stopped) /\ Keeps(t, stopped) /\ Alike(t, stopped)
  <2>1. "cancelled" \in CommandStatuses \ (Held \cup {"pending"})
    BY DEF CommandStatuses, Held
  <2> QED BY <1>2, <2>1, MarkedKeeps DEF Snapshot
<1> HIDE DEF stopped
<1>4. Keeps(s, stopped) /\ stopped.status \in RunStatuses
  BY <1>3, KeepsOn DEF Alike, Snapshot
<1>5. Works(d, s, Machine(stopped))
  BY <1>3, <1>4, Fresh
<1>6. Works(d, s, FailState(d, route, stopped, st))
  BY <1>3, <1>4, FailureFollowed
<1>7. Works(d, s, Machine(RefreshWorksetStatus(stopped, st)))
  <2> DEFINE u == RefreshWorksetStatus(stopped, st)
  <2>1. Snapshot(d, u) /\ Keeps(stopped, u)
    BY <1>3, Refreshed
  <2> HIDE DEF u
  <2>2. Keeps(s, u)
    BY <1>4, <2>1, KeepsOn
  <2>3. Works(d, s, Machine(u))
    BY <2>1, <2>2, Fresh DEF Snapshot
  <2> QED BY <2>3 DEF u
<1> QED BY <1>1, <1>5, <1>6, <1>7

\* merge_run_context
LEMMA MergedKeeps ==
    ASSUME NEW d, NEW s, Snapshot(d, s), NEW lists
    PROVE  LET u == Merge(s, lists)
           IN  /\ Snapshot(d, u) /\ Keeps(s, u) /\ Cmds(u) = Cmds(s) /\ u.lists = lists
               /\ DOMAIN u = DOMAIN s /\ u.commands = s.commands /\ u.used = s.used
               /\ u.active = s.active /\ u.done = s.done /\ u.visits = s.visits
               /\ u.pending = s.pending /\ u.arrivals = s.arrivals /\ u.status = s.status
<1> DEFINE u == Merge(s, lists)
<1>1. /\ DOMAIN u = DOMAIN s /\ u.commands = s.commands /\ u.lists = lists /\ u.used = s.used
      /\ u.active = s.active /\ u.done = s.done /\ u.visits = s.visits /\ u.pending = s.pending
      /\ u.arrivals = s.arrivals /\ u.status = s.status
  BY DEF Merge, Snapshot, Shape, Fields
<1> HIDE DEF u
<1>2. Shape(d, u) /\ Keeps(s, u)
  <2>1. /\ u.active \subseteq States(d) /\ u.done \subseteq States(d) /\ u.active \cap u.done = {}
        /\ u.visits \in [States(d) -> Nat] /\ u.pending \in Seq(Waits(d))
        /\ \A q \in States(d) : s.visits[q] <= u.visits[q]
    BY <1>1 DEF Snapshot, Shape
  <2> QED BY <1>1, <2>1, SameCommands DEF Snapshot
<1> QED BY <1>1, <1>2 DEF u, Snapshot, Cmds

\* CommandSucceeded
LEMMA SuccessYields ==
    ASSUME NEW d, Compiled(d), NEW route \in Routes(d), NEW s, Snapshot(d, s), NEW c \in Cmds(s),
           NEW lists
    PROVE  Yields(d, s, SettleSuccess(d, route, s, c, lists))
<1> DEFINE st == c.state
           k == Merge(s, lists)
           t == Mark(k, {c}, "succeeded")
           workset == d.kind[st] = "workset"
           failed == \E b \in VisitCommands(t, st) : FailedForGood(d, t, b)
           u == ScheduleWorkset(d, t, st)
           next == IF workset /\ failed
                   THEN Drained(d, route, WorksetFailureReady(d, route, t, st))
                   ELSE IF workset /\ ~ListIsValid(d, List(d, t, st))
                   THEN Refused(s)
                   ELSE IF workset /\ ~WorksetSatisfied(d, t, st)
                   THEN Machine(RefreshWorksetStatus(u, st))
                   ELSE Drained(d, route, CompleteState(d, route, Machine(t), st, "success"))
<1>1. CASE Status(s, c) \notin Open
  <2>1. SettleSuccess(d, route, s, c, lists) = Refused(s)
    BY <1>1 DEF SettleSuccess
  <2> QED BY <2>1, RefusedYields
<1>2. CASE Status(s, c) \in Open
  <2>1. SettleSuccess(d, route, s, c, lists) = next
    BY <1>2 DEF SettleSuccess
  <2>2. Shape(d, t) /\ Keeps(s, t) /\ t.status = s.status /\ t.visits = s.visits
    <3>1. "succeeded" \in CommandStatuses \ (Held \cup {"pending"})
      BY DEF CommandStatuses, Held
    <3>2. /\ Snapshot(d, k) /\ Keeps(s, k) /\ k.commands = s.commands /\ k.status = s.status
          /\ k.visits = s.visits
      BY MergedKeeps
    <3> HIDE DEF k
    <3>3. \A b \in Cmds(k) : b \in {c} => Status(k, b) \notin Final
      BY <1>2, <3>2 DEF Open, Final, Status
    <3>4. Shape(d, t) /\ Keeps(k, t) /\ Alike(k, t)
      BY <3>1, <3>2, <3>3, MarkedKeeps DEF Snapshot
    <3> HIDE DEF t
    <3> QED BY <3>2, <3>4, KeepsOn DEF Alike
  <2>3. /\ st \in States(d) /\ d.kind[st] \in EffectKinds
        /\ c.visit \in 1..s.visits[st] /\ s.visits[st] \in Nat
    BY DEF Snapshot, Shape, CommandOK
  <2> HIDE DEF t, st
  <2>4. Snapshot(d, t)
    BY <2>2 DEF Snapshot
  <2>5. Yields(d, s, Drained(d, route, WorksetFailureReady(d, route, t, st)))
    BY <2>2, <2>3, <2>4, WorksetFailed, DrainedYields
  <2>6. Yields(d, s, Machine(RefreshWorksetStatus(u, st)))
    <3>1. t.visits[st] > 0
      <4>1. s.visits[st] > 0
        BY <2>3
      <4> QED BY <2>2, <4>1
    <3>2. Shape(d, u) /\ Keeps(t, u)
      BY <2>2, <2>3, <3>1, Scheduled
    <3> HIDE DEF u
    <3> DEFINE r == RefreshWorksetStatus(u, st)
    <3>3. Snapshot(d, r) /\ Keeps(u, r)
      BY <3>2, Refreshed
    <3> HIDE DEF r
    <3>4. Keeps(s, r)
      BY <2>2, <3>2, <3>3, KeepsOn
    <3>5. Yields(d, s, Machine(r))
      BY <3>3, <3>4, Fresh DEF Snapshot
    <3> QED BY <3>5 DEF r
  <2>7. Yields(d, s, Drained(d, route, CompleteState(d, route, Machine(t), st, "success")))
    <3>1. Moves(d, s, Machine(t))
      BY <2>2, Fresh
    <3>2. From(d, st, "success") # {}
      BY <2>3 DEF Compiled, StateEdges
    <3>3. Works(d, s, CompleteState(d, route, Machine(t), st, "success"))
      BY <2>3, <3>1, <3>2, Completed
    <3> QED BY <3>3, DrainedYields
  <2> HIDE DEF u
  <2> HIDE DEF workset, failed, next
  <2>8. next \in {Drained(d, route, WorksetFailureReady(d, route, t, st)), Refused(s),
                  Machine(RefreshWorksetStatus(u, st)),
                  Drained(d, route, CompleteState(d, route, Machine(t), st, "success"))}
    BY DEF next
  <2> QED BY <2>1, <2>5, <2>6, <2>7, <2>8, RefusedYields
<1> QED BY <1>1, <1>2

\* CommandFailed
LEMMA FailureYields ==
    ASSUME NEW d, Compiled(d), NEW route \in Routes(d), NEW s, Snapshot(d, s), NEW c \in Cmds(s),
           NEW why \in Whys
    PROVE  Yields(d, s, SettleFailure(d, route, s, c, why))
<1> DEFINE st == c.state
           workset == d.kind[st] = "workset"
           retryable == RetryPolicyAllows(d, c, why) /\ LineageWithinBudget(d, s, Lineage(c))
           v == IF retryable THEN "retryable"
                ELSE IF why = "in-doubt" THEN "in-doubt" ELSE "failed"
           t == [s EXCEPT !.commands[c] = [status |-> v, why |-> why]]
           otherFailed == workset /\ \E b \in VisitCommands(t, st) \ {c} : FailedForGood(d, t, b)
           says(status) == Machine(IF workset THEN RefreshWorksetStatus(t, st)
                                              ELSE [t EXCEPT !.status = status])
           next == IF retryable THEN says(WaitFor(why))
                   ELSE IF ~otherFailed /\ FallbackBase(d, t, c) THEN says("running")
                   ELSE IF why = "in-doubt" THEN says("cancel-in-doubt")
                   ELSE Drained(d, route, IF workset THEN WorksetFailureReady(d, route, t, st)
                                                     ELSE FailState(d, route, t, st))
<1>1. CASE Status(s, c) \notin Open
  <2>1. SettleFailure(d, route, s, c, why) = Refused(s)
    BY <1>1 DEF SettleFailure
  <2> QED BY <2>1, RefusedYields
<1>2. CASE Status(s, c) \in Open
  <2>1. SettleFailure(d, route, s, c, why) = next
    BY <1>2 DEF SettleFailure
  <2>2. v \in CommandStatuses \ (Held \cup {"pending"})
    BY DEF CommandStatuses, Held
  <2> HIDE DEF v
  <2>3. Shape(d, t) /\ Keeps(s, t) /\ Alike(s, t)
    BY <1>2, <2>2, OutcomeKeeps DEF Snapshot
  <2>4. st \in States(d) /\ d.kind[st] \in EffectKinds
    BY DEF Snapshot, Shape, CommandOK
  <2> HIDE DEF t, st
  <2>5. Snapshot(d, t)
    BY <2>3 DEF Snapshot, Alike
  <2>6. ASSUME NEW status \in RunStatuses PROVE Yields(d, s, says(status))
    <3>1. CASE workset
      <4> DEFINE r == RefreshWorksetStatus(t, st)
      <4>1. Snapshot(d, r) /\ Keeps(t, r)
        BY <2>3, Refreshed
      <4>2. says(status) = Machine(r)
        BY <3>1
      <4> HIDE DEF r
      <4>3. Keeps(s, r)
        BY <2>3, <4>1, KeepsOn
      <4>4. Yields(d, s, Machine(r))
        BY <4>1, <4>3, Fresh DEF Snapshot
      <4> QED BY <4>2, <4>4
    <3>2. CASE ~workset
      <4> DEFINE r == [t EXCEPT !.status = status]
      <4>1. Shape(d, r) /\ Keeps(t, r) /\ r.status = status
        BY <2>3, Restated
      <4>2. says(status) = Machine(r)
        BY <3>2
      <4> HIDE DEF r
      <4>3. Keeps(s, r)
        BY <2>3, <4>1, KeepsOn
      <4>4. Yields(d, s, Machine(r))
        BY <4>1, <4>3, Fresh
      <4> QED BY <4>2, <4>4
    <3> QED BY <3>1, <3>2
  <2>7. WaitFor(why) \in RunStatuses /\ "running" \in RunStatuses /\ "cancel-in-doubt" \in RunStatuses
    BY DEF RunStatuses, Settled, AssistantTerminal, RunActive, WaitFor
  <2>8. Yields(d, s, Drained(d, route, IF workset THEN WorksetFailureReady(d, route, t, st)
                                                  ELSE FailState(d, route, t, st)))
    <3>1. Works(d, s, WorksetFailureReady(d, route, t, st))
      BY <2>3, <2>4, <2>5, WorksetFailed
    <3>2. Works(d, s, FailState(d, route, t, st))
      BY <2>3, <2>4, FailureFollowed
    <3> HIDE DEF workset
    <3>3. Works(d, s, IF workset THEN WorksetFailureReady(d, route, t, st)
                                 ELSE FailState(d, route, t, st))
      BY <3>1, <3>2
    <3> QED BY <3>3, DrainedYields
  <2> HIDE DEF says, retryable, otherFailed, workset
  <2> QED BY <2>1, <2>6, <2>7, <2>8
<1> QED BY <1>1, <1>2


\* Retry and IssueFallback: another attempt takes the place of c.
LEMMA ReissuedYields ==
    ASSUME NEW d, Compiled(d), NEW s, Snapshot(d, s), NEW c \in Cmds(s),
           Status(s, c) \notin Final, NEW new,
           CommandFields \subseteq DOMAIN new, new.state = c.state,
           new.visit \in 1..s.visits[c.state]
    PROVE  Yields(d, s, Reissued(d, s, c, new))
<1> DEFINE k == Mark(s, {c}, "cancelled")
           a == AddCommand(k, Lineage(c), new)
           t == [a EXCEPT !.status = "running"]
           r == RefreshWorksetStatus(t, c.state)
<1>1. CASE new \in Cmds(s) \/ ~LineageWithinBudget(d, s, Lineage(c))
  <2>1. Reissued(d, s, c, new) = Refused(s)
    BY <1>1 DEF Reissued
  <2> QED BY <2>1, RefusedYields
<1>2. CASE ~(new \in Cmds(s) \/ ~LineageWithinBudget(d, s, Lineage(c)))
  <2>1. Reissued(d, s, c, new) = Machine(IF d.kind[c.state] = "workset" THEN r ELSE t)
    BY <1>2 DEF Reissued
  <2>2. Shape(d, k) /\ Keeps(s, k) /\ Alike(s, k) /\ Cmds(k) = Cmds(s)
    <3>1. "cancelled" \in CommandStatuses \ (Held \cup {"pending"})
      BY DEF CommandStatuses, Held
    <3>2. \A b \in Cmds(s) : b \in {c} => Status(s, b) \notin Final
      OBVIOUS
    <3> QED BY <3>1, <3>2, MarkedKeeps DEF Snapshot
  <2>3. c.state \in States(d) /\ d.kind[c.state] \in EffectKinds
    BY DEF Snapshot, Shape, CommandOK
  <2> HIDE DEF k
  <2>4. Shape(d, a) /\ Keeps(k, a)
    <3>1. new \notin Cmds(k) /\ new.visit \in 1..k.visits[new.state]
      BY <1>2, <2>2 DEF Alike
    <3> QED BY <2>2, <2>3, <3>1, AddedOne
  <2> HIDE DEF a
  <2>5. Shape(d, t) /\ Keeps(a, t) /\ t.status = "running"
    BY <2>4, Restated
  <2> HIDE DEF t
  <2>6. Snapshot(d, t) /\ Keeps(s, t)
    <3>1. "running" \in RunStatuses
      BY DEF RunStatuses, RunActive
    <3> QED BY <2>2, <2>4, <2>5, <3>1, KeepsOn DEF Snapshot
  <2>7. Snapshot(d, r) /\ Keeps(t, r)
    BY <2>5, Refreshed
  <2> HIDE DEF r
  <2>8. Keeps(s, r)
    BY <2>6, <2>7, KeepsOn
  <2>9. Yields(d, s, Machine(t)) /\ Yields(d, s, Machine(r))
    BY <2>6, <2>7, <2>8, Fresh DEF Snapshot
  <2> QED BY <2>1, <2>9
<1> QED BY <1>1, <1>2

LEMMA RetryYields ==
    ASSUME NEW d, Compiled(d), NEW s, Snapshot(d, s), NEW c \in Cmds(s)
    PROVE  Yields(d, s, Retry(d, s, c))
<1> DEFINE new == [c EXCEPT !.attempt = @ + 1]
<1>1. CASE Status(s, c) # "retryable" \/ ~RetryPolicyAllows(d, c, s.commands[c].why)
  <2>1. Retry(d, s, c) = Refused(s)
    BY <1>1 DEF Retry
  <2> QED BY <2>1, RefusedYields
<1>2. CASE ~(Status(s, c) # "retryable" \/ ~RetryPolicyAllows(d, c, s.commands[c].why))
  <2>1. Retry(d, s, c) = Reissued(d, s, c, new)
    BY <1>2 DEF Retry
  <2>2. CommandFields \subseteq DOMAIN c /\ c.visit \in 1..s.visits[c.state]
    BY DEF Snapshot, Shape, CommandOK
  <2>3. CommandFields \subseteq DOMAIN new /\ new.state = c.state /\ new.visit = c.visit
    BY <2>2 DEF CommandFields
  <2>4. Status(s, c) \notin Final
    BY <1>2 DEF Final
  <2> HIDE DEF new
  <2> QED BY <2>1, <2>2, <2>3, <2>4, ReissuedYields
<1> QED BY <1>1, <1>2

LEMMA FallbackYields ==
    ASSUME NEW d, Compiled(d), NEW s, Snapshot(d, s), NEW c \in Cmds(s)
    PROVE  Yields(d, s, IssueFallback(d, s, c))
<1> DEFINE new == [c EXCEPT !.ordinal = @ + 1, !.attempt = 1, !.visit = s.visits[c.state]]
<1>1. CASE ~FallbackAdmitted(d, s, c)
  <2>1. IssueFallback(d, s, c) = Refused(s)
    BY <1>1 DEF IssueFallback
  <2> QED BY <2>1, RefusedYields
<1>2. CASE FallbackAdmitted(d, s, c)
  <2>1. IssueFallback(d, s, c) = Reissued(d, s, c, new)
    BY <1>2 DEF IssueFallback
  <2>2. CommandFields \subseteq DOMAIN c /\ c.visit \in 1..s.visits[c.state] /\ s.visits[c.state] \in Nat
    BY DEF Snapshot, Shape, CommandOK
  <2>3. CommandFields \subseteq DOMAIN new /\ new.state = c.state /\ new.visit = s.visits[c.state]
    BY <2>2 DEF CommandFields
  <2>4. Status(s, c) \notin Final
    BY <1>2 DEF Final, FallbackAdmitted, FallbackBase
  <2> HIDE DEF new
  <2>5. new.visit \in 1..s.visits[c.state]
    BY <2>2, <2>3
  <2> QED BY <2>1, <2>3, <2>4, <2>5, ReissuedYields
<1> QED BY <1>1, <1>2

\* Waits are forgotten and the status is set.
LEMMA Stopped ==
    ASSUME NEW d, NEW s, Shape(d, s), NEW t,
           DOMAIN t = DOMAIN s, t.active = s.active, t.done = s.done, t.visits = s.visits,
           t.commands = s.commands, t.pending = <<>>
    PROVE  Shape(d, t) /\ Keeps(s, t)
<1>1. t.pending \in Seq(Waits(d))
  OBVIOUS
<1> QED BY <1>1, Rewritten

\* CancelRequested
LEMMA CancelYields ==
    ASSUME NEW d, NEW s, Snapshot(d, s)
    PROVE  Snapshot(d, Cancel(s)) /\ Keeps(s, Cancel(s))
<1> DEFINE running == {c \in Cmds(s) : Status(s, c) \in {"running", "cancel-requested"}}
           idle == {c \in Cmds(s) : Status(s, c) \in Unstarted}
           k == Mark(s, idle, "cancelled")
           t == Mark(k, running, "cancel-requested")
           v == IF running = {} THEN "cancelled" ELSE "cancel-requested"
           u == [t EXCEPT !.pending = <<>>, !.status = v]
<1>1. Cancel(s) = IF s.status \in {"completed", "cancelled", "failed"} THEN s ELSE u
  BY DEF Cancel
<1>2. {"cancelled", "cancel-requested"} \subseteq CommandStatuses \ (Held \cup {"pending"})
  BY DEF CommandStatuses, Held
<1>3. /\ Shape(d, k) /\ Keeps(s, k) /\ Alike(s, k) /\ Cmds(k) = Cmds(s)
      /\ \A c \in Cmds(s) : Status(k, c) = IF c \in idle THEN "cancelled" ELSE Status(s, c)
  <2>1. \A c \in Cmds(s) : c \in idle => Status(s, c) \notin Final
    BY DEF Unstarted, Final
  <2> HIDE DEF idle
  <2> QED BY <1>2, <2>1, MarkedKeeps DEF Snapshot
<1>4. \A c \in Cmds(k) : c \in running => Status(k, c) \notin Final
  BY <1>3 DEF Unstarted, Final
<1> HIDE DEF k, running
<1>5. Shape(d, t) /\ Keeps(k, t) /\ Alike(k, t)
  BY <1>2, <1>3, <1>4, MarkedKeeps
<1>6. Fields \subseteq DOMAIN t
  BY <1>5 DEF Shape
<1> HIDE DEF t
<1>7. /\ DOMAIN u = DOMAIN t /\ u.active = t.active /\ u.done = t.done /\ u.visits = t.visits
      /\ u.commands = t.commands /\ u.pending = <<>> /\ u.status = v
  BY <1>6 DEF Fields
<1>8. v \in RunStatuses
  BY DEF RunStatuses, Settled
<1> HIDE DEF u, v
<1>9. Shape(d, u) /\ Keeps(t, u)
  BY <1>5, <1>7, Stopped
<1>10. Keeps(s, u)
  BY <1>3, <1>5, <1>9, KeepsOn
<1> QED BY <1>1, <1>7, <1>8, <1>9, <1>10, KeepsSelf DEF Snapshot

\* CommandCancellationUnknown
LEMMA UnknownYields ==
    ASSUME NEW d, NEW s, Snapshot(d, s), NEW c \in Cmds(s)
    PROVE  LET m == CancelUnknown(s, c) IN Snapshot(d, m.s) /\ Keeps(s, m.s)
<1> DEFINE k == Mark(s, {c}, "in-doubt")
           t == [k EXCEPT !.status = "cancel-in-doubt"]
<1>1. CASE Status(s, c) # "cancel-requested"
  <2>1. CancelUnknown(s, c).s = s
    BY <1>1 DEF CancelUnknown, Refused, Machine
  <2> QED BY <2>1, KeepsSelf
<1>2. CASE Status(s, c) = "cancel-requested"
  <2>1. CancelUnknown(s, c).s = t
    BY <1>2 DEF CancelUnknown, Machine
  <2>2. Shape(d, k) /\ Keeps(s, k)
    <3>1. "in-doubt" \in CommandStatuses \ (Held \cup {"pending"})
      BY DEF CommandStatuses, Held
    <3>2. \A b \in Cmds(s) : b \in {c} => Status(s, b) \notin Final
      BY <1>2 DEF Final
    <3> QED BY <3>1, <3>2, MarkedKeeps DEF Snapshot
  <2> HIDE DEF k
  <2>3. Shape(d, t) /\ Keeps(k, t) /\ t.status = "cancel-in-doubt"
    BY <2>2, Restated
  <2>4. "cancel-in-doubt" \in RunStatuses
    BY DEF RunStatuses, Settled
  <2> HIDE DEF t
  <2> QED BY <2>1, <2>2, <2>3, <2>4, KeepsOn DEF Snapshot
<1> QED BY <1>1, <1>2


\* settle_assistant_effect_failure and settle_assistant_drive_failure
LEMMA UnstartedCancelled ==
    ASSUME NEW d, NEW s, Shape(d, s)
    PROVE  LET t == CancelUnstartedAssistant(s)
           IN  /\ Shape(d, t) /\ Keeps(s, t) /\ t.status = s.status
               /\ DOMAIN t = DOMAIN s /\ Cmds(t) = Cmds(s)
<1> DEFINE cs == {c \in Cmds(s) : Status(s, c) \in {"pending", "retryable", "cancel-requested"}}
           k == Mark(s, cs, "cancelled")
           t == [k EXCEPT !.pending = <<>>]
<1>1. CancelUnstartedAssistant(s) = t
  BY DEF CancelUnstartedAssistant
<1>2. /\ Shape(d, k) /\ Keeps(s, k) /\ Alike(s, k) /\ Cmds(k) = Cmds(s)
  <2>1. "cancelled" \in CommandStatuses \ (Held \cup {"pending"})
    BY DEF CommandStatuses, Held
  <2>2. \A c \in Cmds(s) : c \in cs => Status(s, c) \notin Final
    BY DEF Final
  <2> HIDE DEF cs
  <2> QED BY <2>1, <2>2, MarkedKeeps
<1> HIDE DEF k
<1>3. Fields \subseteq DOMAIN k
  BY <1>2 DEF Shape
<1>4. /\ DOMAIN t = DOMAIN k /\ t.active = k.active /\ t.done = k.done /\ t.visits = k.visits
      /\ t.commands = k.commands /\ t.pending = <<>> /\ t.status = k.status
  BY <1>3 DEF Fields
<1> HIDE DEF t
<1>5. Shape(d, t) /\ Keeps(k, t)
  BY <1>2, <1>4, Stopped
<1>6. Keeps(s, t) /\ t.status = s.status /\ DOMAIN t = DOMAIN s /\ Cmds(t) = Cmds(s)
  BY <1>2, <1>4, <1>5, KeepsOn DEF Alike, Cmds
<1> QED BY <1>1, <1>5, <1>6

LEMMA AssistantFailureYields ==
    ASSUME NEW d, NEW s, Snapshot(d, s), NEW c \in Cmds(s), NEW why \in Whys
    PROVE  LET m == SettleAssistantEffectFailure(s, c, why) IN Snapshot(d, m.s) /\ Keeps(s, m.s)
<1> DEFINE v == IF why = "in-doubt" THEN "in-doubt" ELSE "failed"
           w == IF why = "in-doubt" THEN "cancel-in-doubt" ELSE "failed"
           t == [s EXCEPT !.commands[c] = [status |-> v, why |-> why]]
           k == CancelUnstartedAssistant(t)
           u == [k EXCEPT !.status = w]
<1>1. CASE Status(s, c) \notin Open
  <2>1. SettleAssistantEffectFailure(s, c, why).s = s
    BY <1>1 DEF SettleAssistantEffectFailure, Refused, Machine
  <2> QED BY <2>1, KeepsSelf
<1>2. CASE Status(s, c) \in Open
  <2>1. SettleAssistantEffectFailure(s, c, why).s = u
    BY <1>2 DEF SettleAssistantEffectFailure, Machine
  <2>2. v \in CommandStatuses \ (Held \cup {"pending"}) /\ w \in RunStatuses
    BY DEF CommandStatuses, Held, RunStatuses, Settled
  <2> HIDE DEF v, w
  <2>3. Shape(d, t) /\ Keeps(s, t)
    BY <1>2, <2>2, OutcomeKeeps DEF Snapshot
  <2> HIDE DEF t
  <2>4. Shape(d, k) /\ Keeps(t, k)
    BY <2>3, UnstartedCancelled
  <2> HIDE DEF k
  <2>5. Shape(d, u) /\ Keeps(k, u) /\ u.status = w
    BY <2>4, Restated
  <2> HIDE DEF u
  <2> QED BY <2>1, <2>2, <2>3, <2>4, <2>5, KeepsOn DEF Snapshot
<1> QED BY <1>1, <1>2

LEMMA DriveFailureYields ==
    ASSUME NEW d, NEW s, Snapshot(d, s)
    PROVE  Snapshot(d, DriveFailure(s)) /\ Keeps(s, DriveFailure(s))
<1> DEFINE t == CancelUnstartedAssistant(s)
           lost == [c \in Cmds(t) |-> IF Status(t, c) \in Held
                                      THEN [status |-> "in-doubt", why |-> "in-doubt"]
                                      ELSE t.commands[c]]
           k == [t EXCEPT !.commands = lost]
           u == [t EXCEPT !.commands = lost, !.status = "cancel-in-doubt"]
<1>1. DriveFailure(s) \in {s, u}
  BY DEF DriveFailure, SettleAssistantDriveFailure
<1>2. Shape(d, t) /\ Keeps(s, t)
  BY UnstartedCancelled DEF Snapshot
<1> HIDE DEF t
<1>3. Fields \subseteq DOMAIN t
  BY <1>2 DEF Shape
<1>4. Alike(t, k) /\ k.commands = lost
  BY <1>3 DEF Alike, Fields
<1>5. u = [k EXCEPT !.status = "cancel-in-doubt"]
  BY <1>3 DEF Fields
<1>6. Cmds(k) = Cmds(t)
  BY <1>4 DEF Cmds
<1>7. ASSUME NEW c \in Cmds(t)
      PROVE  k.commands[c] = IF Status(t, c) \in Held
                             THEN [status |-> "in-doubt", why |-> "in-doubt"]
                             ELSE t.commands[c]
  BY <1>4
<1> HIDE DEF k, lost, u
<1>8. Keeps(t, k)
  BY <1>6, <1>7 DEF Keeps, Status, Held, Final
<1>9. ASSUME NEW c \in Cmds(k) PROVE CommandOK(d, k, c)
  <2>1. CommandOK(d, t, c) BY <1>2, <1>6 DEF Shape
  <2> QED BY <1>4, <1>6, <1>7, <2>1 DEF CommandOK, Alike, Status, CommandStatuses, Whys
<1>10. Shape(d, k)
  BY <1>2, <1>4, <1>9, NewCommands
<1>11. Shape(d, u) /\ Keeps(k, u) /\ u.status = "cancel-in-doubt"
  BY <1>5, <1>10, Restated
<1>12. "cancel-in-doubt" \in RunStatuses
  BY DEF RunStatuses, Settled
<1> QED BY <1>1, <1>2, <1>8, <1>11, <1>12, KeepsOn, KeepsSelf DEF Snapshot

LEMMA EnteringWorks ==
    ASSUME NEW d, NEW s, NEW t, Shape(d, t), Keeps(s, t),
           NEW st \in States(d), NEW pred \in States(d) \cup {None}
    PROVE  Works(d, s, Entering(t, st, pred))
<1> DEFINE m == Machine(t)
           q == <<<<st, pred>>>>
           n == [m EXCEPT !.enter = q]
<1>1. Moves(d, s, m)
  BY Fresh
<1>2. Entering(t, st, pred) = n
  BY DEF Entering
<1> HIDE DEF m
<1>3. q \in Seq(States(d) \X (States(d) \cup {None})) /\ q # <<>>
  OBVIOUS
<1> HIDE DEF q
<1>4. DOMAIN n = DOMAIN m /\ n.s = m.s /\ n.enter = q /\ n.auto = m.auto
  BY <1>1, MachineFields DEF Moves
<1> HIDE DEF n
<1> QED BY <1>1, <1>2, <1>3, <1>4 DEF Works, Moves

\* CallbackDecided
LEMMA DecideYields ==
    ASSUME NEW d, Compiled(d), NEW route \in Routes(d), NEW s, Snapshot(d, s), s.pending # <<>>,
           NEW decision \in Decisions
    PROVE  Yields(d, s, Decide(d, route, s, decision))
<1> DEFINE wait == Head(s.pending)
           k == [s EXCEPT !.pending = Tail(@)]
           t == [s EXCEPT !.pending = Tail(@), !.status = "running"]
<1>1. wait \in Waits(d) /\ Tail(s.pending) \in Seq(Waits(d))
  <2>1. s.pending \in Seq(Waits(d))
    BY DEF Snapshot, Shape
  <2> QED BY <2>1
<1>2. wait.to \in States(d) /\ wait.state \in States(d)
  BY <1>1 DEF Waits
<1>3. Fields \subseteq DOMAIN s /\ Shape(d, s)
  BY DEF Snapshot, Shape
<1>4. /\ DOMAIN k = DOMAIN s /\ k.active = s.active /\ k.done = s.done /\ k.visits = s.visits
      /\ k.commands = s.commands /\ k.pending = Tail(s.pending) /\ k.status = s.status
      /\ DOMAIN t = DOMAIN s /\ t.active = s.active /\ t.done = s.done /\ t.visits = s.visits
      /\ t.commands = s.commands /\ t.pending = Tail(s.pending) /\ t.status = "running"
  BY <1>3 DEF Fields
<1>5. /\ decision = "advance" =>
           Decide(d, route, s, decision) = Drained(d, route, Entering(t, wait.to, wait.state))
      /\ decision = "return" =>
           Decide(d, route, s, decision) = Drained(d, route, Entering(t, wait.state, None))
      /\ decision = "terminate" => Decide(d, route, s, decision) = Machine(Cancel(k))
  BY DEF Decide
<1> HIDE DEF k, t, wait
<1>6. Shape(d, k) /\ Keeps(s, k) /\ Shape(d, t) /\ Keeps(s, t)
  BY <1>1, <1>3, <1>4, Rewritten
<1>7. Works(d, s, Entering(t, wait.to, wait.state)) /\ Works(d, s, Entering(t, wait.state, None))
  BY <1>2, <1>6, EnteringWorks
<1>8. Yields(d, s, Machine(Cancel(k)))
  <2>1. Snapshot(d, k)
    BY <1>4, <1>6 DEF Snapshot
  <2>2. Snapshot(d, Cancel(k)) /\ Keeps(s, Cancel(k))
    BY <1>6, <2>1, CancelYields, KeepsOn
  <2> QED BY <2>2, Fresh DEF Snapshot
<1> QED BY <1>5, <1>7, <1>8, DrainedYields DEF Decisions

\* The first snapshot of a run: nothing is held.
LEMMA StartYields ==
    ASSUME NEW d, Compiled(d), NEW route \in Routes(d), NEW lists
    PROVE  LET s == EmptySnapshot(d, lists)
           IN  Yields(d, s, Start(d, route, lists)) /\ Cmds(s) = {}
<1> DEFINE s == EmptySnapshot(d, lists)
<1>1. /\ Fields \subseteq DOMAIN s /\ s.active = {} /\ s.done = {}
      /\ s.visits = [st \in States(d) |-> 0] /\ s.pending = <<>> /\ s.commands = <<>>
  BY DEF EmptySnapshot, Fields
<1>2. Cmds(s) = {}
  BY <1>1 DEF Cmds
<1>3. Start(d, route, lists) = Drained(d, route, Entering(s, d.initial, None))
  BY DEF Start
<1> HIDE DEF s
<1>4. Shape(d, s)
  BY <1>1, <1>2 DEF Shape
<1>5. d.initial \in States(d)
  BY DEF Compiled
<1>6. Works(d, s, Entering(s, d.initial, None))
  BY <1>4, <1>5, KeepsSelf, EnteringWorks
<1>7. Yields(d, s, Start(d, route, lists))
  BY <1>3, <1>6, DrainedYields
<1> QED BY <1>2, <1>7 DEF s


-----------------------------------------------------------------------------
(* The run.                                                                *)

LEMMA DefinitionsCompile == ASSUME g \in Definitions PROVE Compiled(g) /\ g.parallel \in Nat
BY StrategyAssumption DEF Compiled

\* What the run keeps in a step is kept of the invariant.
LEMMA RunKept ==
    ASSUME RunIInv, g' = g, Snapshot(g, run'), Keeps(run, run')
    PROVE  /\ Bounded'
           /\ WithStatus(Held)' \subseteq WithStatus(Held)
           /\ Cmds(run) \subseteq Cmds(run')
           /\ \A c \in Cmds(run) : Status(run, c) # "pending" => Status(run', c) # "pending"
<1>1. WithStatus(Held)' \subseteq WithStatus(Held)
  BY DEF Keeps, WithStatus
<1>2. /\ IsFiniteSet(WithStatus(Held)')
      /\ Cardinality(WithStatus(Held)') <= Cardinality(WithStatus(Held))
  BY <1>1, FS_Subset DEF RunIInv, Bounded
<1>3. Bounded'
  <2>1. Cardinality(WithStatus(Held)) \in Nat /\ Cardinality(WithStatus(Held)') \in Nat
    BY <1>2, FS_CardinalityType DEF RunIInv, Bounded
  <2>2. Cardinality(WithStatus(Held)) <= g.parallel /\ g.parallel \in Nat
    BY DefinitionsCompile DEF RunIInv, Bounded
  <2>3. Cardinality(WithStatus(Held)') <= g.parallel
    BY <1>2, <2>1, <2>2
  <2> QED BY <1>2, <2>3 DEF Bounded
<1> QED BY <1>1, <1>3 DEF Keeps

LEMMA RunUnchanged ==
    ASSUME RunIInv, UNCHANGED <<g, run>>
    PROVE  g' = g /\ Snapshot(g, run') /\ Keeps(run, run')
BY KeepsSelf DEF RunIInv

\* A step of the drive that keeps the run.
LEMMA DriveKept ==
    ASSUME RunIInv, g' = g, Snapshot(g, run'), Keeps(run, run'),
           DriverOK', HandOK', LeasesHeld'
    PROVE  RunIInv'
BY RunKept DEF RunIInv

\* A step beside the drive.
LEMMA BesideDrive ==
    ASSUME RunIInv, g' = g, Snapshot(g, run'), Keeps(run, run'),
           UNCHANGED <<live, driver>>, owed' \subseteq Cmds(run'),
           caller' \in {"idle", "waiting", "answered"}
    PROVE  RunIInv'
<1>1. /\ WithStatus(Held)' \subseteq WithStatus(Held) /\ Cmds(run) \subseteq Cmds(run')
      /\ \A c \in Cmds(run) : Status(run, c) # "pending" => Status(run', c) # "pending"
  BY RunKept
<1>2. DriverOK'
  BY <1>1 DEF RunIInv, DriverOK, driver
<1>3. HandOK'
  BY <1>1 DEF RunIInv, HandOK, driver
<1>4. LeasesHeld'
  BY <1>1 DEF RunIInv, LeasesHeld, driver
<1> QED BY <1>2, <1>3, <1>4, DriveKept

LEMMA DrivesKeeps ==
    ASSUME RunIInv, NEW m, Yields(g, run, m), NEW next, Drives(m, next)
    PROVE  Snapshot(g, run') /\ Keeps(run, run') /\ pc' \in {next, "doubt"}
<1>1. CASE m.ok
  BY <1>1 DEF Drives, Yields
<1>2. CASE ~m.ok
  BY <1>2, KeepsSelf DEF Drives, RunIInv
<1> QED BY <1>1, <1>2

LEMMA InitInv == Init => RunIInv
<1> SUFFICES ASSUME Init PROVE RunIInv
  OBVIOUS
<1>1. g \in Definitions /\ Compiled(g) /\ g.parallel \in Nat
  BY DefinitionsCompile DEF Init
<1>2. PICK route \in Routes(g), lists \in Inputs(g) :
         Start(g, route, lists).ok /\ run = Start(g, route, lists).s
  BY DEF Init
<1>3. /\ Snapshot(g, run) /\ Keeps(EmptySnapshot(g, lists), run)
      /\ Cmds(EmptySnapshot(g, lists)) = {}
  BY <1>1, <1>2, StartYields DEF Yields
<1>4. WithStatus(Held) = {}
  BY <1>3 DEF Keeps, WithStatus
<1>5. Bounded
  BY <1>1, <1>4, FS_EmptySet DEF Bounded
<1>6. live = {} /\ pc = "off" /\ batch = NoBatch /\ reclaim = {} /\ owed = {}
        /\ caller \in {"idle", "waiting"}
  BY DEF Init
<1>7. DOMAIN batch = {}
  BY <1>6 DEF NoBatch
<1>8. DriverOK
  BY <1>6, <1>7 DEF DriverOK
<1>9. HandOK /\ LeasesHeld
  BY <1>6 DEF HandOK, LeasesHeld, Driving
<1> QED BY <1>1, <1>3, <1>5, <1>8, <1>9 DEF RunIInv

-----------------------------------------------------------------------------
(* The steps of the drive.                                                 *)

\* The steps that leave the run as it is.
LEMMA QuietDrive ==
    ASSUME RunIInv,
           \/ ReleaseLiveLeases \/ RecoveryEnds \/ Loop \/ ClaimsEnd \/ EngineIsFull
           \/ ExecuteCommand \/ EffectsEnd \/ RenewIsRefused \/ SettleEnds \/ AfterFailure
           \/ DriveErrs
    PROVE  RunIInv' /\ Keeps(run, run')
<1>1. UNCHANGED <<g, run, owed, caller>>
  BY DEF ReleaseLiveLeases, RecoveryEnds, Loop, ClaimsEnd, EngineIsFull, ExecuteCommand,
         EffectsEnd, RenewIsRefused, SettleEnds, AfterFailure, DriveErrs
<1>2. g' = g /\ Snapshot(g, run') /\ Keeps(run, run')
  BY <1>1, RunUnchanged
<1>3. WithStatus(Held)' = WithStatus(Held) /\ Cmds(run') = Cmds(run)
  BY <1>1 DEF WithStatus
<1> USE DEF RunIInv
<1>4. CASE ReleaseLiveLeases
  BY <1>1, <1>2, <1>4, DriveKept
     DEF ReleaseLiveLeases, DriverOK, HandOK, LeasesHeld, Driving, WithStatus
<1>5. CASE RecoveryEnds
  <2>1. DriverOK' /\ HandOK'
    BY <1>1, <1>5 DEF RecoveryEnds, DriverOK, HandOK, Driving
  <2>2. LeasesHeld'
    BY <1>3, <1>5 DEF RecoveryEnds, LeasesHeld
  <2> QED BY <1>2, <2>1, <2>2, DriveKept
<1>6. CASE Loop
  <2>1. DriverOK'
    BY <1>1, <1>6 DEF Loop, DriverOK, Driving
  <2>2. HandOK'
    BY <1>1, <1>6 DEF Loop, HandOK, RecoverEvent, PendingAuthorization, WithStatus, NoHand
  <2>3. LeasesHeld'
    BY <1>3, <1>6 DEF Loop, LeasesHeld, Driving
  <2> QED BY <1>2, <2>1, <2>2, <2>3, DriveKept
<1>7. CASE ClaimsEnd \/ EngineIsFull
  <2>1. DriverOK' /\ HandOK'
    BY <1>1, <1>7 DEF ClaimsEnd, EngineIsFull, DriverOK, HandOK, Driving
  <2>2. LeasesHeld'
    BY <1>3, <1>7 DEF ClaimsEnd, EngineIsFull, LeasesHeld, Driving
  <2> QED BY <1>2, <2>1, <2>2, DriveKept
<1>8. CASE ExecuteCommand
  <2>1. PICK c \in DOMAIN batch : \E o \in Ends(c) : batch' = [batch EXCEPT ![c] = o]
    BY <1>8 DEF ExecuteCommand
  <2>2. PICK o \in Ends(c) : batch' = [batch EXCEPT ![c] = o]
    BY <2>1
  <2>3. o \in Whys
    BY <2>2 DEF Ends, Whys
  <2>4. DOMAIN batch' = DOMAIN batch /\ \A b \in DOMAIN batch : batch'[b] \in Whys
    BY <2>2, <2>3 DEF DriverOK
  <2>5. DriverOK'
    BY <1>1, <1>8, <2>4 DEF ExecuteCommand, DriverOK
  <2>6. HandOK' /\ LeasesHeld'
    BY <1>1, <1>3, <1>8 DEF ExecuteCommand, HandOK, LeasesHeld
  <2> QED BY <1>2, <2>5, <2>6, DriveKept
<1>9. CASE EffectsEnd \/ SettleEnds
  <2>1. DriverOK' /\ HandOK'
    BY <1>1, <1>9 DEF EffectsEnd, SettleEnds, DriverOK, HandOK, Driving
  <2>2. LeasesHeld'
    BY <1>3, <1>9 DEF EffectsEnd, SettleEnds, LeasesHeld, Driving
  <2> QED BY <1>2, <2>1, <2>2, DriveKept
<1>10. CASE RenewIsRefused
  <2>1. DOMAIN batch' = {}
    BY <1>10 DEF RenewIsRefused, NoBatch
  <2>2. DriverOK' /\ HandOK' /\ LeasesHeld'
    BY <1>1, <1>10, <2>1 DEF RenewIsRefused, DriverOK, HandOK, LeasesHeld, Driving
  <2> QED BY <1>2, <2>2, DriveKept
<1>11. CASE AfterFailure
  <2>1. DriverOK'
    BY <1>1, <1>11 DEF AfterFailure, DriverOK, Driving
  <2>2. HandOK'
    BY <1>1, <1>11 DEF AfterFailure, HandOK, RecoverEvent
  <2>3. LeasesHeld'
    BY <1>3, <1>11 DEF AfterFailure, LeasesHeld, Driving
  <2> QED BY <1>2, <2>1, <2>2, <2>3, DriveKept
<1>12. CASE DriveErrs
  BY <1>1, <1>2, <1>12, DriveKept DEF DriveErrs, DriverOK, HandOK, LeasesHeld, Driving
<1> QED BY <1>2, <1>4, <1>5, <1>6, <1>7, <1>8, <1>9, <1>10, <1>11, <1>12


\* A success, a cancellation and a doubt stay on record.
OutcomesKept ==
    \A c \in Cmds(run) : Status(run, c) \in Final =>
        c \in Cmds(run') /\ Status(run', c) = Status(run, c)

LEMMA KeepsOutcomes == ASSUME Keeps(run, run') PROVE OutcomesKept
BY DEF Keeps, OutcomesKept

\* The only step that takes another command: every held command has a live
\* lease then, so that the leases claim_next_command counts are all there are.
LEMMA ClaimKept ==
    ASSUME RunIInv, ClaimNextCommand
    PROVE  RunIInv' /\ OutcomesKept
<1> USE DEF RunIInv
<1>1. PICK c \in Claimable :
         /\ run' = Mark(run, {c}, "claimed")
         /\ live' = (live \cap WithStatus(Held)) \cup {c}
         /\ hand' = [op |-> "start", cmd |-> c, next |-> "claim"]
  BY DEF ClaimNextCommand
<1>2. pc = "claim" /\ pc' = "start" /\ UNCHANGED <<g, batch, reclaim, owed, caller>>
  BY DEF ClaimNextCommand
<1>3. /\ run.status \in RunActive /\ Cardinality(live \cap WithStatus(Held)) < g.parallel
      /\ c \in Cmds(run) /\ Status(run, c) = "pending"
  BY <1>1 DEF Claimable, WithStatus
<1>4. /\ Shape(g, run') /\ Alike(run, run') /\ Cmds(run') = Cmds(run)
      /\ \A b \in Cmds(run) : Status(run', b) = IF b \in {c} THEN "claimed" ELSE Status(run, b)
  <2>1. "claimed" \in CommandStatuses
    BY DEF CommandStatuses
  <2> QED BY <1>1, <2>1, Marked DEF Snapshot
<1>5. Snapshot(g, run')
  BY <1>4 DEF Snapshot, Alike
<1>6. WithStatus(Held)' = WithStatus(Held) \cup {c} /\ c \notin WithStatus(Held)
  BY <1>3, <1>4 DEF WithStatus, Held
<1>7. live \cap WithStatus(Held) = WithStatus(Held)
  BY <1>2 DEF LeasesHeld, Driving
<1>8. Bounded'
  <2>1. IsFiniteSet(WithStatus(Held)) /\ Cardinality(WithStatus(Held)) < g.parallel
    BY <1>3, <1>7 DEF Bounded
  <2>2. /\ IsFiniteSet(WithStatus(Held) \cup {c})
        /\ Cardinality(WithStatus(Held) \cup {c}) = Cardinality(WithStatus(Held)) + 1
    BY <1>6, <2>1, FS_AddElement
  <2>3. Cardinality(WithStatus(Held)) \in Nat /\ g.parallel \in Nat
    BY <2>1, FS_CardinalityType, DefinitionsCompile
  <2>4. Cardinality(WithStatus(Held) \cup {c}) <= g.parallel
    BY <2>1, <2>2, <2>3
  <2> QED BY <1>2, <1>6, <2>2, <2>4 DEF Bounded
<1>9. DriverOK'
  BY <1>1, <1>2, <1>3, <1>4 DEF DriverOK, Driving
<1>10. HandOK'
  BY <1>1, <1>2, <1>3, <1>4 DEF HandOK
<1>11. LeasesHeld'
  BY <1>1, <1>6, <1>7 DEF LeasesHeld
<1>12. OutcomesKept
  BY <1>3, <1>4 DEF OutcomesKept, Final
<1> QED BY <1>2, <1>5, <1>8, <1>9, <1>10, <1>11, <1>12

\* A claimed command starts; one that was cancelled meanwhile does not.
LEMMA StartKept ==
    ASSUME RunIInv, StartCommand
    PROVE  RunIInv' /\ OutcomesKept
<1> USE DEF RunIInv
<1> DEFINE c == hand.cmd
           k == Mark(run, {c}, "running")
<1>1. /\ pc = "start" /\ UNCHANGED <<g, live, reclaim, owed, caller>>
      /\ batch' = PutAll(batch, {c}, None)
      /\ Drives(TransitionCommand(run, c, {"pending", "claimed"}, "running"), "claim")
  BY DEF StartCommand
<1>2. c \in Cmds(run) /\ Status(run, c) # "pending" /\ WithStatus(Held) \subseteq live
  BY <1>1 DEF HandOK, LeasesHeld, Driving
<1>3. DOMAIN batch' \subseteq DOMAIN batch \cup {c} /\ \A b \in DOMAIN batch' : batch'[b] \in Whys
  <2>1. None \in Whys
    BY DEF Whys
  <2> QED BY <1>1, <2>1 DEF PutAll, DriverOK
<1> HIDE DEF c
<1>4. CASE Status(run, c) \notin {"pending", "claimed"}
  <2>1. run' = run /\ pc' = "doubt"
    BY <1>1, <1>4 DEF Drives, TransitionCommand, Refused, Machine
  <2>2. g' = g /\ Snapshot(g, run') /\ Keeps(run, run')
    BY <1>1, <2>1, RunUnchanged
  <2>3. DriverOK' /\ HandOK' /\ LeasesHeld'
    BY <1>1, <1>2, <1>3, <2>1 DEF DriverOK, HandOK, LeasesHeld, Driving
  <2> QED BY <2>2, <2>3, DriveKept, KeepsOutcomes
<1>5. CASE Status(run, c) = "claimed"
  <2>1. run' = k /\ pc' = "claim"
    BY <1>1, <1>5 DEF Drives, TransitionCommand, Machine
  <2>2. /\ Shape(g, k) /\ Alike(run, k) /\ Cmds(k) = Cmds(run)
        /\ \A b \in Cmds(run) : Status(k, b) = IF b \in {c} THEN "running" ELSE Status(run, b)
    <3>1. "running" \in CommandStatuses
      BY DEF CommandStatuses
    <3> QED BY <3>1, Marked DEF Snapshot
  <2> HIDE DEF k
  <2>3. Snapshot(g, run')
    BY <2>1, <2>2 DEF Snapshot, Alike
  <2>4. Keeps(run, run')
    BY <1>5, <2>1, <2>2 DEF Keeps, Held, Final
  <2>5. DriverOK' /\ HandOK'
    BY <1>1, <1>2, <1>3, <2>1, <2>2 DEF DriverOK, HandOK, Driving
  <2>6. LeasesHeld'
    BY <1>1, <1>2, <2>3, <2>4, RunKept DEF LeasesHeld
  <2> QED BY <1>1, <2>3, <2>4, <2>5, <2>6, DriveKept, KeepsOutcomes
<1> QED BY <1>2, <1>4, <1>5

\* The steps that apply an event to the run.
LEMMA EventDrive ==
    ASSUME RunIInv, NEW route \in Routes(g),
           \/ RecoverLeased(route) \/ Apply(route)
           \/ \E lists \in Inputs(g) : SettleOutcome(route, lists)
    PROVE  RunIInv' /\ Keeps(run, run')
<1> USE DEF RunIInv
<1>0. Compiled(g)
  BY DefinitionsCompile
<1>1. CASE RecoverLeased(route)
  <2>1. PICK c \in Cmds(run) :
           /\ IF Status(run, c) \in Held
              THEN Drives(Recovered(route, c, IF Status(run, c) = "claimed" \/ c \in reclaim
                                              THEN "transient" ELSE "in-doubt"), pc)
              ELSE UNCHANGED <<run, pc>>
           /\ reclaim' = reclaim \ {c}
    BY <1>1 DEF RecoverLeased
  <2>2. pc = "recover" /\ UNCHANGED <<g, live, hand, batch, owed, caller>>
    BY <1>1 DEF RecoverLeased
  <2> DEFINE why == IF Status(run, c) = "claimed" \/ c \in reclaim
                    THEN "transient" ELSE "in-doubt"
             failed == SettleFailure(g, route, run, c, why)
             m == Recovered(route, c, why)
  <2>3. why \in Whys
    BY DEF Whys
  <2>4. Yields(g, run, m)
    <3> HIDE DEF why
    <3>1. Yields(g, run, failed)
      BY <1>0, <2>3, FailureYields
    <3>2. m = IF failed.ok /\ Status(failed.s, c) = "retryable"
              THEN Retry(g, failed.s, c) ELSE failed
      BY DEF Recovered
    <3> HIDE DEF failed, m
    <3>3. CASE failed.ok /\ Status(failed.s, c) = "retryable"
      <4>1. Snapshot(g, failed.s) /\ Keeps(run, failed.s) /\ c \in Cmds(failed.s)
        BY <3>1, <3>3 DEF Yields, Keeps
      <4>2. Yields(g, failed.s, Retry(g, failed.s, c))
        BY <1>0, <4>1, RetryYields
      <4> QED BY <3>2, <3>3, <4>1, <4>2, KeepsOn DEF Yields
    <3>4. CASE ~(failed.ok /\ Status(failed.s, c) = "retryable")
      BY <3>1, <3>2, <3>4
    <3> QED BY <3>3, <3>4
  <2>5. Snapshot(g, run') /\ Keeps(run, run') /\ pc' \in {pc, "doubt"}
    <3> HIDE DEF m, why
    <3>1. CASE Status(run, c) \in Held
      <4>1. Drives(m, pc)
        BY <2>1, <3>1 DEF m, why
      <4> QED BY <2>4, <4>1, DrivesKeeps
    <3>2. CASE Status(run, c) \notin Held
      BY <2>1, <3>2, KeepsSelf
    <3> QED BY <3>1, <3>2
  <2>6. Cmds(run) \subseteq Cmds(run')
    BY <2>5 DEF Keeps
  <2>7. DriverOK' /\ HandOK' /\ LeasesHeld'
    BY <2>1, <2>2, <2>5, <2>6 DEF DriverOK, HandOK, LeasesHeld, Driving
  <2> QED BY <2>2, <2>5, <2>7, DriveKept
<1>2. CASE Apply(route)
  <2>1. /\ pc = "apply" /\ Drives(Applied(route, hand), hand.next)
        /\ UNCHANGED <<g, live, batch, reclaim, owed, caller>>
    BY <1>2 DEF Apply
  <2>2. /\ hand.cmd \in Cmds(run) /\ hand.next \in {"loop", "settle"}
        /\ hand.op \in {"grant", "retry", "fallback"}
    BY <2>1 DEF HandOK
  <2>3. Yields(g, run, Applied(route, hand))
    <3>1. /\ Yields(g, run, SettleSuccess(g, route, run, hand.cmd, run.lists))
          /\ Yields(g, run, Retry(g, run, hand.cmd))
          /\ Yields(g, run, IssueFallback(g, run, hand.cmd))
      BY <1>0, <2>2, SuccessYields, RetryYields, FallbackYields
    <3> QED BY <2>2, <3>1 DEF Applied
  <2>4. Snapshot(g, run') /\ Keeps(run, run') /\ pc' \in {hand.next, "doubt"}
    BY <2>1, <2>3, DrivesKeeps
  <2>5. WithStatus(Held)' \subseteq WithStatus(Held) /\ Cmds(run) \subseteq Cmds(run')
    BY <2>1, <2>4, RunKept
  <2>6. DriverOK' /\ HandOK'
    BY <2>1, <2>2, <2>4, <2>5 DEF DriverOK, HandOK, Driving
  <2>7. LeasesHeld'
    BY <2>1, <2>5 DEF LeasesHeld, Driving
  <2> QED BY <2>1, <2>4, <2>6, <2>7, DriveKept
<1>3. CASE \E lists \in Inputs(g) : SettleOutcome(route, lists)
  <2>0. PICK lists \in Inputs(g) : SettleOutcome(route, lists)
    BY <1>3
  <2>1. PICK c \in DOMAIN batch :
           /\ batch' = Without(c)
           /\ \/ /\ Drives(SettleSuccess(g, route, run, c, lists), "settle")
                 /\ hand' = NoHand
              \/ /\ Drives(SettleFailure(g, route, run, c, batch[c]), "after")
                 /\ hand' = [NoHand EXCEPT !.cmd = c]
              \/ /\ Drives(SettleAssistantEffectFailure(run, c, batch[c]),
                           IF Without(c) = NoBatch THEN "off" ELSE "settle")
                 /\ hand' = NoHand
    BY <2>0 DEF SettleOutcome
  <2>2. pc = "settle" /\ UNCHANGED <<g, live, reclaim, owed, caller>>
    BY <2>0 DEF SettleOutcome
  <2>3. c \in Cmds(run) /\ batch[c] \in Whys
    BY DEF DriverOK
  <2>4. /\ Yields(g, run, SettleSuccess(g, route, run, c, lists))
        /\ Yields(g, run, SettleFailure(g, route, run, c, batch[c]))
        /\ Yields(g, run, SettleAssistantEffectFailure(run, c, batch[c]))
    BY <1>0, <2>3, SuccessYields, FailureYields, AssistantFailureYields DEF Yields
  <2>5. Snapshot(g, run') /\ Keeps(run, run')
    BY <2>1, <2>4, DrivesKeeps
  <2>6. \/ pc' \in {"settle", "doubt", "off"}
        \/ pc' = "after" /\ hand' = [NoHand EXCEPT !.cmd = c]
    BY <2>1, <2>4, DrivesKeeps
  <2>7. WithStatus(Held)' \subseteq WithStatus(Held) /\ Cmds(run) \subseteq Cmds(run')
    BY <2>2, <2>5, RunKept
  <2>8. DOMAIN batch' \subseteq DOMAIN batch /\ \A b \in DOMAIN batch' : batch'[b] = batch[b]
    BY <2>1 DEF Without
  <2>9. DriverOK'
    BY <2>2, <2>6, <2>7, <2>8 DEF DriverOK, Driving
  <2>10. HandOK'
    BY <2>3, <2>6, <2>7 DEF HandOK, NoHand
  <2>11. LeasesHeld'
    BY <2>2, <2>6, <2>7 DEF LeasesHeld, Driving
  <2> QED BY <2>2, <2>5, <2>9, <2>10, <2>11, DriveKept
<1> QED BY <1>1, <1>2, <1>3

LEMMA FailureDrive ==
    ASSUME RunIInv, SettleDriveFailure
    PROVE  RunIInv' /\ Keeps(run, run')
<1> USE DEF RunIInv
<1>1. /\ run' = DriveFailure(run) /\ pc' = "off" /\ batch' = NoBatch /\ reclaim' = {}
      /\ UNCHANGED <<g, live, owed, caller>>
  BY DEF SettleDriveFailure
<1>2. Snapshot(g, run') /\ Keeps(run, run')
  BY <1>1, DriveFailureYields
<1>3. DOMAIN batch' = {}
  BY <1>1 DEF NoBatch
<1>4. Cmds(run) \subseteq Cmds(run')
  BY <1>2 DEF Keeps
<1>5. DriverOK' /\ HandOK' /\ LeasesHeld'
  BY <1>1, <1>3, <1>4 DEF DriverOK, HandOK, LeasesHeld, Driving
<1> QED BY <1>1, <1>2, <1>5, DriveKept


-----------------------------------------------------------------------------
(* Requests, faults and crashes.                                           *)

\* What changes neither the run nor the drive.
LEMMA QuietRequest ==
    ASSUME RunIInv,
           \/ StartAgain \/ ExecuteAgain \/ WaitForAssistantTerminal \/ SetAuthorization
           \/ UNCHANGED vars
    PROVE  RunIInv' /\ Keeps(run, run')
<1> USE DEF RunIInv
<1>1. UNCHANGED <<g, run, live, driver, owed>>
  BY DEF StartAgain, ExecuteAgain, WaitForAssistantTerminal, SetAuthorization, vars, driver
<1>2. caller' \in {"idle", "waiting", "answered"}
  BY DEF StartAgain, ExecuteAgain, WaitForAssistantTerminal, SetAuthorization, vars, DriverOK
<1>3. g' = g /\ Snapshot(g, run') /\ Keeps(run, run')
  BY <1>1, RunUnchanged
<1>4. owed' \subseteq Cmds(run')
  BY <1>1 DEF DriverOK
<1> QED BY <1>1, <1>2, <1>3, <1>4, BesideDrive

\* A drive begins, the host ends, or a lease does: no drive claims then.
LEMMA DriveBegins ==
    ASSUME RunIInv, StartDrive \/ Crash \/ LeaseExpires
    PROVE  RunIInv' /\ Keeps(run, run')
<1> USE DEF RunIInv
<1>1. UNCHANGED <<g, run>>
  BY DEF StartDrive, Crash, LeaseExpires
<1>2. g' = g /\ Snapshot(g, run') /\ Keeps(run, run')
  BY <1>1, RunUnchanged
<1>3. WithStatus(Held)' = WithStatus(Held) /\ Cmds(run') = Cmds(run)
  BY <1>1 DEF WithStatus
<1>4. CASE StartDrive
  <2>1. DriverOK'
    BY <1>1, <1>4 DEF StartDrive, DriverOK
  <2>2. HandOK'
    BY <1>1, <1>4 DEF StartDrive, HandOK
  <2>3. LeasesHeld'
    BY <1>3, <1>4 DEF StartDrive, LeasesHeld, Driving
  <2> QED BY <1>2, <2>1, <2>2, <2>3, DriveKept
<1>5. CASE Crash
  <2>1. DOMAIN batch' = {}
    BY <1>5 DEF Crash, NoBatch
  <2>2. DriverOK' /\ HandOK' /\ LeasesHeld'
    BY <1>1, <1>5, <2>1 DEF Crash, DriverOK, HandOK, LeasesHeld, Driving
  <2> QED BY <1>2, <2>2, DriveKept
<1>6. CASE LeaseExpires
  <2>1. pc = "off" /\ live' \subseteq live /\ UNCHANGED <<driver, owed, caller>>
    BY <1>6 DEF LeaseExpires
  <2>2. DriverOK' /\ HandOK' /\ LeasesHeld'
    BY <1>1, <2>1 DEF driver, DriverOK, HandOK, LeasesHeld, Driving
  <2> QED BY <1>2, <2>2, DriveKept
<1> QED BY <1>2, <1>4, <1>5, <1>6

\* The requests that apply an event to the run.
LEMMA EventRequest ==
    ASSUME RunIInv,
           \/ RetryRun \/ \E route \in Routes(g) : ResumeRun(route)
           \/ \E route \in Routes(g), decision \in Decisions : DecideCallback(route, decision)
    PROVE  RunIInv' /\ Keeps(run, run')
<1> USE DEF RunIInv
<1>0. Compiled(g)
  BY DefinitionsCompile
<1>1. /\ UNCHANGED <<g, live, driver, owed>>
      /\ caller' \in {"idle", "waiting", "answered"}
  BY DEF RetryRun, ResumeRun, DecideCallback, DriverOK
<1>2. ASSUME NEW m, Yields(g, run, m), Requested(m)
      PROVE  Snapshot(g, run') /\ Keeps(run, run')
  BY <1>2 DEF Requested, Yields
<1>3. Snapshot(g, run') /\ Keeps(run, run')
  <2>1. CASE RetryRun
    <3>1. PICK c \in Cmds(run) : Requested(Retry(g, run, c))
      BY <2>1 DEF RetryRun, WithStatus
    <3> QED BY <1>0, <1>2, <3>1, RetryYields
  <2>2. CASE \E route \in Routes(g) : ResumeRun(route)
    <3>1. PICK route \in Routes(g) : ResumeRun(route)
      BY <2>2
    <3>2. \E c \in Cmds(run) :
             Requested(SettleSuccess(g, route, run, c, run.lists)) \/ Requested(Retry(g, run, c))
      BY <3>1 DEF ResumeRun, WithStatus, PendingAuthorization
    <3> QED BY <1>0, <1>2, <3>2, RetryYields, SuccessYields
  <2>3. CASE \E route \in Routes(g), decision \in Decisions : DecideCallback(route, decision)
    <3>1. PICK route \in Routes(g), decision \in Decisions : DecideCallback(route, decision)
      BY <2>3
    <3>2. run.pending # <<>> /\ Requested(Decide(g, route, run, decision))
      BY <3>1 DEF DecideCallback
    <3> QED BY <1>0, <1>2, <3>2, DecideYields
  <2> QED BY <2>1, <2>2, <2>3
<1>4. owed' \subseteq Cmds(run')
  BY <1>1, <1>3 DEF DriverOK, Keeps
<1> QED BY <1>1, <1>3, <1>4, BesideDrive

LEMMA CancelRequest ==
    ASSUME RunIInv, CancelRun \/ CancelRest
    PROVE  RunIInv' /\ Keeps(run, run')
<1> USE DEF RunIInv
<1>1. UNCHANGED <<g, live, driver, caller>>
  BY DEF CancelRun, CancelRest
<1>2. CASE CancelRun
  <2>1. run' = Cancel(run) /\ owed' \subseteq Cmds(run')
    BY <1>2 DEF CancelRun
  <2>2. Snapshot(g, run') /\ Keeps(run, run')
    BY <2>1, CancelYields
  <2> QED BY <1>1, <2>1, <2>2, BesideDrive DEF DriverOK
<1>3. CASE CancelRest
  <2>1. PICK c \in owed : run' = CancelUnknown(run, c).s /\ owed' \subseteq owed
    BY <1>3 DEF CancelRest
  <2>2. Snapshot(g, run') /\ Keeps(run, run')
    BY <2>1, UnknownYields DEF DriverOK
  <2>3. owed' \subseteq Cmds(run')
    BY <2>1, <2>2 DEF DriverOK, Keeps
  <2> QED BY <1>1, <2>2, <2>3, BesideDrive DEF DriverOK
<1> QED BY <1>2, <1>3

LEMMA StartFailure ==
    ASSUME RunIInv, SettleStartFailure
    PROVE  RunIInv' /\ Keeps(run, run')
<1> USE DEF RunIInv
<1>1. UNCHANGED <<g, live, driver, owed, caller>>
  BY DEF SettleStartFailure
<1>2. \/ \E c \in Cmds(run) : run' = SettleAssistantEffectFailure(run, c, "transient").s
      \/ run' = DriveFailure(run)
  BY DEF SettleStartFailure, WithStatus
<1>3. "transient" \in Whys
  BY DEF Whys
<1>4. Snapshot(g, run') /\ Keeps(run, run')
  BY <1>2, <1>3, AssistantFailureYields, DriveFailureYields
<1>5. owed' \subseteq Cmds(run')
  BY <1>1, <1>4 DEF DriverOK, Keeps
<1> QED BY <1>1, <1>4, <1>5, BesideDrive DEF DriverOK

-----------------------------------------------------------------------------

LEMMA NextKept ==
    ASSUME RunIInv, [Next]_vars
    PROVE  RunIInv' /\ OutcomesKept
<1>1. CASE ClaimNextCommand
  BY <1>1, ClaimKept
<1>2. CASE StartCommand
  BY <1>2, StartKept
<1>3. ASSUME RunIInv' /\ Keeps(run, run') PROVE RunIInv' /\ OutcomesKept
  BY <1>3, KeepsOutcomes
<1>4. CASE DriveStep /\ ~ClaimNextCommand /\ ~StartCommand
  BY <1>3, <1>4, QuietDrive, EventDrive, FailureDrive DEF DriveStep
<1>5. CASE Request
  BY <1>3, <1>5, QuietRequest, EventRequest, CancelRequest DEF Request
<1>6. CASE \/ StartDrive \/ WaitForAssistantTerminal \/ CancelRest \/ EngineIsFull \/ DriveErrs
           \/ SettleStartFailure \/ Crash \/ LeaseExpires \/ UNCHANGED vars
  BY <1>3, <1>6, QuietDrive, QuietRequest, DriveBegins, CancelRequest, StartFailure
<1> QED BY <1>1, <1>2, <1>4, <1>5, <1>6 DEF Next

LEMMA InvHolds == Spec => []RunIInv
<1>1. RunIInv /\ [Next]_vars => RunIInv'
  BY NextKept
<1> QED BY <1>1, InitInv, PTL DEF Spec

LEMMA InvIsTyped == RunIInv => TypeOK /\ ParallelismIsBounded
<1> SUFFICES ASSUME RunIInv PROVE TypeOK /\ ParallelismIsBounded
  OBVIOUS
<1>1. ParallelismIsBounded
  BY DEF RunIInv, Bounded, ParallelismIsBounded
<1>2. \A c \in Cmds(run) : /\ Status(run, c) \in CommandStatuses
                           /\ c.visit \in 1..run.visits[c.state]
                           /\ run.commands[c].why \in Whys
  BY DEF RunIInv, Snapshot, Shape, CommandOK
<1>3. TypeOK
  BY <1>2 DEF RunIInv, Snapshot, Shape, DriverOK, TypeOK
<1> QED BY <1>1, <1>3

\* The state of a run is typed, and no more of its commands are claimed or
\* running than its definition's max_parallelism, for every compiled graph and
\* any number of requests, faults, lost leases and host crashes.
THEOREM RunStaysWithinLimits == Spec => []RunInv
<1>1. RunIInv => RunInv
  BY InvIsTyped DEF RunInv
<1> QED BY <1>1, InvHolds, PTL

\* A command that succeeded, was cancelled or is in doubt stays so: no late
\* outcome, recovery, retry, fallback, decision, cancellation or failed drive
\* rewrites it, for every compiled graph.
THEOREM OutcomesAreFinal == Spec => OutcomesStay
<1>1. RunIInv /\ [Next]_vars =>
        [\A c \in Cmds(run) : Status(run, c) \in {"succeeded", "cancelled", "in-doubt"} =>
            c \in Cmds(run') /\ Status(run', c) = Status(run, c)]_vars
  BY NextKept DEF OutcomesKept, Final
<1> QED BY <1>1, InvHolds, PTL DEF Spec, OutcomesStay

-----------------------------------------------------------------------------
(* Parallel regions.                                                       *)

\* x and y are in different branches of one fork.
Beside(d, x, y) ==
    \E f \in States(d) : d.kind[f] = "fork" /\
        \E s, t \in Starts(d, f) : s # t /\ x \in Branch(d, s) /\ y \in Branch(d, t)

LEMMA EdgeEnds ==
    ASSUME NEW d, Compiled(d), NEW e \in Edges(d)
    PROVE  /\ e.from \in States(d) /\ e.to \in States(d)
           /\ e.from \in Predecessors(d, e.to) /\ e.to \in Starts(d, e.from)
<1> DEFINE E == [from : States(d), to : States(d),
                 on : {"complete", "success", "failure"}, mode : {"flow", "callback"}]
<1>1. d.edges \in Seq(E)
  BY DEF Compiled
<1>2. \A x \in E : x.from \in States(d) /\ x.to \in States(d)
  OBVIOUS
<1> HIDE DEF E
<1>3. \A n \in 1..Len(d.edges) : d.edges[n] \in E
  BY <1>1
<1>4. e.from \in States(d) /\ e.to \in States(d)
  BY <1>2, <1>3 DEF Edges
<1> QED BY <1>4 DEF Predecessors, Starts

LEMMA BranchIsClosed ==
    ASSUME NEW d, Compiled(d), NEW st \in States(d)
    PROVE  /\ st \in Branch(d, st) /\ Branch(d, st) \subseteq States(d)
           /\ \A e \in Edges(d) :
                 e.from \in Branch(d, st) /\ d.kind[e.to] # "join" => e.to \in Branch(d, st)
<1>1. st \in Branch(d, st) /\ Branch(d, st) \subseteq States(d)
  BY DEF Branch
<1>2. ASSUME NEW e \in Edges(d), e.from \in Branch(d, st), d.kind[e.to] # "join"
      PROVE  e.to \in Branch(d, st)
  <2>1. e.to \in States(d)
    BY EdgeEnds
  <2>2. ASSUME NEW B \in SUBSET States(d), st \in B,
               \A a \in Edges(d) : a.from \in B /\ d.kind[a.to] # "join" => a.to \in B
        PROVE  e.to \in B
    BY <1>2, <2>2 DEF Branch
  <2> QED BY <2>1, <2>2 DEF Branch
<1> QED BY <1>1, <1>2

LEMMA BranchIsLeast ==
    ASSUME NEW d, NEW st, NEW B \in SUBSET States(d), st \in B,
           \A e \in Edges(d) : e.from \in B /\ d.kind[e.to] # "join" => e.to \in B
    PROVE  Branch(d, st) \subseteq B
BY DEF Branch

\* A branch of a fork, as ParallelRegions has it.
LEMMA ForkBranch ==
    ASSUME NEW d, Compiled(d), NEW f \in States(d), d.kind[f] = "fork", NEW st \in Starts(d, f)
    PROVE  /\ st \in States(d) /\ Predecessors(d, st) = {f}
           /\ \A x \in Branch(d, st) :
                 /\ d.kind[x] \notin EndKinds \cup {"fork", "join"}
                 /\ x # st => Predecessors(d, x) \subseteq Branch(d, st)
           /\ \E j \in States(d) : Region(d, f, j)
<1>1. PICK j \in States(d) : Region(d, f, j)
  BY DEF Compiled, ParallelRegions
<1>2. st \in States(d)
  BY EdgesAreEdges DEF Starts
<1> QED BY <1>1, <1>2 DEF Region

LEMMA BranchesAreDisjoint ==
    ASSUME NEW d, Compiled(d),
           NEW f \in States(d), d.kind[f] = "fork", NEW s \in Starts(d, f),
           NEW h \in States(d), d.kind[h] = "fork", NEW t \in Starts(d, h), s # t
    PROVE  Branch(d, s) \cap Branch(d, t) = {}
<1> DEFINE B == Branch(d, s) \ Branch(d, t)
<1>1. /\ s \in States(d) /\ Predecessors(d, s) = {f} /\ t \in States(d) /\ Predecessors(d, t) = {h}
  BY ForkBranch
<1>2. \A x \in Branch(d, s) : d.kind[x] # "fork"
  BY ForkBranch
<1>3. \A x \in Branch(d, t) : d.kind[x] # "fork" /\ (x # t => Predecessors(d, x) \subseteq Branch(d, t))
  BY ForkBranch
<1>4. s \in B
  <2>1. s \in Branch(d, s)
    BY <1>1, BranchIsClosed
  <2>2. s \notin Branch(d, t)
    BY <1>1, <1>3
  <2> QED BY <2>1, <2>2
<1>5. ASSUME NEW e \in Edges(d), e.from \in B, d.kind[e.to] # "join" PROVE e.to \in B
  <2>1. e.to \in Branch(d, s)
    BY <1>1, <1>5, BranchIsClosed
  <2>2. e.from \in Predecessors(d, e.to)
    BY EdgeEnds
  <2>3. e.to # t
    BY <1>1, <1>2, <1>5, <2>2
  <2>4. e.to \notin Branch(d, t)
    BY <1>3, <1>5, <2>2, <2>3
  <2> QED BY <2>1, <2>4
<1>6. B \in SUBSET States(d)
  BY <1>1, BranchIsClosed
<1>7. Branch(d, s) \subseteq B
  BY <1>4, <1>5, <1>6, BranchIsLeast
<1> QED BY <1>7

LEMMA BesideIsSymmetric ==
    ASSUME NEW d, NEW x, NEW y, Beside(d, x, y) PROVE Beside(d, y, x)
BY DEF Beside

LEMMA BesideIsIrreflexive ==
    ASSUME NEW d, Compiled(d), NEW x PROVE ~Beside(d, x, x)
BY BranchesAreDisjoint DEF Beside

\* What is beside a state is beside the next state of its branch.
LEMMA BesideFollows ==
    ASSUME NEW d, Compiled(d), NEW e \in Edges(d), d.kind[e.to] # "join", NEW y, Beside(d, e.from, y)
    PROVE  Beside(d, e.to, y)
<1>0. PICK f \in States(d) : d.kind[f] = "fork" /\ \E s, t \in Starts(d, f) :
         s # t /\ e.from \in Branch(d, s) /\ y \in Branch(d, t)
  BY DEF Beside
<1>1. PICK s \in Starts(d, f), t \in Starts(d, f) :
         d.kind[f] = "fork" /\ s # t /\ e.from \in Branch(d, s) /\ y \in Branch(d, t)
  BY <1>0
<1>2. s \in States(d)
  BY <1>1, ForkBranch
<1>3. e.to \in Branch(d, s)
  BY <1>1, <1>2, BranchIsClosed
<1> QED BY <1>1, <1>3 DEF Beside

\* Nothing is beside a fork, a join or an end.
LEMMA BesideNothing ==
    ASSUME NEW d, Compiled(d), NEW x, d.kind[x] \in EndKinds \cup {"fork", "join"}, NEW y
    PROVE  ~Beside(d, x, y)
BY ForkBranch DEF Beside

LEMMA StartsAreBeside ==
    ASSUME NEW d, Compiled(d), NEW f \in States(d), d.kind[f] = "fork",
           NEW s \in Starts(d, f), NEW t \in Starts(d, f), s # t
    PROVE  Beside(d, s, t)
<1>1. s \in Branch(d, s) /\ t \in Branch(d, t)
  BY ForkBranch, BranchIsClosed
<1> QED BY <1>1 DEF Beside

\* A branch is left for the join of its region.
LEMMA BranchIsLeft ==
    ASSUME NEW d, Compiled(d), NEW f \in States(d), NEW j \in States(d), d.kind[f] = "fork", Region(d, f, j),
           NEW st \in Starts(d, f)
    PROVE  \E p \in Predecessors(d, j) : p \in Branch(d, st)
<1>1. PICK p \in Branch(d, st) : Exits(d, st) = {p}
  BY DEF Region
<1>2. p \in UNION {Exits(d, q) : q \in Starts(d, f)}
  BY <1>1
<1> QED BY <1>1, <1>2 DEF Region

\* Nothing is beside all predecessors of a join.
LEMMA JoinClosesRegion ==
    ASSUME NEW d, Compiled(d), NEW j \in States(d), d.kind[j] = "join", NEW y
    PROVE  \E p \in Predecessors(d, j) : ~Beside(d, p, y)
<1> SUFFICES ASSUME \A p \in Predecessors(d, j) : Beside(d, p, y) PROVE FALSE
  OBVIOUS
\* y is in a branch of the region that j closes.
<1>1. ASSUME NEW f \in States(d), d.kind[f] = "fork", Region(d, f, j),
             NEW t \in Starts(d, f), y \in Branch(d, t)
      PROVE  FALSE
  <2>1. PICK p \in Predecessors(d, j) : p \in Branch(d, t)
    BY <1>1, BranchIsLeft
  <2>0. PICK h \in States(d) : d.kind[h] = "fork" /\ \E s, u \in Starts(d, h) :
           s # u /\ p \in Branch(d, s) /\ y \in Branch(d, u)
    BY DEF Beside
  <2>2. PICK s \in Starts(d, h), u \in Starts(d, h) :
           d.kind[h] = "fork" /\ s # u /\ p \in Branch(d, s) /\ y \in Branch(d, u)
    BY <2>0
  <2>3. s = t
    BY <1>1, <2>1, <2>2, BranchesAreDisjoint
  <2>4. u = t
    BY <1>1, <2>2, BranchesAreDisjoint
  <2> QED BY <2>2, <2>3, <2>4
<1>2. PICK p \in Predecessors(d, j) :
         (\E f \in States(d) : d.kind[f] = "fork" /\ Region(d, f, j) /\
             \E s \in Starts(d, f) : p \in Branch(d, s))
         \/ Predecessors(d, j) = {p}
  <2>1. CASE \E p \in States(d) : Predecessors(d, j) = {p}
    BY <2>1
  <2>2. CASE \E f \in States(d) : d.kind[f] = "fork" /\ Region(d, f, j)
    <3>1. PICK f \in States(d) : d.kind[f] = "fork" /\ Region(d, f, j)
      BY <2>2
    <3>2. PICK s \in Starts(d, f) : TRUE
      <4>1. Starts(d, f) # {}
        <5>1. Cardinality(Starts(d, f)) >= 2
          BY <3>1 DEF Compiled, StateEdges
        <5> SUFFICES ASSUME Starts(d, f) = {} PROVE FALSE
          OBVIOUS
        <5>2. Cardinality(Starts(d, f)) = 0
          BY FS_EmptySet
        <5> QED BY <5>1, <5>2
      <4> QED BY <4>1
    <3>3. PICK p \in Predecessors(d, j) : p \in Branch(d, s)
      BY <3>1, BranchIsLeft
    <3> QED BY <3>1, <3>3
  <2> QED BY <2>1, <2>2 DEF Compiled, ParallelRegions
<1>a. PICK h \in States(d) : d.kind[h] = "fork" /\ \E s, t \in Starts(d, h) :
         s # t /\ p \in Branch(d, s) /\ y \in Branch(d, t)
  BY <1>2 DEF Beside
<1>3. PICK s \in Starts(d, h), t \in Starts(d, h) :
         d.kind[h] = "fork" /\ s # t /\ p \in Branch(d, s) /\ y \in Branch(d, t)
  BY <1>a
<1>4. CASE \E f \in States(d) : d.kind[f] = "fork" /\ Region(d, f, j) /\
             \E q \in Starts(d, f) : p \in Branch(d, q)
  <2>0. PICK f \in States(d) : d.kind[f] = "fork" /\ Region(d, f, j) /\
             \E q \in Starts(d, f) : p \in Branch(d, q)
    BY <1>4
  <2>1. PICK q \in Starts(d, f) : d.kind[f] = "fork" /\ Region(d, f, j) /\ p \in Branch(d, q)
    BY <2>0
  <2>2. q = s
    BY <1>3, <2>1, BranchesAreDisjoint
  <2>3. Predecessors(d, s) = {h} /\ Predecessors(d, q) = {f}
    BY <1>3, <2>1, ForkBranch
  <2>4. f = h
    BY <2>2, <2>3
  <2> QED BY <1>1, <1>3, <2>1, <2>4
<1>5. CASE Predecessors(d, j) = {p}
  <2>1. PICK k \in States(d) : Region(d, h, k)
    BY <1>3, ForkBranch
  <2>2. PICK e \in Edges(d) : e.from = p /\ e.to = j
    BY <1>2 DEF Predecessors
  <2>3. k = j
    BY <1>3, <2>1, <2>2 DEF Region
  <2> QED BY <1>1, <1>3, <2>1, <2>3
<1> QED BY <1>2, <1>4, <1>5

-----------------------------------------------------------------------------
(* Tokens.  A run has one for every place it stands at: an active state, a *)
(* state whose callback waits, a state left for a join that still waits,   *)
(* and, inside the machine, an entry of its stack.  Any two of them are    *)
(* beside each other.                                                      *)

Pairs(d) == States(d) \X (States(d) \cup {None})
Pos(d, p) == IF d.kind[p[1]] = "join" /\ p[2] # None THEN p[2] ELSE p[1]
Heading(q) == {q[i] : i \in 1..Len(q)}
Leaving(d, q) == {p[2] : p \in {h \in Heading(q) : d.kind[h[1]] = "join"}}
Due(d, q) == {Pos(d, q[i]) : i \in 1..Len(q)}
Once(d, q) == \A i, k \in 1..Len(q) : Pos(d, q[i]) = Pos(d, q[k]) => i = k

Waiting(s) == {s.pending[i].state : i \in 1..Len(s.pending)}
Arrived(s) == UNION {s.arrivals[j] : j \in DOMAIN s.arrivals}
Still(s) == s.active \cup Waiting(s) \cup Arrived(s)

Placed(d, s) ==
    /\ s.arrivals \in [States(d) -> SUBSET States(d)]
    /\ \A j \in States(d) : s.arrivals[j] \subseteq Predecessors(d, j)
    /\ \A j \in States(d) : s.arrivals[j] # {} => d.kind[j] = "join"
    /\ \A i \in 1..Len(s.pending) :
          \E e \in Edges(d) : e.from = s.pending[i].state /\ e.to = s.pending[i].to
Routed(d, q) ==
    \A p \in Heading(q) : p[2] # None => \E e \in Edges(d) : e.from = p[2] /\ e.to = p[1]
Spread(d, X) == \A x, y \in X : x # y => Beside(d, x, y)
Apart(d, s, q) ==
    /\ Spread(d, Still(s) \cup Due(d, q))
    /\ s.active \cap Waiting(s) = {} /\ s.active \cap Arrived(s) = {}
    /\ Waiting(s) \cap Arrived(s) = {} /\ Still(s) \cap Due(d, q) = {}
    /\ \A j, k \in States(d) : j # k => s.arrivals[j] \cap s.arrivals[k] = {}
    /\ \A i, k \in 1..Len(s.pending) : s.pending[i].state = s.pending[k].state => i = k
    /\ Once(d, q)
Joined(d, s, q) ==
    \A j \in States(d) : d.kind[j] = "join" =>
        \A p \in Predecessors(d, j) :
            /\ s.visits[j] <= s.visits[p]
            /\ p \in Still(s) \cup Leaving(d, q) => s.visits[j] < s.visits[p]
Over(s, q) == s.status = "completed" => s.active = {} /\ s.pending = <<>> /\ q = <<>>
Tokens(d, s, q) == Placed(d, s) /\ Routed(d, q) /\ Apart(d, s, q) /\ Joined(d, s, q) /\ Over(s, q)
Queued(s, a) ==
    /\ \A i \in 1..Len(a) : a[i][1] \in s.active
    /\ \A i, k \in 1..Len(a) : a[i][1] = a[k][1] => i = k

\* The head of the stack is taken off.
LEMMA HeadOff ==
    ASSUME NEW d, NEW q \in Seq(Pairs(d)), q # <<>>
    PROVE  /\ q[1] \in Pairs(d) /\ q[1] \in Heading(q) /\ Tail(q) \in Seq(Pairs(d))
           /\ Heading(Tail(q)) \subseteq Heading(q)
           /\ Due(d, q) = Due(d, Tail(q)) \cup {Pos(d, q[1])}
           /\ Once(d, q) => Once(d, Tail(q)) /\ Pos(d, q[1]) \notin Due(d, Tail(q))
           /\ Due(d, Tail(q)) = {} => Tail(q) = <<>>
<1> DEFINE r == Tail(q)
<1> HIDE DEF Pairs
<1>1. /\ Len(q) \in Nat /\ Len(q) > 0 /\ r \in Seq(Pairs(d)) /\ Len(r) = Len(q) - 1
      /\ \A i \in 1..Len(r) : r[i] = q[i + 1]
      /\ q[1] \in Pairs(d)
  OBVIOUS
<1> HIDE DEF r
<1>2. /\ 1 \in 1..Len(q)
      /\ \A i \in 1..Len(r) : i + 1 \in 1..Len(q) /\ i + 1 # 1
      /\ \A i \in 1..Len(q) : i = 1 \/ (i - 1 \in 1..Len(r) /\ r[i - 1] = q[i])
  BY <1>1
<1>3. q[1] \in Heading(q) /\ Heading(r) \subseteq Heading(q)
  <2>1. q[1] \in Heading(q)
    BY <1>2 DEF Heading
  <2>2. ASSUME NEW x \in Heading(r) PROVE x \in Heading(q)
    <3>1. PICK i \in 1..Len(r) : x = r[i] BY DEF Heading
    <3> QED BY <1>1, <1>2, <3>1 DEF Heading
  <2> QED BY <2>1, <2>2
<1>4. ASSUME NEW x \in Due(d, q) PROVE x \in Due(d, r) \cup {Pos(d, q[1])}
  <2>1. PICK i \in 1..Len(q) : x = Pos(d, q[i])
    BY DEF Due
  <2> QED BY <1>2, <2>1 DEF Due
<1>5. ASSUME NEW x \in Due(d, r) PROVE \E i \in 1..Len(q) : i # 1 /\ x = Pos(d, q[i])
  <2>1. PICK i \in 1..Len(r) : x = Pos(d, r[i])
    BY DEF Due
  <2> QED BY <1>1, <1>2, <2>1
<1>6. Due(d, q) = Due(d, r) \cup {Pos(d, q[1])}
  BY <1>2, <1>4, <1>5 DEF Due
<1>7. ASSUME Once(d, q) PROVE Once(d, r) /\ Pos(d, q[1]) \notin Due(d, r)
  <2>1. Pos(d, q[1]) \notin Due(d, r)
    BY <1>2, <1>5, <1>7 DEF Once
  <2>2. ASSUME NEW i \in 1..Len(r), NEW k \in 1..Len(r), Pos(d, r[i]) = Pos(d, r[k]) PROVE i = k
    <3>1. i + 1 \in 1..Len(q) /\ k + 1 \in 1..Len(q) /\ Pos(d, q[i + 1]) = Pos(d, q[k + 1])
      BY <1>1, <1>2, <2>2
    <3>2. i + 1 = k + 1
      BY <1>7, <3>1 DEF Once
    <3> QED BY <3>2
  <2> QED BY <2>1, <2>2 DEF Once
<1>8. ASSUME Due(d, r) = {} PROVE r = <<>>
  <2>1. Len(r) \in Nat
    BY <1>1
  <2>2. ~(1 \in 1..Len(r))
    BY <1>8 DEF Due
  <2>3. Len(r) = 0
    BY <2>1, <2>2
  <2> QED BY <1>1, <2>3
<1> QED BY <1>1, <1>3, <1>6, <1>7, <1>8 DEF r

\* An entry is put on the stack.
LEMMA HeadOn ==
    ASSUME NEW d, NEW q \in Seq(Pairs(d)), NEW p \in Pairs(d)
    PROVE  LET r == <<p>> \o q
           IN  /\ r \in Seq(Pairs(d)) /\ r # <<>>
               /\ Heading(r) = Heading(q) \cup {p}
               /\ Due(d, r) = Due(d, q) \cup {Pos(d, p)}
               /\ Once(d, q) /\ Pos(d, p) \notin Due(d, q) => Once(d, r)
<1> DEFINE r == <<p>> \o q
<1> HIDE DEF Pairs
<1>1. /\ r \in Seq(Pairs(d)) /\ Len(r) = Len(q) + 1 /\ Len(q) \in Nat /\ r[1] = p
      /\ \A i \in 1..Len(q) : r[i + 1] = q[i]
  OBVIOUS
<1> HIDE DEF r
<1>2. /\ 1 \in 1..Len(r)
      /\ \A i \in 1..Len(q) : i + 1 \in 1..Len(r)
      /\ \A i \in 1..Len(r) : i = 1 \/ (i - 1 \in 1..Len(q) /\ r[i] = q[i - 1])
  <2>1. \A i \in 1..Len(r) : i = 1 \/ (i - 1 \in 1..Len(q) /\ (i - 1) + 1 = i)
    BY <1>1
  <2> QED BY <1>1, <2>1
<1>3. Heading(r) = Heading(q) \cup {p}
  <2>1. ASSUME NEW x \in Heading(r) PROVE x \in Heading(q) \cup {p}
    <3>1. PICK i \in 1..Len(r) : x = r[i] BY DEF Heading
    <3> QED BY <1>1, <1>2, <3>1 DEF Heading
  <2>2. ASSUME NEW x \in Heading(q) PROVE x \in Heading(r)
    <3>1. PICK i \in 1..Len(q) : x = q[i] BY DEF Heading
    <3> QED BY <1>1, <1>2, <3>1 DEF Heading
  <2>3. p \in Heading(r)
    BY <1>1, <1>2 DEF Heading
  <2> QED BY <2>1, <2>2, <2>3
<1>4. Due(d, r) = Due(d, q) \cup {Pos(d, p)}
  <2>1. ASSUME NEW x \in Due(d, r) PROVE x \in Due(d, q) \cup {Pos(d, p)}
    <3>1. PICK i \in 1..Len(r) : x = Pos(d, r[i]) BY DEF Due
    <3> QED BY <1>1, <1>2, <3>1 DEF Due
  <2>2. ASSUME NEW x \in Due(d, q) PROVE x \in Due(d, r)
    <3>1. PICK i \in 1..Len(q) : x = Pos(d, q[i]) BY DEF Due
    <3> QED BY <1>1, <1>2, <3>1 DEF Due
  <2>3. Pos(d, p) \in Due(d, r)
    BY <1>1, <1>2 DEF Due
  <2> QED BY <2>1, <2>2, <2>3
<1>5. ASSUME Once(d, q), Pos(d, p) \notin Due(d, q) PROVE Once(d, r)
  <2> SUFFICES ASSUME NEW i \in 1..Len(r), NEW k \in 1..Len(r), Pos(d, r[i]) = Pos(d, r[k]) PROVE i = k
    BY DEF Once
  <2>0. \A n \in 1..Len(q) : Pos(d, q[n]) # Pos(d, p)
    BY <1>5 DEF Due
  <2>1. CASE i = 1
    <3>1. k = 1
      <4> SUFFICES ASSUME k # 1 PROVE FALSE
        OBVIOUS
      <4>1. k - 1 \in 1..Len(q) /\ r[k] = q[k - 1]
        BY <1>2
      <4> QED BY <1>1, <2>0, <2>1, <4>1
    <3> QED BY <2>1, <3>1
  <2>2. CASE k = 1 /\ i # 1
    <3>1. i - 1 \in 1..Len(q) /\ r[i] = q[i - 1]
      BY <1>2, <2>2
    <3> QED BY <1>1, <2>0, <2>2, <3>1
  <2>3. CASE i # 1 /\ k # 1
    <3>1. i - 1 \in 1..Len(q) /\ r[i] = q[i - 1] /\ k - 1 \in 1..Len(q) /\ r[k] = q[k - 1]
      BY <1>2, <2>3
    <3>2. i - 1 = k - 1
      BY <1>5, <3>1 DEF Once
    <3> QED BY <3>2
  <2> QED BY <2>1, <2>2, <2>3
<1>6. r # <<>>
  BY <1>1
<1> QED BY <1>1, <1>3, <1>4, <1>5, <1>6 DEF r

LEMMA NothingDue == ASSUME NEW d PROVE Due(d, <<>>) = {} /\ Heading(<<>>) = {} /\ Once(d, <<>>)
BY DEF Due, Heading, Once


\* Places that neither move nor change hands.
LEMMA SamePlaces ==
    ASSUME NEW s, NEW t, t.active = s.active, t.pending = s.pending, t.arrivals = s.arrivals
    PROVE  Waiting(t) = Waiting(s) /\ Arrived(t) = Arrived(s) /\ Still(t) = Still(s)
BY DEF Waiting, Arrived, Still

LEMMA TokensSame ==
    ASSUME NEW d, NEW s, NEW t, NEW q, Tokens(d, s, q),
           t.active = s.active, t.pending = s.pending, t.arrivals = s.arrivals,
           t.visits = s.visits, t.status = "completed" => s.status = "completed"
    PROVE  Tokens(d, t, q)
<1>1. Waiting(t) = Waiting(s) /\ Arrived(t) = Arrived(s) /\ Still(t) = Still(s)
  BY SamePlaces
<1>2. Placed(d, t)
  BY DEF Tokens, Placed
<1>3. Apart(d, t, q)
  BY <1>1 DEF Tokens, Apart
<1>4. Joined(d, t, q)
  BY <1>1 DEF Tokens, Joined
<1>5. Over(t, q)
  BY DEF Tokens, Over
<1> QED BY <1>2, <1>3, <1>4, <1>5 DEF Tokens

LEMMA SamePlaced ==
    ASSUME NEW d, NEW s, NEW t, Placed(d, s), t.arrivals = s.arrivals, t.pending = s.pending
    PROVE  Placed(d, t)
BY DEF Placed

LEMMA NoArrivals ==
    ASSUME NEW d, NEW s, Placed(d, s), NEW st \in States(d), d.kind[st] # "join"
    PROVE  [s.arrivals EXCEPT ![st] = {}] = s.arrivals
<1>1. s.arrivals \in [States(d) -> SUBSET States(d)] /\ s.arrivals[st] = {}
  BY DEF Placed
<1> QED BY <1>1

LEMMA NoWaits ==
    ASSUME NEW d, NEW s, s.pending \in Seq(Waits(d)), Waiting(s) = {}
    PROVE  s.pending = <<>>
<1>1. Len(s.pending) \in Nat
  OBVIOUS
<1>2. ~(1 \in 1..Len(s.pending))
  <2> SUFFICES ASSUME 1 \in 1..Len(s.pending) PROVE FALSE
    OBVIOUS
  <2>1. s.pending[1].state \in Waiting(s)
    BY DEF Waiting
  <2> QED BY <2>1
<1>3. Len(s.pending) = 0
  BY <1>1, <1>2
<1> QED BY <1>3

LEMMA SpreadLess ==
    ASSUME NEW d, NEW X, NEW Y \in SUBSET X, Spread(d, X) PROVE Spread(d, Y)
BY DEF Spread

\* A state is visited once more.
Visited(d, s, t, st) ==
    \A x \in States(d) : t.visits[x] = IF x = st THEN s.visits[x] + 1 ELSE s.visits[x]
LEMMA IsVisited ==
    ASSUME NEW d, NEW s, Shape(d, s), NEW st \in States(d), NEW t,
           t.visits = [s.visits EXCEPT ![st] = @ + 1]
    PROVE  Visited(d, s, t, st)
BY DEF Shape, Visited

\* A state other than a join is visited once more.
LEMMA VisitedJoined ==
    ASSUME NEW d, NEW s, Shape(d, s), NEW st \in States(d), d.kind[st] # "join", NEW t, NEW q, NEW r,
           Joined(d, s, q), Visited(d, s, t, st),
           Still(t) \subseteq Still(s) \cup {st}, Leaving(d, r) \subseteq Leaving(d, q) \cup {st},
           \A j \in States(d) : Predecessors(d, j) \subseteq States(d)
    PROVE  Joined(d, t, r)
<1> SUFFICES ASSUME NEW j \in States(d), d.kind[j] = "join", NEW p \in Predecessors(d, j)
             PROVE  /\ t.visits[j] <= t.visits[p]
                    /\ p \in Still(t) \cup Leaving(d, r) => t.visits[j] < t.visits[p]
  BY DEF Joined
<1>1. p \in States(d) /\ s.visits \in [States(d) -> Nat]
  BY DEF Shape
<1>2. s.visits[j] \in Nat /\ s.visits[p] \in Nat /\ t.visits[j] = s.visits[j]
      /\ t.visits[p] = (IF p = st THEN s.visits[p] + 1 ELSE s.visits[p])
  BY <1>1 DEF Visited
<1>3. /\ s.visits[j] <= s.visits[p]
      /\ p \in Still(s) \cup Leaving(d, q) => s.visits[j] < s.visits[p]
  BY DEF Joined
<1> QED BY <1>2, <1>3

LEMMA LeavingLess ==
    ASSUME NEW d, NEW q, NEW r, Heading(r) \subseteq Heading(q) PROVE Leaving(d, r) \subseteq Leaving(d, q)
BY DEF Leaving

LEMMA PredecessorsAreStates ==
    ASSUME NEW d, Compiled(d), NEW st PROVE Predecessors(d, st) \subseteq States(d)
BY EdgeEnds DEF Predecessors

\* An automatic state, other than a join, or an effect is entered.
LEMMA TokenEnters ==
    ASSUME NEW d, Compiled(d), NEW s, Shape(d, s), NEW q \in Seq(Pairs(d)), q # <<>>, Tokens(d, s, q),
           NEW st, st = q[1][1], d.kind[st] # "join", NEW t,
           t.active = s.active \cup {st}, t.arrivals = s.arrivals,
           t.pending = s.pending, Visited(d, s, t, st), t.status # "completed"
    PROVE  Tokens(d, t, Tail(q)) /\ st \notin s.active
<1> DEFINE r == Tail(q)
<1>1. Pos(d, q[1]) = st
  BY DEF Pos
<1>2. st \in States(d)
  BY HeadOff DEF Pairs
<1>3. /\ Heading(r) \subseteq Heading(q) /\ Due(d, q) = Due(d, r) \cup {st}
      /\ Once(d, r) /\ st \notin Due(d, r)
  BY <1>1, HeadOff DEF Tokens, Apart
<1> HIDE DEF r
<1>4. st \notin Still(s)
  BY <1>3 DEF Tokens, Apart
<1>6. Waiting(t) = Waiting(s) /\ Arrived(t) = Arrived(s) /\ Still(t) = Still(s) \cup {st}
  BY DEF Waiting, Arrived, Still
<1>7. Still(t) \cup Due(d, r) = Still(s) \cup Due(d, q)
  BY <1>3, <1>6
<1>8. Apart(d, t, r)
  <2>1. Spread(d, Still(t) \cup Due(d, r))
    BY <1>7 DEF Tokens, Apart
  <2>2. t.active \cap Waiting(t) = {} /\ t.active \cap Arrived(t) = {} /\ Waiting(t) \cap Arrived(t) = {}
    BY <1>4, <1>6 DEF Tokens, Apart, Still
  <2>3. Still(t) \cap Due(d, r) = {}
    BY <1>3, <1>6 DEF Tokens, Apart
  <2> QED BY <1>3, <2>1, <2>2, <2>3 DEF Tokens, Apart
<1>9. Joined(d, t, r)
  BY <1>2, <1>3, <1>6, VisitedJoined, LeavingLess, PredecessorsAreStates DEF Tokens
<1>10. Placed(d, t)
  BY SamePlaced DEF Tokens
<1>11. Routed(d, r) /\ Over(t, r)
  BY <1>3 DEF Tokens, Routed, Over
<1> QED BY <1>4, <1>8, <1>9, <1>10, <1>11 DEF Tokens, r, Still

\* The only token: nothing is beside the state at the head of the stack.
LEMMA TokenAlone ==
    ASSUME NEW d, Compiled(d), NEW s, NEW q \in Seq(Pairs(d)), q # <<>>, Tokens(d, s, q),
           d.kind[Pos(d, q[1])] \in EndKinds \cup {"fork", "join"}
    PROVE  Still(s) = {} /\ Tail(q) = <<>>
<1>1. /\ Due(d, q) = Due(d, Tail(q)) \cup {Pos(d, q[1])} /\ Pos(d, q[1]) \notin Due(d, Tail(q))
      /\ Due(d, Tail(q)) = {} => Tail(q) = <<>>
  BY HeadOff DEF Tokens, Apart
<1>2. \A y : ~Beside(d, Pos(d, q[1]), y)
  BY BesideNothing
<1>3. \A y \in Still(s) \cup Due(d, q) : y = Pos(d, q[1])
  BY <1>1, <1>2 DEF Tokens, Apart, Spread
<1> QED BY <1>1, <1>3 DEF Tokens, Apart

\* A fork or an end is entered: nothing else is under way.
Fanned(d, st) == [i \in 1..Len(Branches(d, st)) |-> <<Branches(d, st)[i], st>>]
LEMMA TokenForks ==
    ASSUME NEW d, Compiled(d), NEW s, Shape(d, s), NEW q \in Seq(Pairs(d)), q # <<>>, Tokens(d, s, q),
           NEW st, st = q[1][1], d.kind[st] \in EndKinds \cup {"fork"}, NEW t,
           t.active = (s.active \cup {st}) \ {st}, t.arrivals = s.arrivals,
           t.pending = s.pending, Visited(d, s, t, st),
           NEW r, \/ r = Tail(q)
                  \/ /\ d.kind[st] = "fork" /\ t.status # "completed"
                     /\ r = Fanned(d, st) \o Tail(q)
    PROVE  Tokens(d, t, r) /\ s.active = {}
<1>1. Pos(d, q[1]) = st
  BY DEF Pos, EndKinds
<1>2. st \in States(d)
  BY HeadOff DEF Pairs
<1>3. Still(s) = {} /\ Tail(q) = <<>>
  BY <1>1, TokenAlone
<1>4. s.active = {} /\ Waiting(s) = {} /\ Arrived(s) = {}
  BY <1>3 DEF Still
<1>10. d.kind[st] # "join"
  BY DEF EndKinds
<1>6. t.active = {} /\ Waiting(t) = {} /\ Arrived(t) = {} /\ Still(t) = {}
  <2>1. t.active = s.active
    BY <1>4
  <2> QED BY <1>3, <1>4, <2>1, SamePlaces
<1>7. s.pending = <<>>
  <2>1. s.pending \in Seq(Waits(d))
    BY DEF Shape
  <2> QED BY <1>4, <2>1, NoWaits
<1>8. Placed(d, t)
  BY SamePlaced DEF Tokens
<1>9. \A j \in States(d) : Predecessors(d, j) \subseteq States(d)
  BY PredecessorsAreStates
<1>11. CASE r = Tail(q)
  <2>0. r = <<>>
    BY <1>3, <1>11
  <2>1. r = <<>> /\ Due(d, r) = {} /\ Heading(r) = {} /\ Once(d, r)
    BY <2>0, NothingDue, Zenon
  <2>2. Apart(d, t, r)
    BY <1>6, <2>1 DEF Tokens, Apart, Spread
  <2>a. Leaving(d, r) = {}
    BY <2>1 DEF Leaving
  <2>3. Joined(d, t, r)
    <3>1. /\ Joined(d, s, q) /\ Still(t) \subseteq Still(s) \cup {st}
          /\ Leaving(d, r) \subseteq Leaving(d, q) \cup {st}
      BY <1>6, <2>a DEF Tokens
    <3> QED BY <1>2, <1>9, <1>10, <3>1, VisitedJoined
  <2>4. Routed(d, r) /\ Over(t, r)
    BY <1>6, <1>7, <2>1 DEF Routed, Over
  <2> QED BY <1>4, <1>8, <2>2, <2>3, <2>4 DEF Tokens
<1>12. CASE /\ d.kind[st] = "fork" /\ t.status # "completed"
            /\ r = Fanned(d, st) \o Tail(q)
  <2> USE DEF Fanned
  <2> DEFINE B == Branches(d, st)
             b == [i \in 1..Len(B) |-> <<B[i], st>>]
  <2>1. /\ B \in Seq(States(d)) /\ \A i \in 1..Len(B) : B[i] \in Starts(d, st)
        /\ \A i, k \in 1..Len(B) : B[i] = B[k] => i = k
    BY <1>12, BranchesAreStates
  <2>2. r = b \o <<>>
    BY <1>3, <1>12
  <2> HIDE DEF B
  <2>3. r = b /\ Len(r) = Len(B) /\ \A i \in 1..Len(B) : r[i] = <<B[i], st>>
    <3>1. Len(B) \in Nat
      BY <2>1
    <3>2. b \in Seq(Pairs(d)) /\ Len(b) = Len(B)
      BY <1>2, <2>1, <3>1 DEF Pairs
    <3>3. \A i \in 1..Len(B) : b[i] = <<B[i], st>>
      OBVIOUS
    <3> HIDE DEF b
    <3>4. b \o <<>> = b
      BY <3>2
    <3> QED BY <2>2, <3>2, <3>3, <3>4
  <2> HIDE DEF b
  <2>4. \A x \in Starts(d, st) : d.kind[x] # "join" /\ x \in States(d)
    BY <1>2, <1>12, ForkBranch, BranchIsClosed
  <2>5. \A i \in 1..Len(r) : Pos(d, r[i]) = B[i] /\ r[i] = <<B[i], st>>
    BY <2>1, <2>3, <2>4 DEF Pos
  <2>6. Once(d, r) /\ Due(d, r) \subseteq Starts(d, st)
    <3>1. Once(d, r)
      <4> SUFFICES ASSUME NEW i \in 1..Len(r), NEW k \in 1..Len(r), Pos(d, r[i]) = Pos(d, r[k])
                   PROVE  i = k
        BY DEF Once
      <4>1. i \in 1..Len(B) /\ k \in 1..Len(B) /\ B[i] = B[k]
        BY <2>3, <2>5
      <4> QED BY <2>1, <4>1
    <3>2. ASSUME NEW x \in Due(d, r) PROVE x \in Starts(d, st)
      <4>1. PICK i \in 1..Len(r) : x = Pos(d, r[i]) BY DEF Due
      <4>2. i \in 1..Len(B) /\ x = B[i]
        BY <2>3, <2>5, <4>1
      <4> QED BY <2>1, <4>2
    <3> QED BY <3>1, <3>2
  <2>7. Spread(d, Still(t) \cup Due(d, r))
    BY <1>2, <1>6, <1>12, <2>6, StartsAreBeside DEF Spread
  <2>8. Apart(d, t, r)
    BY <1>6, <2>6, <2>7 DEF Tokens, Apart
  <2>9. Leaving(d, r) = {}
    <3> SUFFICES ASSUME NEW p \in Heading(r) PROVE d.kind[p[1]] # "join"
      BY DEF Leaving
    <3>1. PICK i \in 1..Len(r) : p = r[i]
      BY DEF Heading
    <3> QED BY <2>1, <2>3, <2>4, <2>5, <3>1
  <2>10. Joined(d, t, r)
    <3>1. Joined(d, s, q) /\ Still(t) \subseteq Still(s) \cup {st}
      BY <1>6 DEF Tokens
    <3> QED BY <1>2, <1>9, <1>10, <2>9, <3>1, VisitedJoined
  <2>11. Routed(d, r)
    <3> SUFFICES ASSUME NEW p \in Heading(r) PROVE \E e \in Edges(d) : e.from = p[2] /\ e.to = p[1]
      BY DEF Routed
    <3>1. PICK i \in 1..Len(r) : p = r[i]
      BY DEF Heading
    <3>2. p = <<B[i], st>> /\ B[i] \in Starts(d, st)
      BY <2>1, <2>3, <2>5, <3>1
    <3> QED BY <3>2 DEF Starts
  <2>12. Over(t, r)
    BY <1>12 DEF Over
  <2> QED BY <1>4, <1>8, <2>8, <2>10, <2>11, <2>12 DEF Tokens
<1> QED BY <1>11, <1>12


\* Entries and waits are given up; nothing else moves.
LEMMA TokensFewer ==
    ASSUME NEW d, NEW s, NEW q, Tokens(d, s, q), NEW t, NEW r,
           t.active = s.active, t.arrivals = s.arrivals, t.visits = s.visits,
           t.pending = s.pending \/ t.pending = <<>>,
           Heading(r) \subseteq Heading(q), Due(d, r) \subseteq Due(d, q), Once(d, r),
           t.status # "completed"
    PROVE  Tokens(d, t, r)
<1>1. Waiting(t) \subseteq Waiting(s) /\ Arrived(t) = Arrived(s)
  BY DEF Waiting, Arrived
<1>2. Still(t) \subseteq Still(s)
  BY <1>1 DEF Still
<1>3. Placed(d, t)
  BY DEF Tokens, Placed
<1>4. Routed(d, r)
  BY DEF Tokens, Routed
<1>5. Apart(d, t, r)
  <2>1. Spread(d, Still(t) \cup Due(d, r))
    BY <1>2 DEF Tokens, Apart, Spread
  <2>2. \A i, k \in 1..Len(t.pending) : t.pending[i].state = t.pending[k].state => i = k
    BY DEF Tokens, Apart
  <2> QED BY <1>1, <1>2, <2>1, <2>2 DEF Tokens, Apart
<1>6. Joined(d, t, r)
  <2>1. Leaving(d, r) \subseteq Leaving(d, q)
    BY LeavingLess
  <2> QED BY <1>2, <2>1 DEF Tokens, Joined
<1> QED BY <1>3, <1>4, <1>5, <1>6 DEF Tokens, Over

\* A join is reached that still waits for others.
LEMMA TokenArrives ==
    ASSUME NEW d, Compiled(d), NEW s, Shape(d, s), NEW q \in Seq(Pairs(d)), q # <<>>, Tokens(d, s, q),
           NEW st, st = q[1][1], d.kind[st] = "join", NEW pred, pred = q[1][2], NEW t,
           t.active = s.active, t.pending = s.pending, t.visits = s.visits,
           t.arrivals = [s.arrivals EXCEPT ![st] = s.arrivals[st] \cup ({pred} \ {None})], t.status # "completed"
    PROVE  Tokens(d, t, Tail(q))
<1> DEFINE r == Tail(q)
<1>0. /\ st \in States(d) /\ pred \in States(d) \cup {None} /\ q[1] = <<st, pred>> /\ q[1] \in Heading(q)
      /\ None \notin States(d)
  BY HeadOff DEF Pairs, Compiled
<1>1. /\ Heading(r) \subseteq Heading(q) /\ Due(d, q) = Due(d, r) \cup {Pos(d, q[1])}
      /\ Once(d, r) /\ Pos(d, q[1]) \notin Due(d, r)
  BY HeadOff DEF Tokens, Apart
<1>2. s.arrivals \in [States(d) -> SUBSET States(d)]
  BY DEF Tokens, Placed
<1> HIDE DEF r
<1>3. CASE pred = None
  <2>1. t.arrivals = s.arrivals
    <3>1. s.arrivals[st] \cup ({pred} \ {None}) = s.arrivals[st]
      BY <1>3
    <3>2. t.arrivals = [s.arrivals EXCEPT ![st] = s.arrivals[st]]
      BY <3>1
    <3> QED BY <1>0, <1>2, <3>2
  <2> QED BY <1>1, <2>1, TokensFewer DEF r
<1>4. CASE pred # None
  <2>1. Pos(d, q[1]) = pred /\ pred \in States(d)
    BY <1>0, <1>4 DEF Pos
  <2>2. /\ t.arrivals \in [States(d) -> SUBSET States(d)]
        /\ t.arrivals[st] = s.arrivals[st] \cup {pred}
        /\ \A j \in States(d) : j # st => t.arrivals[j] = s.arrivals[j]
    BY <1>0, <1>2, <1>4, <2>1
  <2>3. pred \notin Still(s)
    BY <1>1, <2>1 DEF Tokens, Apart
  <2>4. DOMAIN s.arrivals = States(d) /\ DOMAIN t.arrivals = States(d)
    BY <1>2, <2>2
  <2>5. Arrived(t) = Arrived(s) \cup {pred}
    <3>1. ASSUME NEW x \in Arrived(t) PROVE x \in Arrived(s) \cup {pred}
      BY <2>2, <2>4 DEF Arrived
    <3>2. ASSUME NEW x \in Arrived(s) PROVE x \in Arrived(t)
      BY <2>2, <2>4 DEF Arrived
    <3>3. pred \in Arrived(t)
      BY <1>0, <2>2, <2>4 DEF Arrived
    <3> QED BY <3>1, <3>2, <3>3
  <2>6. Waiting(t) = Waiting(s) /\ Still(t) = Still(s) \cup {pred}
    BY <2>5 DEF Waiting, Still
  <2>7. Apart(d, t, r)
    <3>1. Spread(d, Still(t) \cup Due(d, r))
      BY <1>1, <2>1, <2>6 DEF Tokens, Apart, Spread
    <3>2. /\ t.active \cap Waiting(t) = {} /\ t.active \cap Arrived(t) = {}
          /\ Waiting(t) \cap Arrived(t) = {}
      BY <2>3, <2>5, <2>6 DEF Tokens, Apart, Still
    <3>3. Still(t) \cap Due(d, r) = {}
      BY <1>1, <2>1, <2>6 DEF Tokens, Apart
    <3>4. ASSUME NEW j \in States(d), NEW k \in States(d), j # k PROVE t.arrivals[j] \cap t.arrivals[k] = {}
      <4>1. \A i \in States(d) : pred \notin s.arrivals[i]
        BY <2>3, <2>4 DEF Still, Arrived
      <4>2. s.arrivals[j] \cap s.arrivals[k] = {}
        BY <3>4 DEF Tokens, Apart
      <4> QED BY <2>2, <3>4, <4>1, <4>2
    <3> QED BY <1>1, <3>1, <3>2, <3>3, <3>4 DEF Tokens, Apart
  <2>8. Placed(d, t)
    <3>1. pred \in Predecessors(d, st)
      BY <1>0, <1>4 DEF Tokens, Routed, Predecessors
    <3> QED BY <2>2, <3>1 DEF Tokens, Placed
  <2>9. Joined(d, t, r)
    <3>1. pred \in Leaving(d, q)
      BY <1>0 DEF Leaving
    <3>2. Leaving(d, r) \subseteq Leaving(d, q)
      BY <1>1, LeavingLess
    <3> QED BY <2>6, <3>1, <3>2 DEF Tokens, Joined
  <2>10. Routed(d, r) /\ Over(t, r)
    BY <1>1 DEF Tokens, Routed, Over
  <2> QED BY <2>7, <2>8, <2>9, <2>10 DEF Tokens, r
<1> QED BY <1>3, <1>4

\* A join is passed: every branch has arrived, and there is nothing else.
LEMMA TokensJoin ==
    ASSUME NEW d, Compiled(d), NEW s, Shape(d, s), NEW q \in Seq(Pairs(d)), q # <<>>, Tokens(d, s, q),
           NEW st, st = q[1][1], d.kind[st] = "join", ~JoinWaits(d, s, st, q[1][2]), NEW t,
           t.active = s.active \cup {st}, t.pending = s.pending, Visited(d, s, t, st),
           t.arrivals = [s.arrivals EXCEPT ![st] = {}], t.status # "completed"
    PROVE  Tokens(d, t, Tail(q)) /\ s.active = {}
<1> DEFINE r == Tail(q)
           pred == q[1][2]
<1>0. /\ st \in States(d) /\ pred \in States(d) \cup {None} /\ q[1] = <<st, pred>> /\ q[1] \in Heading(q)
      /\ None \notin States(d)
  BY HeadOff DEF Pairs, Compiled
<1>1. /\ Heading(r) \subseteq Heading(q) /\ Due(d, q) = Due(d, r) \cup {Pos(d, q[1])}
      /\ Once(d, r) /\ Pos(d, q[1]) \notin Due(d, r) /\ (Due(d, r) = {} => r = <<>>)
  BY HeadOff DEF Tokens, Apart
<1>2. s.arrivals \in [States(d) -> SUBSET States(d)] /\ DOMAIN s.arrivals = States(d)
  BY DEF Tokens, Placed
<1>3. s.arrivals[st] \cup ({pred} \ {None}) = Predecessors(d, st)
  BY DEF JoinWaits
<1> HIDE DEF r, pred
<1>4. s.arrivals[st] \subseteq Arrived(s)
  BY <1>0, <1>2 DEF Arrived
<1>5. pred # None
  <2> SUFFICES ASSUME pred = None PROVE FALSE
    OBVIOUS
  <2>1. Pos(d, q[1]) = st
    BY <1>0 DEF Pos
  <2>2. Still(s) = {}
    BY <2>1, TokenAlone
  <2>3. Predecessors(d, st) = {}
    BY <1>3, <1>4, <2>2 DEF Still
  <2> QED BY <1>0, <2>3, JoinClosesRegion
<1>6. Pos(d, q[1]) = pred /\ pred \in States(d) /\ pred \in Due(d, q) /\ pred \notin Still(s)
      /\ Predecessors(d, st) = s.arrivals[st] \cup {pred}
  <2>1. Pos(d, q[1]) = pred /\ pred \in States(d)
    BY <1>0, <1>5 DEF Pos
  <2> QED BY <1>1, <1>3, <1>5, <2>1 DEF Tokens, Apart
<1>7. \A y \in Still(s) \cup Due(d, q) : y \in s.arrivals[st] \cup {pred}
  <2> SUFFICES ASSUME NEW y \in Still(s) \cup Due(d, q), y \notin s.arrivals[st] \cup {pred} PROVE FALSE
    OBVIOUS
  <2>1. PICK p \in Predecessors(d, st) : ~Beside(d, p, y)
    BY <1>0, JoinClosesRegion
  <2>2. p \in Still(s) \cup Due(d, q) /\ p # y
    BY <1>4, <1>6, <2>1 DEF Still
  <2> QED BY <2>1, <2>2 DEF Tokens, Apart, Spread
<1>8. s.active = {} /\ Waiting(s) = {}
  BY <1>4, <1>6, <1>7 DEF Tokens, Apart, Still
<1>9. Due(d, r) = {} /\ r = <<>>
  BY <1>1, <1>4, <1>6, <1>7 DEF Tokens, Apart, Still
<1>10. \A k \in States(d) : k # st => s.arrivals[k] = {}
  <2> SUFFICES ASSUME NEW k \in States(d), k # st, NEW y \in s.arrivals[k] PROVE FALSE
    OBVIOUS
  <2>1. y \in Arrived(s)
    BY <1>2 DEF Arrived
  <2>2. y \in s.arrivals[st]
    BY <1>6, <1>7, <2>1 DEF Still
  <2> QED BY <1>0, <2>2 DEF Tokens, Apart
<1>11. /\ t.arrivals \in [States(d) -> SUBSET States(d)] /\ DOMAIN t.arrivals = States(d)
       /\ \A k \in States(d) : t.arrivals[k] = {}
  <2>1. /\ t.arrivals \in [States(d) -> SUBSET States(d)] /\ DOMAIN t.arrivals = States(d)
        /\ t.arrivals[st] = {} /\ \A k \in States(d) : k # st => t.arrivals[k] = s.arrivals[k]
    BY <1>0, <1>2
  <2> QED BY <1>10, <2>1
<1>12. t.active = {st} /\ Waiting(t) = {} /\ Arrived(t) = {} /\ Still(t) = {st}
  <2>1. Waiting(t) = Waiting(s)
    BY DEF Waiting
  <2>2. Arrived(t) = {}
    BY <1>11 DEF Arrived
  <2> QED BY <1>8, <2>1, <2>2 DEF Still
<1>13. Placed(d, t)
  BY <1>11 DEF Tokens, Placed
<1>14. Apart(d, t, r)
  BY <1>1, <1>9, <1>11, <1>12 DEF Tokens, Apart, Spread
<1>15. Leaving(d, r) = {} /\ Routed(d, r)
  <2>1. Heading(r) = {}
    BY <1>9 DEF Heading
  <2> QED BY <2>1 DEF Leaving, Routed
<1>16. Joined(d, t, r)
  <2> SUFFICES ASSUME NEW j \in States(d), d.kind[j] = "join", NEW p \in Predecessors(d, j)
               PROVE  t.visits[j] <= t.visits[p] /\ (p = st => t.visits[j] < t.visits[p])
    BY <1>12, <1>15 DEF Joined
  <2>1. p \in States(d) /\ s.visits[p] \in Nat /\ s.visits[j] \in Nat /\ s.visits[st] \in Nat
    BY <1>0, PredecessorsAreStates DEF Shape
  <2>2. /\ t.visits[j] = (IF j = st THEN s.visits[j] + 1 ELSE s.visits[j])
        /\ t.visits[p] = (IF p = st THEN s.visits[p] + 1 ELSE s.visits[p])
    BY <2>1 DEF Visited
  <2>3. s.visits[j] <= s.visits[p] /\ (p \in Still(s) \cup Leaving(d, q) => s.visits[j] < s.visits[p])
    BY DEF Tokens, Joined
  <2>4. j = st => p \in Still(s) \cup Leaving(d, q)
    <3>1. pred \in Leaving(d, q)
      BY <1>0 DEF Leaving
    <3>2. p \in Predecessors(d, j)
      OBVIOUS
    <3> SUFFICES ASSUME j = st PROVE p \in Still(s) \cup Leaving(d, q)
      OBVIOUS
    <3>3. p \in s.arrivals[st] \cup {pred}
      BY <1>6, <3>2
    <3> QED BY <1>4, <3>1, <3>3 DEF Still
  <2>5. CASE j = st
    <3>1. s.visits[st] < s.visits[p]
      BY <2>3, <2>4, <2>5
    <3>2. p # st
      BY <2>1, <3>1
    <3>3. t.visits[j] = s.visits[st] + 1 /\ t.visits[p] = s.visits[p]
      BY <2>2, <2>5, <3>2
    <3> QED BY <2>1, <3>1, <3>2, <3>3
  <2>6. CASE j # st
    <3>1. t.visits[j] = s.visits[j] /\ s.visits[j] <= s.visits[p]
      BY <2>2, <2>3, <2>6
    <3> QED BY <2>1, <2>2, <3>1
  <2> QED BY <2>5, <2>6
<1> QED BY <1>8, <1>13, <1>14, <1>15, <1>16 DEF Tokens, Over, r


\* The token at x leaves: along an edge, or to enter x again.
LEMMA TokenLeaves ==
    ASSUME NEW d, Compiled(d), NEW s, Shape(d, s), NEW q \in Seq(Pairs(d)), Tokens(d, s, q),
           NEW x \in Still(s), x \in States(d), NEW t,
           t.active \subseteq s.active, Waiting(t) \subseteq Waiting(s), Still(t) = Still(s) \ {x},
           t.arrivals = s.arrivals, t.visits = s.visits, Placed(d, t),
           \A i, k \in 1..Len(t.pending) : t.pending[i].state = t.pending[k].state => i = k,
           t.status # "completed",
           NEW p \in Pairs(d),
           \/ p = <<x, None>>
           \/ \E e \in Edges(d) : e.from = x /\ p = <<e.to, x>>
    PROVE  Tokens(d, t, <<p>> \o q)
<1> DEFINE r == <<p>> \o q
           X == Pos(d, p)
<1>0. None \notin States(d)
  BY DEF Compiled
<1>1. /\ r \in Seq(Pairs(d)) /\ Heading(r) = Heading(q) \cup {p}
      /\ Due(d, r) = Due(d, q) \cup {X} /\ (Once(d, q) /\ X \notin Due(d, q) => Once(d, r))
  BY HeadOn
<1>2. X = x \/ \E e \in Edges(d) : e.from = x /\ X = e.to /\ d.kind[e.to] # "join"
  BY <1>0 DEF Pos
<1> HIDE DEF r, X
<1>3. Still(t) \cap Due(d, q) = {} /\ x \notin Still(t) /\ x \notin Due(d, q)
  BY DEF Tokens, Apart
<1>4. ASSUME NEW y \in Still(t) \cup Due(d, q) PROVE Beside(d, X, y) /\ X # y
  <2>1. y # x /\ y \in Still(s) \cup Due(d, q)
    BY <1>3
  <2>2. Beside(d, x, y)
    BY <2>1 DEF Tokens, Apart, Spread
  <2>3. Beside(d, X, y)
    BY <1>2, <2>2, BesideFollows
  <2> QED BY <2>3, BesideIsIrreflexive
<1>5. Spread(d, Still(t) \cup Due(d, r))
  <2>1. \A y, z \in Still(t) \cup Due(d, q) : y # z => Beside(d, y, z)
    BY DEF Tokens, Apart, Spread
  <2>2. \A y \in Still(t) \cup Due(d, q) : Beside(d, y, X)
    BY <1>4, BesideIsSymmetric
  <2> QED BY <1>1, <1>4, <2>1, <2>2 DEF Spread
<1>6. Arrived(t) = Arrived(s)
  BY DEF Arrived
<1>7. Apart(d, t, r)
  <2>1. Still(t) \cap Due(d, r) = {} /\ Once(d, r)
    BY <1>1, <1>3, <1>4 DEF Tokens, Apart
  <2>2. t.active \cap Waiting(t) = {} /\ t.active \cap Arrived(t) = {} /\ Waiting(t) \cap Arrived(t) = {}
    BY <1>6 DEF Tokens, Apart
  <2>3. \A j, k \in States(d) : j # k => t.arrivals[j] \cap t.arrivals[k] = {}
    BY DEF Tokens, Apart
  <2> QED BY <1>5, <2>1, <2>2, <2>3 DEF Apart
<1>8. Leaving(d, r) \subseteq Leaving(d, q) \cup {x, None}
  <2>1. p[2] \in {x, None}
    OBVIOUS
  <2> QED BY <1>1, <2>1 DEF Leaving
<1>9. Joined(d, t, r)
  <2> SUFFICES ASSUME NEW j \in States(d), d.kind[j] = "join", NEW b \in Predecessors(d, j)
               PROVE  /\ t.visits[j] <= t.visits[b]
                      /\ b \in Still(t) \cup Leaving(d, r) => t.visits[j] < t.visits[b]
    BY DEF Joined
  <2>1. b # None
    BY <1>0, PredecessorsAreStates
  <2>2. b \in Still(t) \cup Leaving(d, r) => b \in Still(s) \cup Leaving(d, q)
    BY <1>8, <2>1
  <2> QED BY <2>2 DEF Tokens, Joined
<1>10. Routed(d, r)
  <2>1. p[2] # None => \E e \in Edges(d) : e.from = p[2] /\ e.to = p[1]
    OBVIOUS
  <2> QED BY <1>1, <2>1 DEF Tokens, Routed
<1> QED BY <1>7, <1>9, <1>10 DEF Tokens, Over, r

\* An active state is left.
LEMMA ActiveLeaves ==
    ASSUME NEW d, Compiled(d), NEW s, Shape(d, s), NEW q \in Seq(Pairs(d)), Tokens(d, s, q),
           NEW st \in s.active, NEW t, t.active = s.active \ {st}, t.pending = s.pending,
           t.arrivals = s.arrivals, t.visits = s.visits, t.status = s.status,
           NEW e \in Edges(d), e.from = st
    PROVE  Tokens(d, t, <<<<e.to, st>>>> \o q)
<1>1. st \in States(d) /\ e.to \in States(d) /\ st \in Still(s)
  BY EdgeEnds DEF Shape, Still
<1>2. <<e.to, st>> \in Pairs(d)
  BY <1>1 DEF Pairs
<1>3. Waiting(t) = Waiting(s) /\ Arrived(t) = Arrived(s)
  BY DEF Waiting, Arrived
<1>4. Still(t) = Still(s) \ {st}
  BY <1>3 DEF Tokens, Apart, Still
<1>5. Placed(d, t)
  BY SamePlaced DEF Tokens
<1>6. \A i, k \in 1..Len(t.pending) : t.pending[i].state = t.pending[k].state => i = k
  BY DEF Tokens, Apart
<1>7. t.status # "completed"
  BY DEF Tokens, Over
<1> DEFINE p == <<e.to, st>>
<1>8. \/ p = <<st, None>>
      \/ \E a \in Edges(d) : a.from = st /\ p = <<a.to, st>>
  OBVIOUS
<1> HIDE DEF p
<1>9. Tokens(d, t, <<p>> \o q)
  BY <1>1, <1>2, <1>3, <1>4, <1>5, <1>6, <1>7, <1>8, TokenLeaves DEF p
<1> QED BY <1>9 DEF p

\* An active state is left for a callback.
LEMMA ActiveParks ==
    ASSUME NEW d, Compiled(d), NEW s, Shape(d, s), NEW q \in Seq(Pairs(d)), Tokens(d, s, q),
           NEW st \in s.active, NEW t, t.active = s.active \ {st}, NEW w,
           t.pending = Append(s.pending, w), t.arrivals = s.arrivals, t.visits = s.visits,
           t.status # "completed", NEW e \in Edges(d), e.from = st, w.state = st, w.to = e.to
    PROVE  Tokens(d, t, q)
<1>1. st \in Still(s) /\ st \notin Waiting(s) /\ st \notin Arrived(s) /\ st \notin Due(d, q)
  BY DEF Tokens, Apart, Still
<1> DEFINE n == Len(s.pending)
<1>2. /\ n \in Nat /\ Len(t.pending) = n + 1 /\ t.pending[n + 1] = w
      /\ \A i \in 1..n : t.pending[i] = s.pending[i]
  <2>1. s.pending \in Seq(Waits(d))
    BY DEF Shape
  <2> QED BY <2>1
<1> HIDE DEF n
<1>3. /\ n + 1 \in 1..Len(t.pending) /\ 1..n \subseteq 1..Len(t.pending)
      /\ \A i \in 1..Len(t.pending) : i = n + 1 \/ i \in 1..n
  BY <1>2
<1>4. Waiting(t) = Waiting(s) \cup {st}
  <2>1. ASSUME NEW x \in Waiting(t) PROVE x \in Waiting(s) \cup {st}
    <3>1. PICK i \in 1..Len(t.pending) : x = t.pending[i].state BY DEF Waiting
    <3> QED BY <1>2, <1>3, <3>1 DEF Waiting, n
  <2>2. ASSUME NEW x \in Waiting(s) PROVE x \in Waiting(t)
    <3>1. PICK i \in 1..n : x = s.pending[i].state BY DEF Waiting, n
    <3> QED BY <1>2, <1>3, <3>1 DEF Waiting
  <2>3. st \in Waiting(t)
    BY <1>2, <1>3 DEF Waiting
  <2> QED BY <2>1, <2>2, <2>3
<1>5. Arrived(t) = Arrived(s)
  BY DEF Arrived
<1>6. Still(t) = Still(s)
  BY <1>4, <1>5 DEF Still
<1>7. ASSUME NEW i \in 1..Len(t.pending), NEW k \in 1..Len(t.pending),
             t.pending[i].state = t.pending[k].state
      PROVE  i = k
  <2>1. \A a \in 1..n : t.pending[a].state # st
    BY <1>1, <1>2 DEF Waiting, n
  <2>2. \A a, b \in 1..n : s.pending[a].state = s.pending[b].state => a = b
    BY DEF Tokens, Apart, n
  <2> QED BY <1>2, <1>3, <1>7, <2>1, <2>2
<1>8. Apart(d, t, q)
  <2>1. t.active \cap Waiting(t) = {} /\ t.active \cap Arrived(t) = {} /\ Waiting(t) \cap Arrived(t) = {}
    BY <1>1, <1>4, <1>5 DEF Tokens, Apart
  <2> QED BY <1>6, <1>7, <2>1 DEF Tokens, Apart
<1>9. Placed(d, t)
  <2>1. ASSUME NEW i \in 1..Len(t.pending)
        PROVE  \E a \in Edges(d) : a.from = t.pending[i].state /\ a.to = t.pending[i].to
    <3>1. CASE i = n + 1 BY <1>2, <3>1
    <3>2. CASE i \in 1..n BY <1>2, <3>2 DEF Tokens, Placed, n
    <3> QED BY <1>3, <3>1, <3>2
  <2> QED BY <2>1 DEF Tokens, Placed
<1>10. Joined(d, t, q)
  BY <1>6 DEF Tokens, Joined
<1> QED BY <1>8, <1>9, <1>10 DEF Tokens, Over

\* The oldest callback is decided.
LEMMA WaitLeaves ==
    ASSUME NEW d, Compiled(d), NEW s, Shape(d, s), Tokens(d, s, <<>>), s.pending # <<>>, NEW t,
           t.active = s.active, t.pending = Tail(s.pending), t.arrivals = s.arrivals,
           t.visits = s.visits, t.status # "completed",
           NEW p \in {<<Head(s.pending).to, Head(s.pending).state>>, <<Head(s.pending).state, None>>}
    PROVE  Tokens(d, t, <<p>>) /\ p \in Pairs(d)
<1> DEFINE w == Head(s.pending)
           x == w.state
           n == Len(s.pending)
<1>1. /\ n \in Nat /\ n > 0 /\ Len(t.pending) = n - 1 /\ w = s.pending[1] /\ w \in Waits(d)
      /\ \A i \in 1..(n - 1) : t.pending[i] = s.pending[i + 1]
  <2>1. s.pending \in Seq(Waits(d))
    BY DEF Shape
  <2> QED BY <2>1
<1>2. x \in States(d) /\ w.to \in States(d)
  BY <1>1 DEF Waits
<1> HIDE DEF n, w
<1>3. /\ 1 \in 1..n /\ \A i \in 1..(n - 1) : i + 1 \in 1..n /\ i + 1 # 1
      /\ \A i \in 1..n : i = 1 \/ (i - 1 \in 1..(n - 1) /\ t.pending[i - 1] = s.pending[i])
  BY <1>1
<1>4. /\ \A i, k \in 1..n : s.pending[i].state = s.pending[k].state => i = k
      /\ \A i \in 1..n : \E e \in Edges(d) : e.from = s.pending[i].state /\ e.to = s.pending[i].to
  BY DEF Tokens, Apart, Placed, n
<1>5. x \in Waiting(s)
  BY <1>1, <1>3 DEF Waiting, n
<1>6. Waiting(t) = Waiting(s) \ {x}
  <2>1. ASSUME NEW y \in Waiting(t) PROVE y \in Waiting(s) \ {x}
    <3>1. PICK i \in 1..(n - 1) : y = t.pending[i].state BY <1>1 DEF Waiting
    <3>2. i + 1 \in 1..n /\ i + 1 # 1 /\ y = s.pending[i + 1].state
      BY <1>1, <1>3, <3>1
    <3> QED BY <1>1, <1>3, <1>4, <3>2 DEF Waiting, n
  <2>2. ASSUME NEW y \in Waiting(s) \ {x} PROVE y \in Waiting(t)
    <3>1. PICK i \in 1..n : y = s.pending[i].state BY DEF Waiting, n
    <3>2. i - 1 \in 1..(n - 1) /\ t.pending[i - 1] = s.pending[i]
      BY <1>1, <1>3, <3>1
    <3> QED BY <1>1, <3>1, <3>2 DEF Waiting
  <2> QED BY <2>1, <2>2
<1>7. Arrived(t) = Arrived(s)
  BY DEF Arrived
<1>8. x \in Still(s) /\ Still(t) = Still(s) \ {x}
  BY <1>5, <1>6, <1>7 DEF Tokens, Apart, Still
<1>9. ASSUME NEW i \in 1..Len(t.pending), NEW k \in 1..Len(t.pending),
             t.pending[i].state = t.pending[k].state
      PROVE  i = k
  <2>1. i \in 1..(n - 1) /\ k \in 1..(n - 1)
    BY <1>1
  <2>2. i + 1 = k + 1
    BY <1>1, <1>3, <1>4, <1>9, <2>1
  <2> QED BY <2>1, <2>2
<1>10. Placed(d, t)
  <2>1. ASSUME NEW i \in 1..Len(t.pending)
        PROVE  \E e \in Edges(d) : e.from = t.pending[i].state /\ e.to = t.pending[i].to
    <3>1. i \in 1..(n - 1)
      BY <1>1
    <3> QED BY <1>1, <1>3, <1>4, <3>1
  <2> QED BY <2>1 DEF Tokens, Placed
<1>11. p \in Pairs(d)
  BY <1>2 DEF Pairs, w
<1>12. \/ p = <<x, None>>
       \/ \E e \in Edges(d) : e.from = x /\ p = <<e.to, x>>
  <2>1. \E e \in Edges(d) : e.from = x /\ e.to = w.to
    BY <1>1, <1>3, <1>4
  <2> QED BY <2>1 DEF w
<1> HIDE DEF x
<1>13. <<>> \in Seq(Pairs(d))
  OBVIOUS
<1>14. Tokens(d, t, <<p>> \o <<>>)
  BY <1>2, <1>6, <1>8, <1>9, <1>10, <1>11, <1>12, <1>13, TokenLeaves
<1>15. <<p>> \o <<>> = <<p>>
  OBVIOUS
<1> QED BY <1>11, <1>14, <1>15

-----------------------------------------------------------------------------
(* Commands.  One that stands may still become another attempt: it is not  *)
(* settled, in doubt, or failed with a candidate to fall back to.          *)

CanFallBack(d, s, c) ==
    /\ Status(s, c) = "failed"
    /\ d.kind[c.state] \in BoundKinds
    /\ s.commands[c].why = "transient" \/ (s.commands[c].why = "quota" /\ d.onQuota)
    /\ c.ordinal + 1 < d.candidates
    /\ LineageWithinBudget(d, s, Lineage(c))
Standing(d, s, c) ==
    \/ Status(s, c) \in Unstarted \cup {"running", "cancel-requested", "in-doubt"}
    \/ CanFallBack(d, s, c)
Counts(d, s, c) == Standing(d, s, c) \/ Status(s, c) = "succeeded"
OfLineage(s, l) == {c \in Cmds(s) : Lineage(c) = l}

\* What stands is of the present visit of an active state.
Current(d, s) ==
    \A c \in Cmds(s) : Standing(d, s, c) => c.state \in s.active /\ c.visit = s.visits[c.state]
\* Of a lineage, one command stands or has succeeded.
Single(d, s) ==
    \A b, c \in Cmds(s) : Lineage(b) = Lineage(c) /\ Counts(d, s, b) /\ Counts(d, s, c) => b = c
\* Only worksets have items; the item of a command at work is on the present list,
\* and its predecessors have succeeded in the same visit.
ItemOK(d, c) == d.kind[c.state] = "workset" \/ c.item = None
OnList(d, s, c) ==
    LET l == List(d, s, c.state)
    IN  /\ c.item \in DOMAIN l
        /\ \A i \in l[c.item] :
              \E b \in Cmds(s) : b.item = i /\ VisitOf(b) = VisitOf(c) /\ Status(s, b) = "succeeded"
\* What is used up of a lineage's budget is the number of its commands.
Budget(d, s) ==
    /\ \A c \in Cmds(s) :
          /\ IsFiniteSet(OfLineage(s, Lineage(c)))
          /\ Used(s, Lineage(c)) = Cardinality(OfLineage(s, Lineage(c)))
          /\ Used(s, Lineage(c)) <= d.attempts
    /\ \A l \in DOMAIN s.used : OfLineage(s, l) # {}
Sound(d, s) ==
    /\ s.lists \in Inputs(d)
    /\ Current(d, s) /\ Single(d, s) /\ Budget(d, s)
    /\ \A c \in Cmds(s) : ItemOK(d, c)
    /\ \A c \in AtWork(d, s) : OnList(d, s, c)

\* On the way from s to t no lineage with a command in doubt has got another.
LeavesDoubts(s, t) ==
    \A b \in Cmds(t) \ Cmds(s) : \A c \in Cmds(s) :
        Status(s, c) = "in-doubt" => Lineage(b) # Lineage(c)
LEMMA LeavesDoubtsOn ==
    ASSUME NEW s, NEW t, NEW u, Keeps(s, t), LeavesDoubts(s, t), LeavesDoubts(t, u)
    PROVE  LeavesDoubts(s, u)
BY DEF LeavesDoubts, Keeps, Final

\* No workset has got further commands at work.
LEMMA SameWork ==
    ASSUME NEW d, NEW s, NEW t, Cmds(t) = Cmds(s), t.visits = s.visits, t.active \subseteq s.active
    PROVE  AtWork(d, t) \subseteq AtWork(d, s)
BY DEF AtWork

\* Commands change their status, or are left behind.
LEMMA Resettled ==
    ASSUME NEW d, NEW s, Sound(d, s), NEW t, t.used = s.used, t.lists = s.lists, Cmds(t) = Cmds(s),
           AtWork(d, t) \subseteq AtWork(d, s),
           \A c \in Cmds(s) : Standing(d, t, c) =>
               Standing(d, s, c) /\ c.state \in t.active /\ t.visits[c.state] = s.visits[c.state],
           \A c \in Cmds(s) : Counts(d, t, c) => Counts(d, s, c),
           \A c \in Cmds(s) : Status(s, c) = "succeeded" => Status(t, c) = "succeeded"
    PROVE  Sound(d, t)
<1>1. Current(d, t)
  BY DEF Sound, Current
<1>2. Single(d, t)
  BY DEF Sound, Single
<1>3. \A l : OfLineage(t, l) = OfLineage(s, l) /\ Used(t, l) = Used(s, l)
  BY DEF OfLineage, Used
<1>4. Budget(d, t)
  BY <1>3 DEF Sound, Budget
<1>5. \A c \in AtWork(d, t) : OnList(d, t, c)
  <2> SUFFICES ASSUME NEW c \in AtWork(d, t) PROVE OnList(d, t, c)
    OBVIOUS
  <2>1. OnList(d, s, c) /\ List(d, t, c.state) = List(d, s, c.state)
    BY DEF Sound, List
  <2> QED BY <2>1 DEF OnList
<1> QED BY <1>1, <1>2, <1>4, <1>5 DEF Sound

\* Commands of new lineages are issued.
Issues(s, t, new) ==
    /\ t.active = s.active /\ t.visits = s.visits /\ t.lists = s.lists
    /\ t.commands = PutAll(s.commands, new, [status |-> "pending", why |-> None])
    /\ t.used = PutAll(s.used, {Lineage(c) : c \in new}, 1)
Admits(d, s, c) ==
    /\ c.state \in s.active /\ c.visit = s.visits[c.state]
    /\ ItemOK(d, c) /\ (d.kind[c.state] = "workset" => OnList(d, s, c))
    /\ OfLineage(s, Lineage(c)) = {}
LEMMA Issued ==
    ASSUME NEW d, d.attempts \in Nat \ {0}, NEW s, Sound(d, s), NEW t, NEW new,
           Issues(s, t, new), \A c \in new : Admits(d, s, c),
           \A b, c \in new : Lineage(b) = Lineage(c) => b = c
    PROVE  /\ Sound(d, t) /\ LeavesDoubts(s, t) /\ Cmds(t) = Cmds(s) \cup new
           /\ \A c \in Cmds(s) : Standing(d, t, c) = Standing(d, s, c)
<1> USE DEF Issues, Admits
<1>1. Cmds(t) = Cmds(s) \cup new /\ new \cap Cmds(s) = {}
  BY DEF Cmds, PutAll, OfLineage
<1>2. \A c \in Cmds(s) : t.commands[c] = s.commands[c] /\ Status(t, c) = Status(s, c)
  BY <1>1 DEF Cmds, PutAll, Status
<1>3. \A c \in new : Status(t, c) = "pending"
  BY DEF PutAll, Status
<1>4. \A c \in Cmds(s) : Lineage(c) \notin {Lineage(b) : b \in new}
  BY DEF OfLineage
<1>5. \A l : Used(t, l) = IF l \in {Lineage(b) : b \in new} THEN 1 ELSE Used(s, l)
  BY DEF Used, PutAll
<1>6. \A c \in Cmds(s) : Standing(d, t, c) = Standing(d, s, c) /\ Counts(d, t, c) = Counts(d, s, c)
  BY <1>2, <1>4, <1>5 DEF Standing, Counts, CanFallBack, LineageWithinBudget
<1>7. Current(d, t)
  BY <1>1, <1>6 DEF Sound, Current
<1>8. Single(d, t)
  <2> SUFFICES ASSUME NEW b \in Cmds(t), NEW c \in Cmds(t), Lineage(b) = Lineage(c),
                      Counts(d, t, b), Counts(d, t, c)
               PROVE  b = c
    BY DEF Single
  <2>1. CASE b \in new /\ c \in new BY <2>1
  <2>2. CASE b \in Cmds(s) /\ c \in Cmds(s) BY <1>6, <2>2 DEF Sound, Single
  <2>3. CASE ~(b \in new <=> c \in new) BY <1>1, <1>4, <2>3
  <2> QED BY <1>1, <2>1, <2>2, <2>3
<1>9. \A c \in Cmds(s) : OfLineage(t, Lineage(c)) = OfLineage(s, Lineage(c))
                         /\ Used(t, Lineage(c)) = Used(s, Lineage(c))
  BY <1>1, <1>4, <1>5 DEF OfLineage
<1>10. \A c \in new : OfLineage(t, Lineage(c)) = {c} /\ Used(t, Lineage(c)) = 1
  BY <1>1, <1>5 DEF OfLineage
<1>11. Budget(d, t)
  <2>1. ASSUME NEW c \in Cmds(t)
        PROVE  /\ IsFiniteSet(OfLineage(t, Lineage(c)))
               /\ Used(t, Lineage(c)) = Cardinality(OfLineage(t, Lineage(c)))
               /\ Used(t, Lineage(c)) <= d.attempts
    <3>1. CASE c \in Cmds(s) BY <1>9, <3>1 DEF Sound, Budget
    <3>2. CASE c \in new
      <4>1. IsFiniteSet({c}) /\ Cardinality({c}) = 1
        BY FS_Singleton
      <4>2. OfLineage(t, Lineage(c)) = {c} /\ Used(t, Lineage(c)) = 1
        BY <1>10, <3>2
      <4>3. 1 <= d.attempts
        OBVIOUS
      <4> QED BY <4>1, <4>2, <4>3
    <3> QED BY <1>1, <3>1, <3>2
  <2>2. ASSUME NEW l \in DOMAIN t.used PROVE OfLineage(t, l) # {}
    <3>1. l \in DOMAIN s.used \/ \E c \in new : l = Lineage(c)
      BY DEF PutAll
    <3>2. CASE l \in DOMAIN s.used
      <4>1. OfLineage(s, l) # {}
        BY <3>2 DEF Sound, Budget
      <4> QED BY <1>1, <4>1 DEF OfLineage
    <3> QED BY <1>10, <3>1, <3>2
  <2> QED BY <2>1, <2>2 DEF Budget
<1>12. ASSUME NEW c \in AtWork(d, t) PROVE OnList(d, t, c)
  <2>1. c \in new \/ c \in AtWork(d, s)
    BY <1>1 DEF AtWork
  <2>2. OnList(d, s, c) /\ List(d, t, c.state) = List(d, s, c.state)
    BY <2>1 DEF Sound, List, AtWork
  <2> QED BY <1>1, <1>2, <2>2 DEF OnList
<1>13. LeavesDoubts(s, t)
  BY <1>1, <1>4 DEF LeavesDoubts
<1>14. \A c \in Cmds(t) : ItemOK(d, c)
  BY <1>1 DEF Sound
<1> QED BY <1>1, <1>6, <1>7, <1>8, <1>11, <1>12, <1>13, <1>14 DEF Sound

\* Another attempt takes the place of c, which stands.
LEMMA Replaced ==
    ASSUME NEW d, d.attempts \in Nat \ {0}, NEW s, Sound(d, s), NEW c \in Cmds(s), Standing(d, s, c),
           NEW t, NEW new, new \notin Cmds(s), Lineage(new) = Lineage(c), new.state = c.state,
           new.visit = c.visit, new.item = c.item,
           LineageWithinBudget(d, s, Lineage(c)), Status(s, c) # "succeeded",
           t.active = s.active, t.visits = s.visits, t.lists = s.lists, Cmds(t) = Cmds(s) \cup {new},
           Status(t, new) = "pending", Status(t, c) = "cancelled",
           \A b \in Cmds(s) \ {c} : t.commands[b] = s.commands[b],
           t.used = PutAll(s.used, {Lineage(c)}, Used(s, Lineage(c)) + 1)
    PROVE  Sound(d, t)
<1> DEFINE l == Lineage(c)
<1>1. /\ IsFiniteSet(OfLineage(s, l)) /\ Used(s, l) = Cardinality(OfLineage(s, l)) /\ Used(s, l) \in Nat
  BY FS_CardinalityType DEF Sound, Budget
<1>2. \A k : Used(t, k) = IF k = l THEN Used(s, l) + 1 ELSE Used(s, k)
  BY DEF Used, PutAll
<1>3. ASSUME NEW b \in Cmds(s) \ {c}
      PROVE  /\ Status(t, b) = Status(s, b)
             /\ Standing(d, t, b) => Standing(d, s, b)
             /\ Counts(d, t, b) => Counts(d, s, b)
  <2>1. Status(t, b) = Status(s, b) /\ t.commands[b] = s.commands[b]
    BY DEF Status
  <2>2. LineageWithinBudget(d, t, Lineage(b)) => LineageWithinBudget(d, s, Lineage(b))
    <3>1. CASE Lineage(b) = l BY <3>1
    <3>2. CASE Lineage(b) # l BY <1>2, <3>2 DEF LineageWithinBudget
    <3> QED BY <3>1, <3>2
  <2> QED BY <2>1, <2>2 DEF Standing, Counts, CanFallBack
<1>4. ~Counts(d, t, c) /\ ~Standing(d, t, c)
  BY DEF Counts, Standing, CanFallBack, Unstarted
<1>5. Current(d, t)
  <2> SUFFICES ASSUME NEW b \in Cmds(t), Standing(d, t, b)
               PROVE  b.state \in t.active /\ b.visit = t.visits[b.state]
    BY DEF Current
  <2>1. CASE b = new BY <2>1 DEF Sound, Current
  <2>2. CASE b # new BY <1>3, <1>4, <2>2 DEF Sound, Current
  <2> QED BY <2>1, <2>2
<1>6. Single(d, t)
  <2> SUFFICES ASSUME NEW a \in Cmds(t), NEW b \in Cmds(t), Lineage(a) = Lineage(b),
                      Counts(d, t, a), Counts(d, t, b)
               PROVE  a = b
    BY DEF Single
  <2>0. Counts(d, s, c)
    BY DEF Counts
  <2>1. a # c /\ b # c
    BY <1>4
  <2>2. CASE a # new /\ b # new BY <1>3, <2>1, <2>2 DEF Sound, Single
  <2>3. CASE a = new /\ b # new
    <3>1. Counts(d, s, b) /\ Lineage(b) = Lineage(c) /\ b \in Cmds(s)
      BY <1>3, <2>1, <2>3
    <3> QED BY <2>0, <2>1, <3>1 DEF Sound, Single
  <2>4. CASE a # new /\ b = new
    <3>1. Counts(d, s, a) /\ Lineage(a) = Lineage(c) /\ a \in Cmds(s)
      BY <1>3, <2>1, <2>4
    <3> QED BY <2>0, <2>1, <3>1 DEF Sound, Single
  <2> QED BY <2>2, <2>3, <2>4
<1>7. OfLineage(t, l) = OfLineage(s, l) \cup {new} /\ new \notin OfLineage(s, l)
  BY DEF OfLineage
<1>8. IsFiniteSet(OfLineage(t, l)) /\ Cardinality(OfLineage(t, l)) = Used(s, l) + 1
  BY <1>1, <1>7, FS_AddElement
<1>9. \A k : k # l => OfLineage(t, k) = OfLineage(s, k)
  BY DEF OfLineage
<1>10. Budget(d, t)
  <2>1. ASSUME NEW b \in Cmds(t)
        PROVE  /\ IsFiniteSet(OfLineage(t, Lineage(b)))
               /\ Used(t, Lineage(b)) = Cardinality(OfLineage(t, Lineage(b)))
               /\ Used(t, Lineage(b)) <= d.attempts
    <3>1. CASE Lineage(b) = l
      <4>1. Used(s, l) + 1 <= d.attempts
        BY DEF LineageWithinBudget
      <4> QED BY <1>2, <1>8, <3>1, <4>1
    <3>2. CASE Lineage(b) # l
      <4>1. b \in Cmds(s)
        BY <3>2
      <4> QED BY <1>2, <1>9, <3>2, <4>1 DEF Sound, Budget
    <3> QED BY <3>1, <3>2
  <2>2. ASSUME NEW k \in DOMAIN t.used PROVE OfLineage(t, k) # {}
    <3>1. k \in DOMAIN s.used \/ k = l
      BY DEF PutAll
    <3> QED BY <1>7, <1>9, <3>1 DEF Sound, Budget
  <2> QED BY <2>1, <2>2 DEF Budget
<1>11. ASSUME NEW b \in AtWork(d, t) PROVE OnList(d, t, b)
  <2>1. OnList(d, s, b)
    <3>1. CASE b = new
      <4>1. OnList(d, s, c)
        BY <3>1 DEF Sound, AtWork
      <4> QED BY <3>1, <4>1 DEF OnList, VisitOf
    <3>2. CASE b # new BY <3>2 DEF Sound, AtWork
    <3> QED BY <3>1, <3>2
  <2>2. \A a \in Cmds(s) : Status(s, a) = "succeeded" => Status(t, a) = "succeeded"
    BY <1>3
  <2>3. List(d, t, b.state) = List(d, s, b.state)
    BY DEF List
  <2> QED BY <2>1, <2>2, <2>3 DEF OnList
<1>12. \A b \in Cmds(t) : ItemOK(d, b)
  BY DEF Sound, ItemOK
<1> QED BY <1>5, <1>6, <1>10, <1>11, <1>12 DEF Sound


\* emit_command, for a visit that has no command yet.
LEMMA EmitSound ==
    ASSUME NEW d, Compiled(d), NEW s, Shape(d, s), Sound(d, s), NEW st \in s.active,
           d.kind[st] # "workset", \A c \in Cmds(s) : c.state = st => c.visit < s.visits[st]
    PROVE  LET t == EmitCommand(s, st, None)
           IN  /\ Sound(d, t) /\ LeavesDoubts(s, t) /\ t.pending = s.pending /\ t.arrivals = s.arrivals
               /\ t.active = s.active /\ t.visits = s.visits /\ t.status = s.status
               /\ DOMAIN t = DOMAIN s /\ t.lists = s.lists
               /\ \A c \in Cmds(t) : c.state = st \/ (c \in Cmds(s) /\ Standing(d, t, c) = Standing(d, s, c))
<1> DEFINE c == NewCommand(s, st, None)
           t == EmitCommand(s, st, None)
           l == Lineage(c)
<1>0. Fields \subseteq DOMAIN s /\ st \in States(d) /\ s.visits[st] \in Nat /\ d.attempts \in Nat \ {0}
  BY DEF Shape, Compiled
<1>1. /\ DOMAIN t = DOMAIN s /\ t.active = s.active /\ t.visits = s.visits /\ t.pending = s.pending
      /\ t.arrivals = s.arrivals /\ t.status = s.status /\ t.lists = s.lists
      /\ t.commands = PutAll(s.commands, {c}, [status |-> "pending", why |-> None])
      /\ t.used = PutAll(s.used, {l}, Used(s, l) + 1)
  BY <1>0 DEF EmitCommand, AddCommand, BumpAttemptLineage, Fields
<1>2. c.state = st /\ c.visit = s.visits[st] /\ c.item = None
  BY DEF NewCommand
<1> HIDE DEF c, t
<1>3. OfLineage(s, l) = {}
  <2> SUFFICES ASSUME NEW b \in Cmds(s), Lineage(b) = l PROVE FALSE
    BY DEF OfLineage
  <2>1. b.state = st /\ b.visit = s.visits[st]
    BY <1>2 DEF Lineage
  <2> QED BY <1>0, <2>1
<1>4. Used(s, l) = 0
  BY <1>3 DEF Used, Sound, Budget
<1>5. {Lineage(b) : b \in {c}} = {l}
  OBVIOUS
<1>6. t.used = PutAll(s.used, {Lineage(b) : b \in {c}}, 1)
  <2>1. Used(s, l) + 1 = 1
    BY <1>4
  <2> QED BY <1>1, <1>5, <2>1
<1>7. ItemOK(d, c)
  BY <1>2 DEF ItemOK
<1> DEFINE new == {c}
<1>8. Issues(s, t, new)
  BY <1>1, <1>6 DEF Issues
<1>9. \A b \in new : Admits(d, s, b)
  BY <1>2, <1>3, <1>7 DEF Admits
<1>a. \A a, b \in new : Lineage(a) = Lineage(b) => a = b
  OBVIOUS
<1> HIDE DEF new, l
<1>10. /\ Sound(d, t) /\ LeavesDoubts(s, t) /\ Cmds(t) = Cmds(s) \cup new
       /\ \A b \in Cmds(s) : Standing(d, t, b) = Standing(d, s, b)
  BY <1>0, <1>8, <1>9, <1>a, Issued
<1>11. \A b \in Cmds(t) : b.state = st \/ (b \in Cmds(s) /\ Standing(d, t, b) = Standing(d, s, b))
  BY <1>2, <1>10 DEF new
<1> QED BY <1>1, <1>10, <1>11 DEF t

\* schedule_workset
LEMMA ScheduleSound ==
    ASSUME NEW d, Compiled(d), NEW s, Shape(d, s), Sound(d, s), NEW st \in s.active,
           d.kind[st] = "workset"
    PROVE  LET t == ScheduleWorkset(d, s, st)
           IN  /\ Sound(d, t) /\ LeavesDoubts(s, t) /\ t.pending = s.pending /\ t.arrivals = s.arrivals
               /\ t.active = s.active /\ t.visits = s.visits /\ t.status = s.status
               /\ DOMAIN t = DOMAIN s /\ t.lists = s.lists
               /\ \A c \in Cmds(t) : c.state = st \/ (c \in Cmds(s) /\ Standing(d, t, c) = Standing(d, s, c))
<1> DEFINE new == {NewCommand(s, st, i) : i \in ReadyItems(d, s, st)}
           t == ScheduleWorkset(d, s, st)
<1>0. Fields \subseteq DOMAIN s /\ st \in States(d) /\ d.attempts \in Nat \ {0}
  BY DEF Shape, Compiled
<1>1. /\ DOMAIN t = DOMAIN s /\ t.active = s.active /\ t.visits = s.visits /\ t.pending = s.pending
      /\ t.arrivals = s.arrivals /\ t.status = s.status /\ t.lists = s.lists
      /\ t.commands = PutAll(s.commands, new, [status |-> "pending", why |-> None])
      /\ t.used = PutAll(s.used, {Lineage(c) : c \in new}, 1)
  BY <1>0 DEF ScheduleWorkset, Fields
<1>2. ASSUME NEW c \in new
      PROVE  /\ c.state = st /\ c.visit = s.visits[st] /\ c.item \in ReadyItems(d, s, st)
             /\ c = NewCommand(s, st, c.item)
  <2>1. PICK i \in ReadyItems(d, s, st) : c = NewCommand(s, st, i)
    OBVIOUS
  <2>2. c.state = st /\ c.visit = s.visits[st] /\ c.item = i
    BY <2>1 DEF NewCommand
  <2> QED BY <2>1, <2>2
<1> HIDE DEF new, t
<1>3. ASSUME NEW c \in new
      PROVE  ItemOK(d, c) /\ OnList(d, s, c) /\ OfLineage(s, Lineage(c)) = {}
  <2>1. /\ c.state = st /\ c.visit = s.visits[st]
        /\ c.item \in DOMAIN List(d, s, st) /\ c.item \notin {b.item : b \in VisitCommands(s, st)}
        /\ List(d, s, st)[c.item] \subseteq ItemsWith(s, st, {"succeeded"})
    BY <1>2 DEF ReadyItems
  <2>2. OfLineage(s, Lineage(c)) = {}
    <3> SUFFICES ASSUME NEW b \in Cmds(s), Lineage(b) = Lineage(c) PROVE FALSE
      BY DEF OfLineage
    <3>1. b.state = st /\ b.visit = s.visits[st] /\ b.item = c.item
      BY <2>1 DEF Lineage
    <3> QED BY <2>1, <3>1 DEF VisitCommands, VisitOf
  <2>3. OnList(d, s, c)
    <3> SUFFICES ASSUME NEW i \in List(d, s, st)[c.item]
                 PROVE  \E b \in Cmds(s) : b.item = i /\ VisitOf(b) = VisitOf(c) /\ Status(s, b) = "succeeded"
      BY <2>1 DEF OnList
    <3>1. PICK b \in VisitCommands(s, st) : Status(s, b) = "succeeded" /\ b.item = i
      BY <2>1 DEF ItemsWith
    <3> QED BY <2>1, <3>1 DEF VisitCommands, VisitOf
  <2> QED BY <2>1, <2>2, <2>3 DEF ItemOK
<1>4. \A b, c \in new : Lineage(b) = Lineage(c) => b = c
  BY <1>2 DEF Lineage
<1>5. \A c \in new : c.state \in s.active /\ c.visit = s.visits[c.state]
  BY <1>2
<1>10. /\ Sound(d, t) /\ LeavesDoubts(s, t) /\ Cmds(t) = Cmds(s) \cup new
       /\ \A b \in Cmds(s) : Standing(d, t, b) = Standing(d, s, b)
  <2>1. Issues(s, t, new)
    BY <1>1 DEF Issues
  <2>2. \A c \in new : Admits(d, s, c)
    BY <1>3, <1>5 DEF Admits
  <2> QED BY <1>0, <1>4, <2>1, <2>2, Issued
<1>11. \A b \in Cmds(t) : b.state = st \/ (b \in Cmds(s) /\ Standing(d, t, b) = Standing(d, s, b))
  BY <1>2, <1>10
<1> QED BY <1>1, <1>10, <1>11 DEF t

-----------------------------------------------------------------------------
(* Machines, again: where a machine stands, what its commands are, and     *)
(* that nothing stands at a state whose completion is queued.              *)

Idle(d, s, a) ==
    \A i \in 1..Len(a) : \A c \in Cmds(s) : Standing(d, s, c) => c.state # a[i][1]
Fits(d, s0, m) ==
    /\ Works(d, s0, m) /\ Tokens(d, m.s, m.enter) /\ Sound(d, m.s)
    /\ Queued(m.s, m.auto) /\ Idle(d, m.s, m.auto)
    /\ LeavesDoubts(s0, m.s)
\* Another command than those of st stands only if it stood before.
Stays(d, s, t, st) ==
    \A c \in Cmds(t) : Standing(d, t, c) => c.state = st \/ (c \in Cmds(s) /\ Standing(d, s, c))

\* A queue goes on while a state it does not hold is entered or left.
LEMMA QueueStays ==
    ASSUME NEW d, NEW s, NEW t, NEW a, Queued(s, a), Idle(d, s, a), NEW st,
           \A i \in 1..Len(a) : a[i][1] # st, s.active \ {st} \subseteq t.active, Stays(d, s, t, st)
    PROVE  Queued(t, a) /\ Idle(d, t, a)
BY DEF Queued, Idle, Stays

LEMMA QueueNothing == ASSUME NEW d, NEW t PROVE Queued(t, <<>>) /\ Idle(d, t, <<>>)
BY DEF Queued, Idle

LEMMA QueueIsEmpty ==
    ASSUME NEW A, NEW s, NEW a \in Seq(A), Queued(s, a), s.active = {}
    PROVE  a = <<>>
<1>1. Len(a) \in Nat
  OBVIOUS
<1>2. ~(1 \in 1..Len(a))
  BY DEF Queued
<1>3. Len(a) = 0
  BY <1>1, <1>2
<1> QED BY <1>3

\* A completion is queued.
LEMMA QueueMore ==
    ASSUME NEW d, NEW A, NEW t, NEW a \in Seq(A), Queued(t, a), Idle(d, t, a), NEW p \in A,
           p[1] \in t.active, \A i \in 1..Len(a) : a[i][1] # p[1],
           \A c \in Cmds(t) : Standing(d, t, c) => c.state # p[1]
    PROVE  Queued(t, Append(a, p)) /\ Idle(d, t, Append(a, p))
<1> DEFINE b == Append(a, p)
<1>1. /\ Len(a) \in Nat /\ Len(b) = Len(a) + 1 /\ b[Len(a) + 1] = p
      /\ \A i \in 1..Len(a) : b[i] = a[i]
  OBVIOUS
<1> HIDE DEF b
<1>2. \A i \in 1..Len(b) : i \in 1..Len(a) \/ i = Len(a) + 1
  BY <1>1
<1>3. \A i \in 1..Len(b) : b[i][1] \in t.active
  BY <1>1, <1>2 DEF Queued
<1>4. \A i, k \in 1..Len(b) : b[i][1] = b[k][1] => i = k
  <2> SUFFICES ASSUME NEW i \in 1..Len(b), NEW k \in 1..Len(b), b[i][1] = b[k][1] PROVE i = k
    OBVIOUS
  <2>1. CASE i \in 1..Len(a) /\ k \in 1..Len(a) BY <1>1, <2>1 DEF Queued
  <2>2. CASE i = Len(a) + 1 /\ k = Len(a) + 1 BY <2>2
  <2>3. CASE i \in 1..Len(a) /\ k = Len(a) + 1 BY <1>1, <2>3
  <2>4. CASE k \in 1..Len(a) /\ i = Len(a) + 1 BY <1>1, <2>4
  <2> QED BY <1>2, <2>1, <2>2, <2>3, <2>4
<1>5. Idle(d, t, b)
  BY <1>1, <1>2 DEF Idle
<1> QED BY <1>3, <1>4, <1>5 DEF Queued, b

\* The head of the queue is taken off.
LEMMA QueueLess ==
    ASSUME NEW d, NEW A, NEW t, NEW a \in Seq(A), a # <<>>, Queued(t, a), Idle(d, t, a)
    PROVE  /\ a[1] \in A /\ a[1][1] \in t.active
           /\ \A c \in Cmds(t) : Standing(d, t, c) => c.state # a[1][1]
           /\ Tail(a) \in Seq(A) /\ Queued(t, Tail(a)) /\ Idle(d, t, Tail(a))
           /\ \A i \in 1..Len(Tail(a)) : Tail(a)[i][1] # a[1][1]
<1> DEFINE b == Tail(a)
<1>1. /\ Len(a) \in Nat /\ Len(a) > 0 /\ b \in Seq(A) /\ Len(b) = Len(a) - 1
      /\ \A i \in 1..Len(b) : b[i] = a[i + 1]
      /\ a[1] \in A
  OBVIOUS
<1> HIDE DEF b
<1>2. 1 \in 1..Len(a) /\ \A i \in 1..Len(b) : i + 1 \in 1..Len(a) /\ i + 1 # 1
  BY <1>1
<1>3. \A i \in 1..Len(b) : b[i][1] \in t.active /\ b[i][1] # a[1][1]
  BY <1>1, <1>2 DEF Queued
<1>4. ASSUME NEW i \in 1..Len(b), NEW k \in 1..Len(b), b[i][1] = b[k][1] PROVE i = k
  <2>1. i + 1 \in 1..Len(a) /\ k + 1 \in 1..Len(a) /\ a[i + 1][1] = a[k + 1][1]
    BY <1>1, <1>2, <1>4
  <2>2. i + 1 = k + 1
    BY <2>1 DEF Queued
  <2> QED BY <2>2
<1>5. Idle(d, t, b)
  BY <1>1, <1>2 DEF Idle
<1>6. a[1][1] \in t.active /\ \A c \in Cmds(t) : Standing(d, t, c) => c.state # a[1][1]
  BY <1>2 DEF Queued, Idle
<1> QED BY <1>1, <1>3, <1>4, <1>5, <1>6 DEF Queued, b

\* Which commands stand does not depend on where the run stands.
LEMMA SameStanding ==
    ASSUME NEW d, NEW s, NEW t, t.commands = s.commands, t.used = s.used
    PROVE  /\ Cmds(t) = Cmds(s)
           /\ \A c \in Cmds(s) : Status(t, c) = Status(s, c)
           /\ \A c \in Cmds(s) : Standing(d, t, c) = Standing(d, s, c) /\ Counts(d, t, c) = Counts(d, s, c)
BY DEF Cmds, Status, Standing, Counts, CanFallBack, LineageWithinBudget, Used

\* A run moves on and its commands stay: those that stand stay current.
LEMMA MovedSound ==
    ASSUME NEW d, NEW s, Sound(d, s), NEW t, t.commands = s.commands, t.used = s.used,
           t.lists = s.lists, AtWork(d, t) \subseteq AtWork(d, s),
           \A c \in Cmds(s) : Standing(d, s, c) =>
               c.state \in t.active /\ t.visits[c.state] = s.visits[c.state]
    PROVE  Sound(d, t) /\ LeavesDoubts(s, t)
<1>1. /\ Cmds(t) = Cmds(s)
      /\ \A c \in Cmds(s) : Status(t, c) = Status(s, c)
      /\ \A c \in Cmds(s) : Standing(d, t, c) = Standing(d, s, c) /\ Counts(d, t, c) = Counts(d, s, c)
  BY SameStanding
<1>2. Sound(d, t)
  BY <1>1, Resettled
<1> QED BY <1>1, <1>2 DEF LeavesDoubts

\* A state that is not active is entered.
LEMMA EnteredFields ==
    ASSUME NEW d, NEW s, Shape(d, s), NEW st \in States(d)
    PROVE  LET t == [s EXCEPT !.arrivals[st] = {}, !.done = @ \ {st}, !.active = @ \cup {st},
                              !.visits[st] = @ + 1, !.status = "running"]
           IN  /\ DOMAIN t = DOMAIN s /\ t.commands = s.commands /\ t.used = s.used
               /\ t.active = s.active \cup {st} /\ t.pending = s.pending /\ t.lists = s.lists
               /\ t.arrivals = [s.arrivals EXCEPT ![st] = {}] /\ t.status = "running"
               /\ Visited(d, s, t, st)
<1> DEFINE t == [s EXCEPT !.arrivals[st] = {}, !.done = @ \ {st}, !.active = @ \cup {st},
                          !.visits[st] = @ + 1, !.status = "running"]
<1>0. Fields \subseteq DOMAIN s
  BY DEF Shape
<1>1. /\ DOMAIN t = DOMAIN s /\ t.commands = s.commands /\ t.used = s.used /\ t.lists = s.lists
      /\ t.active = s.active \cup {st} /\ t.pending = s.pending /\ t.status = "running"
  BY <1>0 DEF Fields
<1>2. t.visits = [s.visits EXCEPT ![st] = s.visits[st] + 1]
  BY <1>0 DEF Fields
<1>3. t.arrivals = [s.arrivals EXCEPT ![st] = {}]
  BY <1>0 DEF Fields
<1> HIDE DEF t
<1>4. Visited(d, s, t, st)
  BY <1>2, IsVisited
<1> QED BY <1>1, <1>3, <1>4 DEF t

LEMMA EnteredSound ==
    ASSUME NEW d, NEW s, Shape(d, s), Sound(d, s), NEW st \in States(d), st \notin s.active,
           NEW t, t.commands = s.commands, t.used = s.used, t.lists = s.lists, Visited(d, s, t, st),
           t.active = s.active \cup {st}
    PROVE  /\ Sound(d, t) /\ LeavesDoubts(s, t) /\ Cmds(t) = Cmds(s)
           /\ \A c \in Cmds(t) : Standing(d, t, c) => c.state # st /\ Standing(d, s, c)
<1>1. ASSUME NEW c \in Cmds(s), Standing(d, s, c)
      PROVE  c.state # st /\ c.state \in t.active /\ t.visits[c.state] = s.visits[c.state]
  BY <1>1 DEF Sound, Current, Shape, Visited
<1>w. AtWork(d, t) \subseteq AtWork(d, s)
  <2> SUFFICES ASSUME NEW c \in AtWork(d, t) PROVE c \in AtWork(d, s)
    OBVIOUS
  <2>1. c \in Cmds(s) /\ c.state \in t.active /\ c.visit = t.visits[c.state]
    BY DEF AtWork, Cmds
  <2>2. c.state \in States(d) /\ c.visit \in 1..s.visits[c.state] /\ s.visits[c.state] \in Nat
    BY <2>1 DEF Shape, CommandOK
  <2>3. c.state # st
    BY <2>1, <2>2 DEF Visited
  <2> QED BY <2>1, <2>2, <2>3 DEF AtWork, Visited
<1>2. Sound(d, t) /\ LeavesDoubts(s, t)
  BY <1>1, <1>w, MovedSound
<1>3. Cmds(t) = Cmds(s) /\ \A c \in Cmds(s) : Standing(d, t, c) = Standing(d, s, c)
  BY SameStanding
<1> QED BY <1>1, <1>2, <1>3


\* What is left to show of a machine that has taken a step.
LEMMA FitsOn ==
    ASSUME NEW d, NEW s0, NEW m, Fits(d, s0, m), NEW n, Works(d, s0, n), Tokens(d, n.s, n.enter),
           Sound(d, n.s), LeavesDoubts(m.s, n.s), Queued(n.s, n.auto), Idle(d, n.s, n.auto)
    PROVE  Fits(d, s0, n)
<1>1. LeavesDoubts(s0, n.s)
  BY LeavesDoubtsOn DEF Fits, Works, Moves
<1> QED BY <1>1 DEF Fits

LEMMA HeadFits ==
    ASSUME NEW d, Compiled(d), NEW s0, NEW m, Fits(d, s0, m), m.enter # <<>>
    PROVE  Fits(d, s0, EnterHead(d, m))
<1> DEFINE st == m.enter[1][1]
           pred == m.enter[1][2]
           n == [m EXCEPT !.enter = Tail(@)]
           s == [m.s EXCEPT !.arrivals[st] = {}, !.done = @ \ {st}, !.active = @ \cup {st},
                            !.visits[st] = @ + 1, !.status = "running"]
           left == [s EXCEPT !.active = @ \ {st}]
           over == [left EXCEPT !.done = @ \cup {st}]
           waits == [m.s EXCEPT !.arrivals[st] = @ \cup ({pred} \ {None}), !.status = "waiting"]
           emitted == EmitCommand(s, st, None)
           kind == d.kind[st]
           E == EnterHead(d, m)
           B == Fanned(d, st)
<1>0. /\ Moves(d, s0, m) /\ Shape(d, m.s) /\ m.enter \in Seq(Pairs(d)) /\ m.auto \in Seq(Automatics(d))
      /\ Tokens(d, m.s, m.enter) /\ Sound(d, m.s) /\ Queued(m.s, m.auto) /\ Idle(d, m.s, m.auto)
      /\ Placed(d, m.s)
  BY DEF Fits, Works, Moves, Tokens, Pairs
<1>1. m.enter[1] \in Pairs(d) /\ st \in States(d)
  BY <1>0, HeadOff DEF Pairs
<1>2. /\ {"s", "enter", "auto", "ok"} \subseteq DOMAIN n
      /\ n.s = m.s /\ n.enter = Tail(m.enter) /\ n.auto = m.auto
  BY <1>0, MachineFields DEF Moves
<1>3. kind \in Kinds
  BY <1>1 DEF Compiled
<1>w. Works(d, s0, E)
  BY <1>0, HeadEntered
\* The arms of the CASE.
<1>4. /\ JoinWaits(d, m.s, st, pred) => E = [n EXCEPT !.s = waits]
      /\ kind \in {"pass", "choice", "join"} /\ ~JoinWaits(d, m.s, st, pred) =>
            E = [n EXCEPT !.s = s, !.auto = Append(@, <<st, "complete">>)]
      /\ kind = "fork" => E = [n EXCEPT !.s = over, !.enter = B \o @]
      /\ kind = "authorization" =>
            E = [n EXCEPT !.s = [emitted EXCEPT !.status = "authorization-required"]]
      /\ kind \in {"actor", "script"} => E = [n EXCEPT !.s = emitted]
      /\ kind = "workset" =>
            E = IF ~ListIsValid(d, List(d, s, st)) THEN [m EXCEPT !.ok = FALSE]
                ELSE IF WorksetSatisfied(d, s, st)
                THEN [n EXCEPT !.s = s, !.auto = Append(@, <<st, "success">>)]
                ELSE [n EXCEPT !.s = ScheduleWorkset(d, s, st)]
      /\ kind = "succeed" => E = [n EXCEPT !.s = [over EXCEPT !.status = "completed"]]
      /\ kind = "fail" => E = [n EXCEPT !.s = [left EXCEPT !.status = "failed"]]
      /\ kind = "blocked" => E = [n EXCEPT !.s = [left EXCEPT !.status = "blocked"]]
  <2>1. JoinWaits(d, m.s, st, pred) => kind = "join"
    BY DEF JoinWaits
  <2> QED BY <2>1 DEF EnterHead, Fanned
<1>s. st = m.enter[1][1] /\ pred = m.enter[1][2] /\ kind = d.kind[st] /\ B = Fanned(d, st)
  OBVIOUS
<1> HIDE DEF E, n, B
<1>5. /\ DOMAIN s = DOMAIN m.s /\ s.commands = m.s.commands /\ s.used = m.s.used
      /\ s.active = m.s.active \cup {st} /\ s.pending = m.s.pending /\ s.lists = m.s.lists
      /\ s.arrivals = [m.s.arrivals EXCEPT ![st] = {}] /\ s.status = "running"
      /\ Visited(d, m.s, s, st)
  BY <1>0, <1>1, EnteredFields
<1>6. /\ Shape(d, s) /\ Keeps(m.s, s) /\ s.visits[st] > 0
      /\ \A c \in Cmds(s) : c.state = st => c.visit < s.visits[st]
  BY <1>0, <1>1, Entered
<1>f. Fields \subseteq DOMAIN m.s
  BY <1>0 DEF Shape
<1>7. /\ waits.commands = m.s.commands /\ waits.used = m.s.used /\ waits.lists = m.s.lists
      /\ waits.visits = m.s.visits /\ waits.pending = m.s.pending
      /\ waits.active = m.s.active /\ waits.status = "waiting"
      /\ waits.arrivals = [m.s.arrivals EXCEPT ![st] = m.s.arrivals[st] \cup ({pred} \ {None})]
  BY <1>f DEF Fields
<1> HIDE DEF s, waits
\* The fields of the snapshots of a fork and of an end.
<1>8. /\ over.commands = s.commands /\ over.used = s.used /\ over.visits = s.visits
      /\ over.lists = s.lists
      /\ over.pending = s.pending /\ over.arrivals = s.arrivals /\ over.status = "running"
      /\ over.active = (m.s.active \cup {st}) \ {st}
  BY <1>5, <1>f DEF Fields
<1>9. \A t \in {[over EXCEPT !.status = "completed"], [left EXCEPT !.status = "failed"],
                [left EXCEPT !.status = "blocked"]} :
         /\ t.commands = s.commands /\ t.used = s.used /\ t.visits = s.visits
         /\ t.lists = s.lists /\ t.pending = s.pending /\ t.arrivals = s.arrivals
         /\ t.active = (m.s.active \cup {st}) \ {st}
  BY <1>5, <1>f DEF Fields
<1> DEFINE t3 == [over EXCEPT !.status = "completed"]
           t4 == [left EXCEPT !.status = "failed"]
           t5 == [left EXCEPT !.status = "blocked"]
<1>10. /\ t3.commands = s.commands /\ t3.used = s.used /\ t3.visits = s.visits
       /\ t3.lists = s.lists
       /\ t3.pending = s.pending /\ t3.arrivals = s.arrivals
       /\ t3.active = (m.s.active \cup {st}) \ {st}
       /\ t4.commands = s.commands /\ t4.used = s.used /\ t4.visits = s.visits
       /\ t4.lists = s.lists
       /\ t4.pending = s.pending /\ t4.arrivals = s.arrivals
       /\ t4.active = (m.s.active \cup {st}) \ {st}
       /\ t5.commands = s.commands /\ t5.used = s.used /\ t5.visits = s.visits
       /\ t5.lists = s.lists
       /\ t5.pending = s.pending /\ t5.arrivals = s.arrivals
       /\ t5.active = (m.s.active \cup {st}) \ {st}
  BY <1>9
<1> HIDE DEF over, left, t3, t4, t5, st, pred
<1>11. ASSUME kind # "join"
       PROVE  s.arrivals = m.s.arrivals
  <2>1. [m.s.arrivals EXCEPT ![st] = {}] = m.s.arrivals
    BY <1>0, <1>1, <1>11, NoArrivals
  <2> QED BY <1>5, <2>1, Zenon
<1> HIDE DEF kind
\* A fork or an end leaves nothing active.
<1>12. ASSUME kind \in EndKinds \cup {"fork"}, NEW t, t.commands = s.commands, t.used = s.used,
              t.lists = s.lists,
              t.visits = s.visits, t.pending = s.pending, t.arrivals = s.arrivals,
              t.active = (m.s.active \cup {st}) \ {st}, E.s = t, E.auto = m.auto,
              \/ E.enter = Tail(m.enter)
              \/ kind = "fork" /\ t.status # "completed" /\ E.enter = B \o Tail(m.enter)
       PROVE  Fits(d, s0, E)
  <2>1. t.arrivals = m.s.arrivals /\ Visited(d, m.s, t, st) /\ t.pending = m.s.pending
    <3>1. kind # "join"
      BY <1>12 DEF EndKinds
    <3> QED BY <1>5, <1>11, <1>12, <3>1 DEF Visited
  <2>2. Tokens(d, t, E.enter) /\ m.s.active = {}
    <3> DEFINE r == E.enter
    <3>1. \/ r = Tail(m.enter)
          \/ d.kind[st] = "fork" /\ t.status # "completed" /\ r = Fanned(d, st) \o Tail(m.enter)
      BY <1>s, <1>12
    <3>2. d.kind[st] \in EndKinds \cup {"fork"}
      BY <1>s, <1>12
    <3> HIDE DEF r
    <3>a. Compiled(d) /\ Shape(d, m.s) /\ m.enter \in Seq(Pairs(d)) /\ m.enter # <<>> /\ Tokens(d, m.s, m.enter)
      BY <1>0
    <3>b. st = m.enter[1][1] /\ t.active = (m.s.active \cup {st}) \ {st}
      BY <1>s, <1>12
    <3>3. Tokens(d, t, r) /\ m.s.active = {}
      BY <2>1, <3>a, <3>b, <3>1, <3>2, TokenForks
    <3> QED BY <3>3 DEF r
  <2>3. \A c \in Cmds(m.s) : ~Standing(d, m.s, c)
    BY <1>0, <2>2 DEF Sound, Current
  <2>w. AtWork(d, t) \subseteq AtWork(d, m.s)
    <3>1. t.active = {}
      BY <1>12, <2>2
    <3> QED BY <3>1 DEF AtWork
  <2>4. Sound(d, t) /\ LeavesDoubts(m.s, t)
    BY <1>0, <1>5, <1>12, <2>3, <2>w, MovedSound
  <2>5. E.auto = <<>>
    BY <1>0, <1>12, <2>2, QueueIsEmpty
  <2> QED BY <1>w, <1>12, <2>2, <2>4, <2>5, QueueNothing, FitsOn
<1>13. CASE JoinWaits(d, m.s, st, pred)
  <2>1. E.s = waits /\ E.enter = Tail(m.enter) /\ E.auto = m.auto
    BY <1>2, <1>4, <1>13
  <2>2. d.kind[st] = "join"
    BY <1>13 DEF JoinWaits
  <2>3. Tokens(d, waits, Tail(m.enter))
    <3>a. Compiled(d) /\ Shape(d, m.s) /\ m.enter \in Seq(Pairs(d)) /\ m.enter # <<>> /\ Tokens(d, m.s, m.enter)
      BY <1>0
    <3>b. st = m.enter[1][1] /\ pred = m.enter[1][2] /\ waits.status # "completed"
      BY <1>s, <1>7
    <3> QED BY <1>7, <2>2, <3>a, <3>b, TokenArrives
  <2>w. AtWork(d, waits) \subseteq AtWork(d, m.s)
    BY <1>7 DEF AtWork, Cmds
  <2>4. Sound(d, waits) /\ LeavesDoubts(m.s, waits)
    BY <1>0, <1>7, <2>w, MovedSound DEF Sound, Current
  <2>5. Cmds(waits) = Cmds(m.s) /\ \A c \in Cmds(m.s) : Standing(d, waits, c) = Standing(d, m.s, c)
    <3>1. waits.commands = m.s.commands /\ waits.used = m.s.used
      BY <1>7
    <3> QED BY <3>1, SameStanding
  <2>6. Queued(waits, m.auto) /\ Idle(d, waits, m.auto)
    BY <1>0, <1>7, <2>5 DEF Queued, Idle
  <2> QED BY <1>w, <2>1, <2>3, <2>4, <2>6, FitsOn DEF E
\* Another state has become active, of which no command stands.
<1>14. ASSUME kind \in AutomaticKinds \cup EffectKinds, ~JoinWaits(d, m.s, st, pred)
       PROVE  /\ Tokens(d, s, Tail(m.enter)) /\ st \notin m.s.active /\ Sound(d, s) /\ LeavesDoubts(m.s, s)
              /\ Queued(s, m.auto) /\ Idle(d, s, m.auto) /\ \A i \in 1..Len(m.auto) : m.auto[i][1] # st
              /\ \A c \in Cmds(s) : Standing(d, s, c) => c.state # st
  <2>1. Tokens(d, s, Tail(m.enter)) /\ st \notin m.s.active
    <3>1. CASE kind = "join"
      <4>a. Compiled(d) /\ Shape(d, m.s) /\ m.enter \in Seq(Pairs(d)) /\ m.enter # <<>> /\ Tokens(d, m.s, m.enter)
        BY <1>0
      <4>b. st = m.enter[1][1] /\ d.kind[st] = "join" /\ ~JoinWaits(d, m.s, st, m.enter[1][2])
        BY <1>s, <1>14, <3>1
      <4>c. s.status # "completed"
        BY <1>5
      <4>d. Tokens(d, s, Tail(m.enter)) /\ m.s.active = {}
        BY <1>5, <4>a, <4>b, <4>c, TokensJoin
      <4> QED BY <4>d
    <3>2. CASE kind # "join"
      BY <1>0, <1>s, <1>5, <1>11, <3>2, TokenEnters
    <3> QED BY <3>1, <3>2
  <2>2. m.s.active \subseteq s.active
    BY <1>5
  <2>3. /\ Sound(d, s) /\ LeavesDoubts(m.s, s) /\ Cmds(s) = Cmds(m.s)
        /\ \A c \in Cmds(s) : Standing(d, s, c) => c.state # st /\ Standing(d, m.s, c)
    BY <1>0, <1>1, <1>5, <2>1, <2>2, EnteredSound
  <2>4. \A i \in 1..Len(m.auto) : m.auto[i][1] # st
    BY <1>0, <2>1 DEF Queued
  <2>5. Queued(s, m.auto) /\ Idle(d, s, m.auto)
    BY <1>0, <2>2, <2>3 DEF Queued, Idle
  <2> QED BY <2>1, <2>3, <2>4, <2>5
<1>15. ASSUME kind \in AutomaticKinds \cup EffectKinds, ~JoinWaits(d, m.s, st, pred), NEW on,
              E = [n EXCEPT !.s = s, !.auto = Append(@, <<st, on>>)]
       PROVE  Fits(d, s0, E)
  <2>1. E.s = s /\ E.enter = Tail(m.enter) /\ E.auto = Append(m.auto, <<st, on>>)
    BY <1>2, <1>15
  <2> DEFINE p == <<st, on>>
             A == Automatics(d) \cup {p}
  <2>2. m.auto \in Seq(A) /\ p \in A /\ p[1] = st
    BY <1>0
  <2> HIDE DEF p, A
  <2>3. Queued(s, Append(m.auto, p)) /\ Idle(d, s, Append(m.auto, p))
    <3>1. p[1] \in s.active
      BY <1>5, <2>2
    <3> QED BY <1>14, <1>15, <2>2, <3>1, QueueMore
  <2> QED BY <1>w, <1>14, <1>15, <2>1, <2>3, FitsOn DEF p
\* Its commands are issued.
<1>16. ASSUME kind \in EffectKinds, NEW t, Sound(d, t), LeavesDoubts(s, t), t.pending = s.pending,
              t.arrivals = s.arrivals, t.active = s.active, t.visits = s.visits, t.status # "completed",
              Stays(d, s, t, st), E.s = t, E.enter = Tail(m.enter), E.auto = m.auto
       PROVE  Fits(d, s0, E)
  <2>0. ~JoinWaits(d, m.s, st, pred)
    BY <1>16 DEF JoinWaits, EffectKinds, kind
  <2>1. /\ Tokens(d, s, Tail(m.enter)) /\ LeavesDoubts(m.s, s) /\ Queued(s, m.auto) /\ Idle(d, s, m.auto)
        /\ \A i \in 1..Len(m.auto) : m.auto[i][1] # st
    BY <1>14, <1>16, <2>0
  <2>2. Tokens(d, t, Tail(m.enter))
    BY <1>16, <2>1, TokensSame
  <2>3. LeavesDoubts(m.s, t)
    BY <1>6, <1>16, <2>1, LeavesDoubtsOn
  <2>4. Queued(t, m.auto) /\ Idle(d, t, m.auto)
    <3>1. s.active \ {st} \subseteq t.active
      BY <1>16
    <3> QED BY <1>16, <2>1, <3>1, QueueStays
  <2> QED BY <1>w, <1>16, <2>2, <2>3, <2>4, FitsOn
<1>17. CASE kind \in AutomaticKinds /\ ~JoinWaits(d, m.s, st, pred)
  BY <1>4, <1>15, <1>17 DEF AutomaticKinds, E
<1>18. CASE kind = "fork"
  <2>1. E.s = over /\ E.enter = B \o Tail(m.enter) /\ E.auto = m.auto
    BY <1>2, <1>4, <1>18
  <2> QED BY <1>8, <1>12, <1>18, <2>1 DEF E
<1>19. CASE kind \in EndKinds
  <2>1. \/ E.s = t3 \/ E.s = t4 \/ E.s = t5
    BY <1>2, <1>4, <1>19 DEF EndKinds, t3, t4, t5
  <2>2. E.enter = Tail(m.enter) /\ E.auto = m.auto
    BY <1>2, <1>4, <1>19 DEF EndKinds
  <2> QED BY <1>10, <1>12, <1>19, <2>1, <2>2 DEF E
<1>20. CASE kind \in {"authorization", "actor", "script"}
  <2>0. kind \in EffectKinds /\ st \in s.active /\ ~JoinWaits(d, m.s, st, pred) /\ kind # "workset"
    BY <1>5, <1>20 DEF EffectKinds, JoinWaits, kind
  <2>1. /\ Sound(d, emitted) /\ LeavesDoubts(s, emitted) /\ emitted.pending = s.pending
        /\ emitted.arrivals = s.arrivals
        /\ emitted.active = s.active /\ emitted.visits = s.visits /\ emitted.status = s.status
        /\ DOMAIN emitted = DOMAIN s /\ emitted.lists = s.lists
        /\ \A c \in Cmds(emitted) :
              c.state = st \/ (c \in Cmds(s) /\ Standing(d, emitted, c) = Standing(d, s, c))
    BY <1>6, <1>14, <2>0, EmitSound DEF kind
  <2> HIDE DEF emitted
  <2>2. Stays(d, s, emitted, st)
    BY <2>1 DEF Stays
  <2>3. CASE kind \in {"actor", "script"}
    <3>1. E.s = emitted /\ E.enter = Tail(m.enter) /\ E.auto = m.auto
      BY <1>2, <1>4, <2>3
    <3> QED BY <1>5, <1>16, <2>0, <2>1, <2>2, <3>1 DEF E
  <2>4. CASE kind = "authorization"
    <3> DEFINE t == [emitted EXCEPT !.status = "authorization-required"]
    <3>1. E.s = t /\ E.enter = Tail(m.enter) /\ E.auto = m.auto
      BY <1>2, <1>4, <2>4
    <3>2. /\ t.commands = emitted.commands /\ t.used = emitted.used /\ t.pending = emitted.pending
          /\ t.arrivals = emitted.arrivals /\ t.active = emitted.active /\ t.visits = emitted.visits
          /\ t.lists = emitted.lists /\ t.status = "authorization-required"
      BY <1>5, <1>f, <2>1 DEF Fields
    <3> HIDE DEF t
    <3>w. AtWork(d, t) \subseteq AtWork(d, emitted)
      BY <3>2 DEF AtWork, Cmds
    <3>3. Sound(d, t)
      BY <2>1, <3>2, <3>w, MovedSound DEF Sound, Current
    <3>4. Cmds(t) = Cmds(emitted) /\ \A c \in Cmds(emitted) : Standing(d, t, c) = Standing(d, emitted, c)
      BY <3>2, SameStanding
    <3>5. LeavesDoubts(s, t) /\ Stays(d, s, t, st)
      BY <2>1, <2>2, <3>4 DEF LeavesDoubts, Stays
    <3> QED BY <1>16, <2>0, <2>1, <3>1, <3>2, <3>3, <3>5 DEF E
  <2> QED BY <1>20, <2>3, <2>4
<1>21. CASE kind = "workset"
  <2> DEFINE t == ScheduleWorkset(d, s, st)
  <2>0. kind \in EffectKinds /\ st \in s.active /\ ~JoinWaits(d, m.s, st, pred)
    BY <1>5, <1>21 DEF EffectKinds, JoinWaits, kind
  <2>1. /\ Sound(d, t) /\ LeavesDoubts(s, t) /\ t.pending = s.pending /\ t.arrivals = s.arrivals
        /\ t.active = s.active /\ t.visits = s.visits /\ t.status = s.status
        /\ \A c \in Cmds(t) : c.state = st \/ (c \in Cmds(s) /\ Standing(d, t, c) = Standing(d, s, c))
    BY <1>6, <1>14, <1>21, <2>0, ScheduleSound DEF kind
  <2>2. Stays(d, s, t, st)
    BY <2>1 DEF Stays
  <2>3. E = IF ~ListIsValid(d, List(d, s, st)) THEN [m EXCEPT !.ok = FALSE]
            ELSE IF WorksetSatisfied(d, s, st)
            THEN [n EXCEPT !.s = s, !.auto = Append(@, <<st, "success">>)]
            ELSE [n EXCEPT !.s = t]
    BY <1>4, <1>21
  <2> HIDE DEF t
  <2>6. CASE ~ListIsValid(d, List(d, s, st))
    <3>1. E.s = m.s /\ E.enter = m.enter /\ E.auto = m.auto
      BY <1>0, <2>3, <2>6 DEF Moves
    <3>2. LeavesDoubts(m.s, m.s)
      BY DEF LeavesDoubts
    <3> QED BY <1>0, <1>w, <3>1, <3>2, FitsOn DEF E
  <2>4. CASE ListIsValid(d, List(d, s, st)) /\ WorksetSatisfied(d, s, st)
    BY <1>15, <2>0, <2>3, <2>4 DEF E
  <2>5. CASE ListIsValid(d, List(d, s, st)) /\ ~WorksetSatisfied(d, s, st)
    <3>1. E.s = t /\ E.enter = Tail(m.enter) /\ E.auto = m.auto
      BY <1>2, <2>3, <2>5
    <3> QED BY <1>5, <1>16, <2>0, <2>1, <2>2, <3>1 DEF E
  <2> QED BY <2>4, <2>5, <2>6
<1>22. \/ JoinWaits(d, m.s, st, pred)
       \/ kind \in AutomaticKinds /\ ~JoinWaits(d, m.s, st, pred)
       \/ kind \in EndKinds
       \/ kind \in {"fork", "authorization", "actor", "script", "workset"}
  BY <1>3 DEF Kinds, EffectKinds
<1> QED BY <1>13, <1>17, <1>18, <1>19, <1>20, <1>21, <1>22


LEMMA SelectedEdge ==
    ASSUME NEW d, NEW route \in Routes(d), NEW st, NEW on, From(d, st, on) # {}
    PROVE  SelectTransition(d, route, st, on) \in Edges(d) /\ SelectTransition(d, route, st, on).from = st
<1> DEFINE p == <<st, on>>
           e == SelectTransition(d, route, st, on)
<1>1. DOMAIN route = Guarded(d) /\ \A q \in Guarded(d) : route[q] \in From(d, q[1], q[2])
  BY DEF Routes
<1>2. e \in From(d, st, on)
  <2>1. CASE p \in DOMAIN route
    <3>1. route[p] \in From(d, p[1], p[2])
      BY <1>1, <2>1
    <3> QED BY <2>1, <3>1 DEF SelectTransition
  <2>2. CASE p \notin DOMAIN route
    BY <2>2 DEF SelectTransition
  <2> QED BY <2>1, <2>2
<1> QED BY <1>2 DEF From

\* An active state that no command holds is left, over a flow edge or for a callback.
LEMMA LeaveFits ==
    ASSUME NEW d, Compiled(d), NEW route \in Routes(d), NEW s0, NEW m, Fits(d, s0, m),
           NEW st \in m.s.active, \A c \in Cmds(m.s) : Standing(d, m.s, c) => c.state # st,
           \A i \in 1..Len(m.auto) : m.auto[i][1] # st,
           NEW on, From(d, st, on) # {}, NEW n, Moves(d, s0, n),
           n.enter = m.enter, n.auto = m.auto, n.s.active = m.s.active \ {st},
           n.s.commands = m.s.commands, n.s.used = m.s.used, n.s.visits = m.s.visits,
           n.s.pending = m.s.pending, n.s.arrivals = m.s.arrivals, n.s.status = m.s.status,
           n.s.lists = m.s.lists
    PROVE  Fits(d, s0, Follow(d, route, n, st, on))
<1> DEFINE e == SelectTransition(d, route, st, on)
           F == Follow(d, route, n, st, on)
<1>0. /\ Shape(d, m.s) /\ m.enter \in Seq(Pairs(d)) /\ Tokens(d, m.s, m.enter) /\ Sound(d, m.s)
      /\ Queued(m.s, m.auto) /\ Idle(d, m.s, m.auto)
      /\ {"s", "enter", "auto", "ok"} \subseteq DOMAIN n /\ Fields \subseteq DOMAIN n.s
  BY DEF Fits, Works, Moves, Pairs, Shape
<1>1. st \in States(d)
  BY <1>0 DEF Shape
<1>2. Works(d, s0, F)
  BY <1>1, Followed
<1>3. e \in Edges(d) /\ e.from = st
  BY SelectedEdge
<1>4. F = IF e.mode = "callback" THEN [n EXCEPT !.s = ParkCallback(n.s, st, e)]
                                 ELSE [n EXCEPT !.enter = <<<<e.to, st>>>> \o @]
  BY DEF Follow
<1> HIDE DEF e, F
<1>5. ASSUME F.auto = m.auto, F.s.active = m.s.active \ {st}, F.s.commands = m.s.commands,
             F.s.used = m.s.used, F.s.visits = m.s.visits, F.s.lists = m.s.lists,
             Tokens(d, F.s, F.enter)
      PROVE  Fits(d, s0, F)
  <2> DEFINE t == F.s
  <2>1. \A c \in Cmds(m.s) : Standing(d, m.s, c) => c.state \in t.active /\ t.visits[c.state] = m.s.visits[c.state]
    BY <1>0, <1>5 DEF Sound, Current
  <2>2. /\ t.commands = m.s.commands /\ t.used = m.s.used /\ t.active = m.s.active \ {st}
        /\ t.lists = m.s.lists /\ t.visits = m.s.visits
    BY <1>5
  <2> HIDE DEF t
  <2>w. AtWork(d, t) \subseteq AtWork(d, m.s)
    BY <2>2 DEF AtWork, Cmds
  <2>3. Sound(d, t) /\ LeavesDoubts(m.s, t)
    BY <1>0, <2>1, <2>2, <2>w, MovedSound
  <2>4. Stays(d, m.s, t, st)
    BY <2>2, SameStanding DEF Stays
  <2>5. m.s.active \ {st} \subseteq t.active
    BY <2>2
  <2>6. Queued(t, m.auto) /\ Idle(d, t, m.auto)
    BY <1>0, <2>4, <2>5, QueueStays
  <2> QED BY <1>2, <1>5, <2>3, <2>6, FitsOn DEF t
<1>6. CASE e.mode = "callback"
  <2> DEFINE w == [state |-> st, visit |-> n.s.visits[st], to |-> e.to]
             t == [n.s EXCEPT !.pending = Append(@, w), !.status = "waiting"]
  <2>1. F.s = t /\ F.enter = m.enter /\ F.auto = m.auto
    BY <1>0, <1>4, <1>6 DEF ParkCallback
  <2>2. w.state = st /\ w.to = e.to
    OBVIOUS
  <2> HIDE DEF w
  <2>3. /\ t.active = m.s.active \ {st} /\ t.commands = m.s.commands /\ t.used = m.s.used
        /\ t.visits = m.s.visits /\ t.arrivals = m.s.arrivals /\ t.pending = Append(m.s.pending, w)
        /\ t.lists = m.s.lists /\ t.status # "completed"
    BY <1>0 DEF Fields
  <2> HIDE DEF t
  <2>4. Tokens(d, t, m.enter)
    BY <1>0, <1>3, <2>2, <2>3, ActiveParks
  <2> QED BY <1>5, <2>1, <2>3, <2>4 DEF F
<1>7. CASE e.mode # "callback"
  <2>1. F.s = n.s /\ F.enter = <<<<e.to, st>>>> \o m.enter /\ F.auto = m.auto
    BY <1>0, <1>4, <1>7
  <2> DEFINE t == n.s
  <2>2. /\ t.active = m.s.active \ {st} /\ t.pending = m.s.pending
        /\ t.arrivals = m.s.arrivals /\ t.visits = m.s.visits /\ t.status = m.s.status
    OBVIOUS
  <2> HIDE DEF t
  <2>3. Tokens(d, t, <<<<e.to, st>>>> \o m.enter)
    BY <1>0, <1>3, <2>2, ActiveLeaves
  <2> QED BY <1>5, <2>1, <2>3 DEF F, t
<1> QED BY <1>6, <1>7

LEMMA CompleteFits ==
    ASSUME NEW d, Compiled(d), NEW route \in Routes(d), NEW s0, NEW m, Fits(d, s0, m),
           NEW st \in m.s.active, \A c \in Cmds(m.s) : Standing(d, m.s, c) => c.state # st,
           \A i \in 1..Len(m.auto) : m.auto[i][1] # st,
           NEW on, From(d, st, on) # {}
    PROVE  Fits(d, s0, CompleteState(d, route, m, st, on))
<1> DEFINE t == [m.s EXCEPT !.active = @ \ {st}, !.done = @ \cup {st}]
           n == [m EXCEPT !.s = t]
<1>0. Moves(d, s0, m) /\ Shape(d, m.s) /\ Fields \subseteq DOMAIN m.s /\ st \in States(d)
  BY DEF Fits, Works, Moves, Shape
<1>1. Shape(d, t) /\ Keeps(m.s, t)
  BY <1>0, Left
<1>2. CompleteState(d, route, m, st, on) = Follow(d, route, n, st, on)
  BY DEF CompleteState
<1>3. /\ t.active = m.s.active \ {st} /\ t.commands = m.s.commands /\ t.used = m.s.used
      /\ t.visits = m.s.visits /\ t.pending = m.s.pending /\ t.arrivals = m.s.arrivals
      /\ t.status = m.s.status /\ t.lists = m.s.lists
  BY <1>0 DEF Fields
<1> HIDE DEF t
<1>4. Moves(d, s0, n) /\ n.s = t /\ n.enter = m.enter /\ n.auto = m.auto
  BY <1>0, <1>1, MovedOn
<1> HIDE DEF n
<1> QED BY <1>2, <1>3, <1>4, LeaveFits

\* A new machine.
LEMMA FreshFits ==
    ASSUME NEW d, NEW s, NEW t, Snapshot(d, t), Keeps(s, t), Tokens(d, t, <<>>), Sound(d, t),
           LeavesDoubts(s, t)
    PROVE  LET m == Machine(t)
           IN  Fits(d, s, m) /\ m.s = t /\ m.auto = <<>> /\ m.enter = <<>>
<1> DEFINE m == Machine(t)
<1>1. m.s = t /\ m.auto = <<>> /\ m.enter = <<>>
  BY DEF Machine
<1>2. Works(d, s, m)
  BY Fresh DEF Snapshot
<1> HIDE DEF m
<1>3. Queued(t, <<>>) /\ Idle(d, t, <<>>)
  BY QueueNothing
<1>4. Fits(d, s, m)
  BY <1>1, <1>2, <1>3 DEF Fits
<1> QED BY <1>1, <1>4 DEF m

LEMMA FailFits ==
    ASSUME NEW d, Compiled(d), NEW route \in Routes(d), NEW s, NEW t, Snapshot(d, t), Keeps(s, t),
           Tokens(d, t, <<>>), Sound(d, t), LeavesDoubts(s, t),
           NEW st \in t.active, d.kind[st] \in EffectKinds,
           \A c \in Cmds(t) : Standing(d, t, c) => c.state # st
    PROVE  Fits(d, s, FailState(d, route, t, st))
<1> DEFINE u == [t EXCEPT !.active = @ \ {st}]
           m == Machine(t)
           n == Machine(u)
<1>0. Shape(d, t) /\ Fields \subseteq DOMAIN t /\ st \in States(d)
  BY DEF Snapshot, Shape
<1>1. Shape(d, u) /\ Keeps(t, u)
  BY <1>0, Left
<1>2. FailState(d, route, t, st) = Follow(d, route, n, st, "failure")
  BY DEF FailState
<1>3. /\ u.active = t.active \ {st} /\ u.commands = t.commands /\ u.used = t.used
      /\ u.visits = t.visits /\ u.pending = t.pending /\ u.arrivals = t.arrivals
      /\ u.status = t.status /\ u.lists = t.lists
  BY <1>0 DEF Fields
<1> HIDE DEF u
<1>4. Moves(d, s, n) /\ n.s = u /\ n.enter = <<>> /\ n.auto = <<>>
  BY <1>1, KeepsOn, Fresh DEF Machine
<1>5. Fits(d, s, m) /\ m.s = t /\ m.auto = <<>> /\ m.enter = <<>>
  BY FreshFits
<1>6. From(d, st, "failure") # {}
  BY <1>0 DEF Compiled, StateEdges
<1>7. \A i \in 1..Len(m.auto) : m.auto[i][1] # st
  BY <1>5
<1> HIDE DEF m, n
<1> QED BY <1>2, <1>3, <1>4, <1>5, <1>6, <1>7, LeaveFits

LEMMA WorkFits ==
    ASSUME NEW d, Compiled(d), NEW route \in Routes(d), NEW s, NEW m, Fits(d, s, m)
    PROVE  Fits(d, s, Work(d, route, m))
<1>1. CASE m.enter # <<>>
  <2>1. Work(d, route, m) = EnterHead(d, m)
    BY <1>1 DEF Work
  <2> QED BY <1>1, <2>1, HeadFits
<1>2. CASE m.enter = <<>> /\ m.auto # <<>>
  <2> DEFINE n == [m EXCEPT !.auto = Tail(@)]
             st == m.auto[1][1]
             on == m.auto[1][2]
  <2>1. Work(d, route, m) = CompleteState(d, route, n, st, on)
    BY <1>2 DEF Work
  <2>2. /\ Works(d, s, m) /\ m.auto \in Seq(Automatics(d)) /\ Queued(m.s, m.auto)
        /\ Idle(d, m.s, m.auto)
    BY DEF Fits, Works, Moves
  <2>3. /\ m.auto[1] \in Automatics(d) /\ st \in m.s.active
        /\ \A c \in Cmds(m.s) : Standing(d, m.s, c) => c.state # st
        /\ Tail(m.auto) \in Seq(Automatics(d)) /\ Queued(m.s, Tail(m.auto))
        /\ Idle(d, m.s, Tail(m.auto))
        /\ \A i \in 1..Len(Tail(m.auto)) : Tail(m.auto)[i][1] # st
    BY <1>2, <2>2, QueueLess
  <2>4. From(d, st, on) # {}
    BY <2>3 DEF Automatics
  <2>5. DOMAIN n = DOMAIN m /\ n.s = m.s /\ n.enter = m.enter /\ n.auto = Tail(m.auto)
    BY <2>2, MachineFields DEF Works, Moves
  <2> HIDE DEF n, st, on
  <2>6. Works(d, s, n)
    BY <2>2, <2>3, <2>5 DEF Works, Moves
  <2>7. Fits(d, s, n)
    BY <2>3, <2>5, <2>6 DEF Fits
  <2>8. /\ st \in n.s.active /\ \A c \in Cmds(n.s) : Standing(d, n.s, c) => c.state # st
        /\ \A i \in 1..Len(n.auto) : n.auto[i][1] # st
    BY <2>3, <2>5
  <2> QED BY <2>1, <2>4, <2>7, <2>8, CompleteFits
<1>3. CASE m.enter = <<>> /\ m.auto = <<>>
  BY <1>3 DEF Work
<1> QED BY <1>1, <1>2, <1>3

\* A snapshot between two events, and what an event makes of one.
Fit(d, s) == Tokens(d, s, <<>>) /\ Sound(d, s)
YieldsFit(d, s, m) == m.ok => Fit(d, m.s) /\ LeavesDoubts(s, m.s)

LEMMA DrainedFits ==
    ASSUME NEW d, Compiled(d), NEW route \in Routes(d), NEW s, NEW m0, Fits(d, s, m0)
    PROVE  YieldsFit(d, s, Drained(d, route, m0))
<1> DEFINE N == Fuel(d)
<1>0. N \in Nat /\ \E after : Chain(d, route, m0, after)
  BY DrainedChain
<1>1. N \in Nat
  BY <1>0
<1>a. PICK after : Chain(d, route, m0, after)
  BY <1>0
<1>2. /\ after[0] = {m0}
      /\ \A n \in 1..N : after[n] = {Work(d, route, w) : w \in after[n - 1]}
      /\ after[N] # {} => \E w \in after[N] : Drained(d, route, m0) = Ended(w)
  BY <1>a DEF Chain
<1> HIDE DEF N
<1>3. \A n \in 0..N : after[n] # {} /\ \A w \in after[n] : Fits(d, s, w)
  <2> DEFINE T == {n \in 0..N : ~(after[n] # {} /\ \A w \in after[n] : Fits(d, s, w))}
  <2> SUFFICES ASSUME NEW k0 \in T PROVE FALSE
    OBVIOUS
  <2>1. T \in SUBSET Nat
    BY <1>1
  <2> HIDE DEF T
  <2>2. PICK k \in T : \A i \in T : k <= i
    BY <2>1, LeastNumber
  <2>3. k \in 0..N /\ ~(after[k] # {} /\ \A w \in after[k] : Fits(d, s, w))
    BY DEF T
  <2>4. CASE k = 0
    BY <1>2, <2>3, <2>4
  <2>5. CASE k # 0
    <3>1. k \in 1..N /\ k - 1 \in 0..N /\ ~(k <= k - 1)
      BY <1>1, <2>3, <2>5
    <3>2. after[k - 1] # {} /\ \A w \in after[k - 1] : Fits(d, s, w)
      BY <2>2, <3>1 DEF T
    <3>3. after[k] = {Work(d, route, w) : w \in after[k - 1]}
      BY <1>2, <3>1
    <3>4. ASSUME NEW w \in after[k - 1] PROVE Fits(d, s, Work(d, route, w))
      BY <3>2, WorkFits
    <3> QED BY <2>3, <3>2, <3>3, <3>4
  <2> QED BY <2>4, <2>5
<1>4. PICK w \in after[N] : Drained(d, route, m0) = Ended(w)
  BY <1>1, <1>2, <1>3
<1>5. Fits(d, s, w)
  BY <1>1, <1>3
<1>6. Ended(w).s = w.s /\ (Ended(w).ok => w.enter = <<>>)
  BY <1>5 DEF Fits, Works, Moves, Ended
<1>7. w.enter = <<>> => Fit(d, w.s) /\ LeavesDoubts(s, w.s)
  BY <1>5 DEF Fits, Fit
<1> QED BY <1>4, <1>6, <1>7 DEF YieldsFit

-----------------------------------------------------------------------------
(* The events of the reducer, again.                                       *)

\* Commands that stand get another status; waits may be forgotten.
Changes(d, s, t) ==
    /\ t.active = s.active /\ t.visits = s.visits /\ t.arrivals = s.arrivals /\ t.used = s.used
    /\ t.lists = s.lists
    /\ t.pending = s.pending \/ t.pending = <<>>
    /\ t.status = "completed" => s.status = "completed"
    /\ Cmds(t) = Cmds(s)
    /\ \A c \in Cmds(s) : \/ Standing(d, s, c)
                          \/ Status(t, c) = Status(s, c) /\ t.commands[c].why = s.commands[c].why
LEMMA Changed ==
    ASSUME NEW d, NEW s, Fit(d, s), NEW t, Changes(d, s, t)
    PROVE  Fit(d, t) /\ LeavesDoubts(s, t)
<1>1. Tokens(d, t, <<>>)
  <2>1. CASE t.pending = s.pending
    BY <2>1, TokensSame DEF Fit, Changes
  <2>2. CASE t.status # "completed"
    BY <2>2, TokensFewer, NothingDue DEF Fit, Changes
  <2>3. CASE t.status = "completed"
    <3>1. s.pending = <<>>
      BY <2>3 DEF Fit, Tokens, Over, Changes
    <3>2. t.pending = s.pending
      BY <3>1 DEF Changes
    <3> QED BY <2>1, <3>2
  <2> QED BY <2>2, <2>3
<1>2. ASSUME NEW c \in Cmds(s)
      PROVE  /\ Standing(d, t, c) => Standing(d, s, c)
             /\ Counts(d, t, c) => Counts(d, s, c)
             /\ Status(s, c) = "succeeded" => Status(t, c) = "succeeded"
  <2>1. CASE Standing(d, s, c)
    <3>1. Status(s, c) # "succeeded"
      BY <2>1 DEF Standing, CanFallBack, Unstarted
    <3> QED BY <2>1, <3>1 DEF Counts
  <2>2. CASE Status(t, c) = Status(s, c) /\ t.commands[c].why = s.commands[c].why
    BY <2>2 DEF Standing, Counts, CanFallBack, LineageWithinBudget, Used, Changes
  <2> QED BY <2>1, <2>2 DEF Changes
<1>3. Sound(d, t)
  <2>1. Sound(d, s) /\ t.used = s.used /\ t.lists = s.lists /\ Cmds(t) = Cmds(s)
    BY DEF Fit, Changes
  <2>w. AtWork(d, t) \subseteq AtWork(d, s)
    BY SameWork DEF Changes
  <2>2. \A c \in Cmds(s) : Standing(d, t, c) =>
           Standing(d, s, c) /\ c.state \in t.active /\ t.visits[c.state] = s.visits[c.state]
    BY <1>2, <2>1 DEF Sound, Current, Changes
  <2>3. \A c \in Cmds(s) : Counts(d, t, c) => Counts(d, s, c)
    BY <1>2
  <2>4. \A c \in Cmds(s) : Status(s, c) = "succeeded" => Status(t, c) = "succeeded"
    BY <1>2
  <2> QED BY <2>1, <2>w, <2>2, <2>3, <2>4, Resettled
<1>4. LeavesDoubts(s, t)
  BY DEF LeavesDoubts, Changes
<1> QED BY <1>1, <1>3, <1>4 DEF Fit

LEMMA MarkUsed ==
    ASSUME NEW d, NEW s, Shape(d, s), NEW cs, NEW v PROVE Mark(s, cs, v).used = s.used
<1>1. Fields \subseteq DOMAIN s
  BY DEF Shape
<1> QED BY <1>1 DEF Mark, Fields

LEMMA MarkChanges ==
    ASSUME NEW d, NEW s, Shape(d, s), NEW cs, NEW v \in CommandStatuses,
           \A c \in Cmds(s) : c \in cs => Standing(d, s, c)
    PROVE  Changes(d, s, Mark(s, cs, v))
<1> DEFINE t == Mark(s, cs, v)
<1>1. /\ Shape(d, t) /\ Alike(s, t) /\ Cmds(t) = Cmds(s)
      /\ \A c \in Cmds(s) : Status(t, c) = IF c \in cs THEN v ELSE Status(s, c)
      /\ \A c \in Cmds(s) : t.commands[c].why = s.commands[c].why
  BY Marked
<1>2. t.used = s.used
  BY MarkUsed
<1> HIDE DEF t
<1>3. Changes(d, s, t)
  BY <1>1, <1>2 DEF Changes, Alike
<1> QED BY <1>3 DEF t

\* The status of a run changes.
LEMMA StatusChanges ==
    ASSUME NEW d, NEW s, Shape(d, s), NEW v, v # "completed"
    PROVE  Changes(d, s, [s EXCEPT !.status = v])
<1>1. Fields \subseteq DOMAIN s
  BY DEF Shape
<1> DEFINE t == [s EXCEPT !.status = v]
<1>2. /\ t.active = s.active /\ t.visits = s.visits /\ t.arrivals = s.arrivals /\ t.used = s.used
      /\ t.pending = s.pending /\ t.status = v /\ t.commands = s.commands /\ t.lists = s.lists
  BY <1>1 DEF Fields
<1> HIDE DEF t
<1>3. Changes(d, s, t)
  BY <1>2 DEF Changes, Cmds, Status
<1> QED BY <1>3 DEF t

LEMMA RefreshChanges ==
    ASSUME NEW d, NEW s, Shape(d, s), NEW st
    PROVE  Changes(d, s, RefreshWorksetStatus(s, st))
<1> DEFINE retry == {c \in VisitCommands(s, st) : Status(s, c) = "retryable"}
           for(why) == \E c \in retry : s.commands[c].why = why
           v == CASE \E c \in VisitCommands(s, st) : Status(s, c) = "in-doubt" -> "cancel-in-doubt"
                  [] OTHER -> IF retry = {} THEN "running"
                              ELSE IF for("authority") THEN WaitFor("authority")
                              ELSE IF for("runtime") THEN WaitFor("runtime")
                              ELSE "retryable"
<1>1. RefreshWorksetStatus(s, st) = [s EXCEPT !.status = v]
  BY DEF RefreshWorksetStatus
<1>2. v # "completed"
  BY DEF WaitFor
<1> HIDE DEF v
<1> QED BY <1>1, <1>2, StatusChanges

\* A machine on a snapshot whose status was refreshed.
LEMMA RefreshedFits ==
    ASSUME NEW d, NEW s, NEW t, Shape(d, t), Keeps(s, t), Fit(d, t), LeavesDoubts(s, t), NEW st
    PROVE  LET m == Machine(RefreshWorksetStatus(t, st)) IN Fits(d, s, m) /\ YieldsFit(d, s, m)
<1> DEFINE u == RefreshWorksetStatus(t, st)
<1>1. Snapshot(d, u) /\ Keeps(t, u)
  BY Refreshed
<1>2. Changes(d, t, u)
  BY RefreshChanges
<1> HIDE DEF u
<1>3. Fit(d, u) /\ LeavesDoubts(t, u)
  BY <1>2, Changed
<1>4. Keeps(s, u) /\ LeavesDoubts(s, u)
  BY <1>1, <1>3, KeepsOn, LeavesDoubtsOn
<1>5. Fits(d, s, Machine(u)) /\ Machine(u).s = u
  BY <1>1, <1>3, <1>4, FreshFits DEF Fit
<1>6. YieldsFit(d, s, Machine(u))
  BY <1>3, <1>4, <1>5 DEF YieldsFit
<1> QED BY <1>5, <1>6 DEF u

\* Every command that stands at an active workset leaves its visit unsettled.
LEMMA StandingIsUnsettled ==
    ASSUME NEW d, NEW s, Sound(d, s), NEW c \in Cmds(s), Standing(d, s, c)
    PROVE  VisitUnsettled(d, s, c.state)
<1>1. c.state \in s.active /\ c.visit = s.visits[c.state]
  BY DEF Sound, Current
<1>2. c \in VisitCommands(s, c.state)
  BY <1>1 DEF VisitCommands, VisitOf
<1>3. CanFallBack(d, s, c) => FallbackBase(d, s, c)
  BY <1>1 DEF CanFallBack, FallbackBase
<1> QED BY <1>2, <1>3 DEF VisitUnsettled, Standing

LEMMA WorksetFits ==
    ASSUME NEW d, Compiled(d), NEW route \in Routes(d), NEW s, NEW t, Snapshot(d, t), Keeps(s, t),
           Fit(d, t), LeavesDoubts(s, t), NEW st \in t.active, d.kind[st] \in EffectKinds
    PROVE  Fits(d, s, WorksetFailureReady(d, route, t, st))
<1> DEFINE cs == {c \in VisitCommands(t, st) : Status(t, c) \in Unstarted \/ FallbackBase(d, t, c)}
           stopped == Mark(t, cs, "cancelled")
           next == IF VisitUnsettled(d, stopped, st)
                   THEN Machine(RefreshWorksetStatus(stopped, st))
                   ELSE IF "failed" \notin {Status(stopped, c) : c \in VisitCommands(stopped, st)}
                   THEN Machine(stopped)
                   ELSE FailState(d, route, stopped, st)
<1>1. WorksetFailureReady(d, route, t, st) = next
  BY DEF WorksetFailureReady
<1>2. \A c \in Cmds(t) : c \in cs => Status(t, c) \notin Final /\ Standing(d, t, c)
  BY DEF FallbackBase, CanFallBack, Standing, Unstarted, Final
<1> HIDE DEF cs
<1>3. Shape(d, stopped) /\ Keeps(t, stopped) /\ Alike(t, stopped)
  <2>1. "cancelled" \in CommandStatuses \ (Held \cup {"pending"})
    BY DEF CommandStatuses, Held
  <2> QED BY <1>2, <2>1, MarkedKeeps DEF Snapshot
<1>4. Changes(d, t, stopped)
  <2>1. "cancelled" \in CommandStatuses
    BY DEF CommandStatuses
  <2> QED BY <1>2, <2>1, MarkChanges DEF Snapshot
<1> HIDE DEF stopped
<1>5. Fit(d, stopped) /\ LeavesDoubts(t, stopped)
  BY <1>4, Changed
<1>6. Snapshot(d, stopped) /\ Keeps(s, stopped) /\ LeavesDoubts(s, stopped)
  BY <1>3, <1>5, KeepsOn, LeavesDoubtsOn DEF Alike, Snapshot
<1>7. Fits(d, s, Machine(stopped))
  BY <1>5, <1>6, FreshFits DEF Fit
<1>8. Fits(d, s, Machine(RefreshWorksetStatus(stopped, st)))
  BY <1>3, <1>5, <1>6, RefreshedFits
<1>9. ~VisitUnsettled(d, stopped, st) => Fits(d, s, FailState(d, route, stopped, st))
  <2> SUFFICES ASSUME ~VisitUnsettled(d, stopped, st) PROVE Fits(d, s, FailState(d, route, stopped, st))
    OBVIOUS
  <2>1. st \in stopped.active
    BY <1>3 DEF Alike
  <2>2. \A c \in Cmds(stopped) : Standing(d, stopped, c) => c.state # st
    BY <1>5, StandingIsUnsettled DEF Fit
  <2> QED BY <1>5, <1>6, <2>1, <2>2, FailFits DEF Fit
<1> QED BY <1>1, <1>7, <1>8, <1>9


\* Outside worksets, what stands at a state is of the lineage of any command there.
LEMMA OneLineage ==
    ASSUME NEW d, NEW s, Sound(d, s), NEW b \in Cmds(s), NEW c \in Cmds(s), b.state = c.state,
           b.visit = s.visits[b.state], c.visit = s.visits[c.state], d.kind[c.state] # "workset"
    PROVE  Lineage(b) = Lineage(c)
BY DEF Sound, ItemOK, Lineage

\* merge_run_context: lists that leave the items at work alone.
LEMMA MergedFits ==
    ASSUME NEW d, NEW s, Snapshot(d, s), Fit(d, s), NEW lists \in Inputs(d), ~Rewrites(d, s, lists)
    PROVE  LET k == Merge(s, lists)
           IN  /\ Fit(d, k) /\ LeavesDoubts(s, k)
               /\ \A c \in Cmds(s) : Standing(d, k, c) = Standing(d, s, c)
<1> DEFINE k == Merge(s, lists)
<1>1. /\ k.lists = lists /\ k.commands = s.commands /\ k.used = s.used /\ k.active = s.active
      /\ k.visits = s.visits /\ k.pending = s.pending /\ k.arrivals = s.arrivals
      /\ k.status = s.status /\ Cmds(k) = Cmds(s)
  BY MergedKeeps
<1> HIDE DEF k
<1>2. /\ \A c \in Cmds(s) : Status(k, c) = Status(s, c)
      /\ \A c \in Cmds(s) : Standing(d, k, c) = Standing(d, s, c) /\ Counts(d, k, c) = Counts(d, s, c)
  BY <1>1, SameStanding
<1>3. Tokens(d, k, <<>>)
  BY <1>1, TokensSame DEF Fit
<1>4. Current(d, k) /\ Single(d, k)
  BY <1>1, <1>2 DEF Fit, Sound, Current, Single
<1>5. Budget(d, k)
  <2>1. \A l : OfLineage(k, l) = OfLineage(s, l) /\ Used(k, l) = Used(s, l)
    BY <1>1 DEF OfLineage, Used
  <2> QED BY <1>1, <2>1 DEF Fit, Sound, Budget
<1>6. ASSUME NEW c \in AtWork(d, k) PROVE OnList(d, k, c)
  <2>1. c \in AtWork(d, s) /\ c \in Cmds(s)
    BY <1>1 DEF AtWork
  <2>2. OnList(d, s, c)
    BY <2>1 DEF Fit, Sound
  <2>3. /\ c.item \in DOMAIN List(d, k, c.state)
        /\ List(d, k, c.state)[c.item] = List(d, s, c.state)[c.item]
    BY <1>1, <2>1 DEF Rewrites, List
  <2> QED BY <1>1, <1>2, <2>2, <2>3 DEF OnList
<1>7. Sound(d, k)
  BY <1>1, <1>4, <1>5, <1>6 DEF Fit, Sound
<1>8. LeavesDoubts(s, k)
  BY <1>1 DEF LeavesDoubts
<1> QED BY <1>2, <1>3, <1>7, <1>8 DEF Fit, k

\* As many items have succeeded as the list has: all of them.
LEMMA AllSucceeded ==
    ASSUME NEW d, Compiled(d), NEW s, Sound(d, s), NEW st \in s.active \cap States(d),
           d.kind[st] = "workset", WorksetSatisfied(d, s, st)
    PROVE  DOMAIN List(d, s, st) \subseteq ItemsWith(s, st, {"succeeded"})
<1> DEFINE items == DOMAIN List(d, s, st)
           done == ItemsWith(s, st, {"succeeded"})
<1>1. IsFiniteSet(items)
  BY DEF Sound, Inputs, Compiled, Worksets, List
<1>2. ASSUME NEW i \in done PROVE i \in items
  <2>1. PICK c \in VisitCommands(s, st) : i = c.item
    BY DEF ItemsWith
  <2>2. c \in AtWork(d, s) /\ c.state = st
    BY <2>1 DEF AtWork, VisitCommands, VisitOf
  <2> QED BY <2>1, <2>2 DEF Sound, OnList
<1>3. items = {} \/ Cardinality(done) = Cardinality(items)
  BY DEF WorksetSatisfied
<1> HIDE DEF items, done
<1>4. items = {} \/ done = items
  BY <1>1, <1>2, <1>3, FS_Subset
<1> QED BY <1>4 DEF items, done

\* CommandSucceeded
LEMMA SuccessFits ==
    ASSUME NEW d, Compiled(d), NEW route \in Routes(d), NEW s, Snapshot(d, s), Fit(d, s), NEW c \in Cmds(s),
           NEW lists \in Inputs(d), ~Rewrites(d, s, lists)
    PROVE  YieldsFit(d, s, SettleSuccess(d, route, s, c, lists))
<1> DEFINE st == c.state
           k == Merge(s, lists)
           t == Mark(k, {c}, "succeeded")
           workset == d.kind[st] = "workset"
           failed == \E b \in VisitCommands(t, st) : FailedForGood(d, t, b)
           u == ScheduleWorkset(d, t, st)
           next == IF workset /\ failed
                   THEN Drained(d, route, WorksetFailureReady(d, route, t, st))
                   ELSE IF workset /\ ~ListIsValid(d, List(d, t, st))
                   THEN Refused(s)
                   ELSE IF workset /\ ~WorksetSatisfied(d, t, st)
                   THEN Machine(RefreshWorksetStatus(u, st))
                   ELSE Drained(d, route, CompleteState(d, route, Machine(t), st, "success"))
<1>1. CASE Status(s, c) \notin Open
  <2>1. SettleSuccess(d, route, s, c, lists) = Refused(s)
    BY <1>1 DEF SettleSuccess
  <2> QED BY <2>1, RefusedYields DEF YieldsFit
<1>2. CASE Status(s, c) \in Open
  <2>1. SettleSuccess(d, route, s, c, lists) = next
    BY <1>2 DEF SettleSuccess
  <2>0. Shape(d, s) /\ Standing(d, s, c)
    BY <1>2 DEF Snapshot, Standing, Open, Unstarted
  <2>k. /\ Snapshot(d, k) /\ Keeps(s, k) /\ Cmds(k) = Cmds(s) /\ k.commands = s.commands
        /\ k.active = s.active /\ k.visits = s.visits /\ k.status = s.status
        /\ Fit(d, k) /\ LeavesDoubts(s, k) /\ Standing(d, k, c)
    BY <2>0, MergedKeeps, MergedFits
  <2> HIDE DEF k
  <2>2. /\ Shape(d, t) /\ Keeps(s, t) /\ Cmds(t) = Cmds(s)
        /\ t.active = s.active /\ t.visits = s.visits /\ t.status = s.status
        /\ Keeps(k, t) /\ Status(t, c) = "succeeded"
    <3>1. "succeeded" \in CommandStatuses \ (Held \cup {"pending"})
      BY DEF CommandStatuses, Held
    <3>2. \A b \in Cmds(k) : b \in {c} => Status(k, b) \notin Final
      BY <1>2, <2>k DEF Open, Final, Status
    <3>3. /\ Shape(d, t) /\ Keeps(k, t) /\ Alike(k, t) /\ Cmds(t) = Cmds(k)
          /\ Status(t, c) = "succeeded"
      BY <2>k, <3>1, <3>2, MarkedKeeps DEF Snapshot
    <3> HIDE DEF t
    <3> QED BY <2>k, <3>3, KeepsOn DEF Alike
  <2>3. /\ st \in States(d) /\ d.kind[st] \in EffectKinds
        /\ st \in s.active /\ c.visit = s.visits[st]
        /\ c.visit \in 1..s.visits[st] /\ s.visits[st] \in Nat
    BY <2>0 DEF Shape, CommandOK, Fit, Sound, Current
  <2>4. Fit(d, t) /\ LeavesDoubts(s, t)
    <3>1. "succeeded" \in CommandStatuses
      BY DEF CommandStatuses
    <3>2. Changes(d, k, t)
      BY <2>k, <3>1, MarkChanges DEF Snapshot
    <3>3. Fit(d, t) /\ LeavesDoubts(k, t)
      BY <2>k, <3>2, Changed
    <3> QED BY <2>k, <3>3, LeavesDoubtsOn
  <2> HIDE DEF t
  <2>5. Snapshot(d, t) /\ st \in t.active /\ c.visit = t.visits[st]
    BY <2>2, <2>3 DEF Snapshot
  <2> HIDE DEF st
  <2>6. YieldsFit(d, s, Drained(d, route, WorksetFailureReady(d, route, t, st)))
    <3>1. Fits(d, s, WorksetFailureReady(d, route, t, st))
      BY <2>2, <2>3, <2>4, <2>5, WorksetFits
    <3> QED BY <3>1, DrainedFits
  <2>7. workset => YieldsFit(d, s, Machine(RefreshWorksetStatus(u, st)))
    <3> SUFFICES ASSUME workset PROVE YieldsFit(d, s, Machine(RefreshWorksetStatus(u, st)))
      OBVIOUS
    <3>1. t.visits[st] > 0
      <4>1. s.visits[st] > 0
        BY <2>3
      <4> QED BY <2>2, <4>1
    <3>2. Shape(d, u) /\ Keeps(t, u)
      BY <2>2, <2>3, <3>1, Scheduled
    <3>3. /\ Sound(d, u) /\ LeavesDoubts(t, u) /\ u.pending = t.pending /\ u.arrivals = t.arrivals
          /\ u.active = t.active /\ u.visits = t.visits /\ u.status = t.status
      BY <2>2, <2>4, <2>5, ScheduleSound DEF Fit
    <3> HIDE DEF u
    <3>4. Fit(d, u)
      <4>1. Tokens(d, u, <<>>)
        BY <2>4, <3>3, TokensSame DEF Fit
      <4> QED BY <3>3, <4>1 DEF Fit
    <3>5. Keeps(s, u) /\ LeavesDoubts(s, u)
      BY <2>2, <2>4, <3>2, <3>3, KeepsOn, LeavesDoubtsOn
    <3> QED BY <3>2, <3>4, <3>5, RefreshedFits
  <2>8. ASSUME ~workset \/ WorksetSatisfied(d, t, st)
        PROVE  YieldsFit(d, s, Drained(d, route, CompleteState(d, route, Machine(t), st, "success")))
    <3>1. ASSUME NEW b \in Cmds(t), Standing(d, t, b) PROVE b.state # st
      <4> SUFFICES ASSUME b.state = st PROVE FALSE
        OBVIOUS
      <4>0. Sound(d, t)
        BY <2>4 DEF Fit
      <4>1. b.visit = t.visits[st] /\ Counts(d, t, b) /\ Status(t, b) # "succeeded"
        BY <3>1, <4>0 DEF Sound, Current, Counts, Standing, CanFallBack, Unstarted
      <4>2. CASE ~workset
        <5>1. Lineage(b) = Lineage(c)
          BY <2>2, <2>5, <4>0, <4>1, <4>2, OneLineage DEF st
        <5>2. Counts(d, t, c)
          BY <2>2 DEF Counts
        <5> QED BY <2>2, <4>0, <4>1, <5>1, <5>2 DEF Sound, Single
      <4>3. CASE workset /\ WorksetSatisfied(d, t, st)
        <5>1. b.item \in DOMAIN List(d, t, st)
          <6>1. b \in AtWork(d, t)
            BY <2>5, <4>1, <4>3 DEF AtWork
          <6> QED BY <4>0, <6>1 DEF Sound, OnList
        <5>2. b.item \in ItemsWith(t, st, {"succeeded"})
          BY <2>3, <2>5, <4>0, <4>3, <5>1, AllSucceeded
        <5>3. PICK a \in VisitCommands(t, st) : Status(t, a) = "succeeded" /\ a.item = b.item
          BY <5>2 DEF ItemsWith
        <5>4. a \in Cmds(t) /\ Lineage(a) = Lineage(b) /\ Counts(d, t, a)
          BY <4>1, <5>3 DEF VisitCommands, VisitOf, Lineage, Counts
        <5> QED BY <4>0, <4>1, <5>3, <5>4 DEF Sound, Single
      <4> QED BY <2>8, <4>2, <4>3
    <3> DEFINE m == Machine(t)
    <3>2. Fits(d, s, m) /\ m.s = t /\ m.auto = <<>> /\ m.enter = <<>>
      BY <2>2, <2>4, <2>5, FreshFits DEF Fit
    <3>3. From(d, st, "success") # {}
      BY <2>3 DEF Compiled, StateEdges
    <3>4. \A i \in 1..Len(m.auto) : m.auto[i][1] # st
      BY <3>2
    <3> HIDE DEF m
    <3>5. Fits(d, s, CompleteState(d, route, m, st, "success"))
      BY <2>5, <3>1, <3>2, <3>3, <3>4, CompleteFits
    <3> QED BY <3>5, DrainedFits DEF m
  <2>9. YieldsFit(d, s, Refused(s))
    BY RefusedYields DEF YieldsFit
  <2> HIDE DEF u, workset, failed
  <2> QED BY <2>1, <2>6, <2>7, <2>8, <2>9
<1> QED BY <1>1, <1>2

\* CommandFailed
LEMMA FailureFits ==
    ASSUME NEW d, Compiled(d), NEW route \in Routes(d), NEW s, Snapshot(d, s), Fit(d, s), NEW c \in Cmds(s),
           NEW why \in Whys
    PROVE  YieldsFit(d, s, SettleFailure(d, route, s, c, why))
<1> DEFINE st == c.state
           workset == d.kind[st] = "workset"
           retryable == RetryPolicyAllows(d, c, why) /\ LineageWithinBudget(d, s, Lineage(c))
           v == IF retryable THEN "retryable"
                ELSE IF why = "in-doubt" THEN "in-doubt" ELSE "failed"
           t == [s EXCEPT !.commands[c] = [status |-> v, why |-> why]]
           otherFailed == workset /\ \E b \in VisitCommands(t, st) \ {c} : FailedForGood(d, t, b)
           says(status) == Machine(IF workset THEN RefreshWorksetStatus(t, st)
                                              ELSE [t EXCEPT !.status = status])
           next == IF retryable THEN says(WaitFor(why))
                   ELSE IF ~otherFailed /\ FallbackBase(d, t, c) THEN says("running")
                   ELSE IF why = "in-doubt" THEN says("cancel-in-doubt")
                   ELSE Drained(d, route, IF workset THEN WorksetFailureReady(d, route, t, st)
                                                     ELSE FailState(d, route, t, st))
<1>1. CASE Status(s, c) \notin Open
  <2>1. SettleFailure(d, route, s, c, why) = Refused(s)
    BY <1>1 DEF SettleFailure
  <2> QED BY <2>1, RefusedYields DEF YieldsFit
<1>2. CASE Status(s, c) \in Open
  <2>1. SettleFailure(d, route, s, c, why) = next
    BY <1>2 DEF SettleFailure
  <2>0. Shape(d, s) /\ Standing(d, s, c) /\ Fields \subseteq DOMAIN s
    BY <1>2 DEF Snapshot, Standing, Open, Unstarted, Shape
  <2>2. v \in CommandStatuses \ (Held \cup {"pending"})
    BY DEF CommandStatuses, Held
  <2>a. ~retryable /\ why # "in-doubt" => v = "failed"
    OBVIOUS
  <2> HIDE DEF v
  <2>3. /\ Shape(d, t) /\ Keeps(s, t) /\ Alike(s, t) /\ Cmds(t) = Cmds(s)
        /\ Status(t, c) = v
        /\ \A b \in Cmds(s) \ {c} : t.commands[b] = s.commands[b]
    BY <1>2, <2>0, <2>2, OutcomeKeeps
  <2>b. t.used = s.used /\ t.lists = s.lists
    BY <2>0 DEF Fields
  <2>4. st \in States(d) /\ d.kind[st] \in EffectKinds /\ st \in s.active /\ c.visit = s.visits[st]
    BY <2>0 DEF Shape, CommandOK, Fit, Sound, Current
  <2> HIDE DEF t
  <2>5. Fit(d, t) /\ LeavesDoubts(s, t)
    <3>1. Changes(d, s, t)
      BY <2>0, <2>3, <2>b DEF Changes, Alike, Status
    <3> QED BY <3>1, Changed
  <2> HIDE DEF st
  <2>6. Snapshot(d, t) /\ st \in t.active /\ t.visits = s.visits
    BY <2>3, <2>4 DEF Snapshot, Alike
  <2>7. ASSUME NEW status \in RunStatuses, status # "completed" PROVE YieldsFit(d, s, says(status))
    <3>1. CASE workset
      <4>1. says(status) = Machine(RefreshWorksetStatus(t, st))
        BY <3>1
      <4> QED BY <2>3, <2>5, <4>1, RefreshedFits
    <3>2. CASE ~workset
      <4> DEFINE r == [t EXCEPT !.status = status]
      <4>1. Shape(d, r) /\ Keeps(t, r)
        BY <2>3, Restated
      <4>2. says(status) = Machine(r)
        BY <3>2
      <4>3. Changes(d, t, r)
        BY <2>3, <2>7, StatusChanges
      <4> HIDE DEF r
      <4>4. Fit(d, r) /\ LeavesDoubts(t, r)
        BY <2>5, <4>3, Changed
      <4>5. LeavesDoubts(s, r)
        BY <2>3, <2>5, <4>4, LeavesDoubtsOn
      <4> QED BY <4>2, <4>4, <4>5 DEF YieldsFit, Machine
    <3> QED BY <3>1, <3>2
  <2>8. /\ WaitFor(why) \in RunStatuses /\ "running" \in RunStatuses /\ "cancel-in-doubt" \in RunStatuses
        /\ WaitFor(why) # "completed"
    BY DEF RunStatuses, Settled, AssistantTerminal, RunActive, WaitFor
  <2>9. ASSUME ~retryable, ~(~otherFailed /\ FallbackBase(d, t, c)), why # "in-doubt"
        PROVE  YieldsFit(d, s, Drained(d, route, IF workset THEN WorksetFailureReady(d, route, t, st)
                                                            ELSE FailState(d, route, t, st)))
    <3>1. Fits(d, s, WorksetFailureReady(d, route, t, st))
      BY <2>3, <2>4, <2>5, <2>6, WorksetFits
    <3>2. ~workset => Fits(d, s, FailState(d, route, t, st))
      <4> SUFFICES ASSUME ~workset PROVE Fits(d, s, FailState(d, route, t, st))
        OBVIOUS
      <4>0. Status(t, c) = "failed" /\ ~FallbackBase(d, t, c)
        BY <2>3, <2>9, <2>a
      <4>1. ASSUME NEW b \in Cmds(t), Standing(d, t, b) PROVE b.state # st
        <5> SUFFICES ASSUME b.state = st PROVE FALSE
          OBVIOUS
        <5>1. b.visit = t.visits[st]
          BY <2>5, <4>1 DEF Fit, Sound, Current
        <5>2. Lineage(b) = Lineage(c)
          BY <2>3, <2>4, <2>5, <2>6, <5>1, OneLineage DEF Fit, st
        <5>3. CASE b = c
          <6>1. CanFallBack(d, t, c)
            BY <4>0, <4>1, <5>3 DEF Standing, Unstarted
          <6>2. FallbackBase(d, t, c)
            BY <2>6, <6>1 DEF CanFallBack, FallbackBase, st
          <6> QED BY <4>0, <6>2
        <5>4. CASE b # c
          <6>1. t.commands[b] = s.commands[b] /\ b \in Cmds(s)
            BY <2>3, <5>4
          <6>2. Standing(d, s, b)
            BY <2>b, <4>1, <6>1 DEF Standing, CanFallBack, Status, LineageWithinBudget, Used
          <6> QED BY <2>0, <5>2, <5>4, <6>1, <6>2 DEF Fit, Sound, Single, Counts
        <5> QED BY <5>3, <5>4
      <4> QED BY <2>3, <2>4, <2>5, <2>6, <4>1, FailFits DEF Fit
    <3> HIDE DEF workset
    <3>3. Fits(d, s, IF workset THEN WorksetFailureReady(d, route, t, st)
                                ELSE FailState(d, route, t, st))
      BY <3>1, <3>2
    <3> QED BY <3>3, DrainedFits
  <2> HIDE DEF says, retryable, otherFailed, workset
  <2> QED BY <2>1, <2>7, <2>8, <2>9
<1> QED BY <1>1, <1>2


\* Retry and IssueFallback: another attempt takes the place of c.
LEMMA ReissuedFits ==
    ASSUME NEW d, Compiled(d), NEW s, Snapshot(d, s), Fit(d, s), NEW c \in Cmds(s), Standing(d, s, c),
           Status(s, c) \notin Final, NEW new,
           CommandFields \subseteq DOMAIN new, new.state = c.state, new.visit = c.visit, new.item = c.item
    PROVE  YieldsFit(d, s, Reissued(d, s, c, new))
<1> DEFINE k == Mark(s, {c}, "cancelled")
           a == AddCommand(k, Lineage(c), new)
           t == [a EXCEPT !.status = "running"]
           r == RefreshWorksetStatus(t, c.state)
<1>1. CASE new \in Cmds(s) \/ ~LineageWithinBudget(d, s, Lineage(c))
  <2>1. Reissued(d, s, c, new) = Refused(s)
    BY <1>1 DEF Reissued
  <2> QED BY <2>1, RefusedYields DEF YieldsFit
<1>2. CASE ~(new \in Cmds(s) \/ ~LineageWithinBudget(d, s, Lineage(c)))
  <2>1. Reissued(d, s, c, new) = Machine(IF d.kind[c.state] = "workset" THEN r ELSE t)
    BY <1>2 DEF Reissued
  <2>0. Shape(d, s) /\ Sound(d, s) /\ Tokens(d, s, <<>>)
    BY DEF Snapshot, Fit
  <2>l. Lineage(new) = Lineage(c)
    BY DEF Lineage
  <2>2. /\ Shape(d, k) /\ Keeps(s, k) /\ Alike(s, k) /\ Cmds(k) = Cmds(s)
        /\ Status(k, c) = "cancelled" /\ k.used = s.used
        /\ \A b \in Cmds(s) \ {c} : k.commands[b] = s.commands[b]
    <3>1. "cancelled" \in CommandStatuses \ (Held \cup {"pending"})
      BY DEF CommandStatuses, Held
    <3>2. \A b \in Cmds(s) : b \in {c} => Status(s, b) \notin Final
      OBVIOUS
    <3>3. k.used = s.used
      BY <2>0, MarkUsed
    <3>4. Fields \subseteq DOMAIN s
      BY <2>0 DEF Shape
    <3>5. k.commands = [b \in Cmds(s) |-> IF b \in {c} THEN [s.commands[b] EXCEPT !.status = "cancelled"]
                                                       ELSE s.commands[b]]
      BY <3>4 DEF Mark, Fields
    <3>6. \A b \in Cmds(s) \ {c} : k.commands[b] = s.commands[b]
      BY <3>5
    <3>7. /\ Shape(d, k) /\ Keeps(s, k) /\ Alike(s, k) /\ Cmds(k) = Cmds(s)
          /\ \A b \in Cmds(s) : Status(k, b) = IF b \in {c} THEN "cancelled" ELSE Status(s, b)
      BY <2>0, <3>1, <3>2, MarkedKeeps
    <3> QED BY <3>3, <3>6, <3>7
  <2>3. c.state \in States(d) /\ d.kind[c.state] \in EffectKinds /\ c.visit \in 1..s.visits[c.state]
    BY <2>0 DEF Shape, CommandOK
  <2> HIDE DEF k
  <2>4. Shape(d, a) /\ Keeps(k, a) /\ Alike(k, a)
    <3>1. new \notin Cmds(k) /\ new.visit \in 1..k.visits[new.state]
      BY <1>2, <2>2, <2>3 DEF Alike
    <3> QED BY <2>2, <2>3, <3>1, AddedOne
  <2>5. /\ a.commands = PutAll(k.commands, {new}, [status |-> "pending", why |-> None])
        /\ a.used = PutAll(k.used, {Lineage(c)}, Used(k, Lineage(c)) + 1)
    <3>1. Fields \subseteq DOMAIN k
      BY <2>2 DEF Shape
    <3> QED BY <3>1 DEF AddCommand, BumpAttemptLineage, Fields
  <2> HIDE DEF a
  <2>6. /\ Shape(d, t) /\ Keeps(a, t) /\ t.status = "running"
        /\ t.commands = a.commands /\ t.used = a.used /\ t.active = a.active /\ t.visits = a.visits
        /\ t.pending = a.pending /\ t.arrivals = a.arrivals /\ t.lists = a.lists
    <3>1. Fields \subseteq DOMAIN a
      BY <2>4 DEF Shape
    <3>2. /\ t.commands = a.commands /\ t.used = a.used /\ t.active = a.active /\ t.visits = a.visits
          /\ t.pending = a.pending /\ t.arrivals = a.arrivals /\ t.lists = a.lists
      BY <3>1 DEF Fields
    <3> QED BY <2>4, <3>2, Restated
  <2> HIDE DEF t
  <2>7. /\ t.active = s.active /\ t.visits = s.visits /\ t.pending = s.pending /\ t.arrivals = s.arrivals
        /\ t.lists = s.lists
    BY <2>2, <2>4, <2>6 DEF Alike
  <2>8. /\ Cmds(t) = Cmds(s) \cup {new} /\ Status(t, new) = "pending"
    BY <2>2, <2>5, <2>6 DEF Cmds, PutAll, Status
  <2>9. \A b \in Cmds(s) : t.commands[b] = k.commands[b]
    BY <1>2, <2>2, <2>5, <2>6 DEF Cmds, PutAll
  <2>10. Status(t, c) = "cancelled" /\ \A b \in Cmds(s) \ {c} : t.commands[b] = s.commands[b]
    BY <2>2, <2>9 DEF Status
  <2>11. t.used = PutAll(s.used, {Lineage(c)}, Used(s, Lineage(c)) + 1)
    BY <2>2, <2>5, <2>6 DEF Used
  <2>12. Sound(d, t)
    <3>1. Status(s, c) # "succeeded" /\ d.attempts \in Nat \ {0}
      BY DEF Final, Compiled
    <3>2. new \notin Cmds(s) /\ LineageWithinBudget(d, s, Lineage(c))
      BY <1>2
    <3> QED BY <2>0, <2>l, <2>7, <2>8, <2>10, <2>11, <3>1, <3>2, Replaced
  <2>13. Tokens(d, t, <<>>)
    <3>1. t.status # "completed"
      BY <2>6
    <3> QED BY <2>0, <2>7, <3>1, TokensSame
  <2>14. LeavesDoubts(s, t)
    <3> SUFFICES ASSUME NEW b \in Cmds(s), Status(s, b) = "in-doubt", Lineage(new) = Lineage(b) PROVE FALSE
      BY <2>8 DEF LeavesDoubts
    <3>1. Standing(d, s, b)
      BY DEF Standing
    <3>2. b = c
      BY <2>0, <2>l, <3>1 DEF Sound, Single, Counts
    <3> QED BY <3>2 DEF Final
  <2>15. Keeps(s, t) /\ Fit(d, t)
    BY <2>2, <2>4, <2>6, <2>12, <2>13, KeepsOn DEF Fit
  <2>16. YieldsFit(d, s, Machine(r))
    BY <2>6, <2>14, <2>15, RefreshedFits
  <2>17. YieldsFit(d, s, Machine(t))
    BY <2>14, <2>15 DEF YieldsFit, Machine
  <2> HIDE DEF r
  <2> QED BY <2>1, <2>16, <2>17
<1> QED BY <1>1, <1>2

LEMMA RetryFits ==
    ASSUME NEW d, Compiled(d), NEW s, Snapshot(d, s), Fit(d, s), NEW c \in Cmds(s)
    PROVE  YieldsFit(d, s, Retry(d, s, c))
<1> DEFINE new == [c EXCEPT !.attempt = @ + 1]
<1>1. CASE Status(s, c) # "retryable" \/ ~RetryPolicyAllows(d, c, s.commands[c].why)
  <2>1. Retry(d, s, c) = Refused(s)
    BY <1>1 DEF Retry
  <2> QED BY <2>1, RefusedYields DEF YieldsFit
<1>2. CASE ~(Status(s, c) # "retryable" \/ ~RetryPolicyAllows(d, c, s.commands[c].why))
  <2>1. Retry(d, s, c) = Reissued(d, s, c, new)
    BY <1>2 DEF Retry
  <2>2. CommandFields \subseteq DOMAIN c
    BY DEF Snapshot, Shape, CommandOK
  <2>3. /\ CommandFields \subseteq DOMAIN new /\ new.state = c.state /\ new.visit = c.visit
        /\ new.item = c.item
    BY <2>2 DEF CommandFields
  <2>4. Status(s, c) \notin Final /\ Standing(d, s, c)
    BY <1>2 DEF Final, Standing, Unstarted
  <2> HIDE DEF new
  <2> QED BY <2>1, <2>3, <2>4, ReissuedFits
<1> QED BY <1>1, <1>2

LEMMA FallbackFits ==
    ASSUME NEW d, Compiled(d), NEW s, Snapshot(d, s), Fit(d, s), NEW c \in Cmds(s)
    PROVE  YieldsFit(d, s, IssueFallback(d, s, c))
<1> DEFINE new == [c EXCEPT !.ordinal = @ + 1, !.attempt = 1, !.visit = s.visits[c.state]]
<1>1. CASE ~FallbackAdmitted(d, s, c)
  <2>1. IssueFallback(d, s, c) = Refused(s)
    BY <1>1 DEF IssueFallback
  <2> QED BY <2>1, RefusedYields DEF YieldsFit
<1>2. CASE FallbackAdmitted(d, s, c)
  <2>1. IssueFallback(d, s, c) = Reissued(d, s, c, new)
    BY <1>2 DEF IssueFallback
  <2>2. CommandFields \subseteq DOMAIN c
    BY DEF Snapshot, Shape, CommandOK
  <2>3. /\ CommandFields \subseteq DOMAIN new /\ new.state = c.state /\ new.visit = s.visits[c.state]
        /\ new.item = c.item
    BY <2>2 DEF CommandFields
  <2>4. Status(s, c) \notin Final /\ Standing(d, s, c)
    BY <1>2 DEF Final, FallbackAdmitted, FallbackBase, Standing, CanFallBack
  <2>5. c.visit = s.visits[c.state]
    BY <2>4 DEF Fit, Sound, Current
  <2> HIDE DEF new
  <2> QED BY <2>1, <2>3, <2>4, <2>5, ReissuedFits
<1> QED BY <1>1, <1>2

\* CancelRequested
LEMMA CancelFits ==
    ASSUME NEW d, NEW s, Snapshot(d, s), Fit(d, s)
    PROVE  Fit(d, Cancel(s)) /\ LeavesDoubts(s, Cancel(s))
<1> DEFINE running == {c \in Cmds(s) : Status(s, c) \in {"running", "cancel-requested"}}
           idle == {c \in Cmds(s) : Status(s, c) \in Unstarted}
           k == Mark(s, idle, "cancelled")
           t == Mark(k, running, "cancel-requested")
           v == IF running = {} THEN "cancelled" ELSE "cancel-requested"
           u == [t EXCEPT !.pending = <<>>, !.status = v]
<1>0. Shape(d, s)
  BY DEF Snapshot
<1>1. Cancel(s) = IF s.status \in {"completed", "cancelled", "failed"} THEN s ELSE u
  BY DEF Cancel
<1>2. {"cancelled", "cancel-requested"} \subseteq CommandStatuses
  BY DEF CommandStatuses
<1>3. /\ Shape(d, k) /\ Alike(s, k) /\ Cmds(k) = Cmds(s) /\ k.used = s.used
      /\ \A c \in Cmds(s) : Status(k, c) = IF c \in idle THEN "cancelled" ELSE Status(s, c)
      /\ \A c \in Cmds(s) : k.commands[c].why = s.commands[c].why
  <2> HIDE DEF idle
  <2> QED BY <1>0, <1>2, Marked, MarkUsed
<1>s. \A c \in Cmds(s) : c \in idle \/ c \in running => Standing(d, s, c)
  BY DEF Standing
<1> HIDE DEF k, running, idle
<1>5. /\ Shape(d, t) /\ Alike(k, t) /\ Cmds(t) = Cmds(k) /\ t.used = k.used
      /\ \A c \in Cmds(k) : Status(t, c) = IF c \in running THEN "cancel-requested" ELSE Status(k, c)
      /\ \A c \in Cmds(k) : t.commands[c].why = k.commands[c].why
  BY <1>2, <1>3, Marked, MarkUsed
<1>6. Fields \subseteq DOMAIN t
  BY <1>5 DEF Shape
<1> HIDE DEF t
<1>7. /\ u.active = t.active /\ u.visits = t.visits /\ u.arrivals = t.arrivals /\ u.used = t.used
      /\ u.commands = t.commands /\ u.pending = <<>> /\ u.status = v /\ u.lists = t.lists
  BY <1>6 DEF Fields
<1>8. v # "completed"
  OBVIOUS
<1> HIDE DEF u, v
<1>9. ASSUME NEW c \in Cmds(s)
      PROVE  \/ Standing(d, s, c)
             \/ Status(u, c) = Status(s, c) /\ u.commands[c].why = s.commands[c].why
  <2>1. CASE c \in idle \/ c \in running BY <1>s, <2>1
  <2>2. CASE ~(c \in idle \/ c \in running) BY <1>3, <1>5, <1>7, <2>2 DEF Status
  <2> QED BY <2>1, <2>2
<1>10. Cmds(u) = Cmds(s)
  BY <1>3, <1>5, <1>7 DEF Cmds
<1>11. Changes(d, s, u)
  BY <1>3, <1>5, <1>7, <1>8, <1>9, <1>10 DEF Changes, Alike
<1>12. Fit(d, u) /\ LeavesDoubts(s, u)
  BY <1>11, Changed
<1>13. LeavesDoubts(s, s)
  BY DEF LeavesDoubts
<1> QED BY <1>1, <1>12, <1>13

\* CommandCancellationUnknown
LEMMA UnknownFits ==
    ASSUME NEW d, NEW s, Snapshot(d, s), Fit(d, s), NEW c \in Cmds(s)
    PROVE  LET m == CancelUnknown(s, c) IN Fit(d, m.s) /\ LeavesDoubts(s, m.s)
<1> DEFINE k == Mark(s, {c}, "in-doubt")
           t == [k EXCEPT !.status = "cancel-in-doubt"]
<1>1. CASE Status(s, c) # "cancel-requested"
  <2>1. CancelUnknown(s, c).s = s
    BY <1>1 DEF CancelUnknown, Refused, Machine
  <2> QED BY <2>1 DEF LeavesDoubts
<1>2. CASE Status(s, c) = "cancel-requested"
  <2>1. CancelUnknown(s, c).s = t
    BY <1>2 DEF CancelUnknown, Machine
  <2>2. Shape(d, s) /\ "in-doubt" \in CommandStatuses /\ Standing(d, s, c)
    BY <1>2 DEF CommandStatuses, Snapshot, Standing
  <2>3. Changes(d, s, k) /\ Shape(d, k) /\ Cmds(k) = Cmds(s)
    BY <2>2, MarkChanges, Marked
  <2> HIDE DEF k
  <2>4. Fit(d, k) /\ LeavesDoubts(s, k)
    BY <2>3, Changed
  <2>5. Changes(d, k, t)
    BY <2>3, StatusChanges
  <2> HIDE DEF t
  <2>6. Fit(d, t)
    BY <2>4, <2>5, Changed
  <2>7. LeavesDoubts(s, t)
    BY <2>3, <2>5 DEF LeavesDoubts, Changes
  <2> QED BY <2>1, <2>6, <2>7
<1> QED BY <1>1, <1>2


\* settle_assistant_effect_failure and settle_assistant_drive_failure
LEMMA UnstartedChanges ==
    ASSUME NEW d, NEW s, Shape(d, s)
    PROVE  Changes(d, s, CancelUnstartedAssistant(s))
<1> DEFINE cs == {c \in Cmds(s) : Status(s, c) \in {"pending", "retryable", "cancel-requested"}}
           k == Mark(s, cs, "cancelled")
           t == [k EXCEPT !.pending = <<>>]
<1>1. CancelUnstartedAssistant(s) = t
  BY DEF CancelUnstartedAssistant
<1>2. Changes(d, s, k) /\ Shape(d, k)
  <2>1. "cancelled" \in CommandStatuses
    BY DEF CommandStatuses
  <2>2. \A c \in Cmds(s) : c \in cs => Standing(d, s, c)
    BY DEF Standing, Unstarted
  <2> HIDE DEF cs
  <2> QED BY <2>1, <2>2, MarkChanges, Marked
<1> HIDE DEF k
<1>3. Fields \subseteq DOMAIN k
  BY <1>2 DEF Shape
<1>4. /\ t.active = k.active /\ t.visits = k.visits /\ t.arrivals = k.arrivals /\ t.used = k.used
      /\ t.commands = k.commands /\ t.pending = <<>> /\ t.status = k.status /\ t.lists = k.lists
  BY <1>3 DEF Fields
<1> HIDE DEF t
<1>5. Changes(d, s, t)
  BY <1>2, <1>4 DEF Changes, Cmds, Status
<1> QED BY <1>1, <1>5

LEMMA AssistantFailureFits ==
    ASSUME NEW d, NEW s, Snapshot(d, s), Fit(d, s), NEW c \in Cmds(s), NEW why \in Whys
    PROVE  LET m == SettleAssistantEffectFailure(s, c, why) IN Fit(d, m.s) /\ LeavesDoubts(s, m.s)
<1> DEFINE v == IF why = "in-doubt" THEN "in-doubt" ELSE "failed"
           w == IF why = "in-doubt" THEN "cancel-in-doubt" ELSE "failed"
           t == [s EXCEPT !.commands[c] = [status |-> v, why |-> why]]
           k == CancelUnstartedAssistant(t)
           u == [k EXCEPT !.status = w]
<1>1. CASE Status(s, c) \notin Open
  <2>1. SettleAssistantEffectFailure(s, c, why).s = s
    BY <1>1 DEF SettleAssistantEffectFailure, Refused, Machine
  <2> QED BY <2>1 DEF LeavesDoubts
<1>2. CASE Status(s, c) \in Open
  <2>1. SettleAssistantEffectFailure(s, c, why).s = u
    BY <1>2 DEF SettleAssistantEffectFailure, Machine
  <2>0. Shape(d, s) /\ Standing(d, s, c) /\ Fields \subseteq DOMAIN s
    BY <1>2 DEF Snapshot, Standing, Open, Unstarted, Shape
  <2>2. v \in CommandStatuses \ (Held \cup {"pending"}) /\ w # "completed"
    BY DEF CommandStatuses, Held
  <2> HIDE DEF v, w
  <2>3. /\ Shape(d, t) /\ Alike(s, t) /\ Cmds(t) = Cmds(s)
        /\ \A b \in Cmds(s) \ {c} : t.commands[b] = s.commands[b]
    BY <1>2, <2>0, <2>2, OutcomeKeeps
  <2>4. t.used = s.used
    BY <2>0 DEF Fields
  <2> HIDE DEF t
  <2>5. Changes(d, s, t)
    BY <2>0, <2>3, <2>4 DEF Changes, Alike, Status
  <2>6. Changes(d, t, k) /\ Shape(d, k)
    BY <2>3, UnstartedChanges, UnstartedCancelled
  <2> HIDE DEF k
  <2>7. Changes(d, k, u)
    BY <2>2, <2>6, StatusChanges
  <2> HIDE DEF u
  <2>8. Fit(d, u)
    BY <2>5, <2>6, <2>7, Changed
  <2>9. LeavesDoubts(s, u)
    BY <2>5, <2>6, <2>7 DEF LeavesDoubts, Changes
  <2> QED BY <2>1, <2>8, <2>9
<1> QED BY <1>1, <1>2

LEMMA DriveFailureFits ==
    ASSUME NEW d, NEW s, Snapshot(d, s), Fit(d, s)
    PROVE  Fit(d, DriveFailure(s)) /\ LeavesDoubts(s, DriveFailure(s))
<1> DEFINE t == CancelUnstartedAssistant(s)
           lost == [c \in Cmds(t) |-> IF Status(t, c) \in Held
                                      THEN [status |-> "in-doubt", why |-> "in-doubt"]
                                      ELSE t.commands[c]]
           u == [t EXCEPT !.commands = lost, !.status = "cancel-in-doubt"]
<1>1. DriveFailure(s) \in {s, u}
  BY DEF DriveFailure, SettleAssistantDriveFailure
<1>2. Shape(d, t) /\ Changes(d, s, t)
  BY UnstartedCancelled, UnstartedChanges DEF Snapshot
<1> HIDE DEF t
<1>3. Fit(d, t)
  BY <1>2, Changed
<1>4. Fields \subseteq DOMAIN t
  BY <1>2 DEF Shape
<1>5. /\ u.active = t.active /\ u.visits = t.visits /\ u.arrivals = t.arrivals /\ u.used = t.used
      /\ u.pending = t.pending /\ u.status = "cancel-in-doubt" /\ u.commands = lost
      /\ u.lists = t.lists
  BY <1>4 DEF Fields
<1>6. Cmds(u) = Cmds(t)
  BY <1>5 DEF Cmds
<1>7. ASSUME NEW c \in Cmds(t)
      PROVE  \/ Standing(d, t, c)
             \/ Status(u, c) = Status(t, c) /\ u.commands[c].why = t.commands[c].why
  <2>1. CASE Status(t, c) \in Held
    BY <2>1 DEF Standing, Held, Unstarted
  <2>2. CASE Status(t, c) \notin Held
    <3>1. u.commands[c] = t.commands[c]
      BY <1>5, <2>2
    <3> QED BY <3>1 DEF Status
  <2> QED BY <2>1, <2>2
<1> HIDE DEF u, lost
<1>8. Changes(d, t, u)
  BY <1>5, <1>6, <1>7 DEF Changes
<1>9. Fit(d, u)
  BY <1>3, <1>8, Changed
<1>10. LeavesDoubts(s, u) /\ LeavesDoubts(s, s)
  BY <1>2, <1>8 DEF LeavesDoubts, Changes
<1> QED BY <1>1, <1>9, <1>10

\* A machine that is about to enter a state.
LEMMA EnteringFits ==
    ASSUME NEW d, NEW s, NEW t, Shape(d, t), Keeps(s, t), Sound(d, t), LeavesDoubts(s, t),
           NEW st \in States(d), NEW pred \in States(d) \cup {None}, Tokens(d, t, <<<<st, pred>>>>)
    PROVE  Fits(d, s, Entering(t, st, pred))
<1> DEFINE m == Entering(t, st, pred)
<1>1. m.s = t /\ m.enter = <<<<st, pred>>>> /\ m.auto = <<>>
  BY DEF Entering, Machine
<1>2. Works(d, s, m)
  BY EnteringWorks
<1> HIDE DEF m
<1>3. Queued(t, <<>>) /\ Idle(d, t, <<>>)
  BY QueueNothing
<1>4. Fits(d, s, m)
  BY <1>1, <1>2, <1>3 DEF Fits
<1> QED BY <1>4 DEF m

\* CallbackDecided
LEMMA DecideFits ==
    ASSUME NEW d, Compiled(d), NEW route \in Routes(d), NEW s, Snapshot(d, s), Fit(d, s), s.pending # <<>>,
           NEW decision \in Decisions
    PROVE  YieldsFit(d, s, Decide(d, route, s, decision))
<1> DEFINE wait == Head(s.pending)
           k == [s EXCEPT !.pending = Tail(@)]
           t == [s EXCEPT !.pending = Tail(@), !.status = "running"]
<1>1. wait \in Waits(d) /\ Tail(s.pending) \in Seq(Waits(d))
  <2>1. s.pending \in Seq(Waits(d))
    BY DEF Snapshot, Shape
  <2> QED BY <2>1
<1>2. wait.to \in States(d) /\ wait.state \in States(d)
  BY <1>1 DEF Waits
<1>3. Fields \subseteq DOMAIN s /\ Shape(d, s) /\ Sound(d, s) /\ Tokens(d, s, <<>>)
  BY DEF Snapshot, Shape, Fit
<1>4. /\ DOMAIN k = DOMAIN s /\ k.active = s.active /\ k.done = s.done /\ k.visits = s.visits
      /\ k.commands = s.commands /\ k.pending = Tail(s.pending) /\ k.status = s.status
      /\ k.arrivals = s.arrivals /\ k.used = s.used /\ k.lists = s.lists
      /\ DOMAIN t = DOMAIN s /\ t.active = s.active /\ t.done = s.done /\ t.visits = s.visits
      /\ t.commands = s.commands /\ t.pending = Tail(s.pending) /\ t.status = "running"
      /\ t.arrivals = s.arrivals /\ t.used = s.used /\ t.lists = s.lists
  BY <1>3 DEF Fields
<1>5. /\ decision = "advance" =>
           Decide(d, route, s, decision) = Drained(d, route, Entering(t, wait.to, wait.state))
      /\ decision = "return" =>
           Decide(d, route, s, decision) = Drained(d, route, Entering(t, wait.state, None))
      /\ decision = "terminate" => Decide(d, route, s, decision) = Machine(Cancel(k))
  BY DEF Decide
<1>w. wait = Head(s.pending)
  OBVIOUS
<1> HIDE DEF k, t, wait
<1>6. Shape(d, k) /\ Keeps(s, k) /\ Shape(d, t) /\ Keeps(s, t)
  BY <1>1, <1>3, <1>4, Rewritten
<1>7. s.status # "completed"
  BY <1>3 DEF Tokens, Over
<1>8. Sound(d, t) /\ LeavesDoubts(s, t) /\ Sound(d, k) /\ LeavesDoubts(s, k)
  <2>1. \A c \in Cmds(s) : Standing(d, s, c) => c.state \in s.active
    BY <1>3 DEF Sound, Current
  <2>2. AtWork(d, t) \subseteq AtWork(d, s) /\ AtWork(d, k) \subseteq AtWork(d, s)
    BY <1>4 DEF AtWork, Cmds
  <2> QED BY <1>3, <1>4, <2>1, <2>2, MovedSound
<1>9. ASSUME NEW p \in {<<wait.to, wait.state>>, <<wait.state, None>>}
      PROVE  Tokens(d, t, <<p>>) /\ Tokens(d, k, <<p>>)
  <2>1. p \in {<<Head(s.pending).to, Head(s.pending).state>>, <<Head(s.pending).state, None>>}
    BY <1>w
  <2>2. t.status # "completed" /\ k.status # "completed"
    BY <1>4, <1>7
  <2> QED BY <1>3, <1>4, <2>1, <2>2, WaitLeaves
<1>10. Fits(d, s, Entering(t, wait.to, wait.state)) /\ Fits(d, s, Entering(t, wait.state, None))
  <2>1. Tokens(d, t, <<<<wait.to, wait.state>>>>) /\ Tokens(d, t, <<<<wait.state, None>>>>)
    BY <1>9
  <2> QED BY <1>2, <1>6, <1>8, <2>1, EnteringFits
<1>11. YieldsFit(d, s, Machine(Cancel(k)))
  <2>1. Snapshot(d, k)
    BY <1>4, <1>6 DEF Snapshot
  <2>2. Tokens(d, k, <<>>)
    <3> DEFINE p == <<wait.state, None>>
    <3>1. Tokens(d, k, <<p>>)
      BY <1>9
    <3>2. k.status # "completed"
      BY <1>4, <1>7
    <3> QED BY <3>1, <3>2, NothingDue, TokensFewer
  <2>3. Fit(d, k)
    BY <1>8, <2>2 DEF Fit
  <2>4. Fit(d, Cancel(k)) /\ LeavesDoubts(k, Cancel(k))
    BY <2>1, <2>3, CancelFits
  <2>5. LeavesDoubts(s, Cancel(k))
    BY <1>6, <1>8, <2>4, LeavesDoubtsOn
  <2> QED BY <2>4, <2>5 DEF YieldsFit, Machine
<1> QED BY <1>5, <1>10, <1>11, DrainedFits DEF Decisions

\* The first snapshot of a run stands before its initial state.
LEMMA StartFits ==
    ASSUME NEW d, Compiled(d), NEW route \in Routes(d), NEW lists \in Inputs(d)
    PROVE  YieldsFit(d, EmptySnapshot(d, lists), Start(d, route, lists))
<1> DEFINE s == EmptySnapshot(d, lists)
           p == <<d.initial, None>>
           q == <<p>>
<1>1. /\ Fields \subseteq DOMAIN s /\ s.active = {} /\ s.done = {} /\ s.status = "pending"
      /\ s.visits = [st \in States(d) |-> 0] /\ s.pending = <<>> /\ s.commands = <<>>
      /\ s.arrivals = [st \in States(d) |-> {}] /\ s.used = <<>> /\ s.lists = lists
  BY DEF EmptySnapshot, Fields
<1>2. Cmds(s) = {}
  BY <1>1 DEF Cmds
<1>3. Start(d, route, lists) = Drained(d, route, Entering(s, d.initial, None))
  BY DEF Start
<1> HIDE DEF s
<1>4. Shape(d, s)
  BY <1>1, <1>2 DEF Shape
<1>5. d.initial \in States(d) /\ None \notin States(d)
  BY DEF Compiled
<1>6. Sound(d, s) /\ LeavesDoubts(s, s)
  BY <1>1, <1>2 DEF Sound, Current, Single, Budget, AtWork, LeavesDoubts
<1>7. Tokens(d, s, q)
  <2>1. Len(q) = 1 /\ q[1] = p /\ p[2] = None
    OBVIOUS
  <2> HIDE DEF q, p
  <2>2. \A i \in 1..Len(q) : i = 1
    BY <2>1
  <2>3. Due(d, q) = {Pos(d, p)} /\ Once(d, q) /\ Heading(q) = {p}
    BY <2>1, <2>2 DEF Due, Once, Heading
  <2>4. Waiting(s) = {} /\ Arrived(s) = {} /\ Still(s) = {}
    BY <1>1 DEF Waiting, Arrived, Still
  <2>5. Placed(d, s)
    BY <1>1 DEF Placed
  <2>6. Routed(d, q) /\ Over(s, q)
    BY <1>1, <2>1, <2>3 DEF Routed, Over
  <2>7. Apart(d, s, q)
    BY <1>1, <2>3, <2>4 DEF Apart, Spread
  <2>8. Leaving(d, q) \subseteq {None}
    BY <2>1, <2>3 DEF Leaving
  <2>9. Joined(d, s, q)
    <3> SUFFICES ASSUME NEW j \in States(d), NEW x \in Predecessors(d, j)
                 PROVE  /\ s.visits[j] <= s.visits[x]
                        /\ x \in Still(s) \cup Leaving(d, q) => s.visits[j] < s.visits[x]
      BY DEF Joined
    <3>1. x \in States(d)
      BY PredecessorsAreStates
    <3> QED BY <1>1, <1>5, <2>4, <2>8, <3>1
  <2> QED BY <2>5, <2>6, <2>7, <2>9 DEF Tokens
<1>8. Fits(d, s, Entering(s, d.initial, None))
  BY <1>4, <1>5, <1>6, <1>7, KeepsSelf, EnteringFits
<1>9. YieldsFit(d, s, Start(d, route, lists))
  BY <1>3, <1>8, DrainedFits
<1> QED BY <1>9 DEF s


-----------------------------------------------------------------------------
(* The run follows its graph, step by step.                                *)

\* From s the run goes to t: t fits the graph, doubts are left alone, and a
\* completed run stays as it is.
Goes(d, s, t) == Fit(d, t) /\ LeavesDoubts(s, t) /\ (s.status = "completed" => t = s)
YieldsNext(d, s, m) == m.ok => Goes(d, s, m.s)

LEMMA GoesNowhere == ASSUME NEW d, NEW s, Fit(d, s) PROVE Goes(d, s, s)
BY DEF Goes, LeavesDoubts

\* Nothing of a completed run is left to settle, to retry or to decide.
LEMMA CompletedIsOver ==
    ASSUME NEW d, NEW s, Fit(d, s), s.status = "completed"
    PROVE  s.active = {} /\ s.pending = <<>> /\ \A c \in Cmds(s) : ~Standing(d, s, c)
<1>1. s.active = {} /\ s.pending = <<>>
  BY DEF Fit, Tokens, Over
<1> QED BY <1>1 DEF Fit, Sound, Current

LEMMA CompletedRefuses ==
    ASSUME NEW d, NEW route, NEW s, Fit(d, s), s.status = "completed", NEW c \in Cmds(s), NEW why,
           NEW lists
    PROVE  /\ ~SettleSuccess(d, route, s, c, lists).ok /\ ~SettleFailure(d, route, s, c, why).ok
           /\ ~Retry(d, s, c).ok /\ ~IssueFallback(d, s, c).ok
           /\ SettleAssistantEffectFailure(s, c, why) = Refused(s)
           /\ CancelUnknown(s, c) = Refused(s)
<1>1. /\ Status(s, c) \notin Open /\ Status(s, c) # "retryable"
      /\ Status(s, c) # "cancel-requested" /\ ~FallbackAdmitted(d, s, c)
  BY CompletedIsOver DEF Standing, Open, Unstarted, FallbackAdmitted, FallbackBase
<1>2. ~Refused(s).ok
  BY DEF Refused, Machine
<1>3. SettleSuccess(d, route, s, c, lists) = Refused(s)
  BY <1>1 DEF SettleSuccess
<1>4. SettleFailure(d, route, s, c, why) = Refused(s)
  BY <1>1 DEF SettleFailure
<1>5. Retry(d, s, c) = Refused(s) /\ IssueFallback(d, s, c) = Refused(s)
  BY <1>1 DEF Retry, IssueFallback
<1>6. SettleAssistantEffectFailure(s, c, why) = Refused(s) /\ CancelUnknown(s, c) = Refused(s)
  BY <1>1 DEF SettleAssistantEffectFailure, CancelUnknown
<1> QED BY <1>2, <1>3, <1>4, <1>5, <1>6

\* A success that brings no list leaves every list as it is.
LEMMA OwnLists ==
    ASSUME NEW d, NEW s, Fit(d, s)
    PROVE  s.lists \in Inputs(d) /\ ~Rewrites(d, s, s.lists)
<1>1. s.lists \in Inputs(d) /\ \A c \in AtWork(d, s) : OnList(d, s, c)
  BY DEF Fit, Sound
<1> QED BY <1>1 DEF Rewrites, OnList, List

\* The events, once more.
LEMMA SuccessGoes ==
    ASSUME NEW d, Compiled(d), NEW route \in Routes(d), NEW s, Snapshot(d, s), Fit(d, s),
           NEW c \in Cmds(s), NEW lists \in Inputs(d), ~Rewrites(d, s, lists)
    PROVE  YieldsNext(d, s, SettleSuccess(d, route, s, c, lists))
<1>1. YieldsFit(d, s, SettleSuccess(d, route, s, c, lists))
  BY SuccessFits
<1> QED BY <1>1, CompletedRefuses DEF YieldsNext, YieldsFit, Goes

LEMMA EventsGo ==
    ASSUME NEW d, Compiled(d), NEW route \in Routes(d), NEW s, Snapshot(d, s), Fit(d, s),
           NEW c \in Cmds(s), NEW why \in Whys
    PROVE  /\ YieldsNext(d, s, SettleSuccess(d, route, s, c, s.lists))
           /\ YieldsNext(d, s, SettleFailure(d, route, s, c, why))
           /\ YieldsNext(d, s, IssueFallback(d, s, c))
<1>1. /\ YieldsFit(d, s, SettleFailure(d, route, s, c, why))
      /\ YieldsFit(d, s, IssueFallback(d, s, c))
  BY FailureFits, FallbackFits
<1>2. YieldsNext(d, s, SettleSuccess(d, route, s, c, s.lists))
  BY OwnLists, SuccessGoes
<1> QED BY <1>1, <1>2, CompletedRefuses DEF YieldsNext, YieldsFit, Goes

LEMMA RetryGoes ==
    ASSUME NEW d, Compiled(d), NEW s, Snapshot(d, s), Fit(d, s), NEW c \in Cmds(s)
    PROVE  YieldsNext(d, s, Retry(d, s, c))
<1>1. YieldsFit(d, s, Retry(d, s, c))
  BY RetryFits
<1> QED BY <1>1, CompletedRefuses DEF YieldsNext, YieldsFit, Goes

LEMMA DecideGoes ==
    ASSUME NEW d, Compiled(d), NEW route \in Routes(d), NEW s, Snapshot(d, s), Fit(d, s),
           s.pending # <<>>, NEW decision \in Decisions
    PROVE  YieldsNext(d, s, Decide(d, route, s, decision))
<1>1. YieldsFit(d, s, Decide(d, route, s, decision))
  BY DecideFits
<1> QED BY <1>1, CompletedIsOver DEF YieldsNext, YieldsFit, Goes

LEMMA FailuresGo ==
    ASSUME NEW d, NEW s, Snapshot(d, s), Fit(d, s)
    PROVE  /\ Goes(d, s, Cancel(s)) /\ Goes(d, s, DriveFailure(s))
           /\ \A c \in Cmds(s) : Goes(d, s, CancelUnknown(s, c).s)
           /\ \A c \in Cmds(s), why \in Whys : Goes(d, s, SettleAssistantEffectFailure(s, c, why).s)
<1>1. s.status = "completed" => Cancel(s) = s /\ DriveFailure(s) = s
  BY DEF Cancel, DriveFailure, AssistantTerminal, Settled
<1>2. Goes(d, s, Cancel(s)) /\ Goes(d, s, DriveFailure(s))
  BY <1>1, CancelFits, DriveFailureFits DEF Goes
<1>3. Refused(s).s = s
  BY DEF Refused, Machine
<1>4. ASSUME NEW c \in Cmds(s) PROVE Goes(d, s, CancelUnknown(s, c).s)
  <2>1. Fit(d, CancelUnknown(s, c).s) /\ LeavesDoubts(s, CancelUnknown(s, c).s)
    BY UnknownFits
  <2>2. s.status = "completed" => CancelUnknown(s, c).s = s
    BY <1>3, CompletedRefuses
  <2> QED BY <2>1, <2>2 DEF Goes
<1>5. ASSUME NEW c \in Cmds(s), NEW why \in Whys
      PROVE  Goes(d, s, SettleAssistantEffectFailure(s, c, why).s)
  <2> DEFINE t == SettleAssistantEffectFailure(s, c, why).s
  <2>1. Fit(d, t) /\ LeavesDoubts(s, t)
    BY AssistantFailureFits
  <2>2. s.status = "completed" => t = s
    BY <1>3, CompletedRefuses
  <2> QED BY <2>1, <2>2 DEF Goes
<1> QED BY <1>2, <1>4, <1>5

\* A command is claimed or started.
LEMMA TakenGoes ==
    ASSUME NEW d, NEW s, Snapshot(d, s), Fit(d, s), NEW c \in Cmds(s), Status(s, c) \in {"pending", "claimed"},
           NEW v \in Held
    PROVE  Goes(d, s, Mark(s, {c}, v))
<1>1. Standing(d, s, c) /\ v \in CommandStatuses /\ Shape(d, s)
  BY DEF Standing, Unstarted, Held, CommandStatuses, Snapshot
<1>2. s.status # "completed"
  BY <1>1, CompletedIsOver
<1>3. Changes(d, s, Mark(s, {c}, v))
  BY <1>1, MarkChanges
<1> QED BY <1>2, <1>3, Changed DEF Goes

-----------------------------------------------------------------------------

RunGoes == Goes(g, run, run')
FitInv == Fit(g, run)

LEMMA InitFits == Init => FitInv
<1> SUFFICES ASSUME Init PROVE FitInv
  OBVIOUS
<1>1. g \in Definitions /\ Compiled(g)
  BY DefinitionsCompile DEF Init
<1>2. PICK route \in Routes(g), lists \in Inputs(g) :
         Start(g, route, lists).ok /\ run = Start(g, route, lists).s
  BY DEF Init
<1>3. YieldsFit(g, EmptySnapshot(g, lists), Start(g, route, lists))
  BY <1>1, StartFits
<1> QED BY <1>2, <1>3 DEF YieldsFit, FitInv

\* A step that leaves the run alone.
LEMMA QuietGoes == ASSUME FitInv, run' = run PROVE RunGoes
BY GoesNowhere DEF FitInv, RunGoes

LEMMA DrivesGoes ==
    ASSUME FitInv, NEW m, YieldsNext(g, run, m), NEW next, Drives(m, next)
    PROVE  RunGoes
<1>1. CASE m.ok BY <1>1 DEF Drives, YieldsNext, RunGoes
<1>2. CASE ~m.ok BY <1>2, QuietGoes DEF Drives
<1> QED BY <1>1, <1>2

\* recover_leased_command: the failure and the retry are one step.
LEMMA RecoveredGoes ==
    ASSUME RunIInv, FitInv, NEW route \in Routes(g), NEW c \in Cmds(run), NEW why \in Whys
    PROVE  YieldsNext(g, run, Recovered(route, c, why))
<1> DEFINE failed == SettleFailure(g, route, run, c, why)
<1>0. Compiled(g) /\ Snapshot(g, run) /\ Fit(g, run)
  BY DefinitionsCompile DEF RunIInv, FitInv
<1>1. Yields(g, run, failed) /\ YieldsNext(g, run, failed)
  BY <1>0, FailureYields, EventsGo
<1>2. Recovered(route, c, why) = IF failed.ok /\ Status(failed.s, c) = "retryable"
                                 THEN Retry(g, failed.s, c) ELSE failed
  BY DEF Recovered
<1>3. failed.ok => run.status # "completed"
  BY <1>0, CompletedRefuses
<1> HIDE DEF failed
<1>4. CASE failed.ok /\ Status(failed.s, c) = "retryable"
  <2>1. /\ Snapshot(g, failed.s) /\ Keeps(run, failed.s) /\ c \in Cmds(failed.s)
        /\ Fit(g, failed.s) /\ LeavesDoubts(run, failed.s)
    BY <1>1, <1>4 DEF Yields, Keeps, YieldsNext, Goes
  <2>2. YieldsFit(g, failed.s, Retry(g, failed.s, c))
    BY <1>0, <2>1, RetryFits
  <2>3. YieldsFit(g, run, Retry(g, failed.s, c))
    BY <2>1, <2>2, LeavesDoubtsOn DEF YieldsFit
  <2> QED BY <1>2, <1>3, <1>4, <2>3 DEF YieldsFit, YieldsNext, Goes
<1>5. CASE ~(failed.ok /\ Status(failed.s, c) = "retryable")
  BY <1>1, <1>2, <1>5
<1> QED BY <1>4, <1>5


\* The steps of the drive that run an event of the reducer, unless an output takes
\* away or changes an item at work.
LEMMA EventGoes ==
    ASSUME RunIInv, FitInv, ~rewritten', NEW route \in Routes(g),
           \/ RecoverLeased(route) \/ Apply(route)
           \/ \E lists \in Inputs(g) : SettleOutcome(route, lists)
    PROVE  RunGoes
<1>0. Compiled(g) /\ Snapshot(g, run) /\ Fit(g, run)
  BY DefinitionsCompile DEF RunIInv, FitInv
<1>1. CASE RecoverLeased(route)
  <2>2. PICK c \in Cmds(run) :
           IF Status(run, c) \in Held
           THEN Drives(Recovered(route, c, IF Status(run, c) = "claimed" \/ c \in reclaim
                                           THEN "transient" ELSE "in-doubt"), pc)
           ELSE UNCHANGED <<run, pc>>
    BY <1>1 DEF RecoverLeased
  <2>3. run' = run \/ \E why \in {"transient", "in-doubt"} : Drives(Recovered(route, c, why), pc)
    BY <2>2
  <2>4. CASE run' = run
    BY <2>4, QuietGoes
  <2>5. CASE \E why \in {"transient", "in-doubt"} : Drives(Recovered(route, c, why), pc)
    <3>1. PICK why \in {"transient", "in-doubt"} : Drives(Recovered(route, c, why), pc)
      BY <2>5
    <3>2. why \in Whys
      BY DEF Whys
    <3>3. YieldsNext(g, run, Recovered(route, c, why))
      BY <3>2, RecoveredGoes
    <3> QED BY <3>1, <3>3, DrivesGoes
  <2> QED BY <2>3, <2>4, <2>5
<1>2. CASE Apply(route)
  <2>2. pc = "apply" /\ Drives(Applied(route, hand), hand.next)
    BY <1>2 DEF Apply
  <2>3. hand.cmd \in Cmds(run) /\ hand.op \in {"grant", "retry", "fallback"}
    BY <2>2 DEF RunIInv, HandOK
  <2>4. YieldsNext(g, run, Applied(route, hand))
    <3>1. None \in Whys
      BY DEF Whys
    <3>2. /\ YieldsNext(g, run, SettleSuccess(g, route, run, hand.cmd, run.lists))
          /\ YieldsNext(g, run, Retry(g, run, hand.cmd))
          /\ YieldsNext(g, run, IssueFallback(g, run, hand.cmd))
      BY <1>0, <2>3, <3>1, EventsGo, RetryGoes
    <3> QED BY <2>3, <3>2 DEF Applied
  <2> QED BY <2>2, <2>4, DrivesGoes
<1>3. CASE \E lists \in Inputs(g) : SettleOutcome(route, lists)
  <2>1. PICK lists \in Inputs(g) : SettleOutcome(route, lists)
    BY <1>3
  <2>2. PICK c \in DOMAIN batch :
           \/ /\ Drives(SettleSuccess(g, route, run, c, lists), "settle")
              /\ SettleSuccess(g, route, run, c, lists).ok => ~Rewrites(g, run, lists)
           \/ \E next : \/ Drives(SettleFailure(g, route, run, c, batch[c]), next)
                        \/ Drives(SettleAssistantEffectFailure(run, c, batch[c]), next)
    BY <2>1 DEF SettleOutcome
  <2>3. c \in Cmds(run) /\ batch[c] \in Whys
    BY DEF RunIInv, DriverOK
  <2>4. /\ YieldsNext(g, run, SettleFailure(g, route, run, c, batch[c]))
        /\ YieldsNext(g, run, SettleAssistantEffectFailure(run, c, batch[c]))
    BY <1>0, <2>3, EventsGo, FailuresGo DEF YieldsNext
  <2>5. CASE /\ Drives(SettleSuccess(g, route, run, c, lists), "settle")
             /\ SettleSuccess(g, route, run, c, lists).ok => ~Rewrites(g, run, lists)
    <3>1. YieldsNext(g, run, SettleSuccess(g, route, run, c, lists))
      <4>1. CASE Rewrites(g, run, lists)
        BY <2>5, <4>1 DEF YieldsNext
      <4>2. CASE ~Rewrites(g, run, lists)
        BY <1>0, <2>3, <4>2, SuccessGoes
      <4> QED BY <4>1, <4>2
    <3> QED BY <2>5, <3>1, DrivesGoes
  <2> QED BY <2>2, <2>4, <2>5, DrivesGoes
<1> QED BY <1>1, <1>2, <1>3

\* The steps of the drive.
LEMMA DriveGoes ==
    ASSUME RunIInv, FitInv, DriveStep, ~rewritten'
    PROVE  RunGoes
<1>0. Compiled(g) /\ Snapshot(g, run) /\ Fit(g, run)
  BY DefinitionsCompile DEF RunIInv, FitInv
<1>1. CASE \/ ReleaseLiveLeases \/ RecoveryEnds \/ Loop \/ ClaimsEnd \/ ExecuteCommand
           \/ EffectsEnd \/ RenewIsRefused \/ SettleEnds \/ AfterFailure
  <2>1. run' = run
    BY <1>1 DEF ReleaseLiveLeases, RecoveryEnds, Loop, ClaimsEnd, ExecuteCommand,
                EffectsEnd, RenewIsRefused, SettleEnds, AfterFailure
  <2> QED BY <2>1, QuietGoes
<1>2. CASE ClaimNextCommand
  <2>1. PICK c \in Claimable : run' = Mark(run, {c}, "claimed")
    BY <1>2 DEF ClaimNextCommand
  <2>2. c \in Cmds(run) /\ Status(run, c) = "pending" /\ "claimed" \in Held
    BY DEF Claimable, WithStatus, Held
  <2> QED BY <1>0, <2>1, <2>2, TakenGoes DEF RunGoes
<1>3. CASE StartCommand
  <2> DEFINE c == hand.cmd
  <2>1. /\ pc = "start"
        /\ Drives(TransitionCommand(run, c, {"pending", "claimed"}, "running"), "claim")
    BY <1>3 DEF StartCommand
  <2>2. c \in Cmds(run) /\ "running" \in Held
    BY <2>1 DEF RunIInv, HandOK, Held
  <2> HIDE DEF c
  <2>3. CASE Status(run, c) \notin {"pending", "claimed"}
    <3>1. run' = run
      BY <2>1, <2>3 DEF Drives, TransitionCommand, Refused, Machine
    <3> QED BY <3>1, QuietGoes
  <2>4. CASE Status(run, c) \in {"pending", "claimed"}
    <3>1. run' = Mark(run, {c}, "running")
      BY <2>1, <2>4 DEF Drives, TransitionCommand, Machine
    <3> QED BY <1>0, <2>2, <2>4, <3>1, TakenGoes DEF RunGoes
  <2> QED BY <2>3, <2>4
<1>4. CASE SettleDriveFailure
  BY <1>0, <1>4, FailuresGo DEF SettleDriveFailure, RunGoes
<1>5. CASE \E route \in Routes(g) : \/ RecoverLeased(route) \/ Apply(route)
                                     \/ \E lists \in Inputs(g) : SettleOutcome(route, lists)
  BY <1>5, EventGoes
<1> QED BY <1>1, <1>2, <1>3, <1>4, <1>5 DEF DriveStep

\* Requests, faults and crashes.
LEMMA RequestGoes ==
    ASSUME RunIInv, FitInv, Request
    PROVE  RunGoes
<1>0. Compiled(g) /\ Snapshot(g, run) /\ Fit(g, run)
  BY DefinitionsCompile DEF RunIInv, FitInv
<1>1. ASSUME NEW m, YieldsNext(g, run, m), Requested(m) PROVE RunGoes
  BY <1>1 DEF Requested, YieldsNext, RunGoes
<1>2. CASE StartAgain \/ ExecuteAgain \/ SetAuthorization
  BY <1>2, QuietGoes DEF StartAgain, ExecuteAgain, SetAuthorization
<1>3. CASE CancelRun
  BY <1>0, <1>3, FailuresGo DEF CancelRun, RunGoes
<1>4. CASE RetryRun
  <2>1. PICK c \in Cmds(run) : Requested(Retry(g, run, c))
    BY <1>4 DEF RetryRun, WithStatus
  <2> QED BY <1>0, <1>1, <2>1, RetryGoes
<1>5. CASE \E route \in Routes(g) : ResumeRun(route)
  <2>1. PICK route \in Routes(g) : ResumeRun(route)
    BY <1>5
  <2>2. PICK c \in Cmds(run) :
           Requested(SettleSuccess(g, route, run, c, run.lists)) \/ Requested(Retry(g, run, c))
    BY <2>1 DEF ResumeRun, WithStatus, PendingAuthorization
  <2>3. None \in Whys
    BY DEF Whys
  <2>4. /\ YieldsNext(g, run, SettleSuccess(g, route, run, c, run.lists))
        /\ YieldsNext(g, run, Retry(g, run, c))
    BY <1>0, <2>3, EventsGo, RetryGoes
  <2> QED BY <1>1, <2>2, <2>4
<1>6. CASE \E route \in Routes(g), decision \in Decisions : DecideCallback(route, decision)
  <2>1. PICK route \in Routes(g), decision \in Decisions : DecideCallback(route, decision)
    BY <1>6
  <2>2. run.pending # <<>> /\ Requested(Decide(g, route, run, decision))
    BY <2>1 DEF DecideCallback
  <2> QED BY <1>0, <1>1, <2>2, DecideGoes
<1> QED BY <1>2, <1>3, <1>4, <1>5, <1>6 DEF Request

LEMMA NextGoes ==
    ASSUME RunIInv, FitInv, [Next]_vars, ~rewritten'
    PROVE  RunGoes /\ g' = g
<1>0. Snapshot(g, run) /\ Fit(g, run)
  BY DEF RunIInv, FitInv
<1>1. CASE \/ StartDrive \/ WaitForAssistantTerminal \/ EngineIsFull \/ DriveErrs
           \/ Crash \/ LeaseExpires \/ UNCHANGED vars
  <2>1. run' = run
    BY <1>1 DEF StartDrive, WaitForAssistantTerminal, EngineIsFull, DriveErrs, Crash,
                LeaseExpires, vars
  <2> QED BY <1>1, <2>1, QuietGoes
             DEF StartDrive, WaitForAssistantTerminal, EngineIsFull, DriveErrs, Crash,
                 LeaseExpires, vars
<1>2. CASE CancelRest
  <2>1. PICK c \in owed : run' = CancelUnknown(run, c).s
    BY <1>2 DEF CancelRest
  <2>2. c \in Cmds(run)
    BY DEF RunIInv, DriverOK
  <2> QED BY <1>0, <1>2, <2>1, <2>2, FailuresGo DEF RunGoes, CancelRest
<1>3. CASE SettleStartFailure
  <2>1. \/ \E c \in Cmds(run) : run' = SettleAssistantEffectFailure(run, c, "transient").s
        \/ run' = DriveFailure(run)
    BY <1>3 DEF SettleStartFailure, WithStatus
  <2>2. "transient" \in Whys
    BY DEF Whys
  <2> QED BY <1>0, <1>3, <2>1, <2>2, FailuresGo DEF RunGoes, SettleStartFailure
<1>4. CASE DriveStep
  <2>1. g' = g
    BY <1>4 DEF DriveStep, ReleaseLiveLeases, RecoveryEnds, Loop, ClaimNextCommand, ClaimsEnd,
                StartCommand, ExecuteCommand, EffectsEnd, RenewIsRefused, SettleEnds,
                AfterFailure, SettleDriveFailure, RecoverLeased, Apply, SettleOutcome
  <2> QED BY <1>4, <2>1, DriveGoes
<1>5. CASE Request
  <2>1. g' = g
    BY <1>5 DEF Request, StartAgain, RetryRun, ExecuteAgain, CancelRun, SetAuthorization,
                ResumeRun, DecideCallback
  <2> QED BY <1>5, <2>1, RequestGoes
<1> QED BY <1>1, <1>2, <1>3, <1>4, <1>5 DEF Next

\* What has been rewritten stays so: only SettleOutcome says anything of it.
LEMMA RewrittenStays == [Next]_vars /\ rewritten => rewritten'
<1> SUFFICES ASSUME [Next]_vars, rewritten PROVE rewritten'
  OBVIOUS
<1>1. CASE \/ StartDrive \/ WaitForAssistantTerminal \/ EngineIsFull \/ DriveErrs
           \/ Crash \/ LeaseExpires \/ CancelRest \/ SettleStartFailure \/ UNCHANGED vars
  BY <1>1 DEF StartDrive, WaitForAssistantTerminal, EngineIsFull, DriveErrs, Crash,
              LeaseExpires, CancelRest, SettleStartFailure, vars
<1>2. CASE DriveStep
  <2>1. CASE \E route \in Routes(g), lists \in Inputs(g) : SettleOutcome(route, lists)
    BY <2>1 DEF SettleOutcome
  <2>2. CASE \E route \in Routes(g) : RecoverLeased(route) \/ Apply(route)
    BY <2>2 DEF RecoverLeased, Apply
  <2>3. CASE \/ ReleaseLiveLeases \/ RecoveryEnds \/ Loop \/ ClaimNextCommand \/ ClaimsEnd
             \/ StartCommand \/ ExecuteCommand \/ EffectsEnd \/ RenewIsRefused \/ SettleEnds
             \/ AfterFailure \/ SettleDriveFailure
    BY <2>3 DEF ReleaseLiveLeases, RecoveryEnds, Loop, ClaimNextCommand, ClaimsEnd,
                StartCommand, ExecuteCommand, EffectsEnd, RenewIsRefused, SettleEnds,
                AfterFailure, SettleDriveFailure
  <2> QED BY <1>2, <2>1, <2>2, <2>3 DEF DriveStep
<1>3. CASE Request
  BY <1>3 DEF Request, StartAgain, RetryRun, ExecuteAgain, CancelRun, SetAuthorization,
              ResumeRun, DecideCallback
<1> QED BY <1>1, <1>2, <1>3 DEF Next

LEMMA FitHolds == Spec => [](RunIInv /\ (rewritten \/ FitInv))
<1>1. RunIInv /\ (rewritten \/ FitInv) /\ [Next]_vars => (RunIInv /\ (rewritten \/ FitInv))'
  <2> SUFFICES ASSUME RunIInv, rewritten \/ FitInv, [Next]_vars
               PROVE  RunIInv' /\ (rewritten' \/ FitInv')
    OBVIOUS
  <2>1. RunIInv'
    BY NextKept
  <2>2. CASE rewritten \/ rewritten'
    BY <2>1, <2>2, RewrittenStays
  <2>3. CASE FitInv /\ ~rewritten'
    <3>1. RunGoes /\ g' = g
      BY <2>3, NextGoes
    <3> QED BY <2>1, <3>1 DEF RunGoes, Goes, FitInv
  <2> QED BY <2>2, <2>3
<1>2. Init => RunIInv /\ (rewritten \/ FitInv)
  BY InitInv, InitFits
<1> QED BY <1>1, <1>2, PTL DEF Spec

\* Of one lineage there are never more commands than maxAttempts, and one at most
\* is open or waits for a retry or a fallback: for every compiled graph, however
\* effects fail, leases are lost, hosts crash and users retry, and whatever lists
\* outputs bring, until one takes away or changes an item at work.
THEOREM LineagesStayWithinBudget == Spec => []LineagesInv
<1>1. rewritten \/ FitInv => LineagesInv
  <2> SUFFICES ASSUME FitInv PROVE AttemptBudget /\ OneLiveAttempt
    BY DEF LineagesInv
  <2>0. Budget(g, run) /\ Single(g, run)
    BY DEF FitInv, Fit, Sound
  <2>1. AttemptBudget
    BY <2>0 DEF AttemptBudget, Budget, OfLineage
  <2>2. \A c \in Cmds(run) : Pursued(c) => Counts(g, run, c)
    BY DEF Pursued, Counts, Standing, FallbackBase, CanFallBack
  <2>3. OneLiveAttempt
    BY <2>0, <2>2 DEF OneLiveAttempt, Single
  <2> QED BY <2>1, <2>3
<1> QED BY <1>1, FitHolds, PTL

\* No join is passed before every branch into it has been left in the same visit,
\* no workset item is issued before its predecessors have succeeded, and no
\* workset is left with a command of its visit still open: for every graph that
\* compile_workflow accepts, in every order in which its branches and items
\* succeed, fail, are retried, fall back, are cancelled and are decided upon, and
\* with every list that outputs put in place of the present ones, added items and
\* lists without a ready item included, until one of them takes away or changes an
\* item that the present visit has already issued.
THEOREM RunsFollowTheGraph == Spec => []GraphIsFollowed
<1>1. RunIInv /\ (rewritten \/ FitInv) => GraphIsFollowed
  <2> SUFFICES ASSUME RunIInv, FitInv
               PROVE  JoinWaitsForAll /\ WorksetInOrder /\ WorksetSettles
    BY DEF GraphIsFollowed
  <2>0. Compiled(g) /\ Joined(g, run, <<>>) /\ Current(g, run)
        /\ \A c \in AtWork(g, run) : OnList(g, run, c)
    BY DefinitionsCompile DEF RunIInv, FitInv, Fit, Tokens, Sound
  <2>1. JoinWaitsForAll
    <3> SUFFICES ASSUME NEW st \in States(g), g.kind[st] = "join", NEW p \in Predecessors(g, st)
                 PROVE  /\ run.visits[st] <= run.visits[p]
                        /\ run.visits[st] = run.visits[p] => p \notin run.active
      BY DEF JoinWaitsForAll
    <3>1. /\ run.visits[st] <= run.visits[p]
          /\ p \in run.active => run.visits[st] < run.visits[p]
      BY <2>0 DEF Joined, Still
    <3>2. run.visits[st] \in Nat /\ run.visits[p] \in Nat
      BY <2>0, PredecessorsAreStates DEF RunIInv, Snapshot, Shape
    <3> QED BY <3>1, <3>2
  <2>2. WorksetInOrder
    BY <2>0 DEF WorksetInOrder, OnList
  <2>3. WorksetSettles
    BY <2>0 DEF WorksetSettles, VisitUnsettled, VisitCommands, VisitOf, FallbackBase,
                Current, Standing
  <2> QED BY <2>1, <2>2, <2>3
<1> QED BY <1>1, FitHolds, PTL

\* A command in doubt stays in doubt and its lineage gets no further attempt, and
\* nothing changes a completed run, for every compiled graph: neither a late
\* outcome nor a recovery, a retry, a decision or a cancellation, until an output
\* takes away or changes an item at work and with it what the run waits for.
THEOREM SettledRunsStaySettled == Spec => SettledStays
<1> DEFINE Holds == /\ \A c \in Cmds(run) : Status(run, c) = "in-doubt" =>
                         /\ Status(run', c) = "in-doubt"
                         /\ {d \in Cmds(run') : Lineage(d) = Lineage(c)} \subseteq Cmds(run)
                    /\ run.status = "completed" => run' = run
<1>1. RunIInv /\ (rewritten \/ FitInv) /\ [Next]_vars => [~rewritten' => Holds]_vars
  <2> SUFFICES ASSUME RunIInv, rewritten \/ FitInv, [Next]_vars, ~rewritten'
               PROVE  Holds
    OBVIOUS
  <2>0. FitInv
    BY RewrittenStays
  <2>1. OutcomesKept
    BY NextKept
  <2>2. LeavesDoubts(run, run') /\ (run.status = "completed" => run' = run)
    BY <2>0, NextGoes DEF RunGoes, Goes
  <2>3. ASSUME NEW c \in Cmds(run), Status(run, c) = "in-doubt"
        PROVE  /\ Status(run', c) = "in-doubt"
               /\ {d \in Cmds(run') : Lineage(d) = Lineage(c)} \subseteq Cmds(run)
    <3>1. Status(run', c) = "in-doubt"
      BY <2>1, <2>3 DEF OutcomesKept, Final
    <3>2. \A b \in Cmds(run') \ Cmds(run) : Lineage(b) # Lineage(c)
      BY <2>2, <2>3 DEF LeavesDoubts
    <3> QED BY <3>1, <3>2
  <2> QED BY <2>2, <2>3
<1> QED BY <1>1, FitHolds, PTL DEF Spec, SettledStays

=============================================================================
