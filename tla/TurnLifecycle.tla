--------------------------- MODULE TurnLifecycle ---------------------------
(***************************************************************************)
(* The canonical lifecycle of a Membership-scoped turn, TurnState and      *)
(* TurnEvent of licoup-conversation/src/state_machine/mod.rs, and the      *)
(* abstract specification it promises to every other component: a turn is  *)
(* created pending, moves only along the transition relation, never leaves *)
(* a terminal state, and is forgotten only once it is terminal.            *)
(* DirectTurns.tla shows that the Conversation store implements it.        *)
(***************************************************************************)
CONSTANT Turns     \* identities of the turns that may ever exist

VARIABLE turn      \* the state of every turn

NoTurn == "none"   \* not stored: not created yet, or deleted with its history

TurnStates == {"pending", "claimed", "running", "waiting-for-human",
               "succeeded", "failed", "interrupted", "cancelled"}

TurnEvents == {"Claim", "Start", "WaitForHuman", "Resume",
               "Succeed", "Fail", "Interrupt", "Cancel"}

TerminalTurn == {"succeeded", "failed", "interrupted", "cancelled"}

OpenTurn == TurnStates \ TerminalTurn

\* The accepted events of the open states.  Every other pair of an open state
\* and an event is a TransitionError, which leaves the state alone.
TurnEdges ==
    {<<"pending", "Claim", "claimed">>,
     <<"pending", "Start", "running">>,
     <<"claimed", "Start", "running">>,
     <<"running", "WaitForHuman", "waiting-for-human">>,
     <<"waiting-for-human", "Resume", "running">>,
     <<"running", "Succeed", "succeeded">>}
    \cup {<<s, "Fail", "failed">> : s \in OpenTurn}
    \cup {<<s, "Interrupt", "interrupted">> : s \in OpenTurn}
    \cup {<<s, "Cancel", "cancelled">> : s \in OpenTurn}

\* TurnState::transition: the state after an event, a terminal one absorbing all.
Transition(s, e, t) == IF s \in TerminalTurn THEN t = s ELSE <<s, e, t>> \in TurnEdges

TypeOK == turn \in [Turns -> TurnStates \cup {NoTurn}]

Init == turn = [t \in Turns |-> NoTurn]

\* One transaction may create, advance or forget any number of turns.
Create(S) ==
    /\ \A t \in S : turn[t] = NoTurn
    /\ turn' = [t \in Turns |-> IF t \in S THEN "pending" ELSE turn[t]]

Apply(S, e) ==
    /\ turn' \in [Turns -> TurnStates \cup {NoTurn}]
    /\ \A t \in S : turn[t] \in TurnStates /\ Transition(turn[t], e, turn'[t])
    /\ \A t \in Turns \ S : turn'[t] = turn[t]

Forget(S) ==
    /\ \A t \in S : turn[t] \in TerminalTurn
    /\ turn' = [t \in Turns |-> IF t \in S THEN NoTurn ELSE turn[t]]

Next == \E S \in SUBSET Turns :
            \/ Create(S)
            \/ \E e \in TurnEvents : Apply(S, e)
            \/ Forget(S)

Spec == Init /\ [][Next]_turn
=============================================================================
