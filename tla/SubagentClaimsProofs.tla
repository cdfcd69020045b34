------------------------ MODULE SubagentClaimsProofs ------------------------
(***************************************************************************)
(* Theorems about SubagentClaims, for any number of members, calls, claims *)
(* and mishaps.  ClaimsAgree depends on which requests may still be on the *)
(* wire, OneSignal on what is left of a claim after the host has forgotten *)
(* which callbacks it fired.                                               *)
(***************************************************************************)
EXTENDS SubagentClaims, TLAPS

Messages == [call : Calls, req : Requests, checked : BOOLEAN]

\* Requests about a claim, which name one that exists or existed.
OnClaim == {"send", "cancel"} \cup ClaimStates

RequestKnows(r) ==
    r.step \in OnClaim => r.id \in Ids /\ claim[r.id].state # "none"

\* A turn that may still be started has no outcome, and its claim neither; a
\* call reports a failure only when it knows that no turn was started.
MessageKnows(m) ==
    /\ RequestKnows(m.req)
    /\ m.req.step = "send" /\ ~m.checked =>
        dispatch[m.req.id] = "none" /\ claim[m.req.id].state \notin Outcomes
    /\ m.req.step \in Outcomes =>
        /\ m.req.step = "failed" /\ dispatch[m.req.id] = "none"
        /\ \A n \in wire : n.req.step = "send" => n.req.id # m.req.id

\* The turn of a claim is requested once.
SendsAreUnique ==
    \A m, n \in wire :
        m.req.step = "send" /\ n.req.step = "send" /\ m.req.id = n.req.id => m = n

ClaimsInv ==
    /\ TypeOK /\ ClaimTellsOutcome
    /\ \A d \in Ids : dispatch[d] # "none" => claim[d].state # "none"
    /\ \A c \in Calls : RequestKnows(call[c])
    /\ \A m \in wire : MessageKnows(m)
    /\ SendsAreUnique

-----------------------------------------------------------------------------

\* Whatever the host keeps for a claim belongs to a turn that was started.
Busy(d) ==
    \/ d \in live \cup watchdog \cup fired
    \/ \E w \in {"turn", "timer"} : notice[<<w, d>>] # "none"
    \/ claim[d].deadline

\* After a crash nothing is left that could signal the caller again.
Quiet(d) ==
    /\ d \notin watchdog /\ \A w \in {"turn", "timer"} : notice[<<w, d>>] = "none"
    /\ dispatch[d] # "none" /\ (up => dispatch[d] # "open")

SignalKnows(d) ==
    /\ Busy(d) => dispatch[d] # "none"
    /\ dispatch[d] = "gone" => claim[d].state = "gone"
    /\ ~up => d \notin live /\ d \notin watchdog
                 /\ \A w \in {"turn", "timer"} : notice[<<w, d>>] = "none"
    /\ signals[d] \in {0, 1}
    /\ signals[d] = 1 => d \in fired \/ Quiet(d)

SignalInv == \A d \in Ids : SignalKnows(d)

-----------------------------------------------------------------------------
(* Claims, requests and messages as records.                               *)

LEMMA RequestFields ==
    ASSUME NEW s \in Steps, NEW a \in Members \cup {None}, NEW b \in Members \cup {None},
           NEW p \in Ids \cup {None}, NEW d \in Ids \cup {None}
    PROVE  LET r == [step |-> s, caller |-> a, target |-> b, parent |-> p, id |-> d]
           IN  r \in Requests /\ r.step = s /\ r.id = d
BY DEF Requests

LEMMA IdleIsRequest == Idle \in Requests /\ Idle.step = "idle" /\ "idle" \notin OnClaim
<1>1. "idle" \in Steps BY DEF Steps
<1> QED
  BY <1>1 DEF Idle, Requests, OnClaim, ClaimStates, OpenStates, Outcomes

LEMMA FindIsRequest ==
    ASSUME NEW a, NEW b
    PROVE  [Idle EXCEPT !.step = "find", !.caller = a, !.target = b]
             = [step |-> "find", caller |-> a, target |-> b, parent |-> None, id |-> None]
<1> DEFINE i == [step |-> "find", caller |-> None, target |-> None, parent |-> None, id |-> None]
           j == [step |-> "find", caller |-> a, target |-> None, parent |-> None, id |-> None]
<1>1. [Idle EXCEPT !.step = "find"] = i BY DEF Idle
<1>2. [i EXCEPT !.caller = a] = j OBVIOUS
<1>3. [j EXCEPT !.target = b]
        = [step |-> "find", caller |-> a, target |-> b, parent |-> None, id |-> None]
  OBVIOUS
<1>4. [Idle EXCEPT !.step = "find", !.caller = a, !.target = b]
        = [[[Idle EXCEPT !.step = "find"] EXCEPT !.caller = a] EXCEPT !.target = b]
  OBVIOUS
<1> HIDE DEF i, j
<1> QED BY <1>1, <1>2, <1>3, <1>4

LEMMA OnIsRequest ==
    ASSUME NEW d \in Ids \cup {None}, NEW s \in Steps
    PROVE  /\ On(d, s) \in Requests
           /\ On(d, s) # Idle => On(d, s).step = s /\ On(d, s).id = d /\ s # "idle"
           /\ On(d, s).step \in OnClaim => On(d, s).step = s /\ On(d, s).id = d
<1>1. CASE s = "idle"
  BY <1>1, IdleIsRequest DEF On
<1>2. CASE s # "idle"
  <2> DEFINE r == [step |-> s, caller |-> None, target |-> None, parent |-> None, id |-> d]
  <2>1. On(d, s) = r BY <1>2 DEF On, Idle
  <2>2. r \in Requests /\ r.step = s /\ r.id = d BY RequestFields
  <2> HIDE DEF r
  <2> QED BY <1>2, <2>1, <2>2
<1> QED BY <1>1, <1>2

LEMMA CheckedMessage ==
    ASSUME NEW m \in Messages
    PROVE  LET n == [m EXCEPT !.checked = TRUE]
           IN  n \in Messages /\ n.call = m.call /\ n.req = m.req /\ n.checked
BY DEF Messages

LEMMA NewMessage ==
    ASSUME NEW c \in Calls, NEW r \in Requests
    PROVE  LET n == [call |-> c, req |-> r, checked |-> FALSE]
           IN  n \in Messages /\ n.call = c /\ n.req = r /\ ~n.checked
BY DEF Messages

LEMMA ClaimMoves ==
    ASSUME NEW k \in Claims, NEW s \in ClaimStates \cup {"none", "gone"}
    PROVE  /\ [k EXCEPT !.state = s] \in Claims
           /\ [k EXCEPT !.state = s].state = s
           /\ [k EXCEPT !.state = s].deadline = k.deadline
           /\ [k EXCEPT !.state = s].caller = k.caller
           /\ [k EXCEPT !.state = s].target = k.target
BY DEF Claims

LEMMA DeadlineMoves ==
    ASSUME NEW k \in Claims, NEW b \in BOOLEAN
    PROVE  /\ [k EXCEPT !.deadline = b] \in Claims
           /\ [k EXCEPT !.deadline = b].state = k.state
           /\ [k EXCEPT !.deadline = b].deadline = b
           /\ [k EXCEPT !.deadline = b].target = k.target
BY DEF Claims

-----------------------------------------------------------------------------
(* How requests come and go.                                               *)

\* An answer takes its request off the wire; the call that waited for it may
\* send its next one.
LEMMA AnswerEffect ==
    ASSUME TypeOK, NEW m \in wire, NEW r \in Requests, Answer(m, r)
    PROVE  LET n == [call |-> m.call, req |-> r, checked |-> FALSE]
           IN  /\ wire' \subseteq (wire \ {m}) \cup {n}
               /\ n \in wire' => n \in wire \ {m} \/ r # Idle
               /\ wire' \subseteq Messages
               /\ call' \in [Calls -> Requests]
               /\ \A c \in Calls : call'[c] \in {call[c], r}
<1>1. m \in Messages /\ m.call \in Calls /\ wire \subseteq Messages BY DEF TypeOK, Messages
<1> DEFINE n == [call |-> m.call, req |-> r, checked |-> FALSE]
<1>2. n \in Messages BY <1>1, NewMessage
<1> HIDE DEF n
<1>3. wire' \subseteq (wire \ {m}) \cup {n} /\ (n \in wire' => n \in wire \ {m} \/ r # Idle)
  BY DEF Answer, Proceed, n
<1>4. call' \in [Calls -> Requests] /\ \A c \in Calls : call'[c] \in {call[c], r}
  BY <1>1 DEF Answer, Proceed, TypeOK
<1> QED BY <1>1, <1>2, <1>3, <1>4 DEF n

\* The steps of the store that a request on the wire may live through.
Calm(d) ==
    dispatch[d] = "none" =>
        /\ dispatch'[d] = "none"
        /\ claim'[d].state \in Outcomes => claim[d].state \in Outcomes

Undisturbed(r) ==
    /\ r.step = "send" => Calm(r.id)
    /\ r.step \in Outcomes => (dispatch[r.id] = "none" => dispatch'[r.id] = "none")

ClaimsStay == \A d \in Ids : claim[d].state # "none" => claim'[d].state # "none"

\* The requests that stay on the wire keep what they rely on when the store is
\* calm under them; one more may come.
LEMMA RequestsKnow ==
    ASSUME ClaimsInv, NEW W \in SUBSET wire, NEW n,
           wire' \subseteq W \cup {n}, ClaimsStay,
           \A o \in W : Undisturbed(o.req),
           n \in wire' =>
             \/ n \in W
             \/ /\ RequestKnows(n.req)'
                /\ n.req.step = "send" =>
                     /\ \A o \in W : o.req.step \in {"send"} \cup Outcomes => o.req.id # n.req.id
                     /\ ~n.checked => /\ dispatch'[n.req.id] = "none"
                                      /\ claim'[n.req.id].state \notin Outcomes
                /\ n.req.step \in Outcomes =>
                     /\ n.req.step = "failed" /\ dispatch'[n.req.id] = "none"
                     /\ \A o \in W : o.req.step = "send" => o.req.id # n.req.id
    PROVE  (\A m \in wire' : MessageKnows(m)') /\ SendsAreUnique'
<1>0. "send" \notin Outcomes BY DEF Outcomes
<1>1. "send" \in OnClaim /\ Outcomes \subseteq OnClaim BY DEF OnClaim, ClaimStates
<1>2. ASSUME NEW o \in W PROVE /\ MessageKnows(o) /\ o \in wire
                               /\ RequestKnows(o.req)'
                               /\ o.req.step = "send" /\ ~o.checked =>
                                    /\ dispatch'[o.req.id] = "none"
                                    /\ claim'[o.req.id].state \notin Outcomes
                               /\ o.req.step \in Outcomes => dispatch'[o.req.id] = "none"
  <2>1. o \in wire /\ MessageKnows(o) BY DEF ClaimsInv
  <2>2. RequestKnows(o.req)' BY <2>1 DEF MessageKnows, RequestKnows, ClaimsStay
  <2>3. o.req.step = "send" /\ ~o.checked => /\ dispatch'[o.req.id] = "none"
                                             /\ claim'[o.req.id].state \notin Outcomes
    BY <2>1 DEF MessageKnows, Undisturbed, Calm
  <2>4. o.req.step \in Outcomes => dispatch'[o.req.id] = "none"
    BY <2>1 DEF MessageKnows, Undisturbed, Calm
  <2> QED BY <2>1, <2>2, <2>3, <2>4
<1>3. ASSUME NEW m \in wire' PROVE MessageKnows(m)'
  <2>1. CASE m \in W
    <3>1. ASSUME m.req.step \in Outcomes, NEW o \in wire', o.req.step = "send"
          PROVE  o.req.id # m.req.id
      <4>1. CASE o \in W BY <1>2, <2>1, <3>1, <4>1 DEF MessageKnows
      <4>2. CASE o \notin W BY <2>1, <3>1, <4>2
      <4> QED BY <4>1, <4>2
    <3> QED BY <1>2, <2>1, <3>1 DEF MessageKnows
  <2>2. CASE m \notin W
    <3>1. m = n /\ n \in wire' BY <2>2
    <3>2. ASSUME m.req.step \in Outcomes, NEW o \in wire', o.req.step = "send"
          PROVE  o.req.id # m.req.id
      BY <1>0, <2>2, <3>1, <3>2
    <3> QED BY <1>0, <2>2, <3>1, <3>2 DEF MessageKnows
  <2> QED BY <2>1, <2>2
<1>4. SendsAreUnique'
  <2> SUFFICES ASSUME NEW m \in wire', NEW o \in wire',
                      m.req.step = "send", o.req.step = "send", m.req.id = o.req.id
               PROVE  m = o
    BY DEF SendsAreUnique
  <2>1. CASE m \in W /\ o \in W BY <2>1 DEF ClaimsInv, SendsAreUnique
  <2>2. CASE m \notin W \/ o \notin W BY <2>2
  <2> QED BY <2>1, <2>2
<1> QED BY <1>3, <1>4

-----------------------------------------------------------------------------
(* The invariant by parts: the store, the host and the calls.              *)

StoreKnows ==
    /\ member \subseteq Members
    /\ claim \in [Ids -> Claims]
    /\ dispatch \in [Ids -> Outcomes \cup {"none", "open", "gone"}]
    /\ ClaimTellsOutcome
    /\ \A d \in Ids : dispatch[d] # "none" => claim[d].state # "none"

HostTypes ==
    /\ up \in BOOLEAN
    /\ live \subseteq Ids /\ watchdog \subseteq Ids /\ fired \subseteq Ids
    /\ notice \in [{"turn", "timer"} \X Ids -> {"none", "read", "fire"}]
    /\ signals \in [Ids -> Nat]
    /\ count \in [Mishaps -> Nat]

CallsKnow ==
    /\ call \in [Calls -> Requests] /\ wire \subseteq Messages
    /\ \A c \in Calls : RequestKnows(call[c])
    /\ \A m \in wire : MessageKnows(m)
    /\ SendsAreUnique

LEMMA ClaimsInvParts == ClaimsInv <=> StoreKnows /\ HostTypes /\ CallsKnow
BY DEF ClaimsInv, TypeOK, StoreKnows, HostTypes, CallsKnow, Messages

LEMMA ClaimsInvPartsNext == ClaimsInv' <=> StoreKnows' /\ HostTypes' /\ CallsKnow'
BY DEF ClaimsInv, TypeOK, StoreKnows, HostTypes, CallsKnow, Messages

LEMMA InitClaims == Init => ClaimsInv
<1> SUFFICES ASSUME Init PROVE ClaimsInv OBVIOUS
<1>1. StoreKnows
  <2> DEFINE k == [state |-> "none", caller |-> None, target |-> None, parent |-> None,
                   depth |-> 0, deadline |-> FALSE]
  <2>1. k \in Claims BY ClaimsAssumption DEF Claims
  <2>2. k.state = "none" OBVIOUS
  <2>3. claim = [d \in Ids |-> k] BY DEF Init
  <2> HIDE DEF k
  <2>4. claim \in [Ids -> Claims] /\ \A d \in Ids : claim[d].state = "none" BY <2>1, <2>2, <2>3
  <2> QED BY <2>4 DEF Init, StoreKnows, ClaimTellsOutcome, Outcomes
<1>2. HostTypes BY DEF Init, HostTypes
<1>3. CallsKnow
  <2>1. \A c \in Calls : call[c] = Idle BY DEF Init
  <2>2. call \in [Calls -> Requests] BY IdleIsRequest DEF Init
  <2> QED BY <2>1, <2>2, IdleIsRequest DEF Init, CallsKnow, RequestKnows, SendsAreUnique
<1> QED BY <1>1, <1>2, <1>3, ClaimsInvParts

\* Calls after an answer to m, when the store is calm under the other requests.
LEMMA AnswerKeepsCalls ==
    ASSUME ClaimsInv, NEW m \in wire, NEW r \in Requests, Answer(m, r), ClaimsStay,
           \A o \in wire \ {m} : Undisturbed(o.req),
           RequestKnows(r)',
           r.step = "send" =>
             /\ \A o \in wire : o.req.step \in {"send"} \cup Outcomes => o.req.id # r.id
             /\ dispatch'[r.id] = "none" /\ claim'[r.id].state \notin Outcomes,
           r.step \in Outcomes =>
             /\ r.step = "failed" /\ dispatch'[r.id] = "none"
             /\ \A o \in wire \ {m} : o.req.step = "send" => o.req.id # r.id
    PROVE  CallsKnow'
<1>1. TypeOK BY DEF ClaimsInv
<1>2. m.call \in Calls BY <1>1 DEF TypeOK
<1> DEFINE n == [call |-> m.call, req |-> r, checked |-> FALSE]
<1>3. n.req = r /\ ~n.checked BY <1>2, NewMessage
<1>4. /\ wire' \subseteq (wire \ {m}) \cup {n}
      /\ wire' \subseteq Messages
      /\ call' \in [Calls -> Requests]
      /\ \A c \in Calls : call'[c] \in {call[c], r}
  BY <1>1, AnswerEffect
<1> HIDE DEF n
<1>5. (\A o \in wire' : MessageKnows(o)') /\ SendsAreUnique'
  <2> DEFINE W == wire \ {m}
  <2>1. W \in SUBSET wire OBVIOUS
  <2>2. \A o \in W : o \in wire OBVIOUS
  <2> HIDE DEF W
  <2>3. wire' \subseteq W \cup {n} BY <1>4 DEF W
  <2>4. \A o \in W : Undisturbed(o.req) BY DEF W
  <2>5. r.step \in Outcomes => \A o \in W : o.req.step = "send" => o.req.id # r.id BY DEF W
  <2> QED BY <1>3, <2>1, <2>2, <2>3, <2>4, <2>5, RequestsKnow
<1>6. ASSUME NEW c \in Calls PROVE RequestKnows(call[c])'
  <2>1. RequestKnows(call[c]) BY DEF ClaimsInv
  <2> QED BY <1>4, <2>1 DEF RequestKnows, ClaimsStay
<1> QED BY <1>4, <1>5, <1>6 DEF CallsKnow

-----------------------------------------------------------------------------
(* What the operations of the store do to claims.                          *)

\* reconcile_subagent_claims only settles claims whose turn is settled.
LEMMA ReconciledKnows ==
    ASSUME StoreKnows
    PROVE  /\ Reconciled \in [Ids -> Claims]
           /\ \A d \in Ids :
                /\ Reconciled[d].state = "none" <=> claim[d].state = "none"
                /\ dispatch[d] \in {"none", "gone"} => Reconciled[d] = claim[d]
                /\ Reconciled[d].state \in Outcomes => dispatch[d] \in {"none", Reconciled[d].state}
                /\ Reconciled[d].deadline = claim[d].deadline
                /\ Reconciled[d].target = claim[d].target
<1>1. ASSUME NEW d \in Ids
      PROVE  /\ Reconciled[d] \in Claims
             /\ Reconciled[d].state = "none" <=> claim[d].state = "none"
             /\ dispatch[d] \in {"none", "gone"} => Reconciled[d] = claim[d]
             /\ Reconciled[d].state \in Outcomes => dispatch[d] \in {"none", Reconciled[d].state}
             /\ Reconciled[d].deadline = claim[d].deadline
             /\ Reconciled[d].target = claim[d].target
  <2>1. claim[d] \in Claims BY DEF StoreKnows
  <2>2. CASE Open(d) /\ dispatch[d] \in Outcomes \cup {"open"}
    <3> DEFINE s == IF dispatch[d] = "open" THEN "running" ELSE dispatch[d]
    <3>1. Reconciled[d] = [claim[d] EXCEPT !.state = s] BY <2>2 DEF Reconciled
    <3>2. s \in ClaimStates /\ s # "none" /\ (s \in Outcomes => dispatch[d] = s)
      BY <2>2 DEF ClaimStates, OpenStates, Outcomes
    <3>3. claim[d].state # "none" BY <2>2 DEF Open, OpenStates
    <3>4. dispatch[d] \notin {"none", "gone"} BY <2>2 DEF Outcomes
    <3> HIDE DEF s
    <3> QED BY <2>1, <3>1, <3>2, <3>3, <3>4, ClaimMoves
  <2>3. CASE ~(Open(d) /\ dispatch[d] \in Outcomes \cup {"open"})
    <3>1. Reconciled[d] = claim[d] BY <2>3 DEF Reconciled
    <3> QED BY <2>1, <3>1 DEF StoreKnows, ClaimTellsOutcome
  <2> QED BY <2>2, <2>3
<1>2. Reconciled \in [Ids -> Claims] BY <1>1 DEF Reconciled
<1> QED BY <1>1, <1>2

\* cold_recover leaves no dispatch open and no claim open whose turn was started.
LEMMA ColdRecoverKnows ==
    ASSUME StoreKnows, ColdRecover, member' = member
    PROVE  /\ StoreKnows' /\ ClaimsStay
           /\ \A d \in Ids :
                /\ Calm(d)
                /\ dispatch'[d] # "open"
                /\ dispatch'[d] = "none" <=> dispatch[d] = "none"
                /\ dispatch'[d] = "gone" <=> dispatch[d] = "gone"
                /\ dispatch[d] \in {"none", "gone"} => claim'[d] = claim[d]
                /\ dispatch'[d] \in Outcomes => claim'[d].state \notin OpenStates
                /\ claim'[d].deadline = claim[d].deadline
                /\ claim'[d].target = claim[d].target
<1>1. dispatch' \in [Ids -> Outcomes \cup {"none", "open", "gone"}]
  BY DEF ColdRecover, StoreKnows, Outcomes
<1>2. ASSUME NEW d \in Ids
      PROVE  /\ dispatch'[d] # "open"
             /\ dispatch'[d] = "none" <=> dispatch[d] = "none"
             /\ dispatch'[d] = "gone" <=> dispatch[d] = "gone"
             /\ dispatch[d] \notin {"open", "none", "gone"} => dispatch'[d] = dispatch[d]
             /\ dispatch[d] = "open" => dispatch'[d] = "failed"
  BY DEF ColdRecover
<1>3. ASSUME NEW d \in Ids
      PROVE  /\ claim'[d] \in Claims
             /\ claim'[d].state = "none" <=> claim[d].state = "none"
             /\ dispatch[d] \in {"none", "gone"} => claim'[d] = claim[d]
             /\ claim'[d].state \in Outcomes => dispatch'[d] \in {"none", claim'[d].state}
             /\ dispatch'[d] \in Outcomes => claim'[d].state \notin OpenStates
             /\ claim'[d].deadline = claim[d].deadline
             /\ claim'[d].target = claim[d].target
  <2>1. claim[d] \in Claims BY DEF StoreKnows
  <2>2. CASE Open(d) /\ dispatch'[d] \in Outcomes
    <3>1. claim'[d] = [claim[d] EXCEPT !.state = dispatch'[d]] BY <2>2 DEF ColdRecover
    <3>2. dispatch'[d] \in ClaimStates /\ dispatch'[d] \notin OpenStates /\ dispatch'[d] # "none"
      BY <2>2 DEF ClaimStates, OpenStates, Outcomes
    <3>3. claim[d].state # "none" BY <2>2 DEF Open, OpenStates
    <3>4. dispatch[d] \notin {"none", "gone"} BY <1>2, <2>2 DEF Outcomes
    <3> QED BY <2>1, <3>1, <3>2, <3>3, <3>4, ClaimMoves
  <2>3. CASE ~(Open(d) /\ dispatch'[d] \in Outcomes)
    <3>1. claim'[d] = claim[d] BY <2>3 DEF ColdRecover
    <3>2. claim[d].state \in Outcomes => dispatch'[d] \in {"none", claim[d].state}
      BY <1>2 DEF StoreKnows, ClaimTellsOutcome, Outcomes
    <3> QED BY <2>1, <2>3, <3>1, <3>2 DEF Open
  <2> QED BY <2>2, <2>3
<1>4. claim' \in [Ids -> Claims] BY <1>3 DEF ColdRecover
<1>5. StoreKnows' BY <1>1, <1>2, <1>3, <1>4 DEF StoreKnows, ClaimTellsOutcome
<1>6. ClaimsStay BY <1>3 DEF ClaimsStay
<1>7. \A d \in Ids : Calm(d) BY <1>2, <1>3 DEF Calm
<1> QED BY <1>2, <1>3, <1>5, <1>6, <1>7

\* finish_runtime_dispatch settles a turn and its claim alike.
LEMMA SettleKnows ==
    ASSUME StoreKnows, NEW d \in Ids, NEW s \in Outcomes, Settle(d, s)
    PROVE  /\ StoreKnows' /\ ClaimsStay
           /\ \A e \in Ids :
                /\ Calm(e)
                /\ e # d => dispatch'[e] = dispatch[e] /\ claim'[e] = claim[e]
                /\ claim'[e].deadline = claim[e].deadline
                /\ claim'[e].target = claim[e].target
           /\ dispatch[d] = "open" /\ dispatch'[d] = s
<1>1. dispatch[d] = "open" /\ dispatch' = [dispatch EXCEPT ![d] = s] /\ member' = member
  BY DEF Settle
<1>2. s \in ClaimStates /\ s \notin {"none", "open", "gone"}
  BY DEF ClaimStates, Outcomes
<1>3. claim \in [Ids -> Claims] /\ claim[d] \in Claims /\ claim[d].state \notin Outcomes
      /\ claim[d].state # "none"
  BY <1>1 DEF StoreKnows, ClaimTellsOutcome, Outcomes
<1>4. /\ claim' \in [Ids -> Claims] /\ \A e \in Ids : e # d => claim'[e] = claim[e]
      /\ claim'[d].deadline = claim[d].deadline
      /\ claim'[d].target = claim[d].target
      /\ claim'[d].state # "none" /\ (claim'[d].state \in Outcomes => claim'[d].state = s)
  <2>1. CASE ValidTransition(claim[d].state, s)
    <3> DEFINE k == [claim[d] EXCEPT !.state = s]
    <3>1. claim' = [claim EXCEPT ![d] = k] BY <2>1 DEF Settle
    <3>2. /\ k \in Claims /\ k.state = s
          /\ k.deadline = claim[d].deadline /\ k.target = claim[d].target
      BY <1>2, <1>3, ClaimMoves
    <3> HIDE DEF k
    <3> QED BY <1>2, <1>3, <3>1, <3>2
  <2>2. CASE ~ValidTransition(claim[d].state, s)
    BY <1>3, <2>2 DEF Settle
  <2> QED BY <2>1, <2>2
<1>5. /\ dispatch' \in [Ids -> Outcomes \cup {"none", "open", "gone"}] /\ dispatch'[d] = s
      /\ \A e \in Ids : e # d => dispatch'[e] = dispatch[e]
  BY <1>1 DEF StoreKnows
<1>6. StoreKnows' BY <1>1, <1>4, <1>5 DEF StoreKnows, ClaimTellsOutcome
<1>7. ClaimsStay BY <1>4 DEF ClaimsStay
<1>8. \A e \in Ids : Calm(e) BY <1>1, <1>4, <1>5 DEF Calm
<1> QED BY <1>1, <1>4, <1>5, <1>6, <1>7, <1>8

\* The deadline of a claim is not what a request relies on.
LEMMA DeadlineKnows ==
    ASSUME StoreKnows, NEW d \in Ids, NEW b \in BOOLEAN,
           claim' = [claim EXCEPT ![d].deadline = b] \/ UNCHANGED claim,
           UNCHANGED <<member, dispatch>>
    PROVE  /\ StoreKnows' /\ ClaimsStay
           /\ \A e \in Ids : /\ Calm(e) /\ claim'[e].state = claim[e].state
                            /\ claim'[e].target = claim[e].target
<1> DEFINE k == [claim[d] EXCEPT !.deadline = b]
<1>1. claim' = [claim EXCEPT ![d] = k] \/ claim' = claim OBVIOUS
<1>2. claim[d] \in Claims BY DEF StoreKnows
<1>3. k \in Claims /\ k.state = claim[d].state /\ k.target = claim[d].target
  BY <1>2, DeadlineMoves
<1> HIDE DEF k
<1>4. /\ claim' \in [Ids -> Claims]
      /\ \A e \in Ids : claim'[e].state = claim[e].state /\ claim'[e].target = claim[e].target
  BY <1>1, <1>3 DEF StoreKnows
<1> QED BY <1>4 DEF StoreKnows, ClaimTellsOutcome, ClaimsStay, Calm

-----------------------------------------------------------------------------
(* Every step keeps ClaimsInv.                                             *)

LEMMA IdsOfRequests ==
    ASSUME ClaimsInv, NEW m \in wire
    PROVE  /\ m \in Messages /\ m.req \in Requests /\ m.call \in Calls
           /\ m.req.step \in Steps /\ m.req.id \in Ids \cup {None} /\ RequestKnows(m.req)
           /\ m.req.step \in OnClaim => m.req.id \in Ids /\ claim[m.req.id].state # "none"
<1>1. m \in Messages /\ m.req \in Requests /\ m.call \in Calls
  BY DEF ClaimsInv, TypeOK, Messages
<1>2. m.req.step \in Steps /\ m.req.id \in Ids \cup {None} BY <1>1 DEF Requests
<1>3. RequestKnows(m.req) BY DEF ClaimsInv, MessageKnows
<1> QED BY <1>1, <1>2, <1>3 DEF RequestKnows

LEMMA CalmIsUndisturbed ==
    ASSUME ClaimsInv, \A d \in Ids : Calm(d)
    PROVE  \A o \in wire : Undisturbed(o.req)
BY IdsOfRequests DEF OnClaim, ClaimStates, Undisturbed, Calm

\* A step that is not about calls.
LEMMA OthersKeepClaims ==
    ASSUME ClaimsInv, StoreKnows', HostTypes', ClaimsStay, \A d \in Ids : Calm(d),
           call' = call, wire' \subseteq wire
    PROVE  ClaimsInv'
<1>1. \A o \in wire : Undisturbed(o.req) BY CalmIsUndisturbed
<1>2. ASSUME NEW c \in Calls PROVE RequestKnows(call[c])'
  BY DEF ClaimsInv, RequestKnows, ClaimsStay
<1> DEFINE n == CHOOSE n : n \notin wire
<1>3. (\A m \in wire' : MessageKnows(m)') /\ SendsAreUnique'
  <2>1. wire \in SUBSET wire OBVIOUS
  <2>2. wire' \subseteq wire \cup {n} OBVIOUS
  <2>3. n \in wire' => n \in wire OBVIOUS
  <2> HIDE DEF n
  <2> QED BY <1>1, <2>1, <2>2, <2>3, RequestsKnow
<1>4. CallsKnow' BY <1>2, <1>3 DEF CallsKnow, ClaimsInv, TypeOK, Messages
<1> QED BY <1>4, ClaimsInvPartsNext

\* A call makes its next request, or ends, while its earlier ones stay.
LEMMA ProceedKeepsClaims ==
    ASSUME ClaimsInv, NEW c \in Calls, NEW r \in Requests, Proceed(c, r, wire),
           UNCHANGED storeVars, HostTypes', RequestKnows(r), r.step # "send", r.step \notin Outcomes
    PROVE  ClaimsInv'
<1> DEFINE n == [call |-> c, req |-> r, checked |-> FALSE]
<1>1. n \in Messages /\ n.req = r BY NewMessage
<1>2. wire' \subseteq wire \cup {n} /\ call' = [call EXCEPT ![c] = r] BY DEF Proceed
<1> HIDE DEF n
<1>3. ClaimsStay /\ (\A d \in Ids : Calm(d)) /\ StoreKnows'
  BY ClaimsInvParts DEF ClaimsStay, Calm, storeVars, StoreKnows, ClaimTellsOutcome
<1>4. RequestKnows(r)' BY DEF RequestKnows, storeVars
<1>5. \A o \in wire : Undisturbed(o.req) BY <1>3, CalmIsUndisturbed
<1>6. (\A m \in wire' : MessageKnows(m)') /\ SendsAreUnique'
  <2>1. wire \in SUBSET wire OBVIOUS
  <2> QED BY <1>1, <1>2, <1>3, <1>4, <1>5, <2>1, RequestsKnow
<1>7. ASSUME NEW k \in Calls PROVE RequestKnows(call[k])'
  <2>1. call'[k] \in {call[k], r} BY <1>2 DEF ClaimsInv, TypeOK
  <2> QED BY <1>4, <2>1 DEF ClaimsInv, RequestKnows, storeVars
<1>8. call' \in [Calls -> Requests] /\ wire' \subseteq Messages
  BY <1>1, <1>2 DEF ClaimsInv, TypeOK, Messages
<1>9. CallsKnow' BY <1>6, <1>7, <1>8 DEF CallsKnow
<1> QED BY <1>3, <1>9, ClaimsInvPartsNext

\* A host that answers m without touching the store.
LEMMA AnswerKeepsClaims ==
    ASSUME ClaimsInv, NEW m \in wire, NEW r \in Requests, Answer(m, r),
           UNCHANGED storeVars, HostTypes', RequestKnows(r), r.step # "send",
           r.step \in Outcomes =>
             /\ r.step = "failed" /\ dispatch[r.id] = "none"
             /\ \A o \in wire \ {m} : o.req.step = "send" => o.req.id # r.id
    PROVE  ClaimsInv'
<1>1. ClaimsStay /\ (\A d \in Ids : Calm(d)) /\ StoreKnows'
  BY ClaimsInvParts DEF ClaimsStay, Calm, storeVars, StoreKnows, ClaimTellsOutcome
<1>2. RequestKnows(r)' BY DEF RequestKnows, storeVars
<1>3. \A o \in wire : Undisturbed(o.req) BY <1>1, CalmIsUndisturbed
<1>4. dispatch' = dispatch BY DEF storeVars
<1>5. CallsKnow' BY <1>1, <1>2, <1>3, <1>4, AnswerKeepsCalls
<1> QED BY <1>1, <1>5, ClaimsInvPartsNext

LEMMA MishapIsTyped ==
    ASSUME HostTypes, NEW kind, Mishap(kind) \/ UNCHANGED count
    PROVE  count' \in [Mishaps -> Nat]
BY DEF HostTypes, Mishap

LEMMA HostRests ==
    ASSUME HostTypes, UNCHANGED hostVars,
           UNCHANGED count \/ (\E kind : Mishap(kind))
    PROVE  HostTypes'
<1>1. count' \in [Mishaps -> Nat]
  BY MishapIsTyped
<1> QED BY <1>1 DEF HostTypes, hostVars

\* Calls begin, give up on an answer, or cannot reach the host.
LEMMA CallsKeepClaims ==
    ASSUME ClaimsInv,
           \/ \E c \in Calls, e \in Edges :
                CancelCall(c, e) \/ \E p \in Ids \cup {None} : Delegate(c, e, p)
           \/ \E c \in Calls : Timeout(c)
           \/ \E m \in wire : ConnectFails(m)
    PROVE  ClaimsInv'
<1>0. HostTypes /\ None \in Ids \cup {None} BY ClaimsInvParts
<1>1. ASSUME NEW c \in Calls, NEW e \in Edges, NEW p \in Ids \cup {None},
             CancelCall(c, e) \/ Delegate(c, e, p)
      PROVE  ClaimsInv'
  <2>1. e[1] \in Members \cup {None} /\ e[2] \in Members \cup {None} BY ClaimsAssumption
  <2> DEFINE r(s, q) == [step |-> s, caller |-> e[1], target |-> e[2], parent |-> q, id |-> None]
  <2>2. PICK s \in {"claim", "find"}, q \in Ids \cup {None} : Proceed(c, r(s, q), wire)
    <3>1. [Idle EXCEPT !.step = "find", !.caller = e[1], !.target = e[2]] = r("find", None)
      BY FindIsRequest
    <3>2. CASE CancelCall(c, e) BY <1>0, <3>1, <3>2 DEF CancelCall
    <3>3. CASE Delegate(c, e, p) BY <3>3 DEF Delegate
    <3> QED BY <1>1, <3>2, <3>3
  <2>3. s \in Steps /\ s \notin OnClaim
    BY <2>2 DEF Steps, OnClaim, ClaimStates, OpenStates, Outcomes
  <2>4. r(s, q) \in Requests /\ r(s, q).step = s BY <1>0, <2>1, <2>3, RequestFields
  <2>5. UNCHANGED <<storeVars, hostVars, count>> BY <1>1 DEF CancelCall, Delegate
  <2>6. HostTypes' BY <1>0, <2>5, HostRests
  <2>7. s # "send" /\ s \notin Outcomes BY <2>3 DEF OnClaim, ClaimStates
  <2> HIDE DEF r
  <2>8. RequestKnows(r(s, q)) BY <2>3, <2>4 DEF RequestKnows
  <2> QED BY <2>2, <2>4, <2>5, <2>6, <2>7, <2>8, ProceedKeepsClaims
<1>2. ASSUME NEW c \in Calls, Timeout(c) PROVE ClaimsInv'
  <2> DEFINE s == AfterError(call[c].step)
             r == On(call[c].id, s)
  <2>1. call[c] \in Requests /\ RequestKnows(call[c]) BY DEF ClaimsInv, TypeOK
  <2>2. s \in {"idle", "reconciliation-required"} /\ (s # "idle" => call[c].step \in OnClaim)
    BY DEF AfterError, OnClaim
  <2>3. s \in Steps /\ call[c].id \in Ids \cup {None}
    BY <2>1, <2>2 DEF Steps, ClaimStates, OpenStates, Requests
  <2> HIDE DEF s
  <2>4. r \in Requests /\ (r.step \in OnClaim => r.step = s /\ r.id = call[c].id)
    BY <2>3, OnIsRequest
  <2>5. Proceed(c, r, wire) /\ UNCHANGED <<storeVars, hostVars>> BY <1>2 DEF Timeout, s
  <2>6. HostTypes' BY <1>0, <1>2, <2>5, HostRests DEF Timeout
  <2> HIDE DEF r
  <2>7. "idle" \notin OnClaim /\ "send" \in OnClaim /\ Outcomes \subseteq OnClaim
        /\ "reconciliation-required" \notin Outcomes
    BY IdleIsRequest DEF OnClaim, ClaimStates, Outcomes
  <2>8. RequestKnows(r) BY <2>1, <2>2, <2>4, <2>7 DEF RequestKnows
  <2>9. r.step # "send" /\ r.step \notin Outcomes BY <2>2, <2>4, <2>7
  <2> QED BY <2>4, <2>5, <2>6, <2>8, <2>9, ProceedKeepsClaims
<1>3. ASSUME NEW m \in wire, ConnectFails(m) PROVE ClaimsInv'
  <2> DEFINE s == AfterRefusal(m.req.step)
             r == On(m.req.id, s)
  <2>1. m.req.id \in Ids \cup {None} /\ RequestKnows(m.req) BY IdsOfRequests
  <2>2. /\ s \in {"idle", "failed", "reconciliation-required"}
        /\ s # "idle" => m.req.step \in OnClaim
        /\ s = "failed" => m.req.step = "send"
    BY DEF AfterRefusal, AfterError, OnClaim
  <2>3. s \in Steps BY <2>2 DEF Steps, ClaimStates, OpenStates, Outcomes
  <2> HIDE DEF s
  <2>4. r \in Requests /\ (r.step \in OnClaim => r.step = s /\ r.id = m.req.id)
    BY <2>1, <2>3, OnIsRequest
  <2>5. Answer(m, r) /\ UNCHANGED <<storeVars, hostVars>> /\ ~m.checked
    BY <1>3 DEF ConnectFails, s
  <2>6. HostTypes' BY <1>0, <1>3, <2>5, HostRests DEF ConnectFails
  <2> HIDE DEF r
  <2>7. /\ "idle" \notin OnClaim /\ "send" \in OnClaim /\ Outcomes \subseteq OnClaim
        /\ "reconciliation-required" \notin Outcomes
    BY IdleIsRequest DEF OnClaim, ClaimStates, Outcomes
  <2>8. RequestKnows(r) BY <2>1, <2>2, <2>4, <2>7 DEF RequestKnows
  <2>9. r.step # "send" /\ (r.step \in Outcomes => r.step = "failed" /\ m.req.step = "send"
                                                   /\ r.id = m.req.id)
    BY <2>2, <2>4, <2>7
  <2>10. m.req.step = "send" => /\ dispatch[m.req.id] = "none"
                                /\ \A o \in wire \ {m} : o.req.step = "send" => o.req.id # m.req.id
    BY <2>5 DEF ClaimsInv, MessageKnows, SendsAreUnique
  <2> QED BY <2>4, <2>5, <2>6, <2>8, <2>9, <2>10, AnswerKeepsClaims
<1> QED BY <1>0, <1>1, <1>2, <1>3

LEMMA NewClaimIsTyped ==
    ASSUME ClaimsInv, NEW r \in Requests, DepthOf(r) <= MaxDepth
    PROVE  LET k == [state |-> "claimed", caller |-> r.caller, target |-> r.target,
                     parent |-> r.parent, depth |-> DepthOf(r), deadline |-> FALSE]
           IN  k \in Claims /\ k.state = "claimed" /\ ~k.deadline /\ k.target = r.target
<1>1. DepthOf(r) \in 0..MaxDepth
  <2>1. r.parent \in Ids \cup {None} BY DEF Requests
  <2>2. CASE r.parent = None BY <2>2, ClaimsAssumption DEF DepthOf
  <2>3. CASE r.parent \in Ids /\ r.parent # None
    <3>1. claim[r.parent].depth \in 0..MaxDepth BY <2>3 DEF ClaimsInv, TypeOK, Claims
    <3> QED BY <2>3, <3>1, ClaimsAssumption DEF DepthOf
  <2> QED BY <2>1, <2>2, <2>3
<1>2. "claimed" \in ClaimStates BY DEF ClaimStates, OpenStates
<1>3. r.caller \in Members \cup {None} /\ r.target \in Members \cup {None} /\ r.parent \in Ids \cup {None}
  BY DEF Requests
<1> HIDE DEF DepthOf
<1> QED BY <1>1, <1>2, <1>3 DEF Claims

\* claim_subagent_dispatch: no request on the wire is about a fresh claim.
LEMMA ClaimKeepsClaims ==
    ASSUME ClaimsInv, NEW m \in wire, NEW d \in Ids, ClaimSubagentDispatch(m, d)
    PROVE  ClaimsInv'
<1> DEFINE k == [state |-> "claimed", caller |-> m.req.caller, target |-> m.req.target,
                 parent |-> m.req.parent, depth |-> DepthOf(m.req), deadline |-> FALSE]
           r == On(d, "send")
<1>1. StoreKnows /\ HostTypes /\ m.req \in Requests BY ClaimsInvParts, IdsOfRequests
<1>2. k \in Claims /\ k.state = "claimed" /\ ~k.deadline
  BY <1>1, NewClaimIsTyped DEF ClaimSubagentDispatch, Admitted
<1>3. claim' = [Reconciled EXCEPT ![d] = k] BY DEF ClaimSubagentDispatch
<1> HIDE DEF k
<1>4. claim[d].state = "none" /\ dispatch[d] = "none"
  BY <1>1 DEF ClaimSubagentDispatch, Fresh, StoreKnows
<1>5. UNCHANGED <<member, dispatch, hostVars, count>> /\ Answer(m, r)
  BY DEF ClaimSubagentDispatch
<1>6. claim' \in [Ids -> Claims] /\ claim'[d] = k /\ \A e \in Ids : e # d => claim'[e] = Reconciled[e]
  BY <1>1, <1>2, <1>3, ReconciledKnows
<1>7. "claimed" # "none" /\ "claimed" \notin Outcomes /\ "send" \in Steps /\ "send" \in OnClaim
      /\ "send" # "idle" /\ "send" \notin Outcomes
  BY DEF Outcomes, Steps, OnClaim
<1>8. StoreKnows'
  <2>1. ClaimTellsOutcome'
    BY <1>1, <1>2, <1>5, <1>6, <1>7, ReconciledKnows DEF ClaimTellsOutcome
  <2>2. \A e \in Ids : dispatch'[e] # "none" => claim'[e].state # "none"
    BY <1>1, <1>2, <1>5, <1>6, <1>7, ReconciledKnows DEF StoreKnows
  <2> QED BY <1>1, <1>5, <1>6, <2>1, <2>2 DEF StoreKnows
<1>9. ClaimsStay BY <1>1, <1>2, <1>6, <1>7, ReconciledKnows DEF ClaimsStay
<1>10. \A e \in Ids : e # d => Calm(e)
  BY <1>1, <1>5, <1>6, ReconciledKnows DEF Calm
<1>11. \A o \in wire : o.req.step \in {"send"} \cup Outcomes => o.req.id \in Ids /\ o.req.id # d
  BY <1>4, IdsOfRequests DEF OnClaim, ClaimStates
<1>12. r \in Requests /\ r.step = "send" /\ r.id = d
  BY <1>7, OnIsRequest DEF On, Idle
<1>16. \A o \in wire : Undisturbed(o.req) BY <1>10, <1>11 DEF Undisturbed, Calm
<1> HIDE DEF r
<1>13. RequestKnows(r)' BY <1>2, <1>6, <1>7, <1>12 DEF RequestKnows
<1>14. CallsKnow'
  <2>1. dispatch'[r.id] = "none" /\ claim'[r.id].state \notin Outcomes
    BY <1>2, <1>4, <1>5, <1>6, <1>7, <1>12
  <2> QED BY <1>5, <1>7, <1>9, <1>11, <1>12, <1>13, <1>16, <2>1, AnswerKeepsCalls
<1>15. HostTypes' BY <1>1, <1>5, HostRests
<1> QED BY <1>8, <1>14, <1>15, ClaimsInvPartsNext

\* Answers that leave the store alone: refusals, and cancelling a live turn.
LEMMA RefusalKeepsClaims ==
    ASSUME ClaimsInv, NEW m \in wire,
           ClaimIsRefused(m) \/ StartIsRefused(m) \/ CancelActive(m)
    PROVE  ClaimsInv'
<1>1. UNCHANGED <<storeVars, hostVars>> BY DEF ClaimIsRefused, StartIsRefused, CancelActive
<1>2. UNCHANGED count \/ \E kind : Mishap(kind)
  BY DEF ClaimIsRefused, StartIsRefused, CancelActive
<1>3. HostTypes' BY <1>1, <1>2, ClaimsInvParts, HostRests
<1>4. /\ "reconciliation-required" \in Steps /\ "reconciliation-required" \notin Outcomes
      /\ "idle" \notin OnClaim /\ "send" \in OnClaim /\ Outcomes \subseteq OnClaim
      /\ "cancel" \in OnClaim
  BY IdleIsRequest DEF Steps, OnClaim, ClaimStates, OpenStates, Outcomes
<1>5. CASE Answer(m, Idle)
  <2>1. RequestKnows(Idle) /\ Idle.step \notin OnClaim BY <1>4, IdleIsRequest DEF RequestKnows
  <2> QED BY <1>1, <1>3, <1>4, <1>5, <2>1, IdleIsRequest, AnswerKeepsClaims
<1>6. CASE m.req.step \in OnClaim /\ Answer(m, On(m.req.id, "reconciliation-required"))
  <2> DEFINE r == On(m.req.id, "reconciliation-required")
  <2>1. m.req.id \in Ids /\ claim[m.req.id].state # "none" BY <1>6, IdsOfRequests
  <2>2. r \in Requests /\ (r.step \in OnClaim => r.step = "reconciliation-required" /\ r.id = m.req.id)
    BY <1>4, <2>1, OnIsRequest
  <2> HIDE DEF r
  <2>3. RequestKnows(r) /\ r.step # "send" /\ r.step \notin Outcomes
    BY <1>4, <2>1, <2>2 DEF RequestKnows
  <2>4. Answer(m, r) BY <1>6 DEF r
  <2> QED BY <1>1, <1>3, <2>2, <2>3, <2>4, AnswerKeepsClaims
<1>7. AfterError("send") = "reconciliation-required" /\ AfterError("cancel") = "reconciliation-required"
  BY DEF AfterError
<1> QED
  BY <1>4, <1>5, <1>6, <1>7 DEF ClaimIsRefused, StartIsRefused, CancelActive, Handles

\* conversation.subagent.claim.active reconciles and answers with an open claim.
LEMMA FindKeepsClaims ==
    ASSUME ClaimsInv, NEW m \in wire, ActiveSubagentClaim(m)
    PROVE  ClaimsInv'
<1>1. StoreKnows /\ HostTypes BY ClaimsInvParts
<1>2. claim' = Reconciled /\ UNCHANGED <<member, dispatch, hostVars, count>>
  BY DEF ActiveSubagentClaim
<1>3. StoreKnows' BY <1>1, <1>2, ReconciledKnows DEF StoreKnows, ClaimTellsOutcome
<1>4. ClaimsStay BY <1>1, <1>2, ReconciledKnows DEF ClaimsStay
<1>5. \A e \in Ids : Calm(e) BY <1>1, <1>2, ReconciledKnows DEF Calm
<1>6. HostTypes' BY <1>1, <1>2, HostRests
<1>7. \A o \in wire : Undisturbed(o.req) BY <1>5, CalmIsUndisturbed
<1>8. /\ "cancel-requested" \in Steps /\ "cancel-requested" \notin Outcomes
      /\ "idle" \notin OnClaim /\ "send" \in OnClaim /\ Outcomes \subseteq OnClaim
      /\ "none" \notin OpenStates
  BY IdleIsRequest DEF Steps, OnClaim, ClaimStates, OpenStates, Outcomes
<1>9. CASE Answer(m, Idle)
  <2>1. RequestKnows(Idle)' /\ Idle.step \notin OnClaim BY <1>8, IdleIsRequest DEF RequestKnows
  <2>2. CallsKnow' BY <1>4, <1>5, <1>7, <1>8, <1>9, <2>1, IdleIsRequest, AnswerKeepsCalls
  <2> QED BY <1>3, <1>6, <2>2, ClaimsInvPartsNext
<1>10. ASSUME NEW d \in Ids, Reconciled[d].state \in OpenStates, Answer(m, On(d, "cancel-requested"))
       PROVE  ClaimsInv'
  <2> DEFINE r == On(d, "cancel-requested")
  <2>1. r \in Requests /\ (r.step \in OnClaim => r.step = "cancel-requested" /\ r.id = d)
    BY <1>8, OnIsRequest
  <2>2. Answer(m, r) BY <1>10
  <2> HIDE DEF r
  <2>3. RequestKnows(r)' /\ r.step # "send" /\ r.step \notin Outcomes
    BY <1>2, <1>8, <1>10, <2>1 DEF RequestKnows
  <2>4. CallsKnow' BY <1>4, <1>5, <1>7, <2>1, <2>2, <2>3, AnswerKeepsCalls
  <2> QED BY <1>3, <1>6, <2>4, ClaimsInvPartsNext
<1> QED BY <1>9, <1>10 DEF ActiveSubagentClaim

\* A request that is looked at and stays on the wire.
LEMMA CheckKeepsCalls ==
    ASSUME ClaimsInv, NEW m \in wire, ClaimsStay, call' = call,
           wire' = (wire \ {m}) \cup {[m EXCEPT !.checked = TRUE]},
           \A o \in wire \ {m} : Undisturbed(o.req),
           m.req.step \in Outcomes => dispatch'[m.req.id] = "none"
    PROVE  CallsKnow'
<1> DEFINE n == [m EXCEPT !.checked = TRUE]
           W == wire \ {m}
<1>1. m \in Messages /\ wire \subseteq Messages BY DEF ClaimsInv, TypeOK, Messages
<1>2. n \in Messages /\ n.req = m.req /\ n.checked BY <1>1, CheckedMessage
<1> HIDE DEF n
<1>3. wire' = W \cup {n} BY DEF n
<1>4. W \in SUBSET wire OBVIOUS
<1>5. \A o \in W : o \in wire /\ o # m
                   /\ Undisturbed(o.req)
  OBVIOUS
<1> HIDE DEF W
<1>6. MessageKnows(m) /\ SendsAreUnique /\ RequestKnows(m.req) BY DEF ClaimsInv, MessageKnows
<1>7. "send" \notin Outcomes BY DEF Outcomes
<1>8. RequestKnows(n.req)' BY <1>2, <1>6 DEF RequestKnows, ClaimsStay
<1>9. n.req.step = "send" =>
        \A o \in W : o.req.step \in {"send"} \cup Outcomes => o.req.id # n.req.id
  <2> SUFFICES ASSUME m.req.step = "send", NEW o \in W,
                      o.req.step \in {"send"} \cup Outcomes
               PROVE  o.req.id # m.req.id
    BY <1>2
  <2>1. MessageKnows(o) /\ o \in wire /\ o # m BY <1>5 DEF ClaimsInv
  <2> QED BY <1>6, <1>7, <2>1 DEF SendsAreUnique, MessageKnows
<1>10. n.req.step \in Outcomes => /\ n.req.step = "failed" /\ dispatch'[n.req.id] = "none"
                                  /\ \A o \in W : o.req.step = "send" => o.req.id # n.req.id
  BY <1>2, <1>5, <1>6 DEF MessageKnows
<1>11. (\A o \in wire' : MessageKnows(o)') /\ SendsAreUnique'
  BY <1>2, <1>3, <1>4, <1>5, <1>8, <1>9, <1>10, RequestsKnow
<1>12. ASSUME NEW c \in Calls PROVE RequestKnows(call[c])'
  BY DEF ClaimsInv, RequestKnows, ClaimsStay
<1>13. wire' \subseteq Messages BY <1>1, <1>2, <1>3, <1>4
<1> QED BY <1>11, <1>12, <1>13 DEF CallsKnow, ClaimsInv, TypeOK

\* update_subagent_claim_state reads the claim.
LEMMA ReadKeepsClaims ==
    ASSUME ClaimsInv, NEW m \in wire, ReadClaim(m)
    PROVE  ClaimsInv'
<1>1. UNCHANGED <<storeVars, hostVars>> BY DEF ReadClaim
<1>2. UNCHANGED count \/ \E kind : Mishap(kind) BY DEF ReadClaim
<1>3. HostTypes' BY <1>1, <1>2, ClaimsInvParts, HostRests
<1>4. CASE Answer(m, Idle)
  <2>1. /\ RequestKnows(Idle) /\ Idle.step \notin OnClaim /\ "send" \in OnClaim
        /\ Outcomes \subseteq OnClaim
    BY IdleIsRequest DEF RequestKnows, OnClaim, ClaimStates
  <2> QED BY <1>1, <1>3, <1>4, <2>1, IdleIsRequest, AnswerKeepsClaims
<1>5. CASE wire' = (wire \ {m}) \cup {[m EXCEPT !.checked = TRUE]} /\ call' = call
  <2>1. ClaimsStay /\ (\A d \in Ids : Calm(d)) /\ StoreKnows'
    BY <1>1, ClaimsInvParts DEF ClaimsStay, Calm, storeVars, StoreKnows, ClaimTellsOutcome
  <2>2. \A o \in wire : Undisturbed(o.req) BY <2>1, CalmIsUndisturbed
  <2>3. m.req.step \in Outcomes => dispatch'[m.req.id] = "none"
    BY <1>1 DEF ClaimsInv, MessageKnows, storeVars
  <2>4. CallsKnow' BY <1>5, <2>1, <2>2, <2>3, CheckKeepsCalls
  <2> QED BY <1>3, <2>1, <2>4, ClaimsInvPartsNext
<1> QED BY <1>4, <1>5 DEF ReadClaim

\* The write of a claim's state and deadline.
LEMMA WriteMoves ==
    ASSUME StoreKnows, NEW d \in Ids, NEW s \in ClaimStates,
           claim' = [claim EXCEPT ![d].state = s, ![d].deadline = @ /\ s \in OpenStates]
    PROVE  /\ claim' \in [Ids -> Claims] /\ \A e \in Ids : e # d => claim'[e] = claim[e]
           /\ claim'[d].state = s /\ claim'[d].target = claim[d].target
<1> DEFINE j == [claim[d] EXCEPT !.state = s]
           b == claim[d].deadline /\ s \in OpenStates
           k == [j EXCEPT !.deadline = b]
<1>0. claim[d] \in Claims BY DEF StoreKnows
<1>1. /\ j \in Claims /\ j.state = s /\ j.deadline = claim[d].deadline
      /\ j.target = claim[d].target
  BY <1>0, ClaimMoves
<1>2. b \in BOOLEAN OBVIOUS
<1>3. claim' = [[claim EXCEPT ![d] = j] EXCEPT ![d].deadline = @ /\ s \in OpenStates]
  BY DEF StoreKnows
<1>4. claim' = [claim EXCEPT ![d] = [j EXCEPT !.deadline = j.deadline /\ s \in OpenStates]]
  <2> HIDE DEF j
  <2> QED BY <1>3 DEF StoreKnows
<1>5. claim' = [claim EXCEPT ![d] = k]
  <2> HIDE DEF j
  <2> QED BY <1>1, <1>4
<1>6. k \in Claims /\ k.state = s /\ k.target = claim[d].target
  <2> HIDE DEF j, b
  <2> QED BY <1>1, <1>2, DeadlineMoves
<1> HIDE DEF k
<1> QED BY <1>5, <1>6 DEF StoreKnows

\* ... and writes it: a failure is written only where no turn can be started.
LEMMA WriteKeepsClaims ==
    ASSUME ClaimsInv, NEW m \in wire, WriteClaim(m)
    PROVE  ClaimsInv'
<1> DEFINE d == m.req.id
           s == m.req.step
<1>1. StoreKnows /\ HostTypes BY ClaimsInvParts
<1>2. s \in ClaimStates /\ ClaimStates \subseteq OnClaim BY DEF WriteClaim, Handles, OnClaim
<1>3. d \in Ids /\ claim[d].state # "none" /\ claim[d] \in Claims
  BY <1>1, <1>2, IdsOfRequests DEF StoreKnows
<1>4. UNCHANGED <<member, dispatch, hostVars, count>> BY DEF WriteClaim
<1>5. PICK next \in {"idle", "cancel"} : Answer(m, On(d, next))
  BY DEF WriteClaim, AfterUpdate
<1>6. /\ claim' \in [Ids -> Claims] /\ \A e \in Ids : e # d => claim'[e] = claim[e]
      /\ claim'[d] = claim[d] \/ claim'[d].state = s
  <2>1. CASE UNCHANGED claim BY <1>1, <2>1 DEF StoreKnows
  <2>2. CASE claim' = [claim EXCEPT ![d].state = s, ![d].deadline = @ /\ s \in OpenStates]
    BY <1>1, <1>2, <1>3, <2>2, WriteMoves
  <2> QED BY <2>1, <2>2 DEF WriteClaim
<1>7. s # "none" /\ (s \in Outcomes => s = "failed" /\ dispatch[d] = "none")
      /\ (s \in Outcomes => \A o \in wire : o.req.step = "send" => o.req.id # d)
  <2>1. MessageKnows(m) BY DEF ClaimsInv
  <2>2. s # "none" BY <1>2 DEF ClaimStates, OpenStates, Outcomes
  <2> QED BY <2>1, <2>2 DEF MessageKnows
<1>8. StoreKnows'
  BY <1>1, <1>3, <1>4, <1>6, <1>7 DEF StoreKnows, ClaimTellsOutcome
<1>9. ClaimsStay BY <1>3, <1>6, <1>7 DEF ClaimsStay
<1>10. \A o \in wire : Undisturbed(o.req)
  <2> SUFFICES ASSUME NEW o \in wire PROVE Undisturbed(o.req) OBVIOUS
  <2>1. o.req.step = "send" => o.req.id \in Ids BY IdsOfRequests DEF OnClaim
  <2> QED BY <1>4, <1>6, <1>7, <2>1 DEF Undisturbed, Calm
<1>11. HostTypes' BY <1>1, <1>4, HostRests
<1>12. /\ next \in Steps /\ "idle" \notin OnClaim /\ "send" \in OnClaim
       /\ Outcomes \subseteq OnClaim /\ "cancel" \notin Outcomes
  BY IdleIsRequest DEF Steps, OnClaim, ClaimStates, Outcomes
<1> DEFINE r == On(d, next)
<1>13. r \in Requests /\ (r.step \in OnClaim => r.step = "cancel" /\ r.id = d)
  BY <1>3, <1>12, OnIsRequest
<1>14. Answer(m, r) BY <1>5
<1> HIDE DEF r
<1>15. RequestKnows(r)' /\ r.step # "send" /\ r.step \notin Outcomes
  BY <1>3, <1>9, <1>12, <1>13 DEF RequestKnows, ClaimsStay
<1>16. CallsKnow' BY <1>9, <1>10, <1>13, <1>14, <1>15, AnswerKeepsCalls
<1> QED BY <1>8, <1>11, <1>16, ClaimsInvPartsNext

\* start_background opens the turn of a claim that has no outcome; the request
\* for it is gone, or waits for abandon_turn.
LEMMA StartKeepsClaims ==
    ASSUME ClaimsInv, NEW m \in wire, NEW bounded \in BOOLEAN, NEW driven \in BOOLEAN,
           StartBackground(m, bounded, driven)
    PROVE  ClaimsInv'
<1> DEFINE d == m.req.id
<1>1. StoreKnows /\ HostTypes BY ClaimsInvParts
<1>2. m.req.step = "send" /\ ~m.checked /\ "send" \in OnClaim /\ "send" \notin Outcomes
  BY DEF StartBackground, Handles, OnClaim, Outcomes
<1>3. d \in Ids /\ claim[d].state # "none" /\ claim[d].state \notin Outcomes
  BY <1>2, IdsOfRequests DEF ClaimsInv, MessageKnows
<1>4. dispatch' = [dispatch EXCEPT ![d] = "open"] /\ dispatch[d] = "none" /\ member' = member
  BY DEF StartBackground
<1>5. claim' \in [Ids -> Claims] /\ \A e \in Ids : claim'[e].state = claim[e].state
  <2>1. claim' = claim \/ claim' = [claim EXCEPT ![d].deadline = Open(d)]
    BY DEF StartBackground
  <2>2. Open(d) \in BOOLEAN BY DEF Open
  <2> DEFINE k == [claim[d] EXCEPT !.deadline = Open(d)]
  <2>3. claim[d] \in Claims BY <1>1, <1>3 DEF StoreKnows
  <2>4. k \in Claims /\ k.state = claim[d].state BY <2>2, <2>3, DeadlineMoves
  <2>5. claim' = claim \/ claim' = [claim EXCEPT ![d] = k] BY <2>1
  <2> HIDE DEF k
  <2> QED BY <1>1, <1>3, <2>4, <2>5 DEF StoreKnows
<1>6. StoreKnows'
  BY <1>1, <1>3, <1>4, <1>5 DEF StoreKnows, ClaimTellsOutcome
<1>7. ClaimsStay BY <1>5 DEF ClaimsStay
<1>8. \A o \in wire \ {m} : Undisturbed(o.req)
  <2> SUFFICES ASSUME NEW o \in wire \ {m} PROVE Undisturbed(o.req) OBVIOUS
  <2>1. MessageKnows(o) BY DEF ClaimsInv
  <2>2. o.req.step \in {"send"} \cup Outcomes => o.req.id \in Ids
    BY IdsOfRequests DEF OnClaim, ClaimStates
  <2>3. o.req.step = "send" => o.req.id # d BY <1>2 DEF ClaimsInv, SendsAreUnique
  <2>4. o.req.step \in Outcomes => o.req.id # d BY <1>2, <2>1 DEF MessageKnows
  <2> QED BY <1>1, <1>4, <1>5, <2>2, <2>3, <2>4 DEF Undisturbed, Calm, StoreKnows
<1>9. HostTypes'
  <2>1. UNCHANGED count \/ Mishap("store") BY DEF StartBackground
  <2>2. count' \in [Mishaps -> Nat]
    BY <1>1, <2>1, MishapIsTyped
  <2>3. live' \subseteq Ids /\ watchdog' \subseteq Ids
    BY <1>1, <1>3 DEF StartBackground, HostTypes
  <2> QED BY <1>1, <2>2, <2>3 DEF StartBackground, HostTypes
<1>10. CASE Answer(m, On(d, "running"))
  <2> DEFINE r == On(d, "running")
  <2>1. /\ "running" \in Steps /\ "running" \notin Outcomes /\ "idle" \notin OnClaim
        /\ Outcomes \subseteq OnClaim
    BY IdleIsRequest DEF Steps, OnClaim, ClaimStates, OpenStates, Outcomes
  <2>2. r \in Requests /\ (r.step \in OnClaim => r.step = "running" /\ r.id = d)
    BY <1>3, <2>1, OnIsRequest
  <2> HIDE DEF r
  <2>3. RequestKnows(r)' /\ r.step # "send" /\ r.step \notin Outcomes
    BY <1>2, <1>3, <1>5, <2>1, <2>2 DEF RequestKnows
  <2>4. Answer(m, r) BY <1>10 DEF r
  <2>5. CallsKnow' BY <1>7, <1>8, <2>2, <2>3, <2>4, AnswerKeepsCalls
  <2> QED BY <1>6, <1>9, <2>5, ClaimsInvPartsNext
<1>11. CASE wire' = (wire \ {m}) \cup {[m EXCEPT !.checked = TRUE]} /\ call' = call
  <2>1. CallsKnow' BY <1>2, <1>7, <1>8, <1>11, CheckKeepsCalls
  <2> QED BY <1>6, <1>9, <2>1, ClaimsInvPartsNext
<1> QED BY <1>10, <1>11 DEF StartBackground

LEMMA SettleIsTyped ==
    ASSUME HostTypes, NEW d \in Ids, NEW s, Settle(d, s) \/ ForceTerminal(d)
    PROVE  HostTypes'
<1>1. count' \in [Mishaps -> Nat]
  BY MishapIsTyped DEF Settle, ForceTerminal
<1> QED BY <1>1 DEF HostTypes, Settle, ForceTerminal, storeVars

\* The turn ends, in its own thread or in the thread that could not start it.
LEMMA EndKeepsClaims ==
    ASSUME ClaimsInv, NEW d \in Ids,
           \/ \E s \in Ends : Finish(d, s)
           \/ \E m \in wire : m.req.id = d /\ AbandonTurn(m)
    PROVE  ClaimsInv'
<1>1. StoreKnows /\ HostTypes BY ClaimsInvParts
<1>2. "failed" \in Outcomes /\ Ends \subseteq Outcomes BY ClaimsAssumption DEF Outcomes
<1>3. PICK s \in Outcomes : Settle(d, s) \/ ForceTerminal(d)
  BY <1>2 DEF Finish, AbandonTurn
<1>4. HostTypes' BY <1>1, <1>3, SettleIsTyped
<1>5. StoreKnows' /\ ClaimsStay /\ \A e \in Ids : Calm(e)
  <2>1. CASE Settle(d, s) BY <1>1, <2>1, SettleKnows
  <2>2. CASE ForceTerminal(d)
    BY <1>1, <2>2 DEF ForceTerminal, storeVars, StoreKnows, ClaimTellsOutcome, ClaimsStay, Calm
  <2> QED BY <1>3, <2>1, <2>2
<1>6. CASE \E t \in Ends : Finish(d, t)
  BY <1>4, <1>5, <1>6, OthersKeepClaims DEF Finish, callVars
<1>7. ASSUME NEW m \in wire, m.req.id = d, AbandonTurn(m) PROVE ClaimsInv'
  <2> DEFINE r == On(d, "reconciliation-required")
  <2>1. /\ "reconciliation-required" \in Steps /\ "reconciliation-required" \notin Outcomes
        /\ "idle" \notin OnClaim /\ "send" \in OnClaim /\ Outcomes \subseteq OnClaim
    BY IdleIsRequest DEF Steps, OnClaim, ClaimStates, OpenStates, Outcomes
  <2>2. Answer(m, r) /\ m.req.step = "send" BY <1>7 DEF AbandonTurn, AfterError, Handles
  <2>3. r \in Requests /\ (r.step \in OnClaim => r.step = "reconciliation-required" /\ r.id = d)
    BY <2>1, OnIsRequest
  <2> HIDE DEF r
  <2>4. claim[d].state # "none" BY <1>7, <2>1, <2>2, IdsOfRequests
  <2>5. RequestKnows(r)' /\ r.step # "send" /\ r.step \notin Outcomes
    BY <1>5, <2>1, <2>3, <2>4 DEF RequestKnows, ClaimsStay
  <2>6. \A o \in wire : Undisturbed(o.req) BY <1>5, CalmIsUndisturbed
  <2>7. CallsKnow' BY <1>5, <2>2, <2>3, <2>5, <2>6, AnswerKeepsCalls
  <2> QED BY <1>4, <1>5, <2>7, ClaimsInvPartsNext
<1> QED BY <1>6, <1>7

\* Notifications, the watchdog and callbacks touch a claim's deadline at most.
LEMMA NoticesKeepClaims ==
    ASSUME ClaimsInv, NEW d \in Ids,
           \/ NotifySubagentTerminal(d) \/ FireSubagentTimeout(d) \/ Expire(d)
           \/ \E w \in {"turn", "timer"} : DispatchSubagentCallback(w, d)
    PROVE  ClaimsInv'
<1>1. StoreKnows /\ HostTypes BY ClaimsInvParts
<1>2. StoreKnows' /\ ClaimsStay /\ \A e \in Ids : Calm(e)
  <2>1. claim' = [claim EXCEPT ![d].deadline = FALSE] \/ UNCHANGED claim
    BY DEF NotifySubagentTerminal, FireSubagentTimeout, Expire, DispatchSubagentCallback, storeVars
  <2>2. UNCHANGED <<member, dispatch>>
    BY DEF NotifySubagentTerminal, FireSubagentTimeout, Expire, DispatchSubagentCallback, storeVars
  <2>3. FALSE \in BOOLEAN OBVIOUS
  <2> QED BY <1>1, <2>1, <2>2, <2>3, DeadlineKnows
<1>3. HostTypes'
  <2>1. UNCHANGED count \/ Mishap("store")
    BY DEF NotifySubagentTerminal, FireSubagentTimeout, Expire, DispatchSubagentCallback
  <2>2. count' \in [Mishaps -> Nat]
    BY <1>1, <2>1, MishapIsTyped
  <2>3. CASE NotifySubagentTerminal(d) \/ FireSubagentTimeout(d) \/ Expire(d)
    BY <1>1, <2>2, <2>3 DEF HostTypes, NotifySubagentTerminal, FireSubagentTimeout, Expire
  <2>4. ASSUME NEW w \in {"turn", "timer"}, DispatchSubagentCallback(w, d) PROVE HostTypes'
    <3>1. signals' \in [Ids -> Nat] BY <1>1, <2>4 DEF HostTypes, DispatchSubagentCallback
    <3> QED BY <1>1, <2>2, <2>4, <3>1 DEF HostTypes, DispatchSubagentCallback
  <2> QED BY <2>3, <2>4
<1>4. UNCHANGED callVars
  BY DEF NotifySubagentTerminal, FireSubagentTimeout, Expire, DispatchSubagentCallback
<1> QED BY <1>2, <1>3, <1>4, OthersKeepClaims DEF callVars

\* What clear_conversation_history leaves of the claims.
LEMMA ClearKnows ==
    ASSUME StoreKnows, ClearConversationHistory
    PROVE  /\ StoreKnows' /\ ClaimsStay /\ \A d \in Ids : Calm(d)
           /\ \A d \in Ids :
                /\ dispatch[d] = "none" => dispatch'[d] = "none"
                /\ dispatch[d] # "none" => dispatch'[d] = "gone" /\ claim'[d].state = "gone"
                /\ claim'[d].deadline = claim[d].deadline
                /\ claim'[d].target = claim[d].target
                /\ claim'[d].state \in {claim[d].state, "gone"}
                /\ claim[d].state = "none" => claim'[d].state = "none"
<1>1. ASSUME NEW d \in Ids
      PROVE  /\ claim'[d] \in Claims /\ claim'[d].state \notin Outcomes
             /\ claim[d].state # "none" => claim'[d].state = "gone"
             /\ claim'[d].state \in {claim[d].state, "gone"}
             /\ claim[d].state = "none" => claim'[d].state = "none"
             /\ claim'[d].deadline = claim[d].deadline
             /\ claim'[d].target = claim[d].target
  <2>1. claim[d] \in Claims BY DEF StoreKnows
  <2>2. "gone" \notin Outcomes BY DEF Outcomes
  <2>3. CASE Exists(d)
    <3>1. claim'[d] = [claim[d] EXCEPT !.state = "gone"] BY <2>3 DEF ClearConversationHistory
    <3>2. claim[d].state # "none" BY <2>3 DEF Exists, ClaimStates, OpenStates, Outcomes
    <3> QED BY <2>1, <2>2, <3>1, <3>2, ClaimMoves
  <2>4. CASE ~Exists(d)
    <3>1. claim'[d] = claim[d] BY <2>4 DEF ClearConversationHistory
    <3> QED BY <2>1, <2>4, <3>1 DEF Exists, ClaimStates, Claims
  <2> QED BY <2>3, <2>4
<1>2. claim' \in [Ids -> Claims] BY <1>1 DEF ClearConversationHistory
<1>3. dispatch' = [d \in Ids |-> IF dispatch[d] = "none" THEN "none" ELSE "gone"] /\ member' = member
  BY DEF ClearConversationHistory
<1>4. StoreKnows' BY <1>1, <1>2, <1>3 DEF StoreKnows, ClaimTellsOutcome
<1> QED BY <1>1, <1>3, <1>4 DEF StoreKnows, ClaimsStay, Calm

\* Members, cleared history, crashes and openings of the store.
LEMMA WorldKeepsClaims ==
    ASSUME ClaimsInv,
           \/ \E a \in Members : LeaveMember(a) \/ AddMember(a)
           \/ ClearConversationHistory \/ Crash \/ Boot \/ ReopenStore
    PROVE  ClaimsInv'
<1>1. StoreKnows /\ HostTypes BY ClaimsInvParts
<1>2. CASE \E a \in Members : LeaveMember(a) \/ AddMember(a)
  <2>1. /\ UNCHANGED <<claim, dispatch, hostVars, callVars>> /\ member' \subseteq Members
        /\ UNCHANGED count \/ Mishap("leave")
    BY <1>1, <1>2 DEF LeaveMember, AddMember, StoreKnows
  <2>2. StoreKnows' /\ ClaimsStay /\ \A d \in Ids : Calm(d)
    BY <1>1, <2>1 DEF StoreKnows, ClaimTellsOutcome, ClaimsStay, Calm
  <2>3. HostTypes' BY <1>1, <2>1, MishapIsTyped DEF HostTypes, hostVars
  <2> QED BY <2>1, <2>2, <2>3, OthersKeepClaims DEF callVars
<1>3. CASE ClearConversationHistory
  <2>1. UNCHANGED <<hostVars, callVars, count>> BY <1>3 DEF ClearConversationHistory
  <2>2. HostTypes' BY <1>1, <2>1, HostRests
  <2> QED BY <1>1, <1>3, <2>1, <2>2, ClearKnows, OthersKeepClaims DEF callVars
<1>4. CASE Crash
  <2>1. HostTypes'
    <3>1. count' \in [Mishaps -> Nat]
      BY <1>1, <1>4, MishapIsTyped DEF Crash
    <3> QED BY <1>1, <1>4, <3>1 DEF Crash, HostTypes
  <2>2. StoreKnows' /\ ClaimsStay /\ \A d \in Ids : Calm(d)
    BY <1>1, <1>4 DEF Crash, storeVars, StoreKnows, ClaimTellsOutcome, ClaimsStay, Calm
  <2>3. call' = call /\ wire' = {} BY <1>4 DEF Crash
  <2> QED BY <2>1, <2>2, <2>3, OthersKeepClaims
<1>5. CASE Boot \/ ReopenStore
  <2>1. ColdRecover /\ member' = member /\ UNCHANGED callVars BY <1>5 DEF Boot, ReopenStore
  <2>2. StoreKnows' /\ ClaimsStay /\ \A d \in Ids : Calm(d) BY <1>1, <2>1, ColdRecoverKnows
  <2>3. HostTypes'
    <3>1. CASE Boot BY <1>1, <3>1 DEF Boot, HostTypes
    <3>2. CASE ReopenStore BY <1>1, <3>2, MishapIsTyped DEF ReopenStore, HostTypes, hostVars
    <3> QED BY <1>5, <3>1, <3>2
  <2> QED BY <2>1, <2>2, <2>3, OthersKeepClaims DEF callVars
<1> QED BY <1>2, <1>3, <1>4, <1>5

LEMMA NextKeepsClaims == ClaimsInv /\ [Next]_vars => ClaimsInv'
<1> SUFFICES ASSUME ClaimsInv, [Next]_vars PROVE ClaimsInv' OBVIOUS
<1>1. ASSUME NEW m \in wire, HostStep(m) PROVE ClaimsInv'
  <2>1. Timeouts \subseteq BOOLEAN BY ClaimsAssumption
  <2> QED
    BY <1>1, <2>1, ClaimKeepsClaims, RefusalKeepsClaims, StartKeepsClaims, FindKeepsClaims,
       ReadKeepsClaims, WriteKeepsClaims DEF HostStep
<1>2. ASSUME NEW d \in Ids, TurnStep(d) \/ Expire(d) PROVE ClaimsInv'
  BY <1>2, EndKeepsClaims, NoticesKeepClaims DEF TurnStep
<1>3. CASE UNCHANGED vars
  <2>1. UNCHANGED <<storeVars, hostVars, callVars, count>> BY <1>3 DEF vars
  <2>2. StoreKnows' /\ ClaimsStay /\ \A d \in Ids : Calm(d)
    BY <2>1, ClaimsInvParts DEF storeVars, StoreKnows, ClaimTellsOutcome, ClaimsStay, Calm
  <2>3. HostTypes' BY <2>1, ClaimsInvParts, HostRests
  <2> QED BY <2>1, <2>2, <2>3, OthersKeepClaims DEF callVars
<1> QED BY <1>1, <1>2, <1>3, CallsKeepClaims, WorldKeepsClaims DEF Next

LEMMA ClaimsCorrect == Spec => []ClaimsInv
<1> QED BY InitClaims, NextKeepsClaims, PTL DEF Spec

\* ClaimsAgree: the writeback of finish_runtime_dispatch, the reconciliations and
\* the late updates of tool calls never settle a claim differently from its turn.
THEOREM ClaimsTellTheOutcome == Spec => []ClaimsAgree
<1>1. ClaimsInv => ClaimsAgree BY DEF ClaimsInv, ClaimsAgree
<1> QED BY <1>1, ClaimsCorrect, PTL


-----------------------------------------------------------------------------
(* Signals.                                                                *)

LEMMA InitSignals == Init => SignalInv
<1> SUFFICES ASSUME Init, NEW d \in Ids PROVE SignalKnows(d) BY DEF SignalInv
<1>1. ~claim[d].deadline BY DEF Init
<1>2. \A w \in {"turn", "timer"} : notice[<<w, d>>] = "none" BY DEF Init
<1>3. d \notin live \cup watchdog \cup fired /\ signals[d] = 0 /\ dispatch[d] = "none"
  BY DEF Init
<1> QED BY <1>1, <1>2, <1>3 DEF SignalKnows, Busy

\* A step of the store or of a call, while the host keeps what it has.
LEMMA StoreKeepsSignals ==
    ASSUME SignalInv, UNCHANGED hostVars,
           \A d \in Ids :
             /\ dispatch[d] # "none" => dispatch'[d] # "none"
             /\ dispatch'[d] = "open" => dispatch[d] = "open"
             /\ dispatch'[d] = "gone" => claim'[d].state = "gone"
             /\ claim'[d].deadline => claim[d].deadline
    PROVE  SignalInv'
<1> SUFFICES ASSUME NEW d \in Ids PROVE SignalKnows(d)' BY DEF SignalInv
<1>1. SignalKnows(d) BY DEF SignalInv
<1>2. Busy(d)' => Busy(d) BY DEF Busy, hostVars
<1>3. Quiet(d) => Quiet(d)' BY DEF Quiet, hostVars
<1> QED BY <1>1, <1>2, <1>3 DEF SignalKnows, hostVars

\* Requests of calls, and the claims they make, find and update.
LEMMA RequestsKeepSignals ==
    ASSUME ClaimsInv, SignalInv,
           \/ UNCHANGED <<storeVars, hostVars>>
           \/ \E a \in Members : LeaveMember(a) \/ AddMember(a)
           \/ \E m \in wire : \/ \E d \in Ids : ClaimSubagentDispatch(m, d)
                              \/ ActiveSubagentClaim(m) \/ WriteClaim(m)
           \/ ClearConversationHistory \/ ReopenStore
    PROVE  SignalInv'
<1>1. StoreKnows BY ClaimsInvParts
<1>2. \A d \in Ids : dispatch[d] = "gone" => claim[d].state = "gone"
  BY DEF SignalInv, SignalKnows
<1>3. CASE UNCHANGED <<storeVars, hostVars>>
  BY <1>2, <1>3, StoreKeepsSignals DEF storeVars
<1>4. CASE \E a \in Members : LeaveMember(a) \/ AddMember(a)
  BY <1>2, <1>4, StoreKeepsSignals DEF LeaveMember, AddMember
<1>5. ASSUME NEW m \in wire, NEW d \in Ids, ClaimSubagentDispatch(m, d) PROVE SignalInv'
  <2> DEFINE k == [state |-> "claimed", caller |-> m.req.caller, target |-> m.req.target,
                   parent |-> m.req.parent, depth |-> DepthOf(m.req), deadline |-> FALSE]
  <2>1. claim' = [Reconciled EXCEPT ![d] = k] /\ UNCHANGED <<dispatch, hostVars>>
    BY <1>5 DEF ClaimSubagentDispatch
  <2>2. ~k.deadline OBVIOUS
  <2>3. dispatch[d] = "none" BY <1>1, <1>5 DEF ClaimSubagentDispatch, Fresh, StoreKnows
  <2> HIDE DEF k
  <2>4. claim'[d] = k /\ \A e \in Ids : e # d => claim'[e] = Reconciled[e]
    BY <1>1, <2>1, ReconciledKnows
  <2>5. ASSUME NEW e \in Ids
        PROVE  /\ claim'[e].deadline => claim[e].deadline
               /\ dispatch[e] = "gone" => claim'[e].state = "gone"
    BY <1>1, <1>2, <2>2, <2>3, <2>4, ReconciledKnows
  <2> QED BY <2>1, <2>5, StoreKeepsSignals
<1>6. ASSUME NEW m \in wire, ActiveSubagentClaim(m) PROVE SignalInv'
  BY <1>1, <1>2, <1>6, ReconciledKnows, StoreKeepsSignals DEF ActiveSubagentClaim
<1>7. ASSUME NEW m \in wire, WriteClaim(m) PROVE SignalInv'
  <2> DEFINE d == m.req.id
             s == m.req.step
  <2>1. s \in ClaimStates /\ ClaimStates \subseteq OnClaim BY <1>7 DEF WriteClaim, Handles, OnClaim
  <2>2. d \in Ids /\ claim \in [Ids -> Claims] /\ claim[d] \in Claims
    BY <1>1, <2>1, IdsOfRequests DEF StoreKnows
  <2>3. UNCHANGED <<dispatch, hostVars>> BY <1>7 DEF WriteClaim
  <2>4. CASE UNCHANGED claim BY <1>2, <2>3, <2>4, StoreKeepsSignals
  <2>5. CASE /\ Exists(d)
             /\ claim' = [claim EXCEPT ![d].state = s, ![d].deadline = @ /\ s \in OpenStates]
    <3> DEFINE j == [claim[d] EXCEPT !.state = s]
               k == [j EXCEPT !.deadline = j.deadline /\ s \in OpenStates]
    <3>1. j \in Claims /\ j.deadline = claim[d].deadline BY <2>1, <2>2, ClaimMoves
    <3>2. claim' = [[claim EXCEPT ![d] = j] EXCEPT ![d].deadline = @ /\ s \in OpenStates]
      BY <2>2, <2>5
    <3> HIDE DEF j
    <3>3. claim' = [claim EXCEPT ![d] = k] BY <2>2, <3>2
    <3>4. k.deadline => claim[d].deadline
      <4>1. (j.deadline /\ s \in OpenStates) \in BOOLEAN OBVIOUS
      <4>2. k.deadline = (j.deadline /\ s \in OpenStates) BY <3>1, <4>1, DeadlineMoves
      <4> QED BY <3>1, <4>2
    <3> HIDE DEF k
    <3>5. dispatch[d] # "gone"
      BY <1>2, <2>2, <2>5 DEF Exists, ClaimStates, OpenStates, Outcomes
    <3>6. \A e \in Ids : /\ claim'[e].deadline => claim[e].deadline
                         /\ dispatch[e] = "gone" => claim'[e].state = "gone"
      BY <1>2, <2>2, <3>3, <3>4, <3>5
    <3> QED BY <2>3, <3>6, StoreKeepsSignals
  <2> QED BY <1>7, <2>4, <2>5 DEF WriteClaim
<1>8. CASE ClearConversationHistory
  <2>1. UNCHANGED hostVars BY <1>8 DEF ClearConversationHistory
  <2>2. ASSUME NEW d \in Ids
        PROVE  /\ dispatch[d] # "none" => dispatch'[d] # "none"
               /\ dispatch'[d] # "open"
               /\ dispatch'[d] = "gone" => claim'[d].state = "gone"
               /\ claim'[d].deadline => claim[d].deadline
    BY <1>1, <1>8, ClearKnows
  <2> QED BY <2>1, <2>2, StoreKeepsSignals
<1>9. CASE ReopenStore
  <2>1. UNCHANGED hostVars /\ ColdRecover /\ member' = member BY <1>9 DEF ReopenStore
  <2> QED BY <1>1, <1>2, <2>1, ColdRecoverKnows, StoreKeepsSignals
<1> QED BY <1>3, <1>4, <1>5, <1>6, <1>7, <1>8, <1>9

\* A started turn has not been signalled yet.
LEMMA StartKeepsSignals ==
    ASSUME ClaimsInv, SignalInv, NEW m \in wire, NEW bounded, NEW driven,
           StartBackground(m, bounded, driven)
    PROVE  SignalInv'
<1> DEFINE d == m.req.id
<1>1. StoreKnows BY ClaimsInvParts
<1>2. d \in Ids
  <2>1. m.req.step \in OnClaim BY DEF StartBackground, Handles, OnClaim
  <2> QED BY <2>1, IdsOfRequests
<1>3. /\ up /\ dispatch[d] = "none" /\ dispatch' = [dispatch EXCEPT ![d] = "open"]
      /\ live' = live \cup {d} /\ watchdog' \subseteq watchdog \cup {d}
      /\ UNCHANGED <<up, notice, fired, signals>>
  BY DEF StartBackground, Handles
<1>4. dispatch'[d] = "open" /\ \A e \in Ids : e # d => dispatch'[e] = dispatch[e]
  BY <1>1, <1>2, <1>3 DEF StoreKnows
<1>5. \A e \in Ids : e # d => claim'[e] = claim[e]
  BY <1>1, <1>2 DEF StartBackground, StoreKnows
<1> SUFFICES ASSUME NEW e \in Ids PROVE SignalKnows(e)' BY DEF SignalInv
<1>6. SignalKnows(e) BY DEF SignalInv
<1>7. CASE e = d
  <2>1. signals[d] = 0 BY <1>3, <1>6, <1>7 DEF SignalKnows, Busy, Quiet
  <2> QED BY <1>3, <1>4, <1>7, <2>1 DEF SignalKnows
<1>8. CASE e # d
  <2>1. Busy(e)' => Busy(e) BY <1>3, <1>5, <1>8 DEF Busy
  <2>2. Quiet(e) => Quiet(e)' BY <1>3, <1>4, <1>8 DEF Quiet
  <2> QED BY <1>3, <1>4, <1>5, <1>6, <1>8, <2>1, <2>2 DEF SignalKnows
<1> QED BY <1>7, <1>8

\* A turn that settles leaves one notice; its claim was not signalled before,
\* or the host still knows.
LEMMA EndKeepsSignals ==
    ASSUME ClaimsInv, SignalInv, NEW d \in Ids,
           \/ \E s \in Ends : Finish(d, s)
           \/ \E m \in wire : m.req.id = d /\ AbandonTurn(m)
    PROVE  SignalInv'
<1>1. StoreKnows /\ HostTypes BY ClaimsInvParts
<1>2. "failed" \in Outcomes /\ Ends \subseteq Outcomes BY ClaimsAssumption DEF Outcomes
<1>3. PICK s \in Outcomes : Settle(d, s) \/ ForceTerminal(d)
  BY <1>2 DEF Finish, AbandonTurn
<1>4. up
  BY DEF Finish, AbandonTurn, Handles, SignalInv, SignalKnows
<1> SUFFICES ASSUME NEW e \in Ids PROVE SignalKnows(e)' BY DEF SignalInv
<1>5. SignalKnows(e) BY DEF SignalInv
<1>6. CASE Settle(d, s)
  <2>1. /\ UNCHANGED <<up, watchdog, fired, signals>> /\ live' = live \ {d}
        /\ notice' = [notice EXCEPT ![<<"turn", d>>] = "read"]
    BY <1>6 DEF Settle
  <2>2. /\ dispatch[d] = "open" /\ dispatch'[d] = s /\ claim'[e].deadline = claim[e].deadline
        /\ e # d => dispatch'[e] = dispatch[e] /\ claim'[e] = claim[e]
    BY <1>1, <1>6, SettleKnows
  <2>3. s \notin {"none", "open", "gone"} BY DEF Outcomes
  <2>4. e # d => \A w \in {"turn", "timer"} : notice'[<<w, e>>] = notice[<<w, e>>]
    BY <1>1, <2>1 DEF HostTypes
  <2>5. CASE e = d
    BY <1>4, <1>5, <2>1, <2>2, <2>3, <2>5 DEF SignalKnows, Quiet
  <2>6. CASE e # d
    <3>1. Busy(e)' => Busy(e) BY <2>1, <2>2, <2>4, <2>6 DEF Busy
    <3>2. Quiet(e) => Quiet(e)' BY <2>1, <2>2, <2>4, <2>6 DEF Quiet
    <3> QED BY <1>4, <1>5, <2>1, <2>2, <2>6, <3>1, <3>2 DEF SignalKnows
  <2> QED BY <2>5, <2>6
<1>7. CASE ForceTerminal(d)
  <2>1. UNCHANGED <<storeVars, up, watchdog, notice, fired, signals>> /\ live' = live \ {d}
    BY <1>7 DEF ForceTerminal
  <2>2. Busy(e)' => Busy(e) BY <2>1 DEF Busy, storeVars
  <2>3. Quiet(e) => Quiet(e)' BY <2>1 DEF Quiet, storeVars
  <2> QED BY <1>5, <2>1, <2>2, <2>3 DEF SignalKnows, storeVars
<1> QED BY <1>3, <1>6, <1>7

\* notify_subagent_terminal, the watchdog and dispatch_subagent_callback: the
\* fired set lets one callback through while the host runs.
LEMMA NoticesKeepSignals ==
    ASSUME ClaimsInv, SignalInv, NEW d \in Ids,
           \/ NotifySubagentTerminal(d) \/ FireSubagentTimeout(d) \/ Expire(d)
           \/ \E w \in {"turn", "timer"} : DispatchSubagentCallback(w, d)
    PROVE  SignalInv'
<1>1. StoreKnows /\ HostTypes /\ SignalKnows(d) BY ClaimsInvParts DEF SignalInv
<1>2. PICK w \in {"turn", "timer"}, s \in {"none", "read", "fire"} :
          /\ notice' = [notice EXCEPT ![<<w, d>>] = s]
          /\ d \in watchdog \/ notice[<<w, d>>] # "none"
  BY DEF NotifySubagentTerminal, FireSubagentTimeout, Expire, DispatchSubagentCallback
<1>3. /\ UNCHANGED <<dispatch, up, live>> /\ watchdog' \subseteq watchdog
      /\ fired \subseteq fired' /\ fired' \subseteq fired \cup {d}
  BY DEF NotifySubagentTerminal, FireSubagentTimeout, Expire, DispatchSubagentCallback, storeVars
<1>4. Busy(d) /\ ~Quiet(d) /\ up BY <1>1, <1>2 DEF Busy, Quiet, SignalKnows
<1>5. \A e \in Ids : claim'[e].state = claim[e].state /\ (claim'[e].deadline => claim[e].deadline)
  <2>1. claim' = claim \/ claim' = [claim EXCEPT ![d].deadline = FALSE]
    BY DEF NotifySubagentTerminal, FireSubagentTimeout, Expire, DispatchSubagentCallback, storeVars
  <2> DEFINE k == [claim[d] EXCEPT !.deadline = FALSE]
  <2>2. claim[d] \in Claims /\ FALSE \in BOOLEAN BY <1>1 DEF StoreKnows
  <2>3. k.state = claim[d].state /\ k.deadline = FALSE BY <2>2, DeadlineMoves
  <2>4. claim' = claim \/ claim' = [claim EXCEPT ![d] = k] BY <2>1
  <2> HIDE DEF k
  <2> QED BY <1>1, <2>3, <2>4 DEF StoreKnows
<1>6. /\ \A e \in Ids : e # d => signals'[e] = signals[e]
      /\ signals'[d] = signals[d] \/ (signals'[d] = signals[d] + 1 /\ d \notin fired /\ d \in fired')
  BY <1>1 DEF HostTypes, NotifySubagentTerminal, FireSubagentTimeout, Expire,
              DispatchSubagentCallback
<1> SUFFICES ASSUME NEW e \in Ids PROVE SignalKnows(e)' BY DEF SignalInv
<1>7. SignalKnows(e) BY DEF SignalInv
<1>8. CASE e = d
  <2>1. dispatch'[d] # "none" BY <1>1, <1>3, <1>4 DEF SignalKnows
  <2>2. signals[d] = 1 => d \in fired BY <1>1, <1>4 DEF SignalKnows
  <2>3. signals'[d] \in {0, 1} /\ (signals'[d] = 1 => d \in fired')
    BY <1>1, <1>3, <1>6, <2>2 DEF SignalKnows
  <2> QED BY <1>1, <1>3, <1>4, <1>5, <1>8, <2>1, <2>3 DEF SignalKnows
<1>9. CASE e # d
  <2>1. \A v \in {"turn", "timer"} : notice'[<<v, e>>] = notice[<<v, e>>]
    BY <1>1, <1>2, <1>9 DEF HostTypes
  <2>2. Busy(e)' => Busy(e) BY <1>3, <1>5, <1>9, <2>1 DEF Busy
  <2>3. Quiet(e) => Quiet(e)' BY <1>3, <2>1 DEF Quiet
  <2> QED BY <1>3, <1>4, <1>5, <1>6, <1>7, <1>9, <2>2, <2>3 DEF SignalKnows
<1> QED BY <1>8, <1>9

\* A crash forgets which callbacks were fired, but also every notice; at boot
\* cold_recover settles the claims of all started turns before the watchdogs are
\* armed again, so that none of them is.
LEMMA RestartsKeepSignals ==
    ASSUME ClaimsInv, SignalInv, Crash \/ Boot
    PROVE  SignalInv'
<1>1. StoreKnows /\ HostTypes BY ClaimsInvParts
<1> SUFFICES ASSUME NEW d \in Ids PROVE SignalKnows(d)' BY DEF SignalInv
<1>2. SignalKnows(d) BY DEF SignalInv
<1>3. signals[d] = 1 => dispatch[d] # "none" BY <1>2 DEF SignalKnows, Busy, Quiet
<1>4. CASE Crash
  <2>1. /\ live' = {} /\ watchdog' = {} /\ fired' = {} /\ up' = FALSE
        /\ \A w \in {"turn", "timer"} : notice'[<<w, d>>] = "none"
        /\ UNCHANGED <<storeVars, signals>>
    BY <1>4 DEF Crash
  <2>2. Busy(d)' => Busy(d) BY <2>1 DEF Busy, storeVars
  <2>3. dispatch[d] # "none" => Quiet(d)' BY <2>1 DEF Quiet, storeVars
  <2> QED BY <1>2, <1>3, <2>1, <2>2, <2>3 DEF SignalKnows, storeVars
<1>5. CASE Boot
  <2>1. /\ ~up /\ up' /\ ColdRecover /\ member' = member
        /\ watchdog' = {e \in Ids : claim'[e].deadline /\ claim'[e].state \in OpenStates}
        /\ UNCHANGED <<live, notice, fired, signals>>
    BY <1>5 DEF Boot
  <2>2. /\ dispatch'[d] # "open" /\ (dispatch'[d] = "none" <=> dispatch[d] = "none")
        /\ dispatch'[d] = "gone" <=> dispatch[d] = "gone"
        /\ dispatch[d] \in {"none", "gone"} => claim'[d] = claim[d]
        /\ dispatch'[d] \in Outcomes => claim'[d].state \notin OpenStates
        /\ claim'[d].deadline = claim[d].deadline
        /\ dispatch'[d] \in Outcomes \cup {"none", "open", "gone"}
    BY <1>1, <2>1, ColdRecoverKnows DEF StoreKnows
  <2>3. d \notin watchdog'
    <3>1. "gone" \notin OpenStates BY DEF OpenStates
    <3>2. CASE dispatch[d] = "none"
      BY <1>2, <2>1, <2>2, <3>2 DEF SignalKnows, Busy
    <3>3. CASE dispatch[d] = "gone"
      BY <1>2, <2>1, <2>2, <3>1, <3>3 DEF SignalKnows
    <3>4. CASE dispatch[d] \notin {"none", "gone"} BY <2>1, <2>2, <3>4
    <3> QED BY <3>2, <3>3, <3>4
  <2>4. Busy(d)' => Busy(d) BY <2>1, <2>2, <2>3 DEF Busy
  <2>5. dispatch[d] # "none" => Quiet(d)'
    BY <1>2, <2>1, <2>2, <2>3 DEF Quiet, SignalKnows
  <2> QED BY <1>2, <1>3, <2>1, <2>2, <2>3, <2>4, <2>5 DEF SignalKnows
<1> QED BY <1>4, <1>5

LEMMA NextKeepsSignals == ClaimsInv /\ SignalInv /\ [Next]_vars => SignalInv'
<1> SUFFICES ASSUME ClaimsInv, SignalInv, [Next]_vars PROVE SignalInv' OBVIOUS
<1>1. ASSUME NEW c \in Calls, NEW e \in Edges,
             CancelCall(c, e) \/ \E p \in Ids \cup {None} : Delegate(c, e, p)
      PROVE  SignalInv'
  BY <1>1, RequestsKeepSignals DEF CancelCall, Delegate
<1>2. ASSUME NEW c \in Calls, Timeout(c) PROVE SignalInv'
  BY <1>2, RequestsKeepSignals DEF Timeout
<1>3. ASSUME NEW m \in wire, ConnectFails(m) \/ HostStep(m) PROVE SignalInv'
  <2>1. CASE \/ ConnectFails(m) \/ ClaimIsRefused(m) \/ StartIsRefused(m) \/ ReadClaim(m)
             \/ CancelActive(m)
    BY <2>1, RequestsKeepSignals
    DEF ConnectFails, ClaimIsRefused, StartIsRefused, ReadClaim, CancelActive
  <2>2. CASE (\E d \in Ids : ClaimSubagentDispatch(m, d)) \/ ActiveSubagentClaim(m) \/ WriteClaim(m)
    BY <2>2, RequestsKeepSignals
  <2>3. CASE \E bounded \in Timeouts, driven \in BOOLEAN : StartBackground(m, bounded, driven)
    BY <2>3, StartKeepsSignals
  <2> QED BY <1>3, <2>1, <2>2, <2>3 DEF HostStep
<1>4. ASSUME NEW d \in Ids, TurnStep(d) \/ Expire(d) PROVE SignalInv'
  BY <1>4, EndKeepsSignals, NoticesKeepSignals DEF TurnStep
<1>5. CASE \/ \E a \in Members : LeaveMember(a) \/ AddMember(a)
           \/ ClearConversationHistory \/ ReopenStore
  BY <1>5, RequestsKeepSignals
<1>6. CASE Crash \/ Boot BY <1>6, RestartsKeepSignals
<1>7. CASE UNCHANGED vars BY <1>7, RequestsKeepSignals DEF vars
<1> QED BY <1>1, <1>2, <1>3, <1>4, <1>5, <1>6, <1>7 DEF Next

\* OneSignal: dispatch_subagent_callback starts at most one callback turn per
\* claim, although a restart of the host forgets which ones it started.
THEOREM SignalledOnce == Spec => []OneSignal
<1>1. SignalInv => OneSignal
  <2>1. SignalInv => \A d \in Ids : signals[d] \in {0, 1} BY DEF SignalInv, SignalKnows
  <2>2. \A n \in {0, 1} : n <= 1 OBVIOUS
  <2> QED BY <2>1, <2>2 DEF OneSignal
<1> QED BY <1>1, InitSignals, NextKeepsSignals, ClaimsCorrect, PTL DEF Spec


-----------------------------------------------------------------------------
(* Stranded edges.                                                         *)

\* The states of a claim whose turn was started.
Started == {"running", "cancel-requested", "reconciliation-required"}

\* A request that starts the turn of a claim or gives the claim up.
Carries(r, d) == r.id = d /\ r.step \in {"send", "failed"}

\* A claim whose turn was not started has a request on the wire that will start
\* it or give it up.
EdgeKnows(d) ==
    /\ claim[d].state # "none" => claim[d].target \in Members
    /\ claim[d].state \in Started => dispatch[d] # "none"
    /\ Open(d) /\ dispatch[d] = "none" => \E m \in wire : Carries(m.req, d)

\* A request that only follows the start of a turn is about a turn that was
\* started; a claim is given up only after a request that did not reach the host.
RequestIsSound(r, checked) ==
    /\ r.step \notin {"idle", "claimed"}
    /\ r.step = "send" => ~checked
    /\ r.step = "failed" => count["connect"] # 0
    /\ r.step \in {"running", "reconciliation-required", "cancel"} => dispatch[r.id] # "none"
    /\ r.step = "cancel-requested" /\ checked => dispatch[r.id] # "none"

\* Every call waits for the one request it has on the wire.
CallsWait ==
    /\ \A m \in wire : call[m.call] = m.req
    /\ \A m, n \in wire : m.call = n.call => m = n
    /\ \A c \in Calls : call[c] # Idle => \E m \in wire : m.call = c

EdgeInv ==
    /\ up /\ member = Members /\ CallsWait
    /\ \A m \in wire : RequestIsSound(m.req, m.checked)
    /\ \A d \in Ids : EdgeKnows(d)

\* What a step may do to a claim without stranding it.
EdgeStays(d) ==
    /\ claim'[d].target = claim[d].target
    /\ claim[d].state = "none" => claim'[d].state = "none"
    /\ dispatch[d] # "none" => dispatch'[d] # "none"
    /\ dispatch'[d] = "none" => claim'[d].state \in {claim[d].state, "failed", "gone"}

\* A new claim, whose call goes on to request r.
EdgeBegins(d, r) ==
    /\ claim'[d].state = "claimed" /\ claim'[d].target \in Members
    /\ r.id = d /\ r.step = "send"

FailedStays == count["connect"] # 0 => count'["connect"] # 0

\* The one mishap that leaves the system unharmed, but for a store opened again, is
\* the first request that did not reach the host.
LEMMA HarmlessMishap ==
    ASSUME HostTypes, NEW kind \in Mishaps \ {"reopen"}, Mishap(kind), Unharmed'
    PROVE  kind = "connect" /\ Unharmed /\ count["connect"] = 0 /\ count'["connect"] = 1
<1>1. /\ \A k \in Mishaps : count[k] \in Nat
      /\ \A k \in Mishaps : count'[k] = IF k = kind THEN count[k] + 1 ELSE count[k]
  BY DEF HostTypes, Mishap
<1>2. {"connect", "timeout", "store", "leave", "crash"} \subseteq Mishaps BY DEF Mishaps
<1>3. \A k \in {"timeout", "store", "leave", "crash"} : k # kind
  BY <1>1, <1>2 DEF Unharmed
<1>4. kind = "connect" BY <1>3 DEF Mishaps
<1> QED BY <1>1, <1>2, <1>4 DEF Unharmed

LEMMA NoStoreFails == ASSUME HostTypes, Unharmed' PROVE ~Mishap("store")
<1>1. "store" \in Mishaps \ {"reopen"} BY DEF Mishaps
<1> QED BY <1>1, HarmlessMishap

\* A claim that stays is as well known as before.
LEMMA StayingEdge ==
    ASSUME NEW d \in Ids, EdgeKnows(d), EdgeStays(d)
    PROVE  /\ claim'[d].state # "none" => claim'[d].target \in Members
           /\ claim'[d].state \in Started => dispatch'[d] # "none"
           /\ Open(d)' /\ dispatch'[d] = "none" => Open(d) /\ dispatch[d] = "none"
<1>1. "failed" \notin Started \cup OpenStates /\ "gone" \notin Started \cup OpenStates
  BY DEF Started, OpenStates
<1> QED BY <1>1 DEF EdgeKnows, EdgeStays, Open

\* A request stays sound while turns and faults only become more.
LEMMA StayingRequest ==
    ASSUME ClaimsInv, NEW m \in wire, RequestIsSound(m.req, m.checked), FailedStays,
           \A d \in Ids : dispatch[d] # "none" => dispatch'[d] # "none"
    PROVE  RequestIsSound(m.req, m.checked)'
<1>1. m.req.step \in {"running", "reconciliation-required", "cancel", "cancel-requested"}
        => m.req.id \in Ids
  BY IdsOfRequests DEF OnClaim, ClaimStates, OpenStates
<1> QED BY <1>1 DEF RequestIsSound, FailedStays

\* A step that answers nobody.
LEMMA OthersKeepEdges ==
    ASSUME ClaimsInv, EdgeInv, UNCHANGED <<up, member, callVars>>, FailedStays,
           \A d \in Ids : EdgeStays(d)
    PROVE  EdgeInv'
<1>1. call' = call /\ wire' = wire BY DEF callVars
<1>2. ASSUME NEW m \in wire PROVE RequestIsSound(m.req, m.checked)'
  BY StayingRequest DEF EdgeInv, EdgeStays
<1>3. ASSUME NEW d \in Ids PROVE EdgeKnows(d)'
  BY <1>1, StayingEdge DEF EdgeInv, EdgeKnows
<1>4. CallsWait' BY <1>1 DEF EdgeInv, CallsWait
<1> QED BY <1>1, <1>2, <1>3, <1>4 DEF EdgeInv

\* A call that waits goes on to its next request, or ends.
LEMMA AnswerMoves ==
    ASSUME ClaimsInv, CallsWait, NEW m \in wire, NEW r \in Requests, Answer(m, r)
    PROVE  LET n == [call |-> m.call, req |-> r, checked |-> FALSE]
           IN  /\ CallsWait'
               /\ wire' = (wire \ {m}) \cup (IF r = Idle THEN {} ELSE {n})
<1> DEFINE n == [call |-> m.call, req |-> r, checked |-> FALSE]
<1>1. m.call \in Calls /\ \A o \in wire : o.call \in Calls BY IdsOfRequests
<1>2. n.call = m.call /\ n.req = r BY <1>1, NewMessage
<1>3. /\ call' = [call EXCEPT ![m.call] = r]
      /\ wire' = (wire \ {m}) \cup (IF r = Idle THEN {} ELSE {n})
  BY DEF Answer, Proceed, CallsWait
<1> HIDE DEF n
<1>4. call'[m.call] = r /\ \A c \in Calls : c # m.call => call'[c] = call[c]
  BY <1>1, <1>3 DEF ClaimsInv, TypeOK
<1>5. \A o \in wire \ {m} : o.call # m.call BY DEF CallsWait
<1>6. \A o \in wire' : call'[o.call] = o.req
  BY <1>1, <1>2, <1>3, <1>4, <1>5 DEF CallsWait
<1>7. \A o, q \in wire' : o.call = q.call => o = q
  BY <1>2, <1>3, <1>5 DEF CallsWait
<1>8. ASSUME NEW c \in Calls, call'[c] # Idle PROVE \E o \in wire' : o.call = c
  <2>1. CASE c = m.call BY <1>2, <1>3, <1>4, <1>8, <2>1
  <2>2. CASE c # m.call BY <1>3, <1>4, <1>8, <2>2 DEF CallsWait
  <2> QED BY <2>1, <2>2
<1> QED BY <1>3, <1>6, <1>7, <1>8 DEF CallsWait, n

\* The host answers m, and the call that made it goes on to r.
LEMMA AnswerKeepsEdges ==
    ASSUME ClaimsInv, EdgeInv, NEW m \in wire, NEW r \in Requests, Answer(m, r),
           UNCHANGED <<up, member>>, FailedStays,
           \A d \in Ids : dispatch[d] # "none" => dispatch'[d] # "none",
           \A d \in Ids : EdgeStays(d) \/ EdgeBegins(d, r),
           r # Idle => RequestIsSound(r, FALSE)',
           \A d \in Ids : Carries(m.req, d) /\ Open(d)' /\ dispatch'[d] = "none"
                            => Carries(r, d)
    PROVE  EdgeInv'
<1> DEFINE n == [call |-> m.call, req |-> r, checked |-> FALSE]
<1>1. n.req = r /\ n.checked = FALSE OBVIOUS
<1>2. CallsWait' /\ wire' = (wire \ {m}) \cup (IF r = Idle THEN {} ELSE {n})
  BY AnswerMoves DEF EdgeInv
<1> HIDE DEF n
<1>3. ASSUME NEW o \in wire' PROVE RequestIsSound(o.req, o.checked)'
  <2>1. CASE o \in wire BY <2>1, StayingRequest DEF EdgeInv
  <2>2. CASE o \notin wire
    <3>1. o = n /\ r # Idle BY <1>2, <2>2
    <3> QED BY <1>1, <3>1
  <2> QED BY <2>1, <2>2
<1>4. Idle.id = None /\ None \notin Ids BY DEF Idle, None, Ids
<1>5. ASSUME NEW d \in Ids, Carries(r, d) PROVE \E o \in wire' : Carries(o.req, d)
  BY <1>1, <1>2, <1>4, <1>5 DEF Carries
<1>6. ASSUME NEW d \in Ids PROVE EdgeKnows(d)'
  <2>1. CASE EdgeBegins(d, r)
    <3>1. "claimed" \notin Started BY DEF Started
    <3> QED BY <1>5, <2>1, <3>1 DEF EdgeBegins, EdgeKnows, Carries
  <2>2. CASE EdgeStays(d)
    <3>1. /\ claim'[d].state # "none" => claim'[d].target \in Members
          /\ claim'[d].state \in Started => dispatch'[d] # "none"
          /\ Open(d)' /\ dispatch'[d] = "none" => Open(d) /\ dispatch[d] = "none"
      BY <2>2, StayingEdge DEF EdgeInv
    <3>2. ASSUME Open(d)', dispatch'[d] = "none" PROVE \E o \in wire' : Carries(o.req, d)
      <4>1. PICK o \in wire : Carries(o.req, d) BY <3>1, <3>2 DEF EdgeInv, EdgeKnows
      <4>2. CASE o = m BY <1>5, <3>2, <4>1, <4>2
      <4>3. CASE o # m BY <1>2, <4>1, <4>3
      <4> QED BY <4>2, <4>3
    <3> QED BY <3>1, <3>2 DEF EdgeKnows
  <2> QED BY <2>1, <2>2
<1> QED BY <1>2, <1>3, <1>6 DEF EdgeInv


LEMMA OnNames ==
    ASSUME NEW d \in Ids \cup {None}, NEW s \in Steps \ {"idle"}
    PROVE  On(d, s) \in Requests /\ On(d, s).step = s /\ On(d, s).id = d
<1> DEFINE r == [step |-> s, caller |-> None, target |-> None, parent |-> None, id |-> d]
<1>1. On(d, s) = r BY DEF On, Idle
<1>2. r \in Requests /\ r.step = s /\ r.id = d BY RequestFields
<1> HIDE DEF r
<1> QED BY <1>1, <1>2

\* The host answers m and leaves the store alone.
LEMMA PlainAnswerKeepsEdges ==
    ASSUME ClaimsInv, EdgeInv, NEW m \in wire, NEW r \in Requests, Answer(m, r),
           UNCHANGED <<storeVars, hostVars>>, FailedStays,
           r # Idle => RequestIsSound(r, FALSE)',
           \A d \in Ids : Carries(m.req, d) /\ Open(d) => Carries(r, d)
    PROVE  EdgeInv'
<1>1. UNCHANGED <<up, member, claim, dispatch>> BY DEF storeVars, hostVars
<1>2. \A d \in Ids : EdgeStays(d) BY <1>1 DEF EdgeStays
<1>3. \A d \in Ids : Open(d)' => Open(d) BY <1>1 DEF Open
<1> QED BY <1>1, <1>2, <1>3, AnswerKeepsEdges

\* A request that is looked at and stays on the wire.
LEMMA CheckKeepsEdges ==
    ASSUME ClaimsInv, EdgeInv, NEW m \in wire, RequestIsSound(m.req, TRUE),
           wire' = (wire \ {m}) \cup {[m EXCEPT !.checked = TRUE]},
           UNCHANGED <<storeVars, hostVars, call, count>>
    PROVE  EdgeInv'
<1> DEFINE n == [m EXCEPT !.checked = TRUE]
<1>1. m \in Messages BY IdsOfRequests
<1>2. n.call = m.call /\ n.req = m.req /\ n.checked BY <1>1, CheckedMessage
<1>3. n.checked = TRUE BY <1>1 DEF Messages
<1> HIDE DEF n
<1>4. wire' = (wire \ {m}) \cup {n} BY DEF n
<1>5. UNCHANGED <<up, member, claim, dispatch, call, count>> BY DEF storeVars, hostVars
<1>6. CallsWait'
  <2>1. \A o \in wire' : call'[o.call] = o.req BY <1>2, <1>4, <1>5 DEF EdgeInv, CallsWait
  <2>2. \A o, q \in wire' : o.call = q.call => o = q BY <1>2, <1>4 DEF EdgeInv, CallsWait
  <2>3. ASSUME NEW c \in Calls, call'[c] # Idle PROVE \E o \in wire' : o.call = c
    <3>1. PICK o \in wire : o.call = c BY <1>5, <2>3 DEF EdgeInv, CallsWait
    <3> QED BY <1>2, <1>4, <3>1
  <2> QED BY <2>1, <2>2, <2>3 DEF CallsWait
<1>7. ASSUME NEW o \in wire' PROVE RequestIsSound(o.req, o.checked)'
  <2>1. CASE o = n BY <1>2, <1>3, <1>5, <2>1 DEF RequestIsSound
  <2>2. CASE o # n BY <1>4, <1>5, <2>2 DEF EdgeInv, RequestIsSound
  <2> QED BY <2>1, <2>2
<1>8. ASSUME NEW d \in Ids PROVE EdgeKnows(d)'
  <2>1. ASSUME NEW o \in wire, Carries(o.req, d) PROVE \E q \in wire' : Carries(q.req, d)
    BY <1>2, <1>4, <2>1
  <2> QED BY <1>5, <2>1 DEF EdgeInv, EdgeKnows, Open
<1> QED BY <1>5, <1>6, <1>7, <1>8 DEF EdgeInv

\* A new call makes its first request.
LEMMA NewCallKeepsEdges ==
    ASSUME ClaimsInv, EdgeInv, NEW c \in Calls, New(c), NEW r \in Requests,
           r.step \in {"claim", "find"}, Proceed(c, r, wire),
           UNCHANGED <<storeVars, hostVars, count>>
    PROVE  EdgeInv'
<1> DEFINE n == [call |-> c, req |-> r, checked |-> FALSE]
<1>1. n.call = c /\ n.req = r /\ n.checked = FALSE OBVIOUS
<1> HIDE DEF n
<1>2. r # Idle BY DEF Idle
<1>3. wire' = wire \cup {n} /\ call' = [call EXCEPT ![c] = r] BY <1>2 DEF Proceed, n
<1>4. UNCHANGED <<up, member, claim, dispatch, count>> BY DEF storeVars, hostVars
<1>5. call'[c] = r /\ \A k \in Calls : k # c => call'[k] = call[k]
  BY <1>3 DEF ClaimsInv, TypeOK
<1>6. \A o \in wire : o.call \in Calls /\ o.call # c BY IdsOfRequests DEF New
<1>7. CallsWait'
  <2>1. \A o \in wire' : call'[o.call] = o.req BY <1>1, <1>3, <1>5, <1>6 DEF EdgeInv, CallsWait
  <2>2. \A o, q \in wire' : o.call = q.call => o = q BY <1>1, <1>3, <1>6 DEF EdgeInv, CallsWait
  <2>3. ASSUME NEW k \in Calls, call'[k] # Idle PROVE \E o \in wire' : o.call = k
    <3>1. CASE k = c BY <1>1, <1>3, <3>1
    <3>2. CASE k # c BY <1>3, <1>5, <2>3, <3>2 DEF EdgeInv, CallsWait
    <3> QED BY <3>1, <3>2
  <2> QED BY <2>1, <2>2, <2>3 DEF CallsWait
<1>8. ASSUME NEW o \in wire' PROVE RequestIsSound(o.req, o.checked)'
  <2>1. CASE o = n BY <1>1, <2>1 DEF RequestIsSound
  <2>2. CASE o # n BY <1>3, <1>4, <2>2 DEF EdgeInv, RequestIsSound
  <2> QED BY <2>1, <2>2
<1>9. ASSUME NEW d \in Ids PROVE EdgeKnows(d)'
  BY <1>3, <1>4 DEF EdgeInv, EdgeKnows, Open
<1> QED BY <1>4, <1>7, <1>8, <1>9 DEF EdgeInv


-----------------------------------------------------------------------------
(* Every step that leaves the system unharmed keeps EdgeInv.               *)

\* Calls begin, or cannot reach the host; they do not give up on an answer,
\* which is on its way.
LEMMA CallsKeepEdges ==
    ASSUME ClaimsInv, EdgeInv, Unharmed',
           \/ \E c \in Calls, e \in Edges :
                CancelCall(c, e) \/ \E p \in Ids \cup {None} : Delegate(c, e, p)
           \/ \E c \in Calls : Timeout(c)
           \/ \E m \in wire : ConnectFails(m)
    PROVE  EdgeInv'
<1>0. HostTypes /\ None \in Ids \cup {None} BY ClaimsInvParts
<1>1. ASSUME NEW c \in Calls, NEW e \in Edges, NEW p \in Ids \cup {None},
             CancelCall(c, e) \/ Delegate(c, e, p)
      PROVE  EdgeInv'
  <2>1. e[1] \in Members \cup {None} /\ e[2] \in Members \cup {None} BY ClaimsAssumption
  <2> DEFINE r(s, q) == [step |-> s, caller |-> e[1], target |-> e[2], parent |-> q, id |-> None]
  <2>2. PICK s \in {"claim", "find"}, q \in Ids \cup {None} : Proceed(c, r(s, q), wire)
    <3>1. [Idle EXCEPT !.step = "find", !.caller = e[1], !.target = e[2]] = r("find", None)
      BY FindIsRequest
    <3>2. CASE CancelCall(c, e) BY <1>0, <3>1, <3>2 DEF CancelCall
    <3>3. CASE Delegate(c, e, p) BY <3>3 DEF Delegate
    <3> QED BY <1>1, <3>2, <3>3
  <2>3. s \in Steps BY <2>2 DEF Steps
  <2>4. r(s, q) \in Requests /\ r(s, q).step = s BY <1>0, <2>1, <2>3, RequestFields
  <2>5. UNCHANGED <<storeVars, hostVars, count>> /\ New(c) BY <1>1 DEF CancelCall, Delegate
  <2> HIDE DEF r
  <2> QED BY <2>2, <2>4, <2>5, NewCallKeepsEdges
<1>2. ASSUME NEW c \in Calls, Timeout(c) PROVE FALSE
  <2>1. \E m \in wire : m.call = c /\ m.req = call[c]
    BY <1>2 DEF EdgeInv, CallsWait, Timeout
  <2>2. Mishap("timeout") BY <1>2, <2>1 DEF Timeout
  <2>3. "timeout" \in Mishaps \ {"reopen"} BY DEF Mishaps
  <2> QED BY <1>0, <2>2, <2>3, HarmlessMishap
<1>3. ASSUME NEW m \in wire, ConnectFails(m) PROVE EdgeInv'
  <2>1. count["connect"] = 0 /\ count'["connect"] = 1
    <3>1. "connect" \in Mishaps \ {"reopen"} BY DEF Mishaps
    <3> QED BY <1>0, <1>3, <3>1, HarmlessMishap DEF ConnectFails
  <2>2. FailedStays BY <2>1 DEF FailedStays
  <2>3. UNCHANGED <<storeVars, hostVars>> BY <1>3 DEF ConnectFails
  <2>4. dispatch' = dispatch BY <2>3 DEF storeVars
  <2>5. m.req.step # "failed" /\ m.req.id \in Ids \cup {None}
    BY <2>1, IdsOfRequests DEF EdgeInv, RequestIsSound
  <2>6. CASE m.req.step = "send"
    <3> DEFINE r == On(m.req.id, "failed")
    <3>1. "failed" \in Steps \ {"idle"} BY DEF Steps, ClaimStates, Outcomes
    <3>2. r \in Requests /\ r.step = "failed" /\ r.id = m.req.id BY <2>5, <3>1, OnNames
    <3>3. Answer(m, r) BY <1>3, <2>6 DEF ConnectFails, AfterRefusal
    <3> HIDE DEF r
    <3>4. RequestIsSound(r, FALSE)' BY <2>1, <3>2 DEF RequestIsSound
    <3>5. \A d \in Ids : Carries(m.req, d) => Carries(r, d) BY <3>2 DEF Carries
    <3> QED BY <2>2, <2>3, <3>2, <3>3, <3>4, <3>5, PlainAnswerKeepsEdges
  <2>7. CASE m.req.step = "cancel"
    <3> DEFINE r == On(m.req.id, "reconciliation-required")
    <3>1. "reconciliation-required" \in Steps \ {"idle"} BY DEF Steps, ClaimStates, OpenStates
    <3>2. r \in Requests /\ r.step = "reconciliation-required" /\ r.id = m.req.id
      BY <2>5, <3>1, OnNames
    <3>3. Answer(m, r) BY <1>3, <2>7 DEF ConnectFails, AfterRefusal, AfterError
    <3> HIDE DEF r
    <3>4. RequestIsSound(r, FALSE)' BY <2>4, <2>7, <3>2 DEF EdgeInv, RequestIsSound
    <3>5. \A d \in Ids : ~Carries(m.req, d) BY <2>7 DEF Carries
    <3> QED BY <2>2, <2>3, <3>2, <3>3, <3>4, <3>5, PlainAnswerKeepsEdges
  <2>8. CASE m.req.step \notin {"send", "cancel"}
    <3>1. Answer(m, Idle) BY <1>3, <2>8 DEF ConnectFails, AfterRefusal, AfterError, On
    <3>2. \A d \in Ids : ~Carries(m.req, d) BY <2>5, <2>8 DEF Carries
    <3> QED BY <2>2, <2>3, <3>1, <3>2, IdleIsRequest, PlainAnswerKeepsEdges
  <2> QED BY <2>6, <2>7, <2>8
<1> QED BY <1>0, <1>1, <1>2, <1>3

\* A new claim comes with the request that starts its turn.
LEMMA ClaimKeepsEdges ==
    ASSUME ClaimsInv, EdgeInv, NEW m \in wire, NEW d \in Ids, ClaimSubagentDispatch(m, d)
    PROVE  EdgeInv'
<1> DEFINE k == [state |-> "claimed", caller |-> m.req.caller, target |-> m.req.target,
                 parent |-> m.req.parent, depth |-> DepthOf(m.req), deadline |-> FALSE]
           r == On(d, "send")
<1>1. StoreKnows /\ HostTypes /\ m.req \in Requests BY ClaimsInvParts, IdsOfRequests
<1>2. k \in Claims /\ k.state = "claimed" /\ k.target = m.req.target
  BY <1>1, NewClaimIsTyped DEF ClaimSubagentDispatch, Admitted
<1>3. claim' = [Reconciled EXCEPT ![d] = k] BY DEF ClaimSubagentDispatch
<1> HIDE DEF k
<1>4. m.req.step = "claim" /\ m.req.target \in Members
  BY DEF ClaimSubagentDispatch, Handles, Admitted, EdgeInv
<1>5. UNCHANGED <<member, dispatch, hostVars, count>> /\ Answer(m, r) /\ up' = up
  BY DEF ClaimSubagentDispatch, hostVars
<1>6. claim'[d] = k /\ \A e \in Ids : e # d => claim'[e] = Reconciled[e]
  BY <1>1, <1>3, ReconciledKnows
<1>7. "send" \in Steps \ {"idle"} BY DEF Steps
<1>8. r \in Requests /\ r.step = "send" /\ r.id = d BY <1>7, OnNames
<1> HIDE DEF r
<1>9. EdgeBegins(d, r) BY <1>2, <1>4, <1>6, <1>8 DEF EdgeBegins
<1>10. \A e \in Ids : e # d => EdgeStays(e)
  BY <1>1, <1>5, <1>6, ReconciledKnows DEF EdgeStays
<1>11. RequestIsSound(r, FALSE)' BY <1>8 DEF RequestIsSound
<1>12. \A e \in Ids : ~Carries(m.req, e) BY <1>4 DEF Carries
<1>13. FailedStays BY <1>5 DEF FailedStays
<1> QED BY <1>5, <1>8, <1>9, <1>10, <1>11, <1>12, <1>13, AnswerKeepsEdges

\* Refusals and the cancelling of a live turn.
LEMMA RefusalKeepsEdges ==
    ASSUME ClaimsInv, EdgeInv, Unharmed', NEW m \in wire,
           ClaimIsRefused(m) \/ StartIsRefused(m) \/ CancelActive(m)
    PROVE  EdgeInv'
<1>1. HostTypes BY ClaimsInvParts
<1>2. ~Mishap("store") BY <1>1, NoStoreFails
<1>3. UNCHANGED <<storeVars, hostVars>> BY DEF ClaimIsRefused, StartIsRefused, CancelActive
<1>4. count' = count /\ FailedStays /\ dispatch' = dispatch
  BY <1>2, <1>3 DEF ClaimIsRefused, StartIsRefused, CancelActive, FailedStays, storeVars
<1>5. ~StartIsRefused(m)
  <2>1. SUFFICES ASSUME StartIsRefused(m) PROVE FALSE OBVIOUS
  <2>2. m.req.step = "send" /\ claim[m.req.id].target \notin member
    BY <1>2, <2>1 DEF StartIsRefused, Handles
  <2>3. m.req.id \in Ids /\ claim[m.req.id].state # "none" BY <2>2, IdsOfRequests DEF OnClaim
  <2> QED BY <2>2, <2>3 DEF EdgeInv, EdgeKnows
<1>6. m.req.step \in {"claim", "cancel"}
  BY <1>5 DEF ClaimIsRefused, CancelActive, Handles
<1>7. \A d \in Ids : ~Carries(m.req, d) BY <1>6 DEF Carries
<1>8. CASE Answer(m, Idle)
  BY <1>3, <1>4, <1>7, <1>8, IdleIsRequest, PlainAnswerKeepsEdges
<1>9. CASE m.req.step = "cancel" /\ Answer(m, On(m.req.id, "reconciliation-required"))
  <2> DEFINE r == On(m.req.id, "reconciliation-required")
  <2>1. "reconciliation-required" \in Steps \ {"idle"} BY DEF Steps, ClaimStates, OpenStates
  <2>2. m.req.id \in Ids \cup {None} BY IdsOfRequests
  <2>3. r \in Requests /\ r.step = "reconciliation-required" /\ r.id = m.req.id
    BY <2>1, <2>2, OnNames
  <2>4. Answer(m, r) BY <1>9
  <2> HIDE DEF r
  <2>5. RequestIsSound(r, FALSE)' BY <1>4, <1>9, <2>3 DEF EdgeInv, RequestIsSound
  <2> QED BY <1>3, <1>4, <1>7, <2>3, <2>4, <2>5, PlainAnswerKeepsEdges
<1> QED BY <1>5, <1>8, <1>9 DEF ClaimIsRefused, CancelActive, AfterError, Handles

\* conversation.subagent.claim.active
LEMMA FindKeepsEdges ==
    ASSUME ClaimsInv, EdgeInv, NEW m \in wire, ActiveSubagentClaim(m)
    PROVE  EdgeInv'
<1>1. StoreKnows BY ClaimsInvParts
<1>2. claim' = Reconciled /\ UNCHANGED <<member, dispatch, hostVars, count>> /\ m.req.step = "find"
  BY DEF ActiveSubagentClaim, Handles
<1>3. UNCHANGED <<up, member>> /\ FailedStays BY <1>2 DEF hostVars, FailedStays
<1>4. \A d \in Ids : EdgeStays(d) BY <1>1, <1>2, ReconciledKnows DEF EdgeStays
<1>5. \A d \in Ids : ~Carries(m.req, d) BY <1>2 DEF Carries
<1>6. CASE Answer(m, Idle)
  BY <1>2, <1>3, <1>4, <1>5, <1>6, IdleIsRequest, AnswerKeepsEdges
<1>7. ASSUME NEW d \in Ids, Answer(m, On(d, "cancel-requested")) PROVE EdgeInv'
  <2> DEFINE r == On(d, "cancel-requested")
  <2>1. "cancel-requested" \in Steps \ {"idle"} BY DEF Steps, ClaimStates, OpenStates
  <2>2. r \in Requests /\ r.step = "cancel-requested" BY <2>1, OnNames
  <2>3. Answer(m, r) BY <1>7
  <2> HIDE DEF r
  <2>4. RequestIsSound(r, FALSE)' BY <2>2 DEF RequestIsSound
  <2> QED BY <1>2, <1>3, <1>4, <1>5, <2>2, <2>3, <2>4, AnswerKeepsEdges
<1> QED BY <1>6, <1>7 DEF ActiveSubagentClaim


\* update_subagent_claim_state reads the claim: it does not refuse to give up one
\* that is open, and admits a cancellation only of a running turn.
LEMMA ReadKeepsEdges ==
    ASSUME ClaimsInv, EdgeInv, Unharmed', NEW m \in wire, ReadClaim(m)
    PROVE  EdgeInv'
<1>1. HostTypes BY ClaimsInvParts
<1>2. ~Mishap("store") BY <1>1, NoStoreFails
<1>3. UNCHANGED <<storeVars, hostVars, count>> /\ m.req.step \in ClaimStates /\ ~m.checked
  BY <1>2 DEF ReadClaim, Handles
<1>4. RequestIsSound(m.req, m.checked) /\ m.req.step # "send" /\ m.req.id \in Ids
      /\ EdgeKnows(m.req.id)
  BY <1>3, IdsOfRequests DEF EdgeInv, OnClaim, ClaimStates, OpenStates, Outcomes
<1>5. FailedStays BY <1>3 DEF FailedStays
<1>6. CASE ValidTransition(claim[m.req.id].state, m.req.step)
           /\ wire' = (wire \ {m}) \cup {[m EXCEPT !.checked = TRUE]} /\ call' = call
  <2>1. m.req.step = "cancel-requested" => dispatch[m.req.id] # "none"
    BY <1>4, <1>6 DEF ValidTransition, EdgeKnows, Started, Outcomes
  <2>2. RequestIsSound(m.req, TRUE) BY <1>4, <2>1 DEF RequestIsSound
  <2> QED BY <1>3, <1>6, <2>2, CheckKeepsEdges
<1>7. CASE ~ValidTransition(claim[m.req.id].state, m.req.step) /\ Answer(m, Idle)
  <2>1. \A d \in Ids : Carries(m.req, d) => ~Open(d)
    BY <1>4, <1>7 DEF Carries, Open, OpenStates, ValidTransition, Outcomes
  <2> QED BY <1>3, <1>5, <1>7, <2>1, IdleIsRequest, PlainAnswerKeepsEdges
<1> QED BY <1>2, <1>6, <1>7 DEF ReadClaim

\* ... and writes it: unless the claim is given up, its turn was started.
LEMMA WriteKeepsEdges ==
    ASSUME ClaimsInv, EdgeInv, NEW m \in wire, WriteClaim(m)
    PROVE  EdgeInv'
<1> DEFINE d == m.req.id
           s == m.req.step
<1>1. StoreKnows BY ClaimsInvParts
<1>2. s \in ClaimStates /\ m.checked /\ ClaimStates \subseteq OnClaim
  BY DEF WriteClaim, Handles, OnClaim
<1>3. d \in Ids /\ claim[d].state # "none" BY <1>2, IdsOfRequests
<1>4. UNCHANGED <<member, dispatch, hostVars, count>> BY DEF WriteClaim
<1>5. UNCHANGED <<up, member>> /\ FailedStays BY <1>4 DEF hostVars, FailedStays
<1>6. s = "failed" \/ dispatch[d] # "none"
  <2>1. RequestIsSound(m.req, m.checked) /\ MessageKnows(m) BY DEF EdgeInv, ClaimsInv
  <2> QED BY <1>2, <2>1 DEF RequestIsSound, MessageKnows, ClaimStates, OpenStates
<1>7. /\ \A e \in Ids : e # d => claim'[e] = claim[e]
      /\ claim'[d].target = claim[d].target
      /\ \/ claim'[d].state = s
         \/ claim'[d] = claim[d] /\ (s = "failed" => ~Exists(d))
  <2>1. CASE UNCHANGED claim /\ (s = "failed" => ~Exists(d)) BY <2>1
  <2>2. CASE claim' = [claim EXCEPT ![d].state = s, ![d].deadline = @ /\ s \in OpenStates]
    BY <1>1, <1>2, <1>3, <2>2, WriteMoves
  <2>3. "failed" \notin OpenStates BY DEF OpenStates
  <2> QED BY <2>1, <2>2, <2>3 DEF WriteClaim
<1>8. \A e \in Ids : EdgeStays(e) BY <1>3, <1>4, <1>6, <1>7 DEF EdgeStays
<1>9. \A e \in Ids : Carries(m.req, e) => ~Open(e)'
  <2>1. s # "send" BY <1>2 DEF ClaimStates, OpenStates, Outcomes
  <2>2. "failed" \notin OpenStates BY DEF OpenStates
  <2> QED BY <1>7, <2>1, <2>2 DEF Carries, Open, Exists, ClaimStates
<1>10. CASE Answer(m, Idle)
  BY <1>4, <1>5, <1>8, <1>9, <1>10, IdleIsRequest, AnswerKeepsEdges
<1>11. CASE s = "cancel-requested" /\ Answer(m, On(d, "cancel"))
  <2> DEFINE r == On(d, "cancel")
  <2>1. "cancel" \in Steps \ {"idle"} BY DEF Steps
  <2>2. r \in Requests /\ r.step = "cancel" /\ r.id = d BY <1>3, <2>1, OnNames
  <2>3. Answer(m, r) BY <1>11
  <2> HIDE DEF r
  <2>4. RequestIsSound(r, FALSE)' BY <1>4, <1>6, <1>11, <2>2 DEF RequestIsSound
  <2> QED BY <1>4, <1>5, <1>8, <1>9, <2>2, <2>3, <2>4, AnswerKeepsEdges
<1>12. On(d, "idle") = Idle BY DEF On
<1> QED BY <1>10, <1>11, <1>12 DEF WriteClaim, AfterUpdate

\* start_background opens the turn; a thread drives it.
LEMMA StartKeepsEdges ==
    ASSUME ClaimsInv, EdgeInv, Unharmed', NEW m \in wire, NEW bounded \in BOOLEAN,
           NEW driven \in BOOLEAN, StartBackground(m, bounded, driven)
    PROVE  EdgeInv'
<1> DEFINE d == m.req.id
           r == On(d, "running")
<1>1. StoreKnows /\ HostTypes BY ClaimsInvParts
<1>2. ~Mishap("store") BY <1>1, NoStoreFails
<1>3. m.req.step = "send" /\ Answer(m, r) /\ UNCHANGED <<up, member, count>>
  BY <1>2 DEF StartBackground, Handles
<1>4. d \in Ids BY <1>3, IdsOfRequests DEF OnClaim
<1>5. dispatch' = [dispatch EXCEPT ![d] = "open"] BY DEF StartBackground
<1>6. dispatch'[d] # "none" /\ \A e \in Ids : e # d => dispatch'[e] = dispatch[e]
  BY <1>1, <1>4, <1>5 DEF StoreKnows
<1>7. \A e \in Ids : claim'[e].state = claim[e].state /\ claim'[e].target = claim[e].target
  <2>1. claim' = claim \/ claim' = [claim EXCEPT ![d].deadline = Open(d)]
    BY DEF StartBackground
  <2> DEFINE k == [claim[d] EXCEPT !.deadline = Open(d)]
  <2>2. Open(d) \in BOOLEAN BY DEF Open
  <2>3. claim[d] \in Claims BY <1>1, <1>4 DEF StoreKnows
  <2>4. k.state = claim[d].state /\ k.target = claim[d].target BY <2>2, <2>3, DeadlineMoves
  <2>5. claim' = claim \/ claim' = [claim EXCEPT ![d] = k] BY <2>1
  <2> HIDE DEF k
  <2> QED BY <1>1, <1>4, <2>4, <2>5 DEF StoreKnows
<1>8. \A e \in Ids : EdgeStays(e) BY <1>6, <1>7 DEF EdgeStays
<1>9. \A e \in Ids : dispatch[e] # "none" => dispatch'[e] # "none" BY <1>8 DEF EdgeStays
<1>10. "running" \in Steps \ {"idle"} BY DEF Steps, ClaimStates, OpenStates
<1>11. r \in Requests /\ r.step = "running" /\ r.id = d BY <1>4, <1>10, OnNames
<1> HIDE DEF r
<1>12. RequestIsSound(r, FALSE)' BY <1>6, <1>11 DEF RequestIsSound
<1>13. \A e \in Ids : Carries(m.req, e) => dispatch'[e] # "none" BY <1>6 DEF Carries
<1>14. FailedStays BY <1>3 DEF FailedStays
<1> QED BY <1>3, <1>8, <1>9, <1>11, <1>12, <1>13, <1>14, AnswerKeepsEdges

\* Turns end; no thread has a turn to abandon.
LEMMA EndKeepsEdges ==
    ASSUME ClaimsInv, EdgeInv, Unharmed', NEW d \in Ids,
           \/ \E s \in Ends : Finish(d, s)
           \/ \E m \in wire : m.req.id = d /\ AbandonTurn(m)
    PROVE  EdgeInv'
<1>1. StoreKnows /\ HostTypes BY ClaimsInvParts
<1>2. ~Mishap("store") BY <1>1, NoStoreFails
<1>3. ~\E m \in wire : AbandonTurn(m) BY DEF AbandonTurn, Handles, EdgeInv, RequestIsSound
<1>4. Ends \subseteq Outcomes BY ClaimsAssumption DEF Outcomes
<1>5. PICK s \in Outcomes : Finish(d, s) BY <1>3, <1>4
<1>6. UNCHANGED <<up, member, callVars, count>>
  BY <1>2, <1>5 DEF Finish, Settle, ForceTerminal, storeVars
<1>7. \A e \in Ids : EdgeStays(e)
  <2>1. CASE Settle(d, s)
    <3>1. s # "none" BY DEF Outcomes
    <3>2. /\ \A e \in Ids : /\ e # d => dispatch'[e] = dispatch[e] /\ claim'[e] = claim[e]
                            /\ claim'[e].target = claim[e].target
          /\ dispatch[d] = "open" /\ dispatch'[d] = s
      BY <1>1, <2>1, SettleKnows
    <3>3. claim[d].state # "none" BY <1>1, <3>2 DEF StoreKnows
    <3> QED BY <3>1, <3>2, <3>3 DEF EdgeStays
  <2>2. CASE ForceTerminal(d) BY <2>2 DEF ForceTerminal, storeVars, EdgeStays
  <2> QED BY <1>5, <2>1, <2>2 DEF Finish
<1>8. FailedStays BY <1>6 DEF FailedStays
<1> QED BY <1>6, <1>7, <1>8, OthersKeepEdges

\* Notifications, the watchdog and callbacks touch a claim's deadline at most.
LEMMA NoticesKeepEdges ==
    ASSUME ClaimsInv, EdgeInv, Unharmed', NEW d \in Ids,
           \/ NotifySubagentTerminal(d) \/ FireSubagentTimeout(d) \/ Expire(d)
           \/ \E w \in {"turn", "timer"} : DispatchSubagentCallback(w, d)
    PROVE  EdgeInv'
<1>1. StoreKnows /\ HostTypes BY ClaimsInvParts
<1>2. ~Mishap("store") BY <1>1, NoStoreFails
<1>3. claim' = [claim EXCEPT ![d].deadline = FALSE] \/ UNCHANGED claim
  BY DEF NotifySubagentTerminal, FireSubagentTimeout, Expire, DispatchSubagentCallback, storeVars
<1>4. UNCHANGED <<member, dispatch, up, callVars, count>>
  BY <1>2 DEF NotifySubagentTerminal, FireSubagentTimeout, Expire, DispatchSubagentCallback, storeVars
<1>5. FALSE \in BOOLEAN OBVIOUS
<1>6. \A e \in Ids : claim'[e].state = claim[e].state /\ claim'[e].target = claim[e].target
  BY <1>1, <1>3, <1>4, <1>5, DeadlineKnows
<1>7. FailedStays /\ \A e \in Ids : EdgeStays(e) BY <1>4, <1>6 DEF FailedStays, EdgeStays
<1> QED BY <1>4, <1>7, OthersKeepEdges


\* History is cleared and the store opened again; members leave and the host
\* crashes only with harm.
LEMMA WorldKeepsEdges ==
    ASSUME ClaimsInv, EdgeInv, Unharmed, Unharmed',
           \/ \E a \in Members : LeaveMember(a) \/ AddMember(a)
           \/ ClearConversationHistory \/ Crash \/ Boot \/ ReopenStore
    PROVE  EdgeInv'
<1>1. StoreKnows /\ HostTypes BY ClaimsInvParts
<1>a. {"leave", "crash"} \subseteq Mishaps \ {"reopen"} BY DEF Mishaps
<1>b. ~Mishap("leave") /\ ~Mishap("crash") BY <1>1, <1>a, HarmlessMishap
<1>2. ~\E a \in Members : LeaveMember(a) \/ AddMember(a)
  BY <1>b DEF LeaveMember, AddMember, EdgeInv
<1>3. ~Crash /\ ~Boot
  BY <1>b DEF Crash, Boot, EdgeInv
<1>4. UNCHANGED <<member, up, callVars>>
  BY <1>2, <1>3 DEF ClearConversationHistory, ReopenStore, hostVars
<1>5. FailedStays
  <2>1. "connect" \in Mishaps /\ "connect" # "reopen" BY DEF Mishaps
  <2>2. UNCHANGED count \/ Mishap("reopen")
    BY <1>2, <1>3 DEF ClearConversationHistory, ReopenStore
  <2> QED BY <1>1, <2>1, <2>2 DEF Mishap, HostTypes, FailedStays
<1>6. \A d \in Ids : EdgeStays(d)
  <2>1. CASE ClearConversationHistory BY <1>1, <2>1, ClearKnows DEF EdgeStays
  <2>2. CASE ReopenStore
    <3>1. ColdRecover /\ member' = member BY <2>2 DEF ReopenStore
    <3>2. \A d \in Ids :
            /\ dispatch'[d] = "none" <=> dispatch[d] = "none"
            /\ dispatch[d] \in {"none", "gone"} => claim'[d] = claim[d]
            /\ claim'[d].target = claim[d].target
      BY <1>1, <3>1, ColdRecoverKnows
    <3>3. \A d \in Ids : dispatch[d] # "none" => claim[d].state # "none"
      BY <1>1 DEF StoreKnows
    <3> QED BY <3>2, <3>3 DEF EdgeStays
  <2> QED BY <1>2, <1>3, <2>1, <2>2
<1> QED BY <1>4, <1>5, <1>6, OthersKeepEdges

\* Harm is not undone.
LEMMA HarmStays ==
    ASSUME ClaimsInv, Next, Unharmed'
    PROVE  Unharmed
<1>1. HostTypes BY ClaimsInvParts
<1>2. UNCHANGED count \/ \E kind \in Mishaps : Mishap(kind)
  <2> DEFINE MayHappen == UNCHANGED count \/ \E kind \in Mishaps : Mishap(kind)
  <2>0. UNCHANGED count \/ (\E kind \in {"connect", "timeout", "store", "leave", "crash", "reopen"} :
                              Mishap(kind))
          => MayHappen
    BY DEF Mishaps
  <2> HIDE DEF MayHappen
  <2>1. ASSUME NEW m \in wire, HostStep(m) \/ AbandonTurn(m)
        PROVE  MayHappen
    BY <2>0, <2>1 DEF HostStep, ClaimSubagentDispatch, ClaimIsRefused, StartBackground,
                StartIsRefused, ActiveSubagentClaim, ReadClaim, WriteClaim, CancelActive, AbandonTurn, Settle,
                ForceTerminal
  <2>2. ASSUME NEW d \in Ids, TurnStep(d) \/ Expire(d)
        PROVE  MayHappen
    BY <2>0, <2>1, <2>2 DEF TurnStep, Finish, Settle, ForceTerminal, NotifySubagentTerminal,
                      FireSubagentTimeout, DispatchSubagentCallback, Expire
  <2>3. ASSUME NEW c \in Calls, NEW e \in Edges,
               CancelCall(c, e) \/ \E p \in Ids \cup {None} : Delegate(c, e, p)
        PROVE  UNCHANGED count
    BY <2>3 DEF CancelCall, Delegate
  <2>4. ASSUME NEW c \in Calls, Timeout(c) PROVE MayHappen
    BY <2>0, <2>4 DEF Timeout
  <2>5. ASSUME NEW m \in wire, ConnectFails(m) PROVE MayHappen
    BY <2>0, <2>5 DEF ConnectFails
  <2>6. ASSUME NEW a \in Members, LeaveMember(a) \/ AddMember(a)
        PROVE  MayHappen
    BY <2>0, <2>6 DEF LeaveMember, AddMember
  <2>7. ClearConversationHistory \/ Boot => UNCHANGED count BY DEF ClearConversationHistory, Boot
  <2>8. Crash => MayHappen BY <2>0 DEF Crash
  <2>9. ReopenStore => MayHappen BY <2>0 DEF ReopenStore
  <2> QED BY <2>0, <2>1, <2>2, <2>3, <2>4, <2>5, <2>6, <2>7, <2>8, <2>9 DEF Next, MayHappen
<1>3. CASE UNCHANGED count BY <1>3 DEF Unharmed
<1>4. ASSUME NEW kind \in Mishaps, Mishap(kind) PROVE Unharmed
  <2>1. CASE kind = "reopen"
    <3>1. {"connect", "timeout", "store", "leave", "crash"} \subseteq Mishaps \ {"reopen"}
      BY DEF Mishaps
    <3>2. \A k \in Mishaps \ {"reopen"} : count'[k] = count[k]
      BY <1>1, <1>4, <2>1 DEF Mishap, HostTypes
    <3> QED BY <3>1, <3>2 DEF Unharmed
  <2>2. CASE kind # "reopen" BY <1>1, <1>4, <2>2, HarmlessMishap
  <2> QED BY <2>1, <2>2
<1> QED BY <1>2, <1>3, <1>4

LEMMA NextKeepsEdges == ClaimsInv /\ (Unharmed => EdgeInv) /\ [Next]_vars => (Unharmed => EdgeInv)'
<1> SUFFICES ASSUME ClaimsInv, Unharmed => EdgeInv, [Next]_vars, Unharmed' PROVE EdgeInv'
  OBVIOUS
<1>1. CASE UNCHANGED vars
  <2>1. UNCHANGED <<claim, dispatch, up, member, callVars, count>>
    BY <1>1 DEF vars, storeVars, hostVars
  <2>2. FailedStays /\ Unharmed /\ \A d \in Ids : EdgeStays(d)
    BY <2>1 DEF FailedStays, EdgeStays, Unharmed
  <2> QED BY <2>1, <2>2, OthersKeepEdges
<1>2. CASE Next
  <2>1. Unharmed /\ EdgeInv BY <1>2, HarmStays
  <2>2. ASSUME NEW m \in wire, HostStep(m) PROVE EdgeInv'
    <3>1. Timeouts \subseteq BOOLEAN BY ClaimsAssumption
    <3> QED
      BY <2>1, <2>2, <3>1, ClaimKeepsEdges, RefusalKeepsEdges, StartKeepsEdges, FindKeepsEdges,
         ReadKeepsEdges, WriteKeepsEdges DEF HostStep
  <2>3. ASSUME NEW d \in Ids, TurnStep(d) \/ Expire(d) PROVE EdgeInv'
    BY <2>1, <2>3, EndKeepsEdges, NoticesKeepEdges DEF TurnStep
  <2> QED BY <1>2, <2>1, <2>2, <2>3, CallsKeepEdges, WorldKeepsEdges DEF Next
<1> QED BY <1>1, <1>2

LEMMA InitEdges == Init => EdgeInv
<1> SUFFICES ASSUME Init PROVE EdgeInv OBVIOUS
<1>1. \A d \in Ids : claim[d].state = "none" BY DEF Init
<1>2. "none" \notin Started \cup OpenStates BY DEF Started, OpenStates
<1>3. \A c \in Calls : call[c] = Idle BY DEF Init
<1> QED BY <1>1, <1>2, <1>3 DEF Init, EdgeInv, EdgeKnows, CallsWait, Open

\* EdgesAreFreed: where nothing worse has happened than one request that did not
\* reach the host, races between calls, cancellations, late updates of claims,
\* cleared history and stores opened again strand no edge.
THEOREM OnlyHarmStrands == Spec => []EdgesAreFreed
<1>1. ClaimsInv /\ EdgeInv => NoStrandedEdge
  <2> SUFFICES ASSUME ClaimsInv, EdgeInv, NEW d \in Ids, Open(d), dispatch[d] = "none"
               PROVE  \E c \in Calls : call[c].id = d
    BY DEF NoStrandedEdge
  <2>1. PICK m \in wire : Carries(m.req, d) BY DEF EdgeInv, EdgeKnows
  <2> QED BY <2>1, IdsOfRequests DEF EdgeInv, CallsWait, Carries
<1>2. Init => (Unharmed => EdgeInv) BY InitEdges
<1>3. (Unharmed => NoStrandedEdge) <=> EdgesAreFreed BY DEF EdgesAreFreed
<1> QED BY <1>1, <1>2, <1>3, NextKeepsEdges, ClaimsCorrect, PTL DEF Spec

=============================================================================
