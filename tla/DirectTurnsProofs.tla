------------------------- MODULE DirectTurnsProofs -------------------------
(***************************************************************************)
(* TLAPS proofs about DirectTurns, for every set of members, posts, sends  *)
(* and requests and every bound.                                           *)
(***************************************************************************)
EXTENDS DirectTurns, TLAPS

USE DEF OpenDispatch, TerminalDispatch, OpenTurn, TerminalTurn,
        Lifecycle!OpenTurn, Lifecycle!TerminalTurn, Lifecycle!TurnStates

\* The initial state has the declared types.
LEMMA InitTyped == Init => TypeOK
  BY BoundsAssumption DEF Init, TypeOK, Workers

\* The store's history and membership operations keep the types.
LEMMA ClientTyped == TypeOK /\ ClientStep => TypeOK'
  <1> SUFFICES ASSUME TypeOK, ClientStep PROVE TypeOK'
    OBVIOUS
  <1> USE BoundsAssumption DEF TypeOK, store, host, client, count
  <1>1. ASSUME NEW p \in Posts, NEW A \in SUBSET Members, PostMessage(p, A) PROVE TypeOK'
    BY <1>1 DEF PostMessage
  <1>2. ASSUME NEW p \in Posts, DeletePostedMessage(p) PROVE TypeOK'
    BY <1>2 DEF DeletePostedMessage, Forget
  <1>3. CASE ClearConversationHistory
    BY <1>3 DEF ClearConversationHistory, Forget
  <1>4. ASSUME NEW m \in Members, LeaveMember(m) \/ AddMember(m) PROVE TypeOK'
    BY <1>4 DEF LeaveMember, AddMember
  <1>5. ASSUME NEW r \in Requests, NEW p \in Posts, AddressMessage(r, p) PROVE TypeOK'
    <2> DEFINE addressed == {m \in mention[p] : status[m] = "active"}
               active    == {m \in Members : Running(m) # {}}
               T == {i \in {p} \X (addressed \ active) : turn[i] = "none"}
               F == IF addressed # {} THEN addressed \cap active
                    ELSE IF Cardinality(LiveTurns) = 1 THEN active ELSE {}
    <2>1. T \in SUBSET Turns
      BY DEF Turns
    <2>2. F \in SUBSET Members
      OBVIOUS
    <2> HIDE DEF T, F
    <2>3. todo' = [todo EXCEPT ![r] = T] /\ follow' = [follow EXCEPT ![r] = F]
      BY <1>5 DEF AddressMessage, T, F
    <2> QED
      BY <1>5, <2>1, <2>2, <2>3 DEF AddressMessage
  <1>6. ASSUME NEW i \in Ids, SpawnSend(i) PROVE TypeOK'
    BY <1>6 DEF SpawnSend, Prepare, Register, Evicted, Workers
  <1> QED
    BY <1>1, <1>2, <1>3, <1>4, <1>5, <1>6 DEF ClientStep

\* A dispatch request's steps keep the types.
LEMMA RequestTyped == ASSUME TypeOK, NEW r \in Requests, RequestStep(r) PROVE TypeOK'
  <1> USE BoundsAssumption DEF TypeOK, store, host, client, count
  <1>1. CASE EnqueueStart(r)
    BY <1>1 DEF EnqueueStart, EnqueueMentionTurns, Runnable
  <1>2. CASE EnqueueStartFails(r)
    BY <1>2 DEF EnqueueStartFails
  <1>3. ASSUME NEW Q \in SUBSET follow[r], SteerActiveTurns(r, Q) PROVE TypeOK'
    BY <1>3 DEF SteerActiveTurns
  <1>4. ASSUME NEW i \in Turns, ClaimDirectTurn(r, i) \/ ClaimIsLost(r, i) \/ ClaimFails(r, i)
        PROVE TypeOK'
    BY <1>4 DEF ClaimDirectTurn, ClaimIsLost, ClaimFails, Workers
  <1>5. CASE EnqueueBoundary(r)
    BY <1>5 DEF EnqueueBoundary, EnqueueMentionTurns
  <1>6. CASE RequestFails(r)
    BY <1>6 DEF RequestFails
  <1> QED
    BY <1>1, <1>2, <1>3, <1>4, <1>5, <1>6 DEF RequestStep

\* The steps of a host thread keep the types.
LEMMA ThreadTyped == ASSUME TypeOK, NEW i \in Ids, ThreadStep(i) PROVE TypeOK'
  <1> USE BoundsAssumption DEF TypeOK, store, host, client, count, Workers
  <1>1. CASE MarkDirectTurnRunning(i)
    BY <1>1 DEF MarkDirectTurnRunning
  <1>2. CASE Begin(i)
    BY <1>2 DEF Begin, Prepare, Register, Evicted
  <1>3. CASE BeginIsRejected(i)
    BY <1>3 DEF BeginIsRejected, Evicted, Fault, NoFault
  <1>4. CASE AdmissionFails(i)
    BY <1>4 DEF AdmissionFails, Prepare, Evicted, Fault
  <1>5. ASSUME NEW r \in Requests, RunIsAborted(r, i) PROVE TypeOK'
    BY <1>5 DEF RunIsAborted, Fault
  <1>6. CASE RecordAccepted(i)
    BY <1>6 DEF RecordAccepted
  <1>7. CASE AcceptedFails(i)
    BY <1>7 DEF AcceptedFails, FinishRuntimeDispatch, Settled, Fault, NoFault, TurnOutcome
  <1>8. ASSUME NEW s \in TerminalDispatch, Finish(i, s) PROVE TypeOK'
    BY <1>8 DEF Finish, FinishRuntimeDispatch, Settled, TurnOutcome, AfterFinish
  <1>9. CASE FinishIsRetried(i)
    BY <1>9 DEF FinishIsRetried, FinishRuntimeDispatch, Settled, Fault, TurnOutcome
  <1>10. CASE ForceTerminal(i)
    BY <1>10 DEF ForceTerminal, Settled, Fault, NoFault, AfterFinish
  <1>11. CASE StartNextBoundaryTurn(i)
    <2> PICK n \in Turns : /\ turn' = [turn EXCEPT ![n] = "running"]
                           /\ worker' = [worker EXCEPT ![i] = "none", ![n] = "marked"]
      BY <1>11 DEF StartNextBoundaryTurn
    <2> QED
      BY <1>11 DEF StartNextBoundaryTurn
  <1>12. CASE NoBoundaryTurn(i)
    BY <1>12 DEF NoBoundaryTurn
  <1>13. CASE CheckDispatched(i) \/ FailDirectTurn(i) \/ FailIsRefused(i)
    BY <1>13 DEF CheckDispatched, FailDirectTurn, FailIsRefused
  <1> QED
    BY <1>1, <1>2, <1>3, <1>4, <1>5, <1>6, <1>7, <1>8, <1>9, <1>10, <1>11, <1>12, <1>13
    DEF ThreadStep

\* A crash, a restart and a second opening of the store keep the types.
LEMMA RecoveryTyped == TypeOK /\ (Crash \/ Boot \/ ReopenStore) => TypeOK'
  <1> USE BoundsAssumption DEF TypeOK, store, host, client, count, Workers
  <1>1. ASSUME TypeOK, Crash PROVE TypeOK'
    <2>1. up' \in BOOLEAN
      BY <1>1, Zenon DEF Crash
    <2>2. /\ rpc' \in [Requests -> {"idle", "addressed", "enqueued", "executing",
                                   "failing", "done"}]
          /\ todo' \in [Requests -> SUBSET Turns] /\ mine' \in [Requests -> SUBSET Turns]
          /\ follow' \in [Requests -> SUBSET Members] /\ crashes' \in 0..MaxCrashes
          /\ reg' \in [Ids -> {"none", "live", "done"}] /\ worker' \in [Ids -> Workers]
      BY <1>1 DEF Crash
    <2> QED
      BY <1>1, <2>1, <2>2 DEF Crash
  <1>2. ASSUME TypeOK, Boot \/ ReopenStore PROVE TypeOK'
    <2>1. turn' \in [Ids -> Lifecycle!TurnStates \cup {"none"}]
      BY <1>2 DEF Boot, ReopenStore, ColdRecover
    <2>2. /\ dispatch' \in [Ids -> OpenDispatch \cup TerminalDispatch \cup {"none"}]
          /\ answer' \in [Ids -> {"none", "open", "final"}]
      BY <1>2 DEF Boot, ReopenStore, ColdRecover
    <2>3. up' \in BOOLEAN
      BY <1>2, Zenon DEF Boot, ReopenStore
    <2> QED
      BY <1>2, <2>1, <2>2, <2>3 DEF Boot, ReopenStore, ColdRecover
  <1> QED
    BY <1>1, <1>2

\* Type correctness of every reachable state.
THEOREM TypeCorrect == Spec => []TypeOK
  <1>1. TypeOK /\ [Next]_vars => TypeOK'
    <2> SUFFICES ASSUME TypeOK, [Next]_vars PROVE TypeOK'
      OBVIOUS
    <2>1. CASE UNCHANGED vars
      BY <2>1 DEF TypeOK, vars, store, host, client, count
    <2> QED
      BY <2>1, ClientTyped, RequestTyped, ThreadTyped, RecoveryTyped DEF Next
  <1> QED
    BY InitTyped, <1>1, PTL DEF Spec
-----------------------------------------------------------------------------
(* The settlement invariant, one identity at a time.                       *)

Local(j) ==
    /\ AnswerAgrees(j)
    /\ j \in Turns => TurnAgrees(j)
    /\ ThreadAgrees(j)

\* A direct turn's identity is a dispatch identity, and every identity names a membership.
LEMMA IdentityFacts ==
    /\ Turns \subseteq Ids
    /\ \A i \in Ids : i[2] \in Members
    /\ \A i \in Turns : i[1] \in Posts /\ i[2] \in Members
  BY DEF Turns, Ids

\* The settlement invariant is its part about each identity, with RequestAgrees.
LEMMA SettlementIsLocal ==
    SettlementInv <=> (\A j \in Ids : Local(j)) /\ RequestAgrees
  BY IdentityFacts DEF SettlementInv, SettlementAgrees, Local

LEMMA SettlementIsLocalNext ==
    SettlementInv' <=> (\A j \in Ids : Local(j)') /\ RequestAgrees'
  BY IdentityFacts DEF SettlementInv, SettlementAgrees, Local

\* A request knows its message from its first step on, and holds no turn before.
LEMMA RequestsAgree == ASSUME TypeOK, RequestAgrees, Next PROVE RequestAgrees'
  <1> SUFFICES ASSUME NEW q \in Requests
               PROVE  IF rpc'[q] = "idle" THEN mine'[q] = {} ELSE source'[q] \in Posts
    BY DEF RequestAgrees
  <1> USE DEF TypeOK, RequestAgrees, store, host, client, count
  <1>1. CASE ClientStep
    BY <1>1 DEF ClientStep, PostMessage, DeletePostedMessage, Forget, ClearConversationHistory,
                LeaveMember, AddMember, AddressMessage, SpawnSend
  <1>2. ASSUME NEW r \in Requests, RequestStep(r)
        PROVE  IF rpc'[q] = "idle" THEN mine'[q] = {} ELSE source'[q] \in Posts
    BY <1>2 DEF RequestStep, EnqueueStart, EnqueueStartFails, SteerActiveTurns, ClaimDirectTurn,
                ClaimIsLost, ClaimFails, PhaseOne, EnqueueBoundary, RequestFails
  <1>3. ASSUME NEW i \in Ids, ThreadStep(i)
        PROVE  IF rpc'[q] = "idle" THEN mine'[q] = {} ELSE source'[q] \in Posts
    <2>1. CASE UNCHANGED <<rpc, mine, source>>
      BY <2>1
    <2>2. ASSUME NEW r \in Requests, RunIsAborted(r, i)
          PROVE  IF rpc'[q] = "idle" THEN mine'[q] = {} ELSE source'[q] \in Posts
      BY <2>2 DEF RunIsAborted
    <2>3. CASE FailIsRefused(i)
      BY <2>3 DEF FailIsRefused
    <2>4. (\E r \in Requests : RunIsAborted(r, i)) \/ FailIsRefused(i)
            \/ UNCHANGED <<rpc, mine, source>>
      BY <1>3 DEF ThreadStep, MarkDirectTurnRunning, Begin, BeginIsRejected, AdmissionFails,
                  RecordAccepted, AcceptedFails, Finish, FinishIsRetried, ForceTerminal,
                  StartNextBoundaryTurn, NoBoundaryTurn, CheckDispatched, FailDirectTurn
    <2> QED
      BY <2>1, <2>2, <2>3, <2>4
  <1>4. CASE Crash \/ Boot \/ ReopenStore
    BY <1>4 DEF Crash, Boot, ReopenStore
  <1> QED
    BY <1>1, <1>2, <1>3, <1>4 DEF Next

\* Client operations keep the parts of an identity in agreement: history is
\* deleted only where every turn is settled, so the deleted rows vanish together.
LEMMA ClientSettles ==
    ASSUME TypeOK, SettlementInv, ClientStep
    PROVE  SettlementInv'
  <1> SUFFICES ASSUME NEW j \in Ids, Local(j) PROVE Local(j)'
    BY SettlementIsLocal, SettlementIsLocalNext, RequestsAgree DEF Next
  <1>0. RequestAgrees
    BY SettlementIsLocal
  <1> USE <1>0, IdentityFacts
      DEF TypeOK, store, host, client, count, Local, AnswerAgrees, TurnAgrees, ThreadAgrees,
          RequestAgrees
  <1>1. ASSUME NEW p \in Posts, NEW A \in SUBSET Members, PostMessage(p, A)
        PROVE  Local(j)'
    BY <1>1 DEF PostMessage
  <1>2. ASSUME NEW p \in Posts, DeletePostedMessage(p) PROVE Local(j)'
    BY <1>2 DEF DeletePostedMessage, Forget
  <1>3. CASE ClearConversationHistory
    BY <1>3 DEF ClearConversationHistory, Forget
  <1>4. ASSUME NEW m \in Members, LeaveMember(m) \/ AddMember(m)
        PROVE  Local(j)'
    BY <1>4 DEF LeaveMember, AddMember
  <1>5. ASSUME NEW r \in Requests, NEW p \in Posts, AddressMessage(r, p)
        PROVE  Local(j)'
    BY <1>5 DEF AddressMessage
  <1>6. ASSUME NEW i \in Ids, SpawnSend(i) PROVE Local(j)'
    BY <1>6 DEF SpawnSend, Prepare
  <1> QED
    BY <1>1, <1>2, <1>3, <1>4, <1>5, <1>6 DEF ClientStep

\* A request creates turns that are not stored and claims turns that are pending:
\* neither has a dispatch.
LEMMA RequestSettles ==
    ASSUME TypeOK, SettlementInv, NEW r \in Requests, RequestStep(r)
    PROVE  SettlementInv'
  <1> SUFFICES ASSUME NEW j \in Ids, Local(j) PROVE Local(j)'
    BY SettlementIsLocal, SettlementIsLocalNext, RequestsAgree DEF Next
  <1>0. RequestAgrees
    BY SettlementIsLocal
  <1> USE <1>0, IdentityFacts
      DEF TypeOK, store, host, client, count, Local, AnswerAgrees, TurnAgrees, ThreadAgrees,
          RequestAgrees
  <1>1. CASE EnqueueStart(r)
    BY <1>1 DEF EnqueueStart, EnqueueMentionTurns, Runnable, Enqueueable
  <1>2. CASE EnqueueStartFails(r)
    BY <1>2 DEF EnqueueStartFails
  <1>3. ASSUME NEW Q \in SUBSET follow[r], SteerActiveTurns(r, Q)
        PROVE  Local(j)'
    BY <1>3 DEF SteerActiveTurns
  <1>4. ASSUME NEW i \in Turns, ClaimDirectTurn(r, i) \/ ClaimIsLost(r, i) \/ ClaimFails(r, i)
        PROVE  Local(j)'
    BY <1>4 DEF ClaimDirectTurn, ClaimIsLost, ClaimFails, PhaseOne
  <1>5. CASE EnqueueBoundary(r)
    <2> DEFINE queued == {source[r]} \X follow[r]
    <2>1. queued \subseteq Turns
      BY <1>5 DEF EnqueueBoundary, Turns
    <2>2. \A i \in queued : i \in Runnable(queued) => turn[i] = "none"
      BY <1>5 DEF EnqueueBoundary, Enqueueable, Runnable
    <2>3. turn' = [i \in Ids |-> IF i \in Runnable(queued) THEN "pending" ELSE turn[i]]
      BY <1>5 DEF EnqueueBoundary, EnqueueMentionTurns
    <2>4. Runnable(queued) \subseteq queued
      BY DEF Runnable
    <2> HIDE DEF queued
    <2> QED
      BY <1>5, <2>1, <2>2, <2>3, <2>4 DEF EnqueueBoundary
  <1>6. CASE RequestFails(r)
    BY <1>6 DEF RequestFails
  <1> QED
    BY <1>1, <1>2, <1>3, <1>4, <1>5, <1>6 DEF RequestStep

\* A host thread opens a dispatch only for a running turn without one, and the
\* store settles the dispatch, the turn and the answer together.
LEMMA ThreadSettles ==
    ASSUME TypeOK, SettlementInv, NEW i \in Ids, ThreadStep(i)
    PROVE  SettlementInv'
  <1> SUFFICES ASSUME NEW j \in Ids, Local(j), Local(i) PROVE Local(j)'
    BY SettlementIsLocal, SettlementIsLocalNext, RequestsAgree DEF Next
  <1>0. RequestAgrees /\ \A k \in Ids : Local(k)
    BY SettlementIsLocal
  <1> USE <1>0, IdentityFacts
      DEF TypeOK, store, host, client, count, Local, AnswerAgrees, TurnAgrees, ThreadAgrees,
          RequestAgrees
  <1>1. CASE MarkDirectTurnRunning(i)
    BY <1>1 DEF MarkDirectTurnRunning
  <1>2. CASE Begin(i)
    BY <1>2 DEF Begin, Prepare, MayStart
  <1>3. CASE BeginIsRejected(i)
    BY <1>3 DEF BeginIsRejected, MayStart
  <1>4. CASE AdmissionFails(i)
    BY <1>4 DEF AdmissionFails, Prepare, MayStart
  <1>5. ASSUME NEW r \in Requests, RunIsAborted(r, i) PROVE Local(j)'
    BY <1>5 DEF RunIsAborted
  <1>6. CASE RecordAccepted(i)
    BY <1>6 DEF RecordAccepted, Active
  <1>7. CASE AcceptedFails(i)
    BY <1>7 DEF AcceptedFails, FinishRuntimeDispatch, TurnOutcome, Active
  <1>8. ASSUME NEW s \in TerminalDispatch, Finish(i, s) PROVE Local(j)'
    BY <1>8 DEF Finish, FinishRuntimeDispatch, TurnOutcome, AfterFinish, Active
  <1>9. CASE FinishIsRetried(i)
    BY <1>9 DEF FinishIsRetried, FinishRuntimeDispatch, TurnOutcome, Active
  <1>10. CASE ForceTerminal(i)
    BY <1>10 DEF ForceTerminal, AfterFinish
  <1>11. CASE StartNextBoundaryTurn(i)
    <2> PICK n \in Turns : /\ turn[n] = "pending"
                           /\ turn' = [turn EXCEPT ![n] = "running"]
                           /\ worker' = [worker EXCEPT ![i] = "none", ![n] = "marked"]
      BY <1>11 DEF StartNextBoundaryTurn, Oldest, Pending
    <2> QED
      BY <1>11 DEF StartNextBoundaryTurn
  <1>12. CASE NoBoundaryTurn(i)
    BY <1>12 DEF NoBoundaryTurn
  <1>13. CASE CheckDispatched(i)
    BY <1>13 DEF CheckDispatched
  <1>14. CASE FailDirectTurn(i)
    BY <1>14 DEF FailDirectTurn
  <1>15. CASE FailIsRefused(i)
    BY <1>15 DEF FailIsRefused
  <1> QED
    BY <1>1, <1>2, <1>3, <1>4, <1>5, <1>6, <1>7, <1>8, <1>9, <1>10, <1>11, <1>12, <1>13,
       <1>14, <1>15 DEF ThreadStep

\* Recovery closes every open dispatch with its turn and its answer, after a
\* crash and over a live host alike.
LEMMA RecoverySettles ==
    ASSUME TypeOK, SettlementInv, Crash \/ Boot \/ ReopenStore
    PROVE  SettlementInv'
  <1> SUFFICES ASSUME NEW j \in Ids, Local(j) PROVE Local(j)'
    BY SettlementIsLocal, SettlementIsLocalNext, RequestsAgree DEF Next
  <1>0. RequestAgrees
    BY SettlementIsLocal
  <1> USE <1>0, IdentityFacts
      DEF TypeOK, store, host, client, count, Local, AnswerAgrees, TurnAgrees, ThreadAgrees,
          RequestAgrees
  <1>1. CASE Crash
    BY <1>1 DEF Crash
  <1>2. CASE Boot \/ ReopenStore
    <2>1. /\ dispatch'[j] = IF dispatch[j] \in OpenDispatch THEN "failed" ELSE dispatch[j]
          /\ turn'[j] = IF dispatch[j] \in OpenDispatch /\ turn[j] \in {"claimed", "running"}
                        THEN "interrupted" ELSE turn[j]
          /\ answer'[j] = IF answer[j] = "open" THEN "final" ELSE answer[j]
      BY <1>2 DEF Boot, ReopenStore, ColdRecover
    <2>2. UNCHANGED <<worker, rpc, source>>
      BY <1>2 DEF Boot, ReopenStore
    <2> QED
      BY <2>1, <2>2
  <1> QED
    BY <1>1, <1>2

\* The dispatch, the answer event and the direct turn of an identity agree in
\* every reachable state, and a host thread between two transactions finds the
\* rows it holds as it left them.
THEOREM SettlementCorrect == Spec => []SettlementInv
  <1>1. Init => SettlementInv
    BY DEF Init, SettlementInv, SettlementAgrees, AnswerAgrees, TurnAgrees, ThreadAgrees,
           RequestAgrees, Ids, Turns
  <1>2. TypeOK /\ SettlementInv /\ [Next]_vars => SettlementInv'
    <2> SUFFICES ASSUME TypeOK, SettlementInv, [Next]_vars PROVE SettlementInv'
      OBVIOUS
    <2>1. CASE UNCHANGED vars
      BY <2>1 DEF SettlementInv, SettlementAgrees, AnswerAgrees, TurnAgrees, ThreadAgrees,
                  RequestAgrees, vars, store, host, client, count
    <2> QED
      BY <2>1, ClientSettles, RequestSettles, ThreadSettles, RecoverySettles DEF Next
  <1> QED
    BY TypeCorrect, <1>1, <1>2, PTL DEF Spec
-----------------------------------------------------------------------------
(* What a single step may do.                                              *)

\* No step rewrites the outcome of a settled dispatch: finish_runtime_dispatch,
\* append_runtime_frame and cold_recover replace only an open one.
THEOREM OutcomeStays == Spec => OutcomeIsFinal
  <1> DEFINE Kept(i) == dispatch[i] \in TerminalDispatch => dispatch'[i] \in {dispatch[i], "none"}
  <1>1. ASSUME TypeOK, [Next]_vars, NEW j \in Ids PROVE Kept(j)
    <2> USE <1>1 DEF TypeOK, store, host, client, count
    <2>1. CASE UNCHANGED vars
      BY <2>1 DEF vars
    <2>2. CASE ClientStep
      BY <2>2 DEF ClientStep, PostMessage, DeletePostedMessage, Forget, LeaveMember, AddMember,
                  ClearConversationHistory, AddressMessage, SpawnSend, Prepare
    <2>3. ASSUME NEW r \in Requests, RequestStep(r) PROVE Kept(j)
      BY <2>3 DEF RequestStep, EnqueueStart, EnqueueStartFails, SteerActiveTurns, ClaimDirectTurn,
                  ClaimIsLost, ClaimFails, EnqueueBoundary, RequestFails
    <2>4. ASSUME NEW i \in Ids, ThreadStep(i) PROVE Kept(j)
      <3>1. CASE Begin(i) \/ AdmissionFails(i)
        BY <3>1 DEF Begin, AdmissionFails, Prepare
      <3>2. CASE RecordAccepted(i) \/ AcceptedFails(i)
        BY <3>2 DEF RecordAccepted, AcceptedFails, FinishRuntimeDispatch, Active
      <3>3. CASE (\E s \in TerminalDispatch : Finish(i, s)) \/ FinishIsRetried(i)
        BY <3>3 DEF Finish, FinishIsRetried, FinishRuntimeDispatch, Active
      <3>4. CASE UNCHANGED dispatch
        BY <3>4
      <3> QED
        BY <2>4, <3>1, <3>2, <3>3, <3>4
        DEF ThreadStep, MarkDirectTurnRunning, BeginIsRejected, RunIsAborted, ForceTerminal,
            StartNextBoundaryTurn, NoBoundaryTurn, CheckDispatched, FailDirectTurn, FailIsRefused
    <2>5. CASE Crash \/ Boot \/ ReopenStore
      BY <2>5 DEF Crash, Boot, ReopenStore, ColdRecover
    <2> QED
      BY <2>1, <2>2, <2>3, <2>4, <2>5 DEF Next
  <1>2. TypeOK /\ [Next]_vars => [\A i \in Ids : Kept(i)]_vars
    BY <1>1
  <1> QED
    BY TypeCorrect, <1>2, PTL DEF Spec, OutcomeIsFinal

-----------------------------------------------------------------------------
(* Refinement: the store's guarded updates are steps of the canonical      *)
(* turn state machine.                                                     *)

\* The store's deletions forget only terminal turns, and its other client
\* operations leave the turns alone.
LEMMA ClientRefines ==
    ASSUME TypeOK, SettlementInv, ClientStep
    PROVE  Lifecycle!Next \/ UNCHANGED turn
  <1> USE DEF TypeOK, store, host, client, count
  <1>1. ASSUME NEW D \in SUBSET Posts, NEW I \in SUBSET Ids, Forget(D, I),
               \A i \in I : turn[i] \notin OpenTurn
        PROVE  Lifecycle!Next
    <2> DEFINE S == {i \in I : turn[i] # "none"}
    <2>1. \A i \in S : turn[i] \in TerminalTurn
      BY <1>1
    <2>2. turn' = [i \in Ids |-> IF i \in S THEN "none" ELSE turn[i]]
      BY <1>1 DEF Forget
    <2>3. S \in SUBSET Ids
      OBVIOUS
    <2> HIDE DEF S
    <2>4. Lifecycle!Forget(S)
      BY <2>1, <2>2 DEF Lifecycle!Forget, Lifecycle!NoTurn
    <2> QED
      BY <2>3, <2>4 DEF Lifecycle!Next
  <1>2. ASSUME NEW p \in Posts, DeletePostedMessage(p) PROVE Lifecycle!Next
    <2>1. {p} \X Members \in SUBSET Ids
      BY DEF Ids
    <2> QED
      BY <1>1, <1>2, <2>1 DEF DeletePostedMessage
  <1>3. CASE ClearConversationHistory
    BY <1>1, <1>3 DEF ClearConversationHistory
  <1>4. (\E p \in Posts : DeletePostedMessage(p)) \/ ClearConversationHistory \/ UNCHANGED turn
    BY DEF ClientStep, PostMessage, LeaveMember, AddMember, AddressMessage, SpawnSend, Prepare
  <1> QED
    BY <1>2, <1>3, <1>4

\* One turn moving along one edge of the state machine is a step of it.
LEMMA OneEdge ==
    ASSUME TypeOK, NEW i \in Ids, NEW e \in Lifecycle!TurnEvents, NEW t \in Lifecycle!TurnStates,
           <<turn[i], e, t>> \in Lifecycle!TurnEdges, turn[i] \in OpenTurn,
           turn' = [turn EXCEPT ![i] = t]
    PROVE  Lifecycle!Next
  <1>1. Lifecycle!Apply({i}, e)
    BY DEF TypeOK, Lifecycle!Apply, Lifecycle!Transition, Lifecycle!NoTurn
  <1> QED
    BY <1>1 DEF Lifecycle!Next

\* A request creates turns that do not exist and claims pending ones.
LEMMA RequestRefines ==
    ASSUME TypeOK, SettlementInv, NEW r \in Requests, RequestStep(r)
    PROVE  Lifecycle!Next \/ UNCHANGED turn
  <1> USE DEF TypeOK, store, host, client, count
  <1>1. ASSUME NEW S \in SUBSET Ids, EnqueueMentionTurns(S), S = {} \/ Enqueueable(r, S)
        PROVE  Lifecycle!Next
    <2>1. Runnable(S) \in SUBSET Ids /\ \A i \in Runnable(S) : turn[i] = "none"
      BY <1>1 DEF Enqueueable, Runnable
    <2>2. turn' = [i \in Ids |-> IF i \in Runnable(S) THEN "pending" ELSE turn[i]]
      BY <1>1 DEF EnqueueMentionTurns
    <2>3. Lifecycle!Create(Runnable(S))
      BY <2>1, <2>2 DEF Lifecycle!Create, Lifecycle!NoTurn
    <2> QED
      BY <2>1, <2>3 DEF Lifecycle!Next
  <1>2. CASE EnqueueStart(r)
    <2>1. todo[r] \in SUBSET Ids
      BY IdentityFacts
    <2> QED
      BY <1>1, <1>2, <2>1 DEF EnqueueStart
  <1>3. CASE EnqueueBoundary(r)
    <2>1. {source[r]} \X follow[r] \in SUBSET Ids
      BY <1>3 DEF EnqueueBoundary, SettlementInv, RequestAgrees, Ids
    <2> QED
      BY <1>1, <1>3, <2>1 DEF EnqueueBoundary
  <1>4. ASSUME NEW i \in Turns, ClaimDirectTurn(r, i) PROVE Lifecycle!Next
    <2>1. <<"pending", "Claim", "claimed">> \in Lifecycle!TurnEdges
      BY DEF Lifecycle!TurnEdges
    <2> QED
      BY <1>4, <2>1, OneEdge, IdentityFacts DEF ClaimDirectTurn, Lifecycle!TurnEvents
  <1>5. EnqueueStart(r) \/ EnqueueBoundary(r) \/ (\E i \in Turns : ClaimDirectTurn(r, i))
          \/ UNCHANGED turn
    BY DEF RequestStep, EnqueueStartFails, SteerActiveTurns, ClaimIsLost, ClaimFails, RequestFails
  <1> QED
    BY <1>2, <1>3, <1>4, <1>5

\* A host thread starts a claimed or queued turn and settles a running one.
LEMMA ThreadRefines ==
    ASSUME TypeOK, SettlementInv, NEW i \in Ids, ThreadStep(i)
    PROVE  Lifecycle!Next \/ UNCHANGED turn
  <1> USE DEF TypeOK, store, host, client, count
  <1>1. /\ <<"claimed", "Start", "running">> \in Lifecycle!TurnEdges
        /\ <<"pending", "Start", "running">> \in Lifecycle!TurnEdges
        /\ <<"running", "Succeed", "succeeded">> \in Lifecycle!TurnEdges
        /\ <<"running", "Fail", "failed">> \in Lifecycle!TurnEdges
        /\ <<"running", "Cancel", "cancelled">> \in Lifecycle!TurnEdges
    BY DEF Lifecycle!TurnEdges
  <1>2. CASE MarkDirectTurnRunning(i)
    BY <1>1, <1>2, OneEdge DEF MarkDirectTurnRunning, Lifecycle!TurnEvents
  <1>3. CASE StartNextBoundaryTurn(i)
    <2> PICK n \in Turns : turn[n] = "pending" /\ turn' = [turn EXCEPT ![n] = "running"]
      BY <1>3 DEF StartNextBoundaryTurn, Oldest, Pending
    <2> QED
      BY <1>1, OneEdge, IdentityFacts DEF Lifecycle!TurnEvents
  <1>4. ASSUME NEW s \in TerminalDispatch, FinishRuntimeDispatch(i, s)
        PROVE  Lifecycle!Next \/ UNCHANGED turn
    <2>1. CASE turn[i] # "running"
      BY <1>4, <2>1 DEF FinishRuntimeDispatch
    <2>2. CASE turn[i] = "running" /\ s = "completed"
      BY <1>1, <1>4, <2>2, OneEdge DEF FinishRuntimeDispatch, TurnOutcome, Lifecycle!TurnEvents
    <2>3. CASE turn[i] = "running" /\ s = "failed"
      BY <1>1, <1>4, <2>3, OneEdge DEF FinishRuntimeDispatch, TurnOutcome, Lifecycle!TurnEvents
    <2>4. CASE turn[i] = "running" /\ s = "cancelled"
      BY <1>1, <1>4, <2>4, OneEdge DEF FinishRuntimeDispatch, TurnOutcome, Lifecycle!TurnEvents
    <2> QED
      BY <2>1, <2>2, <2>3, <2>4
  <1>5. CASE AcceptedFails(i) \/ (\E s \in TerminalDispatch : Finish(i, s)) \/ FinishIsRetried(i)
    BY <1>4, <1>5 DEF AcceptedFails, Finish, FinishIsRetried
  <1>6. CASE FailDirectTurn(i)
    BY <1>1, <1>6, OneEdge DEF FailDirectTurn, Lifecycle!TurnEvents
  <1> QED
    BY <1>2, <1>3, <1>5, <1>6
    DEF ThreadStep, Begin, BeginIsRejected, AdmissionFails, Prepare, RunIsAborted, RecordAccepted,
        ForceTerminal, NoBoundaryTurn, CheckDispatched, FailIsRefused

\* Recovery interrupts claimed and running turns, all in one transaction.
LEMMA RecoveryRefines ==
    ASSUME TypeOK, Crash \/ Boot \/ ReopenStore
    PROVE  Lifecycle!Next \/ UNCHANGED turn
  <1> USE DEF TypeOK, store, host, client, count
  <1>1. CASE Crash
    BY <1>1 DEF Crash
  <1>2. CASE ColdRecover
    <2> DEFINE S == {i \in Ids : dispatch[i] \in OpenDispatch /\ turn[i] \in {"claimed", "running"}}
    <2>1. turn' = [i \in Ids |-> IF i \in S THEN "interrupted" ELSE turn[i]]
      BY <1>2 DEF ColdRecover
    <2>2. S \in SUBSET Ids /\ \A i \in S : turn[i] \in {"claimed", "running"}
      OBVIOUS
    <2> HIDE DEF S
    <2>3. \A s \in {"claimed", "running"} : <<s, "Interrupt", "interrupted">> \in Lifecycle!TurnEdges
      BY DEF Lifecycle!TurnEdges
    <2>4. Lifecycle!Apply(S, "Interrupt")
      BY <2>1, <2>2, <2>3 DEF Lifecycle!Apply, Lifecycle!Transition, Lifecycle!NoTurn
    <2> QED
      BY <2>2, <2>4 DEF Lifecycle!Next, Lifecycle!TurnEvents
  <1> QED
    BY <1>1, <1>2 DEF Boot, ReopenStore

\* The Conversation store, with its crashes, races and recoveries, implements
\* the canonical turn lifecycle of the state machine module.
THEOREM RefinesTurnLifecycle == Spec => ImplementsTurnLifecycle
  <1>1. Init => Lifecycle!Init
    BY DEF Init, Lifecycle!Init, Lifecycle!NoTurn
  <1>2. TypeOK /\ SettlementInv /\ [Next]_vars => [Lifecycle!Next]_turn
    <2> SUFFICES ASSUME TypeOK, SettlementInv, [Next]_vars
                 PROVE  Lifecycle!Next \/ UNCHANGED turn
      OBVIOUS
    <2>1. CASE UNCHANGED vars
      BY <2>1 DEF vars, store
    <2> QED
      BY <2>1, ClientRefines, RequestRefines, ThreadRefines, RecoveryRefines DEF Next
  <1> QED
    BY TypeCorrect, SettlementCorrect, <1>1, <1>2, PTL
    DEF Spec, ImplementsTurnLifecycle, Lifecycle!Spec

-----------------------------------------------------------------------------
(* Ownership of open dispatches.                                           *)

Owned(i) == dispatch[i] \in OpenDispatch => reg[i] = "live"

\* A full registry gives up settled entries only.
LEMMA EvictionKeepsLive ==
    ASSUME TypeOK, NEW kept \in Evicted
    PROVE  /\ kept \in [Ids -> {"none", "live", "done"}]
           /\ \A j \in Ids : reg[j] = "live" => kept[j] = "live"
  BY DEF TypeOK, Evicted

\* The client operations open a dispatch only together with its registry entry.
LEMMA ClientOwns ==
    ASSUME TypeOK, ClientStep, NEW j \in Ids, Owned(j)
    PROVE  Owned(j)' /\ UNCHANGED <<up, faults>>
  <1> USE DEF TypeOK, Owned, store, host, client, count
  <1>1. ASSUME NEW i \in Ids, SpawnSend(i) PROVE Owned(j)' /\ UNCHANGED <<up, faults>>
    <2> PICK kept \in Evicted : reg' = [kept EXCEPT ![i] = "live"]
      BY <1>1 DEF SpawnSend, Register
    <2> QED
      BY <1>1, EvictionKeepsLive DEF SpawnSend, Prepare
  <1>2. CASE \E p \in Posts, A \in SUBSET Members : PostMessage(p, A)
    BY <1>2 DEF PostMessage
  <1>3. CASE (\E p \in Posts : DeletePostedMessage(p)) \/ ClearConversationHistory
    BY <1>3 DEF DeletePostedMessage, ClearConversationHistory, Forget
  <1>4. CASE \E m \in Members : LeaveMember(m) \/ AddMember(m)
    BY <1>4 DEF LeaveMember, AddMember
  <1>5. CASE \E r \in Requests, p \in Posts : AddressMessage(r, p)
    BY <1>5 DEF AddressMessage
  <1> QED
    BY <1>1, <1>2, <1>3, <1>4, <1>5 DEF ClientStep

\* A thread that meets no failing call opens a dispatch with its registry entry
\* and marks the entry settled only when the dispatch is.
LEMMA ThreadOwns ==
    ASSUME TypeOK, SettlementInv, NEW i \in Ids, ThreadStep(i), faults' = 0,
           NEW j \in Ids, faults = 0 => Owned(j)
    PROVE  Owned(j)'
  <1> USE DEF TypeOK, Owned, store, host, client, count
  <1>0. faults \in Nat /\ AnswerAgrees(i)
    BY BoundsAssumption DEF SettlementInv, SettlementAgrees
  <1>1. CASE Begin(i)
    <2> PICK kept \in Evicted : reg' = [kept EXCEPT ![i] = "live"]
      BY <1>1 DEF Begin, Register
    <2> QED
      BY <1>1, EvictionKeepsLive DEF Begin, Prepare
  <1>2. CASE BeginIsRejected(i)
    BY <1>0, <1>2, EvictionKeepsLive DEF BeginIsRejected, Fault, NoFault
  <1>3. CASE AdmissionFails(i) \/ (\E r \in Requests : RunIsAborted(r, i)) \/ FinishIsRetried(i)
    BY <1>0, <1>3 DEF AdmissionFails, RunIsAborted, FinishIsRetried, Fault
  <1>4. CASE RecordAccepted(i)
    BY <1>4 DEF RecordAccepted, Active
  <1>5. CASE AcceptedFails(i)
    BY <1>0, <1>5 DEF AcceptedFails, Settled, Active, AnswerAgrees, Fault, NoFault
  <1>6. CASE \E s \in TerminalDispatch : Finish(i, s)
    BY <1>6 DEF Finish, FinishRuntimeDispatch, Settled
  <1>7. CASE ForceTerminal(i)
    BY <1>0, <1>7 DEF ForceTerminal, Settled, Active, AnswerAgrees, Fault, NoFault
  <1>8. CASE UNCHANGED <<dispatch, reg, faults>>
    BY <1>8
  <1> QED
    BY <1>1, <1>2, <1>3, <1>4, <1>5, <1>6, <1>7, <1>8
    DEF ThreadStep, MarkDirectTurnRunning, StartNextBoundaryTurn, NoBoundaryTurn,
        CheckDispatched, FailDirectTurn, FailIsRefused

\* While no call has failed, every open dispatch is held by a live registry
\* entry of the running host, through every crash, restart and reopening.
THEOREM OpenDispatchIsOwned == Spec => []OpenDispatchOwned
  <1> USE DEF OpenDispatchOwned
  <1>1. Init => OpenDispatchOwned
    BY DEF Init
  <1>2. TypeOK /\ SettlementInv /\ OpenDispatchOwned /\ [Next]_vars => OpenDispatchOwned'
    <2> SUFFICES ASSUME TypeOK, SettlementInv, OpenDispatchOwned, [Next]_vars,
                        up', faults' = 0, NEW j \in Ids
                 PROVE  Owned(j)'
      BY DEF Owned
    <2>0. up /\ faults = 0 => Owned(j)
      BY DEF Owned
    <2>1. CASE UNCHANGED vars
      <3>1. up /\ faults = 0 /\ UNCHANGED <<dispatch, reg>>
        BY <2>1 DEF vars, store, host, count
      <3> QED
        BY <2>0, <3>1 DEF Owned
    <2>2. CASE ClientStep
      BY <2>0, <2>2, ClientOwns DEF ClientStep, PostMessage, DeletePostedMessage,
         ClearConversationHistory, Forget, LeaveMember, AddMember, AddressMessage, SpawnSend,
         count
    <2>3. ASSUME NEW r \in Requests, RequestStep(r) PROVE Owned(j)'
      <3>1. up /\ faults' = faults /\ UNCHANGED <<dispatch, reg>>
        BY <2>3 DEF RequestStep, EnqueueStart, EnqueueStartFails, SteerActiveTurns,
           ClaimDirectTurn, ClaimIsLost, ClaimFails, PhaseOne, EnqueueBoundary, RequestFails,
           store, host, client, count
      <3> QED
        BY <2>0, <3>1 DEF Owned
    <2>4. ASSUME NEW i \in Ids, ThreadStep(i) PROVE Owned(j)'
      <3>1. up
        BY <2>4 DEF ThreadStep, MarkDirectTurnRunning, Begin, BeginIsRejected, AdmissionFails,
           MayStart, RunIsAborted, RecordAccepted, AcceptedFails, Finish, FinishIsRetried, Fault,
           NoFault, ForceTerminal, StartNextBoundaryTurn, NoBoundaryTurn, CheckDispatched,
           FailDirectTurn, FailIsRefused
      <3> QED
        BY <2>0, <2>4, <3>1, ThreadOwns
    <2>5. CASE Crash
      BY <2>5 DEF Crash
    <2>6. CASE Boot \/ ReopenStore
      BY <2>6 DEF Boot, ReopenStore, ColdRecover, Owned
    <2> QED
      BY <2>1, <2>2, <2>3, <2>4, <2>5, <2>6 DEF Next
  <1> QED
    BY TypeCorrect, SettlementCorrect, <1>1, <1>2, PTL DEF Spec

-----------------------------------------------------------------------------
(* Live turns keep their rows.                                             *)

RowsKept(i) == reg[i] = "live" => Active(i)

\* The registry is memory: it is empty while the host is down.
RegistryIsMemory == ~up => \A i \in Ids : reg[i] = "none"

\* Eviction, registration and settlement of i leave the entry of another
\* identity as it is, or drop it.
LEMMA EvictionAddsNone ==
    ASSUME TypeOK, NEW kept \in Evicted, NEW j \in Ids, kept[j] = "live"
    PROVE  reg[j] = "live"
  BY DEF TypeOK, Evicted

\* The client operations delete no row of a live turn.
LEMMA ClientKeepsRows ==
    ASSUME TypeOK, SettlementInv, ClientStep, NEW j \in Ids, RowsKept(j)
    PROVE  RowsKept(j)'
  <1>0. Local(j)
    BY SettlementIsLocal
  <1> USE IdentityFacts DEF TypeOK, RowsKept, Active, store, host, client, count
  <1>1. ASSUME NEW i \in Ids, SpawnSend(i) PROVE RowsKept(j)'
    <2> PICK kept \in Evicted : reg' = [kept EXCEPT ![i] = "live"]
      BY <1>1 DEF SpawnSend, Register
    <2>1. kept \in [Ids -> {"none", "live", "done"}]
      BY EvictionKeepsLive
    <2> QED
      BY <1>1, <2>1, EvictionAddsNone DEF SpawnSend, Prepare
  <1>2. CASE \E p \in Posts, A \in SUBSET Members : PostMessage(p, A)
    BY <1>2 DEF PostMessage
  <1>3. ASSUME NEW p \in Posts, DeletePostedMessage(p) PROVE RowsKept(j)'
    <2>1. CASE j \in {p} \X Members
      <3>1. j \in Turns /\ turn[j] # "running"
        BY <1>3, <2>1 DEF DeletePostedMessage, OpenTurn, Lifecycle!OpenTurn, Turns
      <3> QED
        BY <1>0, <1>3, <3>1 DEF DeletePostedMessage, Forget, Local, TurnAgrees
    <2>2. CASE j \notin {p} \X Members
      BY <1>3, <2>2 DEF DeletePostedMessage, Forget
    <2> QED
      BY <2>1, <2>2
  <1>4. CASE ClearConversationHistory
    BY <1>4 DEF ClearConversationHistory, Forget
  <1>5. CASE \E m \in Members : LeaveMember(m) \/ AddMember(m)
    BY <1>5 DEF LeaveMember, AddMember
  <1>6. CASE \E r \in Requests, p \in Posts : AddressMessage(r, p)
    BY <1>6 DEF AddressMessage
  <1> QED
    BY <1>1, <1>2, <1>3, <1>4, <1>5, <1>6 DEF ClientStep

\* A thread settles rows and registry entry of its own identity together, also
\* when its calls fail.
LEMMA ThreadKeepsRows ==
    ASSUME TypeOK, SettlementInv, NEW i \in Ids, ThreadStep(i), NEW j \in Ids, RowsKept(j)
    PROVE  RowsKept(j)'
  <1>0. Local(i)
    BY SettlementIsLocal
  <1> USE DEF TypeOK, RowsKept, Active, store, host, client, count
  <1>1. CASE Begin(i)
    <2> PICK kept \in Evicted : reg' = [kept EXCEPT ![i] = "live"]
      BY <1>1 DEF Begin, Register
    <2>1. kept \in [Ids -> {"none", "live", "done"}]
      BY EvictionKeepsLive
    <2> QED
      BY <1>1, <2>1, EvictionAddsNone DEF Begin, Prepare
  <1>2. CASE BeginIsRejected(i)
    <2>1. reg' = reg \/ reg' \in Evicted
      BY <1>2 DEF BeginIsRejected
    <2>2. reg'[j] = "live" => reg[j] = "live"
      BY <2>1, EvictionAddsNone
    <2> QED
      BY <1>2, <2>2 DEF BeginIsRejected
  <1>3. CASE AdmissionFails(i)
    <2>1. reg'[j] = "live" => reg[j] = "live"
      BY <1>3, EvictionAddsNone DEF AdmissionFails
    <2> QED
      BY <1>3, <2>1 DEF AdmissionFails, Prepare
  <1>4. CASE RecordAccepted(i)
    BY <1>4 DEF RecordAccepted
  <1>5. CASE AcceptedFails(i)
    BY <1>5 DEF AcceptedFails, FinishRuntimeDispatch, Settled
  <1>6. CASE \E s \in TerminalDispatch : Finish(i, s)
    BY <1>6 DEF Finish, FinishRuntimeDispatch, Settled
  <1>7. CASE FinishIsRetried(i)
    BY <1>7 DEF FinishIsRetried, FinishRuntimeDispatch, Settled
  <1>8. CASE ForceTerminal(i)
    BY <1>8 DEF ForceTerminal, Settled
  <1>9. CASE FailDirectTurn(i)
    BY <1>0, <1>9 DEF FailDirectTurn, Local, ThreadAgrees
  <1>10. CASE UNCHANGED <<dispatch, answer, reg>>
    BY <1>10
  <1> QED
    BY <1>1, <1>2, <1>3, <1>4, <1>5, <1>6, <1>7, <1>8, <1>9, <1>10
    DEF ThreadStep, MarkDirectTurnRunning, RunIsAborted, StartNextBoundaryTurn, NoBoundaryTurn,
        CheckDispatched, FailIsRefused

\* Unless the store is opened again under a running host, a live registry entry
\* has its open dispatch and its open answer: no deletion, clear, leaving member,
\* failing call or crash takes the rows from the thread that will settle them.
THEOREM OnlyReopenTakesRows == Spec => [](reopens = 0 => LiveTurnOwnsDispatch)
  <1> DEFINE Rows == RegistryIsMemory /\ (reopens = 0 => \A i \in Ids : RowsKept(i))
  <1>1. Init => Rows
    BY DEF Init, RegistryIsMemory, RowsKept
  <1>2. TypeOK /\ SettlementInv /\ Rows /\ [Next]_vars => Rows'
    <2> SUFFICES ASSUME TypeOK, SettlementInv, Rows, [Next]_vars PROVE Rows'
      OBVIOUS
    <2>0. reopens \in Nat
      BY BoundsAssumption DEF TypeOK
    <2>1. CASE UNCHANGED vars
      BY <2>1 DEF vars, store, host, count, RegistryIsMemory, RowsKept, Active
    <2>2. CASE ClientStep
      <3>1. up /\ UNCHANGED <<up, reopens>>
        BY <2>2 DEF ClientStep, PostMessage, DeletePostedMessage, ClearConversationHistory, Forget,
           LeaveMember, AddMember, AddressMessage, SpawnSend, host, count
      <3> QED
        BY <2>2, <3>1, ClientKeepsRows DEF RegistryIsMemory
    <2>3. ASSUME NEW r \in Requests, RequestStep(r) PROVE Rows'
      <3>1. up /\ UNCHANGED <<up, dispatch, answer, reg, reopens>>
        BY <2>3 DEF RequestStep, EnqueueStart, EnqueueStartFails, SteerActiveTurns,
           ClaimDirectTurn, ClaimIsLost, ClaimFails, PhaseOne, EnqueueBoundary, RequestFails,
           store, host, count
      <3> QED
        BY <3>1 DEF RegistryIsMemory, RowsKept, Active
    <2>4. ASSUME NEW i \in Ids, ThreadStep(i) PROVE Rows'
      <3>1. up /\ UNCHANGED <<up, reopens>>
        BY <2>4 DEF ThreadStep, MarkDirectTurnRunning, Begin, BeginIsRejected, AdmissionFails,
           MayStart, RunIsAborted, RecordAccepted, AcceptedFails, Finish, FinishIsRetried, Fault,
           NoFault, ForceTerminal, StartNextBoundaryTurn, NoBoundaryTurn, CheckDispatched,
           FailDirectTurn, FailIsRefused, count
      <3> QED
        BY <2>4, <3>1, ThreadKeepsRows DEF RegistryIsMemory
    <2>5. CASE Crash
      BY <2>5 DEF Crash, RegistryIsMemory, RowsKept
    <2>6. CASE Boot
      BY <2>6 DEF Boot, RegistryIsMemory, RowsKept
    <2>7. CASE ReopenStore
      BY <2>0, <2>7 DEF ReopenStore, host, RegistryIsMemory
    <2> QED
      BY <2>1, <2>2, <2>3, <2>4, <2>5, <2>6, <2>7 DEF Next
  <1>3. Rows => (reopens = 0 => LiveTurnOwnsDispatch)
    BY DEF LiveTurnOwnsDispatch, RowsKept
  <1> HIDE DEF Rows
  <1> QED
    BY TypeCorrect, SettlementCorrect, <1>1, <1>2, <1>3, PTL DEF Spec


-----------------------------------------------------------------------------
(* Open turns keep their thread.                                           *)

\* What makes NoAbandonedTurn inductive: which thread holds an open turn, and what
\* it has of the turn's rows.  A thread that was rejected has no dispatch yet,
\* and one that drives still has its open one.
HeldBy(i) ==
    /\ turn[i] = "claimed" => worker[i] = "claimed"
    /\ turn[i] = "running" =>
         \/ worker[i] \in {"marked", "failing"}
         \/ worker[i] \in {"begun", "driving"} /\ dispatch[i] \in OpenDispatch
         \/ worker[i] = "rejected" /\ dispatch[i] = "none"

\* No client operation touches an open turn, its dispatch or its thread.
LEMMA ClientKeepsThreads ==
    ASSUME TypeOK, SettlementInv, ClientStep, NEW j \in Ids, HeldBy(j)
    PROVE  HeldBy(j)'
  <1>0. Local(j)
    BY SettlementIsLocal
  <1> USE IdentityFacts DEF TypeOK, HeldBy, store, host, client, count
  <1>1. ASSUME NEW i \in Ids, SpawnSend(i) PROVE HeldBy(j)'
    BY <1>0, <1>1 DEF SpawnSend, Prepare, Local, ThreadAgrees
  <1>2. CASE \E p \in Posts, A \in SUBSET Members : PostMessage(p, A)
    BY <1>2 DEF PostMessage
  <1>3. CASE (\E p \in Posts : DeletePostedMessage(p)) \/ ClearConversationHistory
    BY <1>3 DEF DeletePostedMessage, ClearConversationHistory, Forget
  <1>4. CASE \E m \in Members : LeaveMember(m) \/ AddMember(m)
    BY <1>4 DEF LeaveMember, AddMember
  <1>5. CASE \E r \in Requests, p \in Posts : AddressMessage(r, p)
    BY <1>5 DEF AddressMessage
  <1> QED
    BY <1>1, <1>2, <1>3, <1>4, <1>5 DEF ClientStep

\* A request opens a turn only together with the thread that claims it.
LEMMA RequestKeepsThreads ==
    ASSUME TypeOK, NEW r \in Requests, RequestStep(r), NEW j \in Ids, HeldBy(j)
    PROVE  HeldBy(j)'
  <1> USE IdentityFacts DEF TypeOK, HeldBy, store, host, client, count
  <1>1. CASE EnqueueStart(r) \/ EnqueueBoundary(r)
    <2>1. turn'[j] \in {turn[j], "pending"} /\ UNCHANGED <<dispatch, worker>>
      BY <1>1 DEF EnqueueStart, EnqueueBoundary, EnqueueMentionTurns
    <2> QED
      BY <2>1
  <1>2. ASSUME NEW i \in Turns, ClaimDirectTurn(r, i) PROVE HeldBy(j)'
    BY <1>2 DEF ClaimDirectTurn
  <1>3. CASE UNCHANGED <<turn, dispatch, worker>>
    BY <1>3
  <1> QED
    BY <1>1, <1>2, <1>3 DEF RequestStep, EnqueueStartFails, SteerActiveTurns, ClaimIsLost,
       ClaimFails, RequestFails

\* A thread that meets no failing call lets go of its turn only when the turn is
\* settled, whoever settled it.
LEMMA ThreadKeepsThreads ==
    ASSUME TypeOK, SettlementInv, NEW i \in Ids, ThreadStep(i), faults' = 0,
           NEW j \in Ids, HeldBy(j)
    PROVE  HeldBy(j)'
  <1>0. faults \in Nat /\ Local(i) /\ Local(j)
    BY SettlementIsLocal, BoundsAssumption DEF TypeOK
  <1> USE IdentityFacts DEF TypeOK, HeldBy, store, host, client, count
  <1>1. CASE MarkDirectTurnRunning(i)
    BY <1>1 DEF MarkDirectTurnRunning
  <1>2. CASE Begin(i)
    BY <1>0, <1>2 DEF Begin, Prepare, MayStart, Local, ThreadAgrees
  <1>3. CASE BeginIsRejected(i)
    BY <1>0, <1>3 DEF BeginIsRejected, MayStart, Local, ThreadAgrees
  <1>4. CASE AdmissionFails(i) \/ (\E r \in Requests : RunIsAborted(r, i)) \/ FinishIsRetried(i)
    BY <1>0, <1>4 DEF AdmissionFails, RunIsAborted, FinishIsRetried, Fault
  <1>5. CASE RecordAccepted(i)
    BY <1>5 DEF RecordAccepted
  <1>6. CASE AcceptedFails(i)
    BY <1>0, <1>6 DEF AcceptedFails, Active, Fault, NoFault, Local, AnswerAgrees
  <1>7. ASSUME NEW s \in TerminalDispatch, Finish(i, s) PROVE HeldBy(j)'
    BY <1>7 DEF Finish, FinishRuntimeDispatch, TurnOutcome
  <1>8. CASE ForceTerminal(i)
    <2>1. CASE i = j
      <3>1. turn[j] # "running" /\ turn[j] # "claimed"
        BY <1>0, <1>8, <2>1 DEF ForceTerminal, Active, Fault, NoFault, Local, AnswerAgrees
      <3> QED
        BY <1>8, <3>1 DEF ForceTerminal
    <2>2. CASE i # j
      BY <1>8, <2>2 DEF ForceTerminal
    <2> QED
      BY <2>1, <2>2
  <1>9. CASE StartNextBoundaryTurn(i)
    <2> PICK n \in Turns : /\ turn' = [turn EXCEPT ![n] = "running"]
                           /\ worker' = [worker EXCEPT ![i] = "none", ![n] = "marked"]
      BY <1>9 DEF StartNextBoundaryTurn
    <2> QED
      BY <1>9 DEF StartNextBoundaryTurn
  <1>10. CASE NoBoundaryTurn(i)
    BY <1>10 DEF NoBoundaryTurn
  <1>11. CASE CheckDispatched(i)
    BY <1>11 DEF CheckDispatched
  <1>12. CASE FailDirectTurn(i)
    BY <1>12 DEF FailDirectTurn
  <1>13. CASE FailIsRefused(i)
    BY <1>13 DEF FailIsRefused
  <1> QED
    BY <1>1, <1>2, <1>3, <1>4, <1>5, <1>6, <1>7, <1>8, <1>9, <1>10, <1>11, <1>12, <1>13
    DEF ThreadStep

\* A turn that is stored as claimed or running is abandoned only after a crash or
\* a failing call: claims, rejected starts, leaving members, deletions and a
\* store that is opened again under the host leave each open turn its thread.
THEOREM OnlyFailuresAbandon == Spec => [](crashes = 0 /\ faults = 0 => NoAbandonedTurn)
  <1> DEFINE Held == crashes = 0 /\ faults = 0 => up /\ \A i \in Ids : HeldBy(i)
  <1>1. Init => Held
    BY DEF Init, HeldBy
  <1>2. TypeOK /\ SettlementInv /\ Held /\ [Next]_vars => Held'
    <2> SUFFICES ASSUME TypeOK, SettlementInv, Held, [Next]_vars, crashes' = 0, faults' = 0
                 PROVE  up' /\ \A j \in Ids : HeldBy(j)'
      OBVIOUS
    <2>0. crashes \in Nat /\ faults \in Nat
      BY BoundsAssumption DEF TypeOK
    <2>1. CASE UNCHANGED vars
      BY <2>1 DEF vars, store, host, count, HeldBy
    <2>2. CASE ClientStep
      <3>1. UNCHANGED <<up, crashes, faults>>
        BY <2>2 DEF ClientStep, PostMessage, DeletePostedMessage, ClearConversationHistory, Forget,
           LeaveMember, AddMember, AddressMessage, SpawnSend, host, count
      <3> QED
        BY <2>2, <3>1, ClientKeepsThreads
    <2>3. ASSUME NEW r \in Requests, RequestStep(r) PROVE up' /\ \A j \in Ids : HeldBy(j)'
      <3>1. UNCHANGED <<up, crashes, faults>>
        BY <2>3 DEF RequestStep, EnqueueStart, EnqueueStartFails, SteerActiveTurns,
           ClaimDirectTurn, ClaimIsLost, ClaimFails, EnqueueBoundary, RequestFails, host, count
      <3> QED
        BY <2>3, <3>1, RequestKeepsThreads
    <2>4. ASSUME NEW i \in Ids, ThreadStep(i) PROVE up' /\ \A j \in Ids : HeldBy(j)'
      <3>1. UNCHANGED <<up, crashes>> /\ faults' \in {faults, faults + 1}
        BY <2>4 DEF ThreadStep, MarkDirectTurnRunning, Begin, BeginIsRejected, AdmissionFails,
           RunIsAborted, RecordAccepted, AcceptedFails, Finish, FinishIsRetried, Fault,
           NoFault, ForceTerminal, StartNextBoundaryTurn, NoBoundaryTurn, CheckDispatched,
           FailDirectTurn, FailIsRefused, count
      <3>2. faults = 0
        BY <2>0, <3>1
      <3> QED
        BY <2>4, <3>1, <3>2, ThreadKeepsThreads
    <2>5. CASE Crash
      BY <2>0, <2>5 DEF Crash
    <2>6. CASE Boot
      BY <2>6 DEF Boot, count
    <2>7. CASE ReopenStore
      <3>1. up /\ \A j \in Ids : HeldBy(j)
        BY <2>7 DEF ReopenStore
      <3>2. up' = up
        BY <2>7 DEF ReopenStore, host
      <3>3. ASSUME NEW j \in Ids PROVE HeldBy(j)'
        BY <2>7, <3>1 DEF ReopenStore, ColdRecover, host, HeldBy, TypeOK
      <3> QED
        BY <3>1, <3>2, <3>3
    <2> QED
      BY <2>1, <2>2, <2>3, <2>4, <2>5, <2>6, <2>7 DEF Next
  <1>3. Held => (crashes = 0 /\ faults = 0 => NoAbandonedTurn)
    BY IdentityFacts DEF NoAbandonedTurn, HeldBy
  <1> HIDE DEF Held
  <1> QED
    BY TypeCorrect, SettlementCorrect, <1>1, <1>2, <1>3, PTL DEF Spec

\* Rows and threads belong together until the first crash, reopening or failing
\* call: a live turn owns its rows and an open turn its thread, for any number of
\* members, messages, requests and leaving members.
THEOREM LiveTurnsStayWhole ==
    Spec => [](crashes = 0 /\ reopens = 0 /\ faults = 0 => LiveTurnsAreWhole)
  <1>1. (reopens = 0 => LiveTurnOwnsDispatch) /\ (crashes = 0 /\ faults = 0 => NoAbandonedTurn)
          => (crashes = 0 /\ reopens = 0 /\ faults = 0 => LiveTurnsAreWhole)
    BY DEF LiveTurnsAreWhole
  <1> QED
    BY OnlyReopenTakesRows, OnlyFailuresAbandon, <1>1, PTL


=============================================================================
