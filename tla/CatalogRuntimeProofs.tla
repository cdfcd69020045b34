------------------------- MODULE CatalogRuntimeProofs -------------------------
(***************************************************************************)
(* Proofs about CatalogRuntime: every property its run checks, for any     *)
(* keys, snapshots, notices and limit.                                     *)
(*                                                                         *)
(* The properties of listings are not inductive: a partition that is not   *)
(* listed now may be listed later.  Each is strengthened to a statement    *)
(* about every partition.                                                  *)
(***************************************************************************)
EXTENDS CatalogRuntime, FiniteSetTheorems, TLAPS

-----------------------------------------------------------------------------
(* The inductive invariant.                                                *)

\* What is cached and what is on disk has no negative revision.
StoredWellFormed ==
    \A k \in Keys :
        /\ partitions[k] # None => partitions[k].src >= 0 /\ partitions[k].aud >= 0
        /\ store[k] # None => store[k].src >= 0 /\ store[k].aud >= 0

\* A partition without a fence is on disk, also while it is invalid.
UnfencedIsDurable ==
    \A k \in Keys :
        partitions[k] # None /\ k \notin fences /\ k \notin halfPurged =>
            store[k] = partitions[k]

\* What was listed is covered by memory and, but for a failed purge, by disk.
ShownIsCovered ==
    \A k \in Keys : shown[k] # None =>
        /\ partitions[k] # None /\ AtLeast(partitions[k], shown[k])
        /\ k \notin halfPurged => store[k] # None /\ AtLeast(store[k], shown[k])

\* An accepted revision is that of the cached snapshot, or one the pending
\* notice still asks for.
CoversSrc(k) ==
    \/ accepted[k].src <= -1
    \/ pending[k] # None /\ accepted[k].src <= pending[k].src
    \/ partitions[k] # None /\ accepted[k].src <= partitions[k].src
CoversAud(k) ==
    \/ accepted[k].aud <= -1
    \/ pending[k] # None /\ accepted[k].aud <= pending[k].aud
    \/ partitions[k] # None /\ accepted[k].aud <= partitions[k].aud
AcceptedIsKept == \A k \in Keys : CoversSrc(k) /\ CoversAud(k)

IInv ==
    /\ TypeOK /\ StoredWellFormed
    /\ PurgedStaysPurged /\ UnfencedIsDurable /\ ShownIsCovered
    /\ AcceptedIsKept /\ CohortTellsState /\ ObservedIsBehind

-----------------------------------------------------------------------------

(* The revisions of snapshots and notices are integers. *)
LEMMA Revisions ==
    /\ \A s \in Snapshots : s # None /\ s.src \in Int /\ s.aud \in Int
    /\ \A n \in Notices : n # None /\ n.src \in Int /\ n.aud \in Int
BY CatalogAssumption DEF CatalogAssumption, Revision

(* An accepted snapshot has no negative revision and is behind neither the
   pending notice nor the snapshot it replaces, from which it differs. *)
LEMMA AcceptedSnapshot ==
    ASSUME IInv, NEW k \in Keys, NEW s \in Snapshots, Accepts(k, s)
    PROVE  /\ s.src >= 0 /\ s.aud >= 0
           /\ pending[k] # None => AtLeast(s, pending[k])
           /\ partitions[k] # None => Newer(s, partitions[k])
<1>1. /\ s.src >= 0 /\ s.aud >= 0
      /\ pending[k] # None => AtLeast(s, pending[k])
  BY DEF Accepts, WellFormed, AnswersPending
<1>2. ASSUME partitions[k] # None PROVE Newer(s, partitions[k])
  <2>1. /\ partitions[k] \in Snapshots
        /\ partitions[k].src >= 0 /\ partitions[k].aud >= 0
    BY <1>2 DEF IInv, TypeOK, StoredWellFormed
  <2>2. ~IsStale(partitions[k], s) /\ ~SameRevision(s, partitions[k])
    BY <1>2 DEF Accepts, ReplacesCurrent
  <2> QED
    BY <1>1, <2>1, <2>2, Revisions DEF IsStale, Newer, AtLeast
<1> QED BY <1>1, <1>2

(* A notice is taken by a key only if the pending one is older. *)
LEMMA TakenNotice ==
    ASSUME IInv, NEW ks \in SUBSET Keys, NEW n \in Notices, Invalidate(ks, n)
    PROVE  \E taken \in SUBSET Keys :
              /\ \A k \in taken : pending[k] # None => AtLeast(n, pending[k])
              /\ pending' = [k \in Keys |-> IF k \in taken THEN n ELSE pending[k]]
              /\ cohort' = [k \in Keys |-> IF k \in taken THEN "pending" ELSE cohort[k]]
              /\ accepted' = [k \in Keys |->
                    IF k \in taken THEN [src |-> Higher(n.src, accepted[k].src),
                                         aud |-> Higher(n.aud, accepted[k].aud)]
                                   ELSE accepted[k]]
              /\ lastAudience' = Higher(n.aud, lastAudience)
              /\ UNCHANGED <<partitions, fences, observed, store, shown, halfPurged>>
<1>1. PICK new \in SUBSET (ks \ Tracked) :
         LET taken == new \cup {k \in ks \cap Tracked : Takes(k, n)} IN
         /\ pending' = [k \in Keys |-> IF k \in taken THEN n ELSE pending[k]]
         /\ cohort' = [k \in Keys |-> IF k \in taken THEN "pending" ELSE cohort[k]]
         /\ accepted' = [k \in Keys |->
                IF k \in taken THEN [src |-> Higher(n.src, accepted[k].src),
                                     aud |-> Higher(n.aud, accepted[k].aud)]
                               ELSE accepted[k]]
         /\ lastAudience' = Higher(n.aud, lastAudience)
         /\ UNCHANGED <<partitions, fences, observed, store, shown, halfPurged>>
  BY DEF Invalidate
<1> DEFINE taken == new \cup {k \in ks \cap Tracked : Takes(k, n)}
<1>2. \A k \in taken : pending[k] # None => AtLeast(n, pending[k])
  BY DEF Takes, Newer, Tracked
<1>3. taken \in SUBSET Keys
  OBVIOUS
<1> HIDE DEF taken
<1>4. /\ pending' = [k \in Keys |-> IF k \in taken THEN n ELSE pending[k]]
      /\ cohort' = [k \in Keys |-> IF k \in taken THEN "pending" ELSE cohort[k]]
      /\ accepted' = [k \in Keys |->
            IF k \in taken THEN [src |-> Higher(n.src, accepted[k].src),
                                 aud |-> Higher(n.aud, accepted[k].aud)]
                           ELSE accepted[k]]
      /\ lastAudience' = Higher(n.aud, lastAudience)
      /\ UNCHANGED <<partitions, fences, observed, store, shown, halfPurged>>
  BY <1>1 DEF taken
<1> QED BY <1>2, <1>3, <1>4

-----------------------------------------------------------------------------
(* Each action preserves the invariant.                                    *)

(* A snapshot that is cached and written. *)
LEMMA RefreshStep ==
    ASSUME IInv, NEW k \in Keys, NEW s \in Snapshots, Refresh(k, s)
    PROVE  IInv'
<1>1. TypeOK'
  BY DEF IInv, TypeOK, Refresh
<1>2. StoredWellFormed'
  BY AcceptedSnapshot DEF IInv, StoredWellFormed, Refresh
<1>3. PurgedStaysPurged'
  BY Revisions DEF IInv, TypeOK, PurgedStaysPurged, AtLeast, Refresh
<1>4. UnfencedIsDurable'
  BY DEF IInv, TypeOK, UnfencedIsDurable, Refresh
<1>5. ShownIsCovered'
  BY Revisions, AcceptedSnapshot
     DEF IInv, TypeOK, ShownIsCovered, AtLeast, Refresh, Newer
<1>6. AcceptedIsKept'
  BY Revisions, AcceptedSnapshot
     DEF IInv, TypeOK, AcceptedIsKept, CoversSrc, CoversAud, Refresh, Newer, AtLeast
<1>7. CohortTellsState'
  BY Revisions DEF IInv, TypeOK, CohortTellsState, Refresh
<1>8. ObservedIsBehind'
  BY Revisions, AcceptedSnapshot
     DEF IInv, TypeOK, ObservedIsBehind, Refresh, Newer, AtLeast
<1> QED BY <1>1, <1>2, <1>3, <1>4, <1>5, <1>6, <1>7, <1>8 DEF IInv

(* A snapshot that is cached, fenced and perhaps written. *)
LEMMA RefreshNotPersistedStep ==
    ASSUME IInv, NEW k \in Keys, NEW s \in Snapshots, RefreshNotPersisted(k, s)
    PROVE  IInv'
<1>1. TypeOK'
  BY DEF IInv, TypeOK, RefreshNotPersisted
<1>2. StoredWellFormed'
  BY AcceptedSnapshot DEF IInv, TypeOK, StoredWellFormed, RefreshNotPersisted
<1>3. PurgedStaysPurged'
  BY Revisions, AcceptedSnapshot
     DEF IInv, TypeOK, PurgedStaysPurged, AtLeast, RefreshNotPersisted, Newer
<1>4. UnfencedIsDurable'
  BY DEF IInv, TypeOK, UnfencedIsDurable, RefreshNotPersisted
<1>5. ShownIsCovered'
  BY Revisions, AcceptedSnapshot
     DEF IInv, TypeOK, ShownIsCovered, AtLeast, RefreshNotPersisted, Newer
<1>6. AcceptedIsKept'
  BY Revisions, AcceptedSnapshot
     DEF IInv, TypeOK, AcceptedIsKept, CoversSrc, CoversAud, RefreshNotPersisted, Newer,
         AtLeast
<1>7. CohortTellsState'
  BY Revisions DEF IInv, TypeOK, CohortTellsState, RefreshNotPersisted
<1>8. ObservedIsBehind'
  BY Revisions, AcceptedSnapshot
     DEF IInv, TypeOK, ObservedIsBehind, RefreshNotPersisted, Newer, AtLeast
<1> QED BY <1>1, <1>2, <1>3, <1>4, <1>5, <1>6, <1>7, <1>8 DEF IInv

(* A listing. *)
LEMMA ListStep ==
    ASSUME IInv, NEW k \in Keys, List(k)
    PROVE  IInv'
<1>1. TypeOK'
  BY DEF IInv, TypeOK, List, engine
<1>2. StoredWellFormed'
  BY DEF IInv, StoredWellFormed, List, engine
<1>3. PurgedStaysPurged'
  BY DEF IInv, PurgedStaysPurged, List, engine
<1>4. UnfencedIsDurable'
  BY DEF IInv, UnfencedIsDurable, List, engine
<1>5. ShownIsCovered'
  BY Revisions
     DEF IInv, TypeOK, ShownIsCovered, UnfencedIsDurable, AtLeast, List, Listable,
         engine
<1>6. AcceptedIsKept'
  BY DEF IInv, AcceptedIsKept, CoversSrc, CoversAud, List, engine
<1>7. CohortTellsState'
  BY DEF IInv, CohortTellsState, List, engine
<1>8. ObservedIsBehind'
  BY DEF IInv, ObservedIsBehind, List, engine
<1> QED BY <1>1, <1>2, <1>3, <1>4, <1>5, <1>6, <1>7, <1>8 DEF IInv

(* An observation by the user interface. *)
LEMMA ObserveStep ==
    ASSUME IInv, NEW k \in Keys, Observe(k)
    PROVE  IInv'
<1>1. TypeOK'
  BY Revisions DEF IInv, TypeOK, Observe, Listable, history
<1>2. StoredWellFormed'
  BY DEF IInv, StoredWellFormed, Observe
<1>3. PurgedStaysPurged'
  BY DEF IInv, PurgedStaysPurged, Observe
<1>4. UnfencedIsDurable'
  BY DEF IInv, UnfencedIsDurable, Observe, history
<1>5. ShownIsCovered'
  BY DEF IInv, ShownIsCovered, Observe, history
<1>6. AcceptedIsKept'
  BY DEF IInv, AcceptedIsKept, CoversSrc, CoversAud, Observe, history
<1>7. CohortTellsState'
  BY DEF IInv, CohortTellsState, Observe
<1>8. ObservedIsBehind'
  BY Revisions DEF IInv, TypeOK, ObservedIsBehind, Observe, Listable
<1> QED BY <1>1, <1>2, <1>3, <1>4, <1>5, <1>6, <1>7, <1>8 DEF IInv

(* The purge of one partition. *)
LEMMA PurgeStep ==
    ASSUME IInv, NEW k \in Keys, Purge(k)
    PROVE  IInv'
<1>1. TypeOK'
  BY DEF IInv, TypeOK, Purge, Forget, ForgetHistory, Without
<1>2. StoredWellFormed'
  BY DEF IInv, StoredWellFormed, Purge, Forget, Without
<1>3. PurgedStaysPurged'
  BY DEF IInv, TypeOK, PurgedStaysPurged, Purge, Forget, Without
<1>4. UnfencedIsDurable'
  BY DEF IInv, UnfencedIsDurable, Purge, Forget, ForgetHistory, Without
<1>5. ShownIsCovered'
  BY DEF IInv, ShownIsCovered, Purge, Forget, ForgetHistory, Without
<1>6. AcceptedIsKept'
  BY DEF IInv, AcceptedIsKept, CoversSrc, CoversAud, Purge, Forget, ForgetHistory,
         Without
<1>7. CohortTellsState'
  BY DEF IInv, CohortTellsState, Purge, Forget, Without
<1>8. ObservedIsBehind'
  BY DEF IInv, ObservedIsBehind, Purge, Forget, Without
<1> QED BY <1>1, <1>2, <1>3, <1>4, <1>5, <1>6, <1>7, <1>8 DEF IInv

(* The purge of everything. *)
LEMMA PurgeAllStep ==
    ASSUME IInv, PurgeAll
    PROVE  IInv'
<1>1. TypeOK'
  BY DEF IInv, TypeOK, PurgeAll, Forget, ForgetHistory, Without, Nowhere
<1>2. StoredWellFormed'
  BY DEF StoredWellFormed, PurgeAll, Forget, Without, Nowhere
<1>3. PurgedStaysPurged'
  BY DEF PurgedStaysPurged, PurgeAll, Nowhere
<1>4. UnfencedIsDurable'
  BY DEF UnfencedIsDurable, PurgeAll, Forget, Without
<1>5. ShownIsCovered'
  BY DEF ShownIsCovered, PurgeAll, ForgetHistory, Without
<1>6. AcceptedIsKept'
  BY DEF AcceptedIsKept, CoversSrc, CoversAud, PurgeAll, ForgetHistory, Without
<1>7. CohortTellsState'
  BY DEF CohortTellsState, PurgeAll, Forget, Without
<1>8. ObservedIsBehind'
  BY DEF ObservedIsBehind, PurgeAll, Forget, Without
<1> QED BY <1>1, <1>2, <1>3, <1>4, <1>5, <1>6, <1>7, <1>8 DEF IInv

(* A purge that fails when the file has changed. *)
LEMMA PurgeFailsStep ==
    ASSUME IInv, NEW ks \in SUBSET Keys, PurgeFails(ks)
    PROVE  IInv'
<1>1. TypeOK'
  BY DEF IInv, TypeOK, PurgeFails, Without, engine
<1>2. StoredWellFormed'
  BY DEF IInv, StoredWellFormed, PurgeFails, Without, engine
<1>3. PurgedStaysPurged'
  BY DEF IInv, PurgedStaysPurged, PurgeFails, Without, engine
<1>4. UnfencedIsDurable'
  BY DEF IInv, UnfencedIsDurable, PurgeFails, Without, engine
<1>5. ShownIsCovered'
  BY DEF IInv, ShownIsCovered, PurgeFails, Without, engine
<1>6. AcceptedIsKept'
  BY DEF IInv, AcceptedIsKept, CoversSrc, CoversAud, PurgeFails, engine
<1>7. CohortTellsState'
  BY DEF IInv, CohortTellsState, PurgeFails, engine
<1>8. ObservedIsBehind'
  BY DEF IInv, ObservedIsBehind, PurgeFails, engine
<1> QED BY <1>1, <1>2, <1>3, <1>4, <1>5, <1>6, <1>7, <1>8 DEF IInv

(* All cached partitions are fenced. *)
LEMMA ReconnectStep ==
    ASSUME IInv, Reconnect
    PROVE  IInv'
<1>1. TypeOK'
  BY DEF IInv, TypeOK, Reconnect, Cached, history
<1>2. StoredWellFormed'
  BY DEF IInv, StoredWellFormed, Reconnect
<1>3. PurgedStaysPurged'
  BY DEF IInv, PurgedStaysPurged, Reconnect
<1>4. UnfencedIsDurable'
  BY DEF UnfencedIsDurable, Reconnect, Cached
<1>5. ShownIsCovered'
  BY DEF IInv, ShownIsCovered, Reconnect, history
<1>6. AcceptedIsKept'
  BY DEF IInv, AcceptedIsKept, CoversSrc, CoversAud, Reconnect, history
<1>7. CohortTellsState'
  BY DEF IInv, CohortTellsState, Reconnect, Cached
<1>8. ObservedIsBehind'
  BY DEF IInv, ObservedIsBehind, Reconnect
<1> QED BY <1>1, <1>2, <1>3, <1>4, <1>5, <1>6, <1>7, <1>8 DEF IInv

(* The engine is built again from the file. *)
LEMMA RestartStep ==
    ASSUME IInv, Restart
    PROVE  IInv'
<1>1. TypeOK'
  BY DEF IInv, TypeOK, Restart, Without, Nowhere, NoAcceptance
<1>2. StoredWellFormed'
  BY DEF IInv, StoredWellFormed, Restart
<1>3. PurgedStaysPurged'
  BY Revisions DEF IInv, TypeOK, PurgedStaysPurged, AtLeast, Restart
<1>4. UnfencedIsDurable'
  BY DEF UnfencedIsDurable, Restart
<1>5. ShownIsCovered'
  BY DEF IInv, ShownIsCovered, Restart, Without
<1>6. AcceptedIsKept'
  BY DEF AcceptedIsKept, CoversSrc, CoversAud, Restart, NoAcceptance
<1>7. CohortTellsState'
  BY DEF CohortTellsState, Restart, Nowhere
<1>8. ObservedIsBehind'
  BY DEF ObservedIsBehind, Restart
<1> QED BY <1>1, <1>2, <1>3, <1>4, <1>5, <1>6, <1>7, <1>8 DEF IInv

(* A notification: only the pending notice, the cohort and the history change. *)
LEMMA InvalidateStep ==
    ASSUME IInv, NEW ks \in SUBSET Keys, NEW n \in Notices, Invalidate(ks, n)
    PROVE  IInv'
<1>1. PICK taken \in SUBSET Keys :
         /\ \A k \in taken : pending[k] # None => AtLeast(n, pending[k])
         /\ pending' = [k \in Keys |-> IF k \in taken THEN n ELSE pending[k]]
         /\ cohort' = [k \in Keys |-> IF k \in taken THEN "pending" ELSE cohort[k]]
         /\ accepted' = [k \in Keys |->
                IF k \in taken THEN [src |-> Higher(n.src, accepted[k].src),
                                     aud |-> Higher(n.aud, accepted[k].aud)]
                               ELSE accepted[k]]
         /\ lastAudience' = Higher(n.aud, lastAudience)
         /\ UNCHANGED <<partitions, fences, observed, store, shown, halfPurged>>
  BY TakenNotice
<1>2. n # None /\ n.src \in Int /\ n.aud \in Int
  BY Revisions
<1>3. TypeOK'
  BY <1>1, <1>2 DEF IInv, TypeOK, Higher
<1>4. StoredWellFormed'
  BY <1>1 DEF IInv, StoredWellFormed
<1>5. PurgedStaysPurged'
  BY <1>1 DEF IInv, PurgedStaysPurged
<1>6. UnfencedIsDurable'
  BY <1>1 DEF IInv, UnfencedIsDurable
<1>7. ShownIsCovered'
  BY <1>1 DEF IInv, ShownIsCovered
<1>8. AcceptedIsKept'
  BY <1>1, <1>2, Revisions
     DEF IInv, TypeOK, AcceptedIsKept, CoversSrc, CoversAud, Higher, AtLeast
<1>9. CohortTellsState'
  BY <1>1, <1>2 DEF IInv, TypeOK, CohortTellsState
<1>10. ObservedIsBehind'
  BY <1>1 DEF IInv, ObservedIsBehind
<1> QED BY <1>3, <1>4, <1>5, <1>6, <1>7, <1>8, <1>9, <1>10 DEF IInv

(* The invariant holds initially. *)
LEMMA IInvInit == Init => IInv
BY DEF Init, IInv, TypeOK, StoredWellFormed, PurgedStaysPurged, UnfencedIsDurable,
       ShownIsCovered, AcceptedIsKept, CoversSrc, CoversAud, CohortTellsState,
       ObservedIsBehind, Nowhere, NoAcceptance

(* Every step preserves the invariant. *)
LEMMA IInvNext == IInv /\ [Next]_vars => IInv'
<1> SUFFICES ASSUME IInv, [Next]_vars PROVE IInv'
  OBVIOUS
<1>1. CASE UNCHANGED vars
  BY <1>1 DEF vars, engine, history, IInv, TypeOK, StoredWellFormed, PurgedStaysPurged,
     UnfencedIsDurable, ShownIsCovered, AcceptedIsKept, CoversSrc, CoversAud,
     CohortTellsState, ObservedIsBehind
<1>2. ASSUME NEW ks \in SUBSET Keys, NEW n \in Notices, Invalidate(ks, n) PROVE IInv'
  BY <1>2, InvalidateStep
<1>3. ASSUME NEW k \in Keys, NEW s \in Snapshots, Refresh(k, s) PROVE IInv'
  BY <1>3, RefreshStep
<1>4. ASSUME NEW k \in Keys, NEW s \in Snapshots, RefreshNotPersisted(k, s) PROVE IInv'
  BY <1>4, RefreshNotPersistedStep
<1>5. ASSUME NEW k \in Keys, List(k) PROVE IInv'
  BY <1>5, ListStep
<1>6. ASSUME NEW k \in Keys, Observe(k) PROVE IInv'
  BY <1>6, ObserveStep
<1>7. ASSUME NEW k \in Keys, Purge(k) PROVE IInv'
  BY <1>7, PurgeStep
<1>8. ASSUME NEW ks \in SUBSET Keys, PurgeFails(ks) PROVE IInv'
  BY <1>8, PurgeFailsStep
<1>9. CASE Reconnect
  BY <1>9, ReconnectStep
<1>10. CASE PurgeAll
  BY <1>10, PurgeAllStep
<1>11. CASE Restart
  BY <1>11, RestartStep
<1>12. \A k \in Keys : {k} \in SUBSET Keys
  OBVIOUS
<1> QED
  BY <1>1, <1>2, <1>3, <1>4, <1>5, <1>6, <1>7, <1>8, <1>9, <1>10, <1>11, <1>12 DEF Next

-----------------------------------------------------------------------------
(* What follows from the invariant.                                        *)

(* A listing covers what was listed before and every invalidation that was
   accepted, and it is on disk. *)
LEMMA IInvListings ==
    IInv => ListedIsForward /\ ListedCoversInvalidations /\ ListedIsDurable
<1> SUFFICES ASSUME IInv PROVE ListedIsForward /\ ListedCoversInvalidations /\ ListedIsDurable
  OBVIOUS
<1>1. ListedIsForward
  BY DEF IInv, ShownIsCovered, ListedIsForward
<1>2. ListedCoversInvalidations
  BY Revisions DEF IInv, TypeOK, StoredWellFormed, AcceptedIsKept, CoversSrc, CoversAud,
     ListedCoversInvalidations, Listable, AtLeast
<1>3. ListedIsDurable
  BY DEF IInv, UnfencedIsDurable, ListedIsDurable, Listable
<1> QED BY <1>1, <1>2, <1>3

(* A step that unblocks a partition is a refresh that was written. *)
LEMMA UnblockedStep ==
    ASSUME IInv, [Next]_vars, NEW k \in Keys,
           partitions[k] # None, ~Listable(k), Listable(k)'
    PROVE  Newer(partitions'[k], partitions[k])
<1> USE DEF Listable
<1>1. CASE UNCHANGED vars
  BY <1>1 DEF vars, engine
<1>2. ASSUME NEW ks \in SUBSET Keys, NEW n \in Notices, Invalidate(ks, n) PROVE FALSE
  BY <1>2, TakenNotice, Revisions DEF IInv, TypeOK
<1>3. ASSUME NEW j \in Keys, NEW s \in Snapshots, Refresh(j, s)
      PROVE  Newer(partitions'[k], partitions[k])
  <2>1. CASE j = k
    BY <1>3, <2>1, AcceptedSnapshot DEF Refresh, IInv, TypeOK
  <2>2. CASE j # k
    BY <1>3, <2>2 DEF Refresh, IInv, TypeOK
  <2> QED BY <2>1, <2>2
<1>4. ASSUME NEW j \in Keys, NEW s \in Snapshots, RefreshNotPersisted(j, s) PROVE FALSE
  BY <1>4 DEF RefreshNotPersisted, IInv, TypeOK
<1>5. ASSUME NEW j \in Keys, List(j) \/ Observe(j) PROVE FALSE
  BY <1>5 DEF List, Observe, engine
<1>6. ASSUME NEW j \in Keys, Purge(j) PROVE FALSE
  BY <1>6 DEF Purge, Forget, Without
<1>7. ASSUME NEW ks, PurgeFails(ks) PROVE FALSE
  BY <1>7 DEF PurgeFails, engine
<1>8. CASE Reconnect
  BY <1>8 DEF Reconnect, Cached
<1>9. CASE PurgeAll
  BY <1>9 DEF PurgeAll, Forget, Without
<1>10. CASE Restart
  BY <1>10 DEF Restart
<1> QED
  BY <1>1, <1>2, <1>3, <1>4, <1>5, <1>6, <1>7, <1>8, <1>9, <1>10 DEF Next

(* The inductive invariant holds whatever notifications and snapshots arrive,
   fail to be written or are lost with the process. *)
LEMMA EngineInvariant == Spec => []IInv
  BY IInvInit, IInvNext, PTL DEF Spec

(* A listing never goes back: neither a late snapshot, a failed write nor a
   restart lets list answer with a revision older than one it has answered. *)
THEOREM ListingsGoForward == Spec => []ListedIsForward
  BY EngineInvariant, IInvListings, PTL

(* What list answers covers every invalidation the engine accepted for that
   partition. *)
THEOREM ListingsCoverInvalidations == Spec => []ListedCoversInvalidations
  BY EngineInvariant, IInvListings, PTL

(* What list answers is on disk: persist comes before the snapshot is listable,
   and a refresh whose write failed leaves the partition blocked. *)
THEOREM ListingsAreDurable == Spec => []ListedIsDurable
  BY EngineInvariant, IInvListings, PTL

(* Only a strictly newer snapshot lists a blocked partition again. *)
THEOREM OnlyNewerUnblocks == Spec => UnblockedByNewer
<1>1. Spec => []IInv
  BY EngineInvariant
<1>2. IInv /\ [Next]_vars =>
        [\A k \in Keys :
            partitions[k] # None /\ ~Listable(k) /\ Listable(k)' =>
                Newer(partitions'[k], partitions[k])]_vars
  BY UnblockedStep
<1> QED BY <1>1, <1>2, PTL DEF Spec, UnblockedByNewer

-----------------------------------------------------------------------------
(* The bound on the engine.                                                *)

Waiting == Tracked \ Cached

(* Sets of keys are finite, and a subset is not larger. *)
LEMMA KeySets ==
    /\ \A S \in SUBSET Keys : IsFiniteSet(S) /\ Cardinality(S) \in Nat
    /\ \A S \in SUBSET Keys : \A T \in SUBSET S : Cardinality(T) <= Cardinality(S)
<1>1. \A S \in SUBSET Keys : IsFiniteSet(S)
  BY CatalogAssumption, FS_Subset DEF CatalogAssumption
<1> QED BY <1>1, FS_Subset, FS_CardinalityType

(* A step after which no key is newly cached or newly tracked. *)
LEMMA BoundShrinks ==
    ASSUME EngineIsBounded, Cached' \subseteq Cached, Waiting' \subseteq Waiting
    PROVE  EngineIsBounded'
<1>1. Cached \in SUBSET Keys /\ Waiting \in SUBSET Keys
  BY DEF Cached, Tracked, Waiting
<1>2. /\ Cardinality(Cached) \in Nat /\ Cardinality(Waiting) \in Nat
      /\ Cardinality(Cached') \in Nat /\ Cardinality(Waiting') \in Nat
      /\ Cardinality(Cached') <= Cardinality(Cached)
      /\ Cardinality(Waiting') <= Cardinality(Waiting)
  BY <1>1, KeySets
<1> QED
  BY <1>2, CatalogAssumption DEF EngineIsBounded, Waiting, CatalogAssumption

(* A refresh caches one key at most, and only if there is capacity. *)
LEMMA BoundRefresh ==
    ASSUME IInv, EngineIsBounded, NEW k \in Keys, NEW s \in Snapshots, Accepts(k, s),
           partitions' = [partitions EXCEPT ![k] = s],
           pending' = [pending EXCEPT ![k] = None],
           \A j \in Keys \ {k} : cohort'[j] = cohort[j]
    PROVE  EngineIsBounded'
<1>1. Cached' = Cached \cup {k}
  BY Revisions DEF IInv, TypeOK, Cached
<1>2. Waiting' \subseteq Waiting
  BY <1>1 DEF IInv, TypeOK, Waiting, Tracked, Cached
<1>3. Cached \in SUBSET Keys /\ Waiting \in SUBSET Keys
  BY DEF Cached, Tracked, Waiting
<1>4. /\ IsFiniteSet(Cached) /\ Cardinality(Cached) \in Nat
      /\ Cardinality(Waiting) \in Nat /\ Cardinality(Waiting') \in Nat
      /\ Cardinality(Waiting') <= Cardinality(Waiting)
  BY <1>2, <1>3, KeySets
<1>5. Cardinality(Cached') <= MaxPartitions
  <2>1. Cardinality(Cached \cup {k}) =
           IF k \in Cached THEN Cardinality(Cached) ELSE Cardinality(Cached) + 1
    BY <1>4, FS_AddElement
  <2>2. k \in Cached \/ Cardinality(Cached) < MaxPartitions
    BY DEF Accepts, HasCapacity
  <2>3. Cardinality(Cached) <= MaxPartitions
    BY DEF EngineIsBounded
  <2> QED BY <1>1, <1>4, <2>1, <2>2, <2>3, CatalogAssumption DEF CatalogAssumption
<1> QED
  BY <1>4, <1>5, CatalogAssumption DEF EngineIsBounded, Waiting, CatalogAssumption

(* A notification adds no more untracked keys than there is room for. *)
LEMMA BoundInvalidate ==
    ASSUME IInv, EngineIsBounded, NEW ks \in SUBSET Keys, NEW n \in Notices,
           Invalidate(ks, n)
    PROVE  EngineIsBounded'
<1>1. PICK new \in SUBSET (ks \ Tracked) :
         /\ \/ new = ks \ Tracked /\ Cardinality(new) <= Room
            \/ Cardinality(ks \ Tracked) > Room /\ Cardinality(new) = Room
         /\ LET taken == new \cup {k \in ks \cap Tracked : Takes(k, n)} IN
            /\ pending' = [k \in Keys |-> IF k \in taken THEN n ELSE pending[k]]
            /\ cohort' = [k \in Keys |-> IF k \in taken THEN "pending" ELSE cohort[k]]
         /\ partitions' = partitions
  BY DEF Invalidate
<1>2. Cached' = Cached
  BY <1>1 DEF Cached
<1>3. Tracked' \subseteq Tracked \cup new
  BY <1>1 DEF Tracked
<1>4. Tracked \in SUBSET Keys /\ new \in SUBSET Keys /\ Waiting \in SUBSET Keys
  BY DEF Tracked, Waiting
<1>5. /\ IsFiniteSet(Tracked) /\ IsFiniteSet(new)
      /\ Cardinality(Tracked) \in Nat /\ Cardinality(new) \in Nat
      /\ Cardinality(Waiting) \in Nat
  BY <1>4, KeySets
<1>6. CASE new = {}
  <2>1. Waiting' \subseteq Waiting
    BY <1>2, <1>3, <1>6 DEF Waiting
  <2> QED BY <1>2, <2>1, BoundShrinks
<1>7. CASE new # {}
  <2>1. Cardinality(new) <= Room /\ Cardinality(new) # 0
    BY <1>1, <1>5, <1>7, FS_EmptySet
  <2>2. Cardinality(Tracked) + Cardinality(new) <= MaxPartitions
    BY <1>5, <2>1, CatalogAssumption DEF Room, CatalogAssumption
  <2>3. Cardinality(Tracked \cup new) = Cardinality(Tracked) + Cardinality(new)
    <3>1. Tracked \cap new = {}
      OBVIOUS
    <3>2. Cardinality(Tracked \cup new) =
             Cardinality(Tracked) + Cardinality(new) - Cardinality(Tracked \cap new)
      BY <1>5, FS_Union
    <3>3. Cardinality(Tracked \cap new) = 0
      BY <3>1, FS_EmptySet
    <3> QED BY <1>5, <3>2, <3>3
  <2>4. Waiting' \in SUBSET (Tracked \cup new) /\ Tracked \cup new \in SUBSET Keys
    BY <1>3, <1>4 DEF Waiting
  <2>5. Cardinality(Waiting') <= Cardinality(Tracked \cup new) /\ Cardinality(Waiting') \in Nat
    BY <2>4, KeySets
  <2>6. Cardinality(Cached') <= MaxPartitions
    BY <1>2 DEF EngineIsBounded
  <2> QED
    BY <1>5, <2>2, <2>3, <2>5, <2>6, CatalogAssumption
       DEF EngineIsBounded, Waiting, CatalogAssumption
<1> QED BY <1>6, <1>7

(* Every step keeps the bound. *)
LEMMA BoundNext == IInv /\ EngineIsBounded /\ [Next]_vars => EngineIsBounded'
<1> SUFFICES ASSUME IInv, EngineIsBounded, [Next]_vars PROVE EngineIsBounded'
  OBVIOUS
<1>1. CASE UNCHANGED vars
  BY <1>1, BoundShrinks DEF vars, engine, Cached, Tracked, Waiting
<1>2. ASSUME NEW ks \in SUBSET Keys, NEW n \in Notices, Invalidate(ks, n)
      PROVE  EngineIsBounded'
  BY <1>2, BoundInvalidate
<1>3. ASSUME NEW k \in Keys, NEW s \in Snapshots, Refresh(k, s) \/ RefreshNotPersisted(k, s)
      PROVE  EngineIsBounded'
  <2>1. /\ Accepts(k, s)
        /\ partitions' = [partitions EXCEPT ![k] = s]
        /\ pending' = [pending EXCEPT ![k] = None]
    BY <1>3 DEF Refresh, RefreshNotPersisted
  <2>2. \A j \in Keys \ {k} : cohort'[j] = cohort[j]
    BY <1>3 DEF Refresh, RefreshNotPersisted, IInv, TypeOK
  <2> QED BY <2>1, <2>2, BoundRefresh
<1>4. ASSUME NEW k \in Keys, List(k) \/ Observe(k) PROVE EngineIsBounded'
  BY <1>4, BoundShrinks DEF List, Observe, engine, Cached, Tracked, Waiting
<1>5. ASSUME NEW ks \in SUBSET Keys, Forget(ks) PROVE EngineIsBounded'
  BY <1>5, BoundShrinks DEF Forget, Without, Cached, Tracked, Waiting
<1>6. ASSUME NEW ks, PurgeFails(ks) PROVE EngineIsBounded'
  BY <1>6, BoundShrinks DEF PurgeFails, engine, Cached, Tracked, Waiting
<1>7. CASE Reconnect
  BY <1>7, BoundShrinks DEF Reconnect, Cached, Tracked, Waiting
<1>8. CASE Restart
  <2>1. Cached' \subseteq Cached
    BY <1>8 DEF Restart, Cached, IInv, PurgedStaysPurged
  <2>2. Waiting' \subseteq Waiting
    BY <1>8 DEF Restart, Waiting, Cached, Tracked, Nowhere
  <2> QED BY <2>1, <2>2, BoundShrinks
<1>9. ASSUME NEW k \in Keys, Purge(k) PROVE EngineIsBounded'
  BY <1>5, <1>9 DEF Purge
<1>10. CASE PurgeAll
  BY <1>5, <1>10 DEF PurgeAll
<1> QED
  BY <1>1, <1>2, <1>3, <1>4, <1>6, <1>7, <1>8, <1>9, <1>10 DEF Next

(* The engine never caches more partitions than its limit, nor tracks more
   keys than that without one, whatever keys notifications name. *)
THEOREM EngineStaysBounded == Spec => []EngineIsBounded
<1>1. Spec => []IInv
  BY IInvInit, IInvNext, PTL DEF Spec
<1>2. Init => EngineIsBounded
  <2> SUFFICES ASSUME Init PROVE EngineIsBounded
    OBVIOUS
  <2>1. Cached = {} /\ Tracked \ Cached = {}
    BY DEF Init, Cached, Tracked, Nowhere
  <2> QED BY <2>1, FS_EmptySet, CatalogAssumption DEF EngineIsBounded, CatalogAssumption
<1> QED BY <1>1, <1>2, BoundNext, PTL DEF Spec

(* The file never holds what the engine has forgotten, the cohort tells the
   state of each partition, the observed revision is not ahead, and the engine
   stays within its limits. *)
THEOREM EngineIsConsistent == Spec => []EngineInv
<1>1. Spec => []IInv
  BY IInvInit, IInvNext, PTL DEF Spec
<1>2. IInv /\ EngineIsBounded => EngineInv
  BY DEF IInv, EngineInv
<1> QED BY <1>1, <1>2, EngineStaysBounded, PTL

=============================================================================
