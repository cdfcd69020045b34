---------------------------- MODULE CatalogRuntime ----------------------------
(***************************************************************************)
(* The cache of remote tool catalogues: the convergence engine             *)
(* (lico-catalog-convergence, engine.rs), its file (store.rs) and the      *)
(* runtime that serves requests over both (domain/catalog_convergence.rs). *)
(*                                                                         *)
(* A catalogue is cut into partitions.  Notifications announce that a      *)
(* partition has changed; a refresh brings a snapshot of it.  Both come    *)
(* from a remote system that this code does not control, so any of them    *)
(* may be late, repeated, out of order or contradict another.  A partition *)
(* is listed only while nothing says that its snapshot may be old: no      *)
(* pending invalidation and no fence.                                      *)
(*                                                                         *)
(* One request is one step: the runtime serves all of them under a mutex.  *)
(* The engine is memory and the file outlives it.  A process that ends     *)
(* between the replacement in memory and the file leaves the same state as *)
(* one that ends before the request.                                       *)
(***************************************************************************)
EXTENDS Integers, FiniteSets

CONSTANTS
    Keys,           \* partition keys
    Snapshots,      \* what a refresh may bring: src, aud, cat, tools
    Notices,        \* what a notification may say: src, aud, cat
    Malformed,      \* lists of tools that are too long or name a tool twice
    MaxPartitions,
    None

Revision(r) == r.src \in Int /\ r.aud \in Int

ASSUME CatalogAssumption ==
    /\ IsFiniteSet(Keys)
    /\ \A s \in Snapshots : Revision(s)
    /\ \A n \in Notices : Revision(n)
    /\ MaxPartitions \in Nat
    /\ None \notin Snapshots \cup Notices

VARIABLES
    \* EngineState
    partitions,     \* the snapshot of each key, or None
    pending,        \* the invalidation that waits for a refresh, or None
    cohort,         \* the last outcome of each key
    fences,         \* reconnect_fences
    lastAudience,   \* last_known_audience_revision
    observed,       \* ui_observed_revisions, or -1
    \* CatalogCacheStore
    store,          \* partitions.json
    \* history
    shown,          \* the snapshot last listed since the key was purged
    accepted,       \* the highest invalidation accepted by this engine
    halfPurged      \* keys whose purge failed when their file entry was gone

engine == <<partitions, pending, cohort, fences, lastAudience, observed>>
history == <<shown, accepted, halfPurged>>
vars == <<engine, store, history>>

TypeOK ==
    /\ partitions \in [Keys -> Snapshots \cup {None}]
    /\ pending \in [Keys -> Notices \cup {None}]
    /\ cohort \in [Keys -> {"none", "pending", "applied", "fenced"}]
    /\ fences \subseteq Keys
    /\ lastAudience \in Int
    /\ observed \in [Keys -> Int]
    /\ store \in [Keys -> Snapshots \cup {None}]
    /\ shown \in [Keys -> Snapshots \cup {None}]
    /\ accepted \in [Keys -> [src : Int, aud : Int]]
    /\ halfPurged \subseteq Keys

Nowhere == [k \in Keys |-> None]
NoAcceptance == [k \in Keys |-> [src |-> -1, aud |-> -1]]

Init ==
    /\ partitions = Nowhere /\ pending = Nowhere
    /\ cohort = [k \in Keys |-> "none"] /\ fences = {}
    /\ lastAudience = -1 /\ observed = [k \in Keys |-> -1]
    /\ store = Nowhere
    /\ shown = Nowhere /\ accepted = NoAcceptance /\ halfPurged = {}

-----------------------------------------------------------------------------
(* Revisions.                                                              *)

AtLeast(r, s) == r.src >= s.src /\ r.aud >= s.aud
SameRevision(r, s) == r.src = s.src /\ r.aud = s.aud
Newer(r, s) == AtLeast(r, s) /\ ~SameRevision(r, s)
Higher(x, y) == IF x >= y THEN x ELSE y

\* is_stale_candidate.
IsStale(current, r) ==
    \/ /\ r.aud >= 0 /\ current.aud >= 0
       /\ \/ r.aud < current.aud
          \/ r.aud = current.aud /\ r.cat # current.cat /\ r.src < current.src
    \/ r.src >= 0 /\ current.src >= 0 /\ r.src < current.src

-----------------------------------------------------------------------------
(* Notifications.                                                          *)

Cached == {k \in Keys : partitions[k] # None}
Tracked == {k \in Keys : partitions[k] # None \/ pending[k] # None \/ cohort[k] # "none"}

\* Mutated form: only the snapshot is compared, not the pending notice.
TakesAny(k, n) == partitions[k] # None => ~IsStale(partitions[k], n)

\* A tracked key takes a notice that is not behind its snapshot, nor behind
\* or equal to the notice that is pending.
Takes(k, n) ==
    /\ partitions[k] # None => ~IsStale(partitions[k], n)
    /\ pending[k] # None => Newer(n, pending[k])

\* Keys that are not tracked are added while there is room.
Room == IF Cardinality(Tracked) < MaxPartitions
        THEN MaxPartitions - Cardinality(Tracked) ELSE 0

\* apply_invalidation.  The order of a notification's keys decides which of
\* the untracked ones find room.
Invalidate(ks, n) ==
    \E new \in SUBSET (ks \ Tracked) :
       /\ \/ new = ks \ Tracked /\ Cardinality(new) <= Room
          \/ Cardinality(ks \ Tracked) > Room /\ Cardinality(new) = Room
       /\ LET taken == new \cup {k \in ks \cap Tracked : Takes(k, n)} IN
          /\ pending' = [k \in Keys |-> IF k \in taken THEN n ELSE pending[k]]
          /\ cohort' = [k \in Keys |-> IF k \in taken THEN "pending" ELSE cohort[k]]
          /\ accepted' = [k \in Keys |->
                IF k \in taken THEN [src |-> Higher(n.src, accepted[k].src),
                                     aud |-> Higher(n.aud, accepted[k].aud)]
                               ELSE accepted[k]]
       /\ lastAudience' = Higher(n.aud, lastAudience)
       /\ UNCHANGED <<partitions, fences, observed, store, shown, halfPurged>>

-----------------------------------------------------------------------------
(* Refreshes.                                                              *)

WellFormed(s) == s.src >= 0 /\ s.aud >= 0 /\ s.tools \notin Malformed

\* Neither behind the pending notice nor in conflict with it.
AnswersPending(k, s) ==
    pending[k] # None =>
        /\ AtLeast(s, pending[k])
        /\ SameRevision(s, pending[k]) => s.cat = pending[k].cat

\* Mutated form: the audience revision is not compared.
ReplacesBySource(k, s) ==
    partitions[k] # None => s.src >= partitions[k].src /\ ~SameRevision(s, partitions[k])

\* Mutated form: a snapshot of the same revision replaces the one cached.
ReplacesEqual(k, s) == partitions[k] # None => ~IsStale(partitions[k], s)

\* A snapshot of the revision that is cached is unchanged or a conflict.
ReplacesCurrent(k, s) ==
    partitions[k] # None =>
        ~IsStale(partitions[k], s) /\ ~SameRevision(s, partitions[k])

HasCapacity(k) == k \in Cached \/ Cardinality(Cached) < MaxPartitions

\* replace_partition accepts the snapshot; in all other cases it changes
\* nothing, whether it answers unchanged, stale, conflict or capacity.
Accepts(k, s) ==
    WellFormed(s) /\ AnswersPending(k, s) /\ ReplacesCurrent(k, s) /\ HasCapacity(k)

\* Refresh, and the file has been written.
Refresh(k, s) ==
    /\ Accepts(k, s)
    /\ partitions' = [partitions EXCEPT ![k] = s]
    /\ pending' = [pending EXCEPT ![k] = None]
    /\ cohort' = [cohort EXCEPT ![k] = "applied"]
    /\ fences' = fences \ {k}
    /\ store' = [store EXCEPT ![k] = s]
    /\ halfPurged' = halfPurged \ {k}
    /\ UNCHANGED <<lastAudience, observed, shown, accepted>>

\* Mutated form: the error is returned and the partition is not fenced.
RefreshKeptListed(k, s) ==
    /\ Accepts(k, s)
    /\ partitions' = [partitions EXCEPT ![k] = s]
    /\ pending' = [pending EXCEPT ![k] = None]
    /\ cohort' = [cohort EXCEPT ![k] = "applied"]
    /\ fences' = fences \ {k}
    /\ UNCHANGED <<lastAudience, observed, store, history>>

\* Refresh, and persist_partition fails: mark_fenced.  The error may come
\* from the directory's sync, after the file was replaced.
RefreshNotPersisted(k, s) ==
    /\ Accepts(k, s)
    /\ partitions' = [partitions EXCEPT ![k] = s]
    /\ pending' = [pending EXCEPT ![k] = None]
    /\ cohort' = [cohort EXCEPT ![k] = "fenced"]
    /\ fences' = fences \cup {k}
    /\ \/ UNCHANGED <<store, halfPurged>>
       \/ store' = [store EXCEPT ![k] = s] /\ halfPurged' = halfPurged \ {k}
    /\ UNCHANGED <<lastAudience, observed, shown, accepted>>

\* begin_reconnect.
Reconnect ==
    /\ fences' = Cached
    /\ UNCHANGED <<partitions, pending, cohort, lastAudience, observed, store, history>>

-----------------------------------------------------------------------------
(* Listings.                                                               *)

Listable(k) == partitions[k] # None /\ pending[k] = None /\ k \notin fences

\* list_tools, with the answer kept as history.
List(k) ==
    /\ Listable(k)
    /\ shown' = [shown EXCEPT ![k] = partitions[k]]
    /\ UNCHANGED <<engine, store, accepted, halfPurged>>

\* observe_ui_revision.
Observe(k) ==
    /\ Listable(k)
    /\ observed' = [observed EXCEPT ![k] = partitions[k].aud]
    /\ UNCHANGED <<partitions, pending, cohort, fences, lastAudience, store, history>>

-----------------------------------------------------------------------------
(* Purges: the file first, then the engine.                                *)

Without(f, ks, v) == [k \in Keys |-> IF k \in ks THEN v ELSE f[k]]

\* remove_partition and the maps of purge_all.
Forget(ks) ==
    /\ partitions' = Without(partitions, ks, None)
    /\ pending' = Without(pending, ks, None)
    /\ cohort' = Without(cohort, ks, "none")
    /\ fences' = fences \ ks
    /\ observed' = Without(observed, ks, -1)

ForgetHistory(ks) ==
    /\ shown' = Without(shown, ks, None)
    /\ accepted' = Without(accepted, ks, [src |-> -1, aud |-> -1])
    /\ halfPurged' = halfPurged \ ks

\* Mutated form: the file keeps the partition.
PurgeOnlyEngine(k) ==
    /\ Forget({k})
    /\ ForgetHistory({k})
    /\ UNCHANGED <<lastAudience, store>>

Purge(k) ==
    /\ store' = [store EXCEPT ![k] = None]
    /\ Forget({k})
    /\ ForgetHistory({k})
    /\ UNCHANGED lastAudience

PurgeAll ==
    /\ store' = Nowhere
    /\ Forget(Keys)
    /\ ForgetHistory(Keys)
    /\ lastAudience' = -1

\* The store reports an error, and the engine is left alone.  If the file has
\* changed all the same, the keys are gone from it.
PurgeFails(ks) ==
    /\ store' = Without(store, ks, None)
    /\ shown' = Without(shown, ks, None)
    /\ halfPurged' = halfPurged \cup ks
    /\ UNCHANGED <<engine, accepted>>

-----------------------------------------------------------------------------

\* CatalogRuntime::open, in a new process or after a request for another data
\* directory: what is in the file, fenced; invalidations are not in the file.
Restart ==
    /\ partitions' = store /\ pending' = Nowhere
    /\ cohort' = [k \in Keys |-> IF store[k] # None THEN "applied" ELSE "none"]
    /\ fences' = {k \in Keys : store[k] # None}
    /\ lastAudience' = -1 /\ observed' = [k \in Keys |-> -1]
    /\ shown' = Without(shown, halfPurged, None)
    /\ accepted' = NoAcceptance /\ halfPurged' = {}
    /\ UNCHANGED store

Next ==
    \/ \E ks \in SUBSET Keys, n \in Notices : Invalidate(ks, n)
    \/ \E k \in Keys, s \in Snapshots : Refresh(k, s) \/ RefreshNotPersisted(k, s)
    \/ \E k \in Keys : List(k) \/ Observe(k) \/ Purge(k) \/ PurgeFails({k})
    \/ Reconnect \/ PurgeAll \/ PurgeFails(Keys) \/ Restart

Spec == Init /\ [][Next]_vars

-----------------------------------------------------------------------------
(* Properties.                                                             *)

(* A listing never goes back: in neither revision is it behind the snapshot that
   was listed before, across failed writes and restarts, until a purge
   (is_stale_candidate, mark_fenced, begin_reconnect). *)
ListedIsForward ==
    \A k \in Keys : Listable(k) /\ shown[k] # None => AtLeast(partitions[k], shown[k])

(* A listing is never older than an invalidation the engine has accepted,
   whatever the order of notifications and refreshes (replace_partition against
   the pending notice, apply_invalidation against both). *)
ListedCoversInvalidations ==
    \A k \in Keys : Listable(k) => AtLeast(partitions[k], accepted[k])

(* What is listed is what a restart would find: a snapshot that could not be
   written is fenced, and only one that was written lifts the fence.  Only a
   purge that failed halfway leaves a listed partition without its file. *)
ListedIsDurable ==
    \A k \in Keys : Listable(k) /\ k \notin halfPurged => store[k] = partitions[k]

(* A purged partition cannot come back from the file: the file holds no key
   that the engine has forgotten and no snapshot newer than the engine's. *)
PurgedStaysPurged ==
    \A k \in Keys : store[k] # None =>
        partitions[k] # None /\ AtLeast(partitions[k], store[k])

(* The cohort tells the state of each partition: pending exactly while a notice
   waits, fenced only while it is fenced, applied only while it is cached. *)
CohortTellsState ==
    \A k \in Keys :
        /\ cohort[k] = "pending" <=> pending[k] # None
        /\ cohort[k] = "fenced" => k \in fences
        /\ cohort[k] \in {"applied", "fenced"} => partitions[k] # None
        /\ cohort[k] = "none" => partitions[k] = None

(* Neither notifications for unknown keys nor refreshes grow the engine beyond
   its limit: at most that many partitions are cached, and at most that many
   keys are tracked without one. *)
EngineIsBounded ==
    /\ Cardinality(Cached) <= MaxPartitions
    /\ Cardinality(Tracked \ Cached) <= MaxPartitions

(* The revision the user interface is said to have seen is never ahead of the
   cached snapshot and does not survive its removal. *)
ObservedIsBehind ==
    \A k \in Keys : observed[k] >= 0 => partitions[k] # None /\ observed[k] <= partitions[k].aud

(* The parts of the engine and its file agree, within the engine's limits, after
   any sequence of requests, failed writes, failed purges and restarts. *)
EngineInv ==
    /\ TypeOK /\ PurgedStaysPurged /\ CohortTellsState
    /\ EngineIsBounded /\ ObservedIsBehind

(* A blocked partition is listed again only with a strictly newer snapshot: a
   refresh that brings the cached revision again (unchanged) lifts neither a
   fence nor an invalidation. *)
UnblockedByNewer ==
    [][\A k \in Keys :
          partitions[k] # None /\ ~Listable(k) /\ Listable(k)' =>
              Newer(partitions'[k], partitions[k])]_vars

=============================================================================
