---------------------------- MODULE TurnStream ----------------------------
(***************************************************************************)
(* One PersistentTurn of stdio_rpc/server/conversation.rs: the thread that *)
(* drives its lane operation commits frames under dense cursors, keeps the *)
(* newest ones in a disposable cache and settles the turn; observers that  *)
(* attach replay the frames from the cache or from the store and then wait *)
(* for more; a cancellation that comes before the native session is known  *)
(* is retained and tried again after every frame.  The mutex of the turn's *)
(* state makes recording a frame, settling and taking a snapshot atomic.   *)
(***************************************************************************)
EXTENDS Naturals, FiniteSets

CONSTANTS
    Observers,    \* attach requests
    Cancellers,   \* cancel requests
    PageSize,     \* REPLAY_PAGE_SIZE
    MaxFrames,    \* bound on frames the lane operation emits
    MaxFaults     \* bound on failing store calls

ASSUME StreamAssumption ==
    /\ PageSize \in Nat \ {0} /\ MaxFrames \in Nat /\ MaxFaults \in Nat
    /\ Cancellers \cap {"driver", "nobody", "flag"} = {}

Threads == Cancellers \cup {"driver"}

VARIABLES
    row,        \* conversation_dispatches.state; "gone" once history is cleared
    stored,     \* cursors 1..stored are in event_parts
    high,       \* PersistentTurnState.high_water
    cache,      \* the cursors in PersistentTurnState.cache
    terminal,   \* PersistentTurnState.terminal: "none" or the outcome it tells
    session,    \* the native session is known
    flag,       \* cancel_requested
    keeper,     \* who has an unanswered cancel request: "flag" or a thread (auxiliary)
    pc,         \* step of the driving thread and of every cancel request
    emitted,    \* frames emitted
    at,         \* step of an observer
    cursor,     \* the last cursor an observer has written
    snap,       \* what an observer captured under the lock
    faults      \* failing store calls so far

turnVars == <<row, stored, high, cache, terminal>>
laneVars == <<session, flag, keeper, pc, emitted>>
obsVars  == <<at, cursor, snap>>
vars     == <<turnVars, laneVars, obsVars, faults>>

Outcomes == {"completed", "failed", "cancelled"}
Nothing  == [high |-> 0, hit |-> FALSE, frames |-> {}, terminal |-> "none"]

Fault   == faults < MaxFaults /\ faults' = faults + 1
NoFault == faults' = faults

TypeOK ==
    /\ row \in Outcomes \cup {"open", "gone"}
    /\ stored \in 0..(MaxFrames + 1) /\ high \in 0..(MaxFrames + 1)
    /\ cache \in SUBSET (1..(MaxFrames + 1))
    /\ terminal \in Outcomes \cup {"none"}
    /\ session \in BOOLEAN /\ flag \in BOOLEAN
    /\ keeper \in [Cancellers -> Threads \cup {"nobody", "flag"}]
    /\ pc \in [Threads -> {"idle", "checked", "accept", "lane", "record", "attempt", "held",
                           "calling", "storing", "failing", "over"}]
    /\ emitted \in 0..MaxFrames
    /\ at \in [Observers -> {"idle", "capture", "replay", "waiting", "lost", "done"}]
    /\ cursor \in [Observers -> 0..(MaxFrames + 1)]
    /\ snap \in [Observers -> [high : 0..(MaxFrames + 1), hit : BOOLEAN,
                               frames : SUBSET (1..(MaxFrames + 1)),
                               terminal : Outcomes \cup {"none"}]]
    /\ faults \in 0..MaxFaults

Init ==
    /\ row = "open" /\ stored = 0 /\ high = 0 /\ cache = {} /\ terminal = "none"
    /\ session \in BOOLEAN /\ flag = FALSE /\ keeper = [k \in Cancellers |-> "nobody"]
    /\ pc = [t \in Threads |-> IF t = "driver" THEN "accept" ELSE "idle"]
    /\ emitted = 0
    /\ at = [o \in Observers |-> "idle"]
    /\ cursor = [o \in Observers |-> 0]
    /\ snap = [o \in Observers |-> Nothing]
    /\ faults = 0

Goto(t, step) == pc' = [pc EXCEPT ![t] = step]

\* turn.changed.notify_all
NotifyAll == at' = [o \in Observers |-> IF at[o] = "waiting" THEN "capture" ELSE at[o]]

-----------------------------------------------------------------------------
(* The driving thread.                                                     *)

\* The lane operation emits an event: record_event first binds the session it
\* names.  User speech occupies no cursor.
Emit(named, speech) ==
    /\ pc["driver"] = "lane" /\ emitted < MaxFrames
    /\ emitted' = emitted + 1
    /\ session' = (session \/ named)
    /\ Goto("driver", IF speech THEN "attempt" ELSE "record")
    /\ UNCHANGED <<turnVars, flag, keeper, obsVars, faults>>

\* append_runtime_frame refuses a settled dispatch and a cursor that exists.
Appendable == row = "open" /\ stored = high

\* The oldest frames leave the cache until its bytes fit the budget: how many
\* depends on the sizes, and even the new frame may be too large.
Cached(floor) == {c \in cache \cup {high + 1} : c >= floor}

\* record_event: store, advance, cache, notify, all under the turn's lock.
RecordEvent ==
    /\ pc["driver"] \in {"accept", "record"} /\ Appendable
    /\ stored' = stored + 1
    /\ high' = high + 1
    /\ \E floor \in 1..(high + 2) : cache' = Cached(floor)
    /\ NotifyAll
    /\ Goto("driver", "attempt")
    /\ UNCHANGED <<row, terminal, session, flag, keeper, emitted, cursor, snap, faults>>

\* The frame is dropped: the store refuses it, or stores it and then fails to
\* bind the session, so that the high-water mark stays behind.  A turn whose
\* accepted frame is dropped settles as failed.
RecordFails ==
    /\ pc["driver"] \in {"accept", "record"}
    /\ \/ NoFault /\ ~Appendable /\ UNCHANGED stored
       \/ Fault /\ UNCHANGED stored
       \/ Fault /\ Appendable /\ session /\ stored' = stored + 1
    /\ Goto("driver", IF pc["driver"] = "accept" THEN "failing" ELSE "lane")
    /\ UNCHANGED <<row, high, cache, terminal, session, flag, keeper, emitted, obsVars>>

\* The thread cannot be started: abandon_turn.
Abandon ==
    /\ pc["driver"] = "accept"
    /\ Goto("driver", "failing")
    /\ UNCHANGED <<turnVars, session, flag, keeper, emitted, obsVars, faults>>

\* The lane operation returns, or fails or panics.
LaneReturns ==
    /\ pc["driver"] = "lane"
    /\ \E step \in {"storing", "failing"} : Goto("driver", step)
    /\ UNCHANGED <<turnVars, session, flag, keeper, emitted, obsVars, faults>>

\* finish: the outcome is stored, told and announced under the turn's lock.
Finish(s) ==
    /\ pc["driver"] = "storing" \/ (pc["driver"] = "failing" /\ s # "completed")
    /\ row = "open"
    /\ row' = s
    /\ terminal' = IF terminal = "none" THEN s ELSE terminal
    /\ NotifyAll
    /\ Goto("driver", "over")
    /\ UNCHANGED <<stored, high, cache, session, flag, keeper, emitted, cursor, snap, faults>>

\* Mutated form: the outcome that cannot be stored is told all the same.
FinishTellsAnyway ==
    /\ pc["driver"] = "storing"
    /\ Fault \/ (NoFault /\ row # "open")
    /\ terminal' = "completed"
    /\ NotifyAll
    /\ Goto("driver", "over")
    /\ UNCHANGED <<row, stored, high, cache, session, flag, keeper, emitted, cursor, snap>>

\* The outcome cannot be stored: the thread tries to store a failure instead.
FinishFails ==
    /\ pc["driver"] = "storing"
    /\ Fault \/ (NoFault /\ row # "open")
    /\ Goto("driver", "failing")
    /\ UNCHANGED <<turnVars, session, flag, keeper, emitted, obsVars>>

\* Mutated form: the forced failure is not announced.
ForceSilently ==
    /\ pc["driver"] = "failing"
    /\ Fault \/ (NoFault /\ row # "open")
    /\ terminal' = IF terminal = "none" THEN "failed" ELSE terminal
    /\ Goto("driver", "over")
    /\ UNCHANGED <<row, stored, high, cache, session, flag, keeper, emitted, obsVars>>

\* force_terminal: not even the failure can be stored, it is told from memory.
ForceTerminal ==
    /\ pc["driver"] = "failing"
    /\ Fault \/ (NoFault /\ row # "open")
    /\ terminal' = IF terminal = "none" THEN "failed" ELSE terminal
    /\ NotifyAll
    /\ Goto("driver", "over")
    /\ UNCHANGED <<row, stored, high, cache, session, flag, keeper, emitted, cursor, snap>>

-----------------------------------------------------------------------------
(* Cancellation: request_cancel and attempt_deferred_cancel.               *)

\* scoped_control_params refuses a settled turn.
CheckActive(k) ==
    /\ pc[k] = "idle" /\ terminal = "none"
    /\ Goto(k, "checked")
    /\ UNCHANGED <<turnVars, session, flag, keeper, emitted, obsVars, faults>>

\* Every request that `from' has goes to `to'.
Pass(from, to) == keeper' = [k \in Cancellers |-> IF keeper[k] = from THEN to ELSE keeper[k]]

\* cancel_requested.store(true)
RequestCancel(k) ==
    /\ pc[k] = "checked"
    /\ flag' = TRUE
    /\ keeper' = [keeper EXCEPT ![k] = "flag"]
    /\ Goto(k, "attempt")
    /\ UNCHANGED <<turnVars, session, emitted, obsVars, faults>>

\* Where a thread goes when its attempt is over.
After(t) == IF t = "driver" THEN "lane" ELSE "over"

\* compare_exchange(true, false): one thread takes the request, or finds none.
TakeRequest(t) ==
    /\ pc[t] = "attempt"
    /\ flag' = FALSE
    /\ IF flag THEN Pass("flag", t) ELSE UNCHANGED keeper
    /\ Goto(t, IF flag THEN "held" ELSE After(t))
    /\ UNCHANGED <<turnVars, session, emitted, obsVars, faults>>

\* Mutated form: without a session the request is not put back.
ForgetRequest(t) ==
    /\ pc[t] = "held"
    /\ flag' = flag
    /\ UNCHANGED keeper
    /\ Goto(t, IF session THEN "calling" ELSE After(t))
    /\ UNCHANGED <<turnVars, session, emitted, obsVars, faults>>

\* Without a session the request is put back.
ReadSession(t) ==
    /\ pc[t] = "held"
    /\ flag' = (flag \/ ~session)
    /\ IF session THEN UNCHANGED keeper ELSE Pass(t, "flag")
    /\ Goto(t, IF session THEN "calling" ELSE After(t))
    /\ UNCHANGED <<turnVars, session, emitted, obsVars, faults>>

\* The lane answers the cancellation; or the call fails or finds nothing active,
\* and the request is put back.
CancelReturns(t, answered) ==
    /\ pc[t] = "calling"
    /\ flag' = (flag \/ ~answered)
    /\ Pass(t, IF answered THEN "nobody" ELSE "flag")
    /\ Goto(t, After(t))
    /\ UNCHANGED <<turnVars, session, emitted, obsVars, faults>>

-----------------------------------------------------------------------------
(* Observers: spawn_attach and replay_turn.                                *)

\* A cursor ahead of the high-water mark is refused.
Attach(o, after) ==
    /\ at[o] = "idle" /\ after <= high
    /\ at' = [at EXCEPT ![o] = "capture"]
    /\ cursor' = [cursor EXCEPT ![o] = after]
    /\ UNCHANGED <<turnVars, laneVars, snap, faults>>

CacheFloor == IF cache = {} THEN high + 1 ELSE CHOOSE c \in cache : \A d \in cache : c <= d

\* Mutated form: a gap of one frame before the cache counts as a hit.
HitPastFloor(o) == cursor[o] + 2 >= CacheFloor

\* The frames after the observer's cursor are all in the cache.
Hit(o) == cursor[o] + 1 >= CacheFloor

\* One snapshot of the high-water mark, the cached frames and the terminal.
Capture(o) ==
    /\ at[o] = "capture"
    /\ snap' = [snap EXCEPT ![o] =
           [high |-> high, hit |-> Hit(o), terminal |-> terminal,
            frames |-> IF Hit(o) THEN {c \in cache : c > cursor[o]} ELSE {}]]
    /\ at' = [at EXCEPT ![o] = "replay"]
    /\ UNCHANGED <<turnVars, laneVars, cursor, faults>>

\* The next frames: the captured ones, or one page of runtime_frames_after.
Page(o) ==
    IF snap[o].hit THEN {c \in snap[o].frames : c > cursor[o]}
    ELSE {c \in 1..stored : /\ row # "gone"
                            /\ c > cursor[o] /\ c <= snap[o].high
                            /\ c <= cursor[o] + PageSize}

\* Only frames that continue the observer's cursor without a gap are written.
Replay(o) ==
    /\ at[o] = "replay" /\ cursor[o] < snap[o].high
    /\ \E last \in (cursor[o] + 1)..snap[o].high :
        /\ Page(o) = (cursor[o] + 1)..last
        /\ cursor' = [cursor EXCEPT ![o] = last]
    /\ UNCHANGED <<turnVars, laneVars, at, snap, faults>>

\* canonical_replay_gap, canonical_replay_cursor_invalid or a failing read: the
\* thread ends and writes nothing more.
ReplayFails(o) ==
    /\ at[o] = "replay" /\ cursor[o] < snap[o].high
    /\ \/ NoFault /\ \A last \in (cursor[o] + 1)..snap[o].high : Page(o) # (cursor[o] + 1)..last
       \/ Fault /\ ~snap[o].hit
    /\ at' = [at EXCEPT ![o] = "lost"]
    /\ UNCHANGED <<turnVars, laneVars, cursor, snap>>

\* Mutated form: the terminal is read again after the replay.
TellCurrentTerminal(o) ==
    /\ at[o] = "replay" /\ cursor[o] = snap[o].high
    /\ terminal # "none"
    /\ at' = [at EXCEPT ![o] = "done"]
    /\ UNCHANGED <<turnVars, laneVars, cursor, snap, faults>>

\* The captured terminal follows the captured frames.
TellTerminal(o) ==
    /\ at[o] = "replay" /\ cursor[o] = snap[o].high
    /\ snap[o].terminal # "none"
    /\ at' = [at EXCEPT ![o] = "done"]
    /\ UNCHANGED <<turnVars, laneVars, cursor, snap, faults>>

\* Otherwise wait under the lock, unless there is already something new.
Wait(o) ==
    /\ at[o] = "replay" /\ cursor[o] = snap[o].high /\ snap[o].terminal = "none"
    /\ at' = [at EXCEPT ![o] = IF high = cursor[o] /\ terminal = "none" THEN "waiting"
                               ELSE "capture"]
    /\ UNCHANGED <<turnVars, laneVars, cursor, snap, faults>>

-----------------------------------------------------------------------------
(* The store behind the turn.                                              *)

\* ConversationStore::open elsewhere: cold_recover settles the live dispatch.
ReopenStore ==
    /\ row = "open" /\ row' = "failed"
    /\ UNCHANGED <<stored, high, cache, terminal, laneVars, obsVars, faults>>

\* clear_conversation_history: refused while the dispatch is open.
ClearHistory ==
    /\ row \in Outcomes /\ row' = "gone"
    /\ UNCHANGED <<stored, high, cache, terminal, laneVars, obsVars, faults>>

DriverStep ==
    \/ \E named, speech \in BOOLEAN : Emit(named, speech)
    \/ RecordEvent \/ RecordFails \/ Abandon \/ LaneReturns
    \/ \E s \in Outcomes : Finish(s)
    \/ FinishFails \/ ForceTerminal
    \/ TakeRequest("driver") \/ ReadSession("driver")
    \/ \E answered \in BOOLEAN : CancelReturns("driver", answered)

CancelStep(k) ==
    \/ CheckActive(k) \/ RequestCancel(k) \/ TakeRequest(k) \/ ReadSession(k)
    \/ \E answered \in BOOLEAN : CancelReturns(k, answered)

ObserverStep(o) ==
    Capture(o) \/ Replay(o) \/ ReplayFails(o) \/ TellTerminal(o) \/ Wait(o)

Next ==
    \/ DriverStep
    \/ \E k \in Cancellers : CancelStep(k)
    \/ \E o \in Observers : ObserverStep(o) \/ \E after \in 0..high : Attach(o, after)
    \/ ReopenStore \/ ClearHistory

\* The host's threads run; a lane operation returns, by its own end or by the
\* timeout the host gives it.
Fairness ==
    /\ WF_vars(DriverStep /\ UNCHANGED faults)
    /\ \A o \in Observers : WF_vars(ObserverStep(o) /\ UNCHANGED faults)

Spec     == Init /\ [][Next]_vars
FairSpec == Spec /\ Fairness
-----------------------------------------------------------------------------
(* Properties.                                                             *)

\* Frames are stored before they are published and cursors are dense, so a
\* replay from the cache or from the store meets a gap only when the history was
\* cleared under it or a store call failed.
NoReplayGap == \A o \in Observers : at[o] = "lost" => row = "gone" \/ faults > 0

\* The terminal and the high-water mark are captured together: an observer that
\* was told the outcome has been given every frame of the turn.
TerminalAfterFrames == \A o \in Observers : at[o] = "done" => cursor[o] = high

\* The same over a well-typed turn: whatever is dropped, cleared or cancelled on
\* the way, no observer of finish and attach ends with frames missing.
StreamIsWhole == TypeOK /\ TerminalAfterFrames

\* finish tells an outcome only after the store took it: a success or a
\* cancellation that an observer can see is durable.
ToldOutcomeIsDurable ==
    terminal \in {"completed", "cancelled"} => row \in {terminal, "gone"}

\* Threads race over cancel_requested with compare-and-set and put-backs; until
\* the lane answers it, every single cancel request is flagged for the next
\* frame or in the hands of a thread that is still placing it.
CancelIsRetained ==
    \A k \in Cancellers :
        /\ keeper[k] = "flag" => flag
        /\ keeper[k] \in Threads => pc[keeper[k]] \in {"held", "calling"}

\* Every attached observer is told the outcome or its stream fails: no settlement,
\* not even a forced one, leaves an observer waiting.
ObserverEnds ==
    \A o \in Observers : at[o] # "idle" ~> at[o] \in {"done", "lost"}

=============================================================================
