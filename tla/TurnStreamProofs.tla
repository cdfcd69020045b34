-------------------------- MODULE TurnStreamProofs --------------------------
(***************************************************************************)
(* Theorems about TurnStream, for any number of observers, cancel requests,*)
(* frames and failing store calls, and any page size.  The stream is whole *)
(* because of three facts that no single property states: frames are       *)
(* stored before they are published, the cache is always the newest part   *)
(* of what is published, and nothing is published once the outcome is told.*)
(***************************************************************************)
EXTENDS TurnStream, WellFoundedInduction, TLAPS

\* A frame that is stored is the accepted frame or one that was emitted.
DriverCounts ==
    /\ stored <= emitted + 1
    /\ pc["driver"] = "accept" => stored = 0
    /\ pc["driver"] = "record" => stored <= emitted
    /\ terminal # "none" => pc["driver"] = "over"

\* record_event stores a frame before it advances the high-water mark, and the
\* cache loses its oldest frames only.
CacheIsNewest ==
    /\ high <= stored
    /\ \A c \in cache : c <= high /\ \A d \in c..high : d \in cache

\* What an observer that replays its snapshot may rely on.
SnapIsWhole(o) ==
    /\ cursor[o] <= snap[o].high /\ snap[o].high <= high
    /\ snap[o].terminal # "none" => terminal # "none" /\ snap[o].high = high
    /\ snap[o].hit => /\ \A c \in snap[o].frames : c <= snap[o].high
                      /\ \A c \in (cursor[o] + 1)..snap[o].high : c \in snap[o].frames

ObserverKnows(o) ==
    /\ cursor[o] <= high
    /\ at[o] = "replay" => SnapIsWhole(o)
    /\ at[o] = "done" => terminal # "none" /\ cursor[o] = high
    /\ at[o] = "lost" => row = "gone" \/ faults > 0

StreamInv ==
    /\ TypeOK /\ DriverCounts /\ CacheIsNewest /\ ToldOutcomeIsDurable
    /\ \A o \in Observers : ObserverKnows(o)

-----------------------------------------------------------------------------
(* The cache and the pages.                                                *)

\* The floor of the cache is its oldest frame, or the next one to come.
LEMMA FloorIsCached ==
    ASSUME TypeOK
    PROVE  IF cache = {} THEN CacheFloor = high + 1 ELSE CacheFloor \in cache
<1>1. CASE cache = {}
  BY <1>1 DEF CacheFloor
<1>2. CASE cache # {}
  <2>1. cache \subseteq Nat BY StreamAssumption DEF TypeOK
  <2>2. PICK c \in cache : \A d \in cache : ~(<<d, c>> \in OpToRel(<, Nat))
    BY <1>2, <2>1, WFMin, NatLessThanWellFounded, Zenon
  <2>3. ASSUME NEW d \in cache PROVE c <= d
    <3> SUFFICES ASSUME d < c PROVE FALSE BY <2>1
    <3>1. <<d, c>> \in Nat \X Nat /\ <<d, c>>[1] < <<d, c>>[2] BY <2>1
    <3>2. <<d, c>> \in OpToRel(<, Nat) BY <3>1, Zenon DEF OpToRel
    <3> QED BY <2>2, <3>2, Zenon
  <2> QED BY <1>2, <2>3 DEF CacheFloor
<1> QED BY <1>1, <1>2

\* A hit means what it is taken for: every frame after the cursor is cached.
LEMMA HitIsWhole ==
    ASSUME TypeOK, CacheIsNewest, NEW o \in Observers, Hit(o)
    PROVE  \A c \in (cursor[o] + 1)..high : c \in cache
<1>1. cursor[o] \in Nat /\ high \in Nat /\ cache \subseteq Nat
  BY StreamAssumption DEF TypeOK
<1>2. CASE cache = {}
  BY <1>1, <1>2, FloorIsCached DEF Hit
<1>3. CASE cache # {}
  <2>1. CacheFloor \in cache /\ cursor[o] + 1 >= CacheFloor BY <1>3, FloorIsCached DEF Hit
  <2>2. \A d \in CacheFloor..high : d \in cache BY <2>1 DEF CacheIsNewest
  <2> QED BY <1>1, <2>1, <2>2
<1> QED BY <1>2, <1>3

\* While the history is there, the next page of an observer continues its
\* cursor: runtime_frames_after never returns a gap.
LEMMA PageContinues ==
    ASSUME TypeOK, CacheIsNewest, NEW o \in Observers, SnapIsWhole(o),
           cursor[o] < snap[o].high, row # "gone"
    PROVE  \E last \in (cursor[o] + 1)..snap[o].high : Page(o) = (cursor[o] + 1)..last
<1>1. /\ cursor[o] \in Nat /\ snap[o].high \in Nat /\ stored \in Nat /\ high \in Nat
      /\ snap[o].frames \subseteq Nat
  BY StreamAssumption DEF TypeOK
<1>2. snap[o].high <= stored BY <1>1 DEF SnapIsWhole, CacheIsNewest
<1>3. CASE snap[o].hit
  <2>1. Page(o) = {c \in snap[o].frames : c > cursor[o]} BY <1>3 DEF Page
  <2>2. Page(o) = (cursor[o] + 1)..snap[o].high
    BY <1>1, <1>3, <2>1 DEF SnapIsWhole
  <2> QED BY <1>1, <2>2
<1>4. CASE ~snap[o].hit
  <2> DEFINE last == IF snap[o].high <= cursor[o] + PageSize THEN snap[o].high
                     ELSE cursor[o] + PageSize
  <2>1. last \in (cursor[o] + 1)..snap[o].high /\ last \in Nat
    BY <1>1, StreamAssumption
  <2>2. Page(o) = {c \in 1..stored : /\ c > cursor[o] /\ c <= snap[o].high
                                     /\ c <= cursor[o] + PageSize}
    BY <1>4 DEF Page
  <2>3. Page(o) = (cursor[o] + 1)..last
    BY <1>1, <1>2, <2>2, StreamAssumption
  <2> QED BY <2>1, <2>3
<1> QED BY <1>3, <1>4 DEF TypeOK

-----------------------------------------------------------------------------
(* The inductive invariant.                                                *)

LEMMA InitStream == Init => StreamInv
<1> SUFFICES ASSUME Init PROVE StreamInv OBVIOUS
<1>1. Nothing \in [high : 0..(MaxFrames + 1), hit : BOOLEAN,
                   frames : SUBSET (1..(MaxFrames + 1)),
                   terminal : Outcomes \cup {"none"}]
  BY StreamAssumption DEF Nothing
<1>2. TypeOK
  <2>1. session \in BOOLEAN /\ flag \in BOOLEAN BY Zenon DEF Init
  <2>2. snap \in [Observers -> [high : 0..(MaxFrames + 1), hit : BOOLEAN,
                                frames : SUBSET (1..(MaxFrames + 1)),
                                terminal : Outcomes \cup {"none"}]]
    BY <1>1, Zenon DEF Init
  <2>3. row \in Outcomes \cup {"open", "gone"} /\ terminal \in Outcomes \cup {"none"}
    BY Zenon DEF Init
  <2> QED BY <2>1, <2>2, <2>3, StreamAssumption DEF Init, TypeOK, Threads
<1>3. DriverCounts /\ CacheIsNewest /\ ToldOutcomeIsDurable
  BY DEF Init, DriverCounts, CacheIsNewest, ToldOutcomeIsDurable
<1>4. \A o \in Observers : ObserverKnows(o)
  BY DEF Init, ObserverKnows
<1> QED BY <1>2, <1>3, <1>4 DEF StreamInv

PcSteps == {"idle", "checked", "accept", "lane", "record", "attempt", "held",
            "calling", "storing", "failing", "over"}

\* A step of a thread that leaves the turn and the observers alone.
LEMMA LaneKeepsStream ==
    ASSUME StreamInv, UNCHANGED <<turnVars, obsVars>>,
           faults' \in 0..MaxFaults, faults <= faults',
           session' \in BOOLEAN, flag' \in BOOLEAN,
           keeper' \in [Cancellers -> Threads \cup {"nobody", "flag"}],
           pc' \in [Threads -> PcSteps],
           emitted' \in 0..MaxFrames, DriverCounts'
    PROVE  StreamInv'
<1>1. TypeOK' BY DEF StreamInv, TypeOK, turnVars, obsVars, PcSteps
<1>2. CacheIsNewest' /\ ToldOutcomeIsDurable'
  BY DEF StreamInv, CacheIsNewest, ToldOutcomeIsDurable, turnVars
<1>3. ASSUME NEW o \in Observers PROVE ObserverKnows(o)'
  <2>1. ObserverKnows(o) BY DEF StreamInv
  <2>2. SnapIsWhole(o) => SnapIsWhole(o)' BY DEF SnapIsWhole, turnVars, obsVars
  <2>3. faults > 0 => faults' > 0 BY StreamAssumption DEF StreamInv, TypeOK
  <2> QED BY <2>1, <2>2, <2>3 DEF ObserverKnows, turnVars, obsVars
<1> QED BY <1>1, <1>2, <1>3 DEF StreamInv

\* A step of one observer.
LEMMA ObserverKeepsStream ==
    ASSUME StreamInv, UNCHANGED <<turnVars, laneVars>>, NEW o \in Observers,
           NEW step \in {"idle", "capture", "replay", "waiting", "lost", "done"},
           NEW last \in 0..(MaxFrames + 1),
           at' = [at EXCEPT ![o] = step], cursor' = [cursor EXCEPT ![o] = last],
           \A p \in Observers \ {o} : snap'[p] = snap[p],
           snap' \in [Observers -> [high : 0..(MaxFrames + 1), hit : BOOLEAN,
                                    frames : SUBSET (1..(MaxFrames + 1)),
                                    terminal : Outcomes \cup {"none"}]],
           faults' \in 0..MaxFaults, faults <= faults', ObserverKnows(o)'
    PROVE  StreamInv'
<1>1. TypeOK' BY DEF StreamInv, TypeOK, turnVars, laneVars
<1>2. CacheIsNewest' /\ ToldOutcomeIsDurable' /\ DriverCounts'
  BY DEF StreamInv, CacheIsNewest, ToldOutcomeIsDurable, DriverCounts, turnVars, laneVars
<1>3. ASSUME NEW p \in Observers PROVE ObserverKnows(p)'
  <2>1. CASE p = o BY <2>1
  <2>2. CASE p # o
    <3>1. ObserverKnows(p) BY DEF StreamInv
    <3>2. at'[p] = at[p] /\ cursor'[p] = cursor[p] /\ snap'[p] = snap[p]
      BY <2>2 DEF StreamInv, TypeOK
    <3>3. SnapIsWhole(p) => SnapIsWhole(p)' BY <3>2 DEF SnapIsWhole, turnVars
    <3>4. faults > 0 => faults' > 0 BY StreamAssumption DEF StreamInv, TypeOK
    <3> QED BY <3>1, <3>2, <3>3, <3>4 DEF ObserverKnows, turnVars
  <2> QED BY <2>1, <2>2
<1> QED BY <1>1, <1>2, <1>3 DEF StreamInv

\* The driving thread between two frames.
LEMMA DriverKeepsStream ==
    ASSUME StreamInv,
           \/ \E named, speech \in BOOLEAN : Emit(named, speech)
           \/ Abandon \/ LaneReturns \/ FinishFails
    PROVE  StreamInv'
<1>1. "driver" \in Threads BY DEF Threads
<1>2. /\ pc \in [Threads -> PcSteps] /\ emitted \in 0..MaxFrames /\ faults \in 0..MaxFaults
      /\ session \in BOOLEAN /\ flag \in BOOLEAN /\ stored \in Nat
      /\ keeper \in [Cancellers -> Threads \cup {"nobody", "flag"}]
  BY StreamAssumption DEF StreamInv, TypeOK, PcSteps
<1>3. CASE \E named, speech \in BOOLEAN : Emit(named, speech)
  <2>1. PICK named \in BOOLEAN, speech \in BOOLEAN : Emit(named, speech) BY <1>3
  <2>2. session' \in BOOLEAN BY <2>1 DEF Emit
  <2>3. /\ pc' \in [Threads -> PcSteps] /\ emitted' \in 0..MaxFrames /\ emitted' = emitted + 1
        /\ pc'["driver"] \in {"record", "attempt"} /\ pc["driver"] = "lane"
    BY <1>1, <1>2, <2>1, StreamAssumption DEF Emit, Goto, PcSteps
  <2>4. /\ UNCHANGED <<turnVars, obsVars>> /\ faults' = faults /\ flag' = flag /\ keeper' = keeper
    BY <2>1 DEF Emit
  <2>5. DriverCounts'
    BY <1>2, <2>3, <2>4, StreamAssumption DEF StreamInv, DriverCounts, turnVars
  <2> QED BY <1>2, <2>2, <2>3, <2>4, <2>5, StreamAssumption, LaneKeepsStream
<1>4. CASE Abandon \/ LaneReturns \/ FinishFails
  <2>1. /\ pc' \in [Threads -> PcSteps] /\ pc'["driver"] \in {"storing", "failing"}
        /\ pc["driver"] # "over"
    BY <1>1, <1>2, <1>4 DEF Abandon, LaneReturns, FinishFails, Goto, PcSteps
  <2>2. /\ UNCHANGED <<turnVars, obsVars, session, flag, keeper, emitted>>
        /\ faults' \in 0..MaxFaults /\ faults <= faults'
    BY <1>2, <1>4, StreamAssumption DEF Abandon, LaneReturns, FinishFails, Fault, NoFault
  <2>3. DriverCounts'
    BY <1>2, <2>1, <2>2, StreamAssumption DEF StreamInv, DriverCounts, turnVars
  <2> QED BY <1>2, <2>1, <2>2, <2>3, LaneKeepsStream
<1> QED BY <1>3, <1>4

\* request_cancel and attempt_deferred_cancel, in whatever thread.
LEMMA CancelKeepsStream ==
    ASSUME StreamInv, NEW t \in Threads,
           \/ t \in Cancellers /\ (CheckActive(t) \/ RequestCancel(t))
           \/ TakeRequest(t) \/ ReadSession(t)
           \/ \E answered \in BOOLEAN : CancelReturns(t, answered)
    PROVE  StreamInv'
<1>1. /\ pc \in [Threads -> PcSteps] /\ emitted \in 0..MaxFrames /\ faults \in 0..MaxFaults
      /\ session \in BOOLEAN /\ flag \in BOOLEAN /\ stored \in Nat
      /\ keeper \in [Cancellers -> Threads \cup {"nobody", "flag"}]
  BY StreamAssumption DEF StreamInv, TypeOK, PcSteps
<1>2. "driver" \in Threads /\ "driver" \notin Cancellers BY StreamAssumption DEF Threads
<1>3. UNCHANGED <<turnVars, obsVars, session, emitted, faults>>
  BY DEF CheckActive, RequestCancel, TakeRequest, ReadSession, CancelReturns
<1>4. flag' \in BOOLEAN
  BY <1>1 DEF CheckActive, RequestCancel, TakeRequest, ReadSession, CancelReturns
<1>5. keeper' \in [Cancellers -> Threads \cup {"nobody", "flag"}]
  BY <1>1 DEF CheckActive, RequestCancel, TakeRequest, ReadSession, CancelReturns, Pass
<1>6. PICK step \in PcSteps \ {"accept", "record"} : pc' = [pc EXCEPT ![t] = step]
  BY <1>1
  DEF CheckActive, RequestCancel, TakeRequest, ReadSession, CancelReturns, Goto, After, PcSteps
<1>7. t = "driver" => pc["driver"] # "over"
  BY <1>2 DEF TakeRequest, ReadSession, CancelReturns
<1>8. DriverCounts'
  BY <1>1, <1>2, <1>3, <1>6, <1>7, StreamAssumption DEF StreamInv, DriverCounts, turnVars
<1>9. pc' \in [Threads -> PcSteps] BY <1>1, <1>6
<1>10. faults' \in 0..MaxFaults /\ faults <= faults' BY <1>1, <1>3, StreamAssumption
<1> QED BY <1>1, <1>3, <1>4, <1>5, <1>8, <1>9, <1>10, LaneKeepsStream

\* Waking the observers that wait tells them nothing yet.
LEMMA NotifyIsHarmless ==
    ASSUME TypeOK, NotifyAll
    PROVE  /\ at' \in [Observers -> {"idle", "capture", "replay", "waiting", "lost", "done"}]
           /\ \A o \in Observers :
                at'[o] \in {"replay", "lost", "done"} => at'[o] = at[o]
BY DEF TypeOK, NotifyAll

\* record_event commits a frame: the turn is not settled, so that no observer
\* has been told the outcome, and no snapshot holds one.
LEMMA RecordEventKeepsStream ==
    ASSUME StreamInv, RecordEvent
    PROVE  StreamInv'
<1>1. "driver" \in Threads BY DEF Threads
<1>2. /\ pc \in [Threads -> PcSteps] /\ emitted \in 0..MaxFrames
      /\ stored \in Nat /\ high \in Nat /\ cache \subseteq Nat
  BY StreamAssumption DEF StreamInv, TypeOK, PcSteps
<1>3. terminal = "none" BY DEF StreamInv, DriverCounts, RecordEvent
<1>4. stored = high /\ stored <= emitted
  BY <1>2, StreamAssumption DEF StreamInv, DriverCounts, RecordEvent, Appendable
<1>5. PICK floor \in 1..(high + 2) : cache' = Cached(floor) BY DEF RecordEvent
<1>6. stored' = stored + 1 /\ high' = high + 1 BY DEF RecordEvent
<1>7. pc' \in [Threads -> PcSteps] /\ pc'["driver"] = "attempt"
  BY <1>1, <1>2 DEF RecordEvent, Goto, PcSteps
<1>8. UNCHANGED <<row, terminal, session, flag, keeper, emitted, cursor, snap, faults>>
  BY DEF RecordEvent
<1>9. TypeOK'
  <2>1. stored' \in 0..(MaxFrames + 1) /\ high' \in 0..(MaxFrames + 1)
    BY <1>2, <1>4, <1>6, StreamAssumption
  <2>2. cache' \in SUBSET (1..(MaxFrames + 1))
    <3>1. high + 1 \in 1..(MaxFrames + 1) BY <1>2, <1>6, <2>1, StreamAssumption
    <3> QED BY <1>5, <3>1 DEF Cached, StreamInv, TypeOK
  <2> QED BY <1>7, <1>8, <2>1, <2>2, NotifyIsHarmless DEF StreamInv, TypeOK, RecordEvent, PcSteps
<1>10. DriverCounts'
  BY <1>2, <1>3, <1>4, <1>6, <1>7, <1>8, StreamAssumption DEF StreamInv, DriverCounts
<1>11. CacheIsNewest'
  <2>1. high' <= stored' BY <1>2, <1>4, <1>6
  <2>2. ASSUME NEW c \in cache' PROVE c <= high' /\ \A d \in c..high' : d \in cache'
    <3>1. c \in cache \cup {high + 1} /\ c >= floor BY <1>5 DEF Cached
    <3>2. c \in Nat /\ c <= high + 1 BY <1>2, <3>1 DEF StreamInv, CacheIsNewest
    <3>3. ASSUME NEW d \in c..high' PROVE d \in cache \cup {high + 1} /\ d >= floor
      BY <1>2, <1>6, <3>1, <3>2 DEF StreamInv, CacheIsNewest
    <3> QED BY <1>2, <1>5, <1>6, <3>2, <3>3 DEF Cached
  <2> QED BY <2>1, <2>2 DEF CacheIsNewest
<1>12. ToldOutcomeIsDurable' BY <1>8 DEF StreamInv, ToldOutcomeIsDurable
<1>13. ASSUME NEW o \in Observers PROVE ObserverKnows(o)'
  <2>1. ObserverKnows(o) BY DEF StreamInv
  <2>2. cursor[o] \in Nat /\ snap[o].high \in Nat BY StreamAssumption DEF StreamInv, TypeOK
  <2>3. at'[o] \in {"replay", "lost", "done"} => at'[o] = at[o]
    BY NotifyIsHarmless DEF StreamInv, RecordEvent
  <2>4. SnapIsWhole(o) => SnapIsWhole(o)'
    BY <1>2, <1>3, <1>6, <1>8, <2>2 DEF SnapIsWhole
  <2> QED BY <1>2, <1>3, <1>6, <1>8, <2>1, <2>2, <2>3, <2>4 DEF ObserverKnows
<1> QED BY <1>9, <1>10, <1>11, <1>12, <1>13 DEF StreamInv

\* A frame that is dropped may be in the store, ahead of the high-water mark.
LEMMA RecordFailsKeepsStream ==
    ASSUME StreamInv, RecordFails
    PROVE  StreamInv'
<1>1. "driver" \in Threads BY DEF Threads
<1>2. /\ pc \in [Threads -> PcSteps] /\ emitted \in 0..MaxFrames
      /\ stored \in Nat /\ high \in Nat /\ faults \in Nat
  BY StreamAssumption DEF StreamInv, TypeOK, PcSteps
<1>3. terminal = "none" BY DEF StreamInv, DriverCounts, RecordFails
<1>4. stored <= emitted
  BY <1>2, StreamAssumption DEF StreamInv, DriverCounts, RecordFails
<1>5. stored' \in {stored, stored + 1} /\ faults' \in 0..MaxFaults /\ faults <= faults'
  <2>1. faults \in 0..MaxFaults BY DEF StreamInv, TypeOK
  <2> QED BY <1>2, <2>1, StreamAssumption DEF RecordFails, Fault, NoFault
<1>6. pc' \in [Threads -> PcSteps] /\ pc'["driver"] \in {"failing", "lane"}
  BY <1>1, <1>2 DEF RecordFails, Goto, PcSteps
<1>7. UNCHANGED <<row, high, cache, terminal, session, flag, keeper, emitted, obsVars>>
  BY DEF RecordFails
<1>8. TypeOK'
  <2>1. stored' \in 0..(MaxFrames + 1)
    BY <1>2, <1>4, <1>5, StreamAssumption
  <2> QED BY <1>5, <1>6, <1>7, <2>1 DEF StreamInv, TypeOK, PcSteps, obsVars
<1>9. DriverCounts'
  BY <1>2, <1>3, <1>4, <1>5, <1>6, <1>7, StreamAssumption DEF DriverCounts
<1>10. CacheIsNewest'
  BY <1>2, <1>5, <1>7 DEF StreamInv, CacheIsNewest
<1>11. ToldOutcomeIsDurable' BY <1>7 DEF StreamInv, ToldOutcomeIsDurable
<1>12. ASSUME NEW o \in Observers PROVE ObserverKnows(o)'
  <2>1. ObserverKnows(o) BY DEF StreamInv
  <2>2. SnapIsWhole(o) => SnapIsWhole(o)' BY <1>7 DEF SnapIsWhole, obsVars
  <2>3. faults > 0 => faults' > 0 BY <1>2, <1>5
  <2> QED BY <1>7, <2>1, <2>2, <2>3 DEF ObserverKnows, obsVars
<1> QED BY <1>8, <1>9, <1>10, <1>11, <1>12 DEF StreamInv

\* finish and force_terminal: the frames are all there when the outcome is told.
LEMMA SettlingKeepsStream ==
    ASSUME StreamInv, (\E s \in Outcomes : Finish(s)) \/ ForceTerminal
    PROVE  StreamInv'
<1>1. "driver" \in Threads BY DEF Threads
<1>2. /\ pc \in [Threads -> PcSteps] /\ emitted \in 0..MaxFrames /\ faults \in 0..MaxFaults
      /\ stored \in Nat /\ high \in Nat
  BY StreamAssumption DEF StreamInv, TypeOK, PcSteps
<1>3. terminal = "none" /\ NotifyAll
  BY DEF StreamInv, DriverCounts, Finish, ForceTerminal
<1>4. pc' \in [Threads -> PcSteps] /\ pc'["driver"] = "over"
  BY <1>1, <1>2 DEF Finish, ForceTerminal, Goto, PcSteps
<1>5. UNCHANGED <<stored, high, cache, session, flag, keeper, emitted, cursor, snap>>
  BY DEF Finish, ForceTerminal
<1>6. faults' \in 0..MaxFaults /\ faults <= faults'
  BY <1>2, StreamAssumption DEF Finish, ForceTerminal, Fault, NoFault
<1>7. /\ row' \in Outcomes \cup {"open", "gone"} /\ terminal' \in Outcomes
      /\ terminal' = "failed" \/ (row' = terminal' /\ row = "open") \/ row' = row
      /\ ToldOutcomeIsDurable'
  BY <1>3 DEF Finish, ForceTerminal, Outcomes, StreamInv, TypeOK, ToldOutcomeIsDurable
<1>8. TypeOK'
  BY <1>3, <1>4, <1>5, <1>6, <1>7, NotifyIsHarmless DEF StreamInv, TypeOK, PcSteps
<1>9. DriverCounts' /\ CacheIsNewest'
  BY <1>4, <1>5 DEF StreamInv, DriverCounts, CacheIsNewest
<1>10. ASSUME NEW o \in Observers PROVE ObserverKnows(o)'
  <2>1. ObserverKnows(o) BY DEF StreamInv
  <2>2. at'[o] \in {"replay", "lost", "done"} => at'[o] = at[o]
    BY <1>3, NotifyIsHarmless DEF StreamInv
  <2>3. SnapIsWhole(o) => SnapIsWhole(o)'
    BY <1>3, <1>5 DEF SnapIsWhole
  <2>4. row = "gone" => row' = "gone" BY DEF Finish, ForceTerminal
  <2>5. faults > 0 => faults' > 0 BY <1>2, <1>6, StreamAssumption
  <2>6. at[o] # "done" BY <1>3, <2>1 DEF ObserverKnows
  <2> QED BY <1>5, <2>1, <2>2, <2>3, <2>4, <2>5, <2>6 DEF ObserverKnows
<1> QED BY <1>7, <1>8, <1>9, <1>10 DEF StreamInv

\* A store that is opened again or cleared under the turn.
LEMMA StoreKeepsStream ==
    ASSUME StreamInv, ReopenStore \/ ClearHistory
    PROVE  StreamInv'
<1>1. UNCHANGED <<stored, high, cache, terminal, laneVars, obsVars, faults>>
  BY DEF ReopenStore, ClearHistory
<1>2. row' \in Outcomes \cup {"gone"} /\ row # "gone" /\ (row \in Outcomes => row' = "gone")
  BY DEF ReopenStore, ClearHistory, Outcomes
<1>3. TypeOK' BY <1>1, <1>2 DEF StreamInv, TypeOK, laneVars, obsVars
<1>4. DriverCounts' /\ CacheIsNewest'
  BY <1>1 DEF StreamInv, DriverCounts, CacheIsNewest, laneVars
<1>5. ToldOutcomeIsDurable'
  BY <1>1, <1>2 DEF StreamInv, ToldOutcomeIsDurable, Outcomes
<1>6. ASSUME NEW o \in Observers PROVE ObserverKnows(o)'
  <2>1. ObserverKnows(o) BY DEF StreamInv
  <2>2. SnapIsWhole(o) => SnapIsWhole(o)' BY <1>1 DEF SnapIsWhole, obsVars
  <2> QED BY <1>1, <1>2, <2>1, <2>2 DEF ObserverKnows, obsVars
<1> QED BY <1>3, <1>4, <1>5, <1>6 DEF StreamInv

\* One observer attaches, captures, replays, waits or ends.
LEMMA ObserversKeepStream ==
    ASSUME StreamInv, NEW o \in Observers,
           ObserverStep(o) \/ \E after \in 0..high : Attach(o, after)
    PROVE  StreamInv'
<1> DEFINE Snaps == [high : 0..(MaxFrames + 1), hit : BOOLEAN,
                     frames : SUBSET (1..(MaxFrames + 1)), terminal : Outcomes \cup {"none"}]
           Steps == {"idle", "capture", "replay", "waiting", "lost", "done"}
<1>1. /\ at \in [Observers -> Steps] /\ cursor \in [Observers -> 0..(MaxFrames + 1)]
      /\ snap \in [Observers -> Snaps] /\ faults \in 0..MaxFaults
      /\ high \in 0..(MaxFrames + 1) /\ cache \subseteq 1..(MaxFrames + 1)
      /\ terminal \in Outcomes \cup {"none"}
  BY DEF StreamInv, TypeOK
<1>2. ObserverKnows(o) /\ TypeOK /\ CacheIsNewest BY DEF StreamInv
<1>3. cursor[o] \in Nat /\ snap[o].high \in Nat /\ high \in Nat /\ faults \in Nat
  BY <1>1, StreamAssumption
<1> DEFINE Calm == faults' \in 0..MaxFaults /\ faults <= faults'
<1>0. faults' = faults => Calm BY <1>1, <1>3
<1>4. CASE \E after \in 0..high : Attach(o, after)
  <2>1. PICK after \in 0..high : Attach(o, after) BY <1>4
  <2>2. after \in 0..(MaxFrames + 1) BY <1>1, <1>3, StreamAssumption
  <2>3. ObserverKnows(o)'
    BY <1>1, <1>3, <2>1 DEF Attach, ObserverKnows, turnVars
  <2>4. Calm BY <1>0, <2>1 DEF Attach
  <2> QED
    BY <1>1, <2>1, <2>2, <2>3, <2>4, ObserverKeepsStream DEF Attach
<1>5. CASE Capture(o)
  <2> DEFINE taken == [high |-> high, hit |-> Hit(o), terminal |-> terminal,
                       frames |-> IF Hit(o) THEN {c \in cache : c > cursor[o]} ELSE {}]
  <2>1. snap' = [snap EXCEPT ![o] = taken] BY <1>5 DEF Capture
  <2>2. Hit(o) \in BOOLEAN BY DEF Hit
  <2>3. taken \in Snaps BY <1>1, <2>2
  <2>4. UNCHANGED <<turnVars, laneVars, cursor, faults>> /\ at' = [at EXCEPT ![o] = "replay"]
    BY <1>5 DEF Capture
  <2>5. /\ taken.high = high /\ taken.terminal = terminal
        /\ taken.hit => Hit(o) /\ taken.frames = {c \in cache : c > cursor[o]}
    OBVIOUS
  <2>6. snap' \in [Observers -> Snaps] /\ snap'[o] = taken
        /\ \A p \in Observers \ {o} : snap'[p] = snap[p]
    <3> HIDE DEF taken, Snaps
    <3> QED BY <1>1, <2>1, <2>3
  <2>7. /\ cursor'[o] = cursor[o] /\ cursor[o] <= high /\ high' = high /\ terminal' = terminal
    BY <1>2, <2>4 DEF turnVars, ObserverKnows
  <2>8. taken.hit => /\ \A c \in taken.frames : c <= high
                     /\ \A c \in (cursor[o] + 1)..high : c \in taken.frames
    <3> SUFFICES ASSUME taken.hit PROVE /\ \A c \in taken.frames : c <= high
                                        /\ \A c \in (cursor[o] + 1)..high : c \in taken.frames
      OBVIOUS
    <3>1. Hit(o) /\ taken.frames = {c \in cache : c > cursor[o]} BY <2>5
    <3>2. \A c \in (cursor[o] + 1)..high : c \in cache BY <1>2, <3>1, HitIsWhole
    <3> HIDE DEF taken
    <3> QED BY <1>2, <1>3, <3>1, <3>2 DEF CacheIsNewest
  <2>9. SnapIsWhole(o)'
    <3> HIDE DEF taken
    <3> QED BY <1>3, <2>5, <2>6, <2>7, <2>8 DEF SnapIsWhole
  <2>10. ObserverKnows(o)' BY <1>1, <2>4, <2>7, <2>9 DEF ObserverKnows
  <2>11. cursor' = [cursor EXCEPT ![o] = cursor[o]] BY <1>1, <2>4
  <2>12. Calm BY <1>0, <2>4
  <2> HIDE DEF taken
  <2> QED BY <1>1, <2>4, <2>6, <2>10, <2>11, <2>12, ObserverKeepsStream
<1>6. CASE Replay(o)
  <2>1. PICK last \in (cursor[o] + 1)..snap[o].high :
            Page(o) = (cursor[o] + 1)..last /\ cursor' = [cursor EXCEPT ![o] = last]
    BY <1>6 DEF Replay
  <2>2. UNCHANGED <<turnVars, laneVars, at, snap, faults>> /\ at[o] = "replay"
    BY <1>6 DEF Replay
  <2>3. SnapIsWhole(o) BY <1>2, <2>2 DEF ObserverKnows
  <2>4. last \in 0..(MaxFrames + 1) /\ cursor'[o] = last
    BY <1>1, <1>3, <2>1, StreamAssumption
  <2>5. SnapIsWhole(o)'
    <3>1. \A c \in (last + 1)..snap[o].high : c \in (cursor[o] + 1)..snap[o].high
      BY <1>3, <2>1
    <3> QED BY <1>3, <2>1, <2>2, <2>3, <2>4, <3>1 DEF SnapIsWhole, turnVars
  <2>6. ObserverKnows(o)'
    BY <1>3, <2>1, <2>2, <2>3, <2>4, <2>5 DEF ObserverKnows, SnapIsWhole, turnVars
  <2>7. at' = [at EXCEPT ![o] = "replay"] BY <1>1, <2>2
  <2>8. Calm BY <1>0, <2>2
  <2> QED BY <1>1, <2>1, <2>2, <2>4, <2>6, <2>7, <2>8, ObserverKeepsStream
<1>7. CASE ReplayFails(o)
  <2>1. UNCHANGED <<turnVars, laneVars, cursor, snap>> /\ at' = [at EXCEPT ![o] = "lost"]
    BY <1>7 DEF ReplayFails
  <2>2. faults' \in 0..MaxFaults /\ faults <= faults'
    BY <1>1, <1>7, StreamAssumption DEF ReplayFails, Fault, NoFault
  <2>3. row = "gone" \/ faults' > 0
    <3>1. SnapIsWhole(o) /\ cursor[o] < snap[o].high
      BY <1>2, <1>7 DEF ReplayFails, ObserverKnows
    <3>2. CASE faults' = faults + 1 BY <1>3, <3>2
    <3>3. CASE \A last \in (cursor[o] + 1)..snap[o].high : Page(o) # (cursor[o] + 1)..last
      BY <1>2, <3>1, <3>3, PageContinues
    <3> QED BY <1>7, <3>2, <3>3 DEF ReplayFails, Fault
  <2>4. ObserverKnows(o)' BY <1>1, <1>2, <2>1, <2>3 DEF ObserverKnows, turnVars
  <2>5. cursor' = [cursor EXCEPT ![o] = cursor[o]] BY <1>1, <2>1
  <2> QED BY <1>1, <2>1, <2>2, <2>4, <2>5, ObserverKeepsStream
<1>8. CASE TellTerminal(o) \/ Wait(o)
  <2>1. UNCHANGED <<turnVars, laneVars, cursor, snap, faults>>
    BY <1>8 DEF TellTerminal, Wait
  <2>2. PICK step \in {"done", "waiting", "capture"} :
            /\ at' = [at EXCEPT ![o] = step]
            /\ step = "done" => TellTerminal(o)
    BY <1>8 DEF TellTerminal, Wait
  <2>3. step = "done" => terminal # "none" /\ cursor[o] = high
    BY <1>2, <2>2 DEF TellTerminal, ObserverKnows, SnapIsWhole
  <2>4. ObserverKnows(o)' BY <1>1, <1>2, <2>1, <2>2, <2>3 DEF ObserverKnows, turnVars
  <2>5. cursor' = [cursor EXCEPT ![o] = cursor[o]] BY <1>1, <2>1
  <2>6. Calm BY <1>0, <2>1
  <2> QED BY <1>1, <2>1, <2>2, <2>4, <2>5, <2>6, ObserverKeepsStream
<1> QED BY <1>4, <1>5, <1>6, <1>7, <1>8 DEF ObserverStep

LEMMA NextKeepsStream == StreamInv /\ [Next]_vars => StreamInv'
<1> SUFFICES ASSUME StreamInv, [Next]_vars PROVE StreamInv' OBVIOUS
<1>1. CASE DriverStep
  <2>1. "driver" \in Threads BY DEF Threads
  <2> QED
    BY <1>1, <2>1, DriverKeepsStream, CancelKeepsStream, RecordEventKeepsStream,
       RecordFailsKeepsStream, SettlingKeepsStream DEF DriverStep
<1>2. ASSUME NEW k \in Cancellers, CancelStep(k) PROVE StreamInv'
  BY <1>2, CancelKeepsStream DEF CancelStep, Threads
<1>3. ASSUME NEW o \in Observers, ObserverStep(o) \/ \E after \in 0..high : Attach(o, after)
      PROVE  StreamInv'
  BY <1>3, ObserversKeepStream
<1>4. CASE ReopenStore \/ ClearHistory BY <1>4, StoreKeepsStream
<1>5. CASE UNCHANGED vars
  <2>1. UNCHANGED <<turnVars, obsVars, laneVars, faults>> BY <1>5 DEF vars
  <2>2. DriverCounts' BY <2>1 DEF StreamInv, DriverCounts, turnVars, laneVars
  <2>3. faults <= faults' BY <2>1, StreamAssumption DEF StreamInv, TypeOK
  <2> QED BY <2>1, <2>2, <2>3, LaneKeepsStream DEF StreamInv, TypeOK, laneVars, PcSteps
<1> QED BY <1>1, <1>2, <1>3, <1>4, <1>5 DEF Next

LEMMA StreamCorrect == Spec => []StreamInv
<1> QED BY InitStream, NextKeepsStream, PTL DEF Spec

\* StreamIsWhole holds of finish and attach whatever fails: an observer that is
\* told the outcome has every frame of the turn.
THEOREM StreamsAreWhole == Spec => []StreamIsWhole
<1>1. StreamInv => StreamIsWhole
  BY DEF StreamInv, StreamIsWhole, TerminalAfterFrames, ObserverKnows
<1> QED BY <1>1, StreamCorrect, PTL

\* NoReplayGap: replay_turn meets a gap only when the history was cleared under
\* it or a store call failed, whatever the cache has dropped.
THEOREM ReplayHasNoGap == Spec => []NoReplayGap
<1>1. StreamInv => NoReplayGap BY DEF StreamInv, NoReplayGap, ObserverKnows
<1> QED BY <1>1, StreamCorrect, PTL

\* ToldOutcomeIsDurable: finish tells a success or a cancellation only after
\* the store took it, and no later opening of the store changes it.
THEOREM ToldIsDurable == Spec => []ToldOutcomeIsDurable
<1>1. StreamInv => ToldOutcomeIsDurable BY DEF StreamInv
<1> QED BY <1>1, StreamCorrect, PTL

-----------------------------------------------------------------------------
(* Cancel requests.                                                        *)

\* A step of a thread that holds no request, and gets none, loses none.
LEMMA OthersRetainCancel ==
    ASSUME TypeOK, CancelIsRetained, NEW t \in Threads, NEW step,
           pc[t] \notin {"held", "calling"}, pc' = [pc EXCEPT ![t] = step],
           UNCHANGED <<flag, keeper>>
    PROVE  CancelIsRetained'
BY DEF TypeOK, CancelIsRetained

\* compare_exchange hands every flagged request to one thread; what that thread
\* cannot place goes back to the flag.
LEMMA AttemptRetainsCancel ==
    ASSUME TypeOK, CancelIsRetained, NEW t \in Threads,
           \/ t \in Cancellers /\ (CheckActive(t) \/ RequestCancel(t))
           \/ TakeRequest(t) \/ ReadSession(t)
           \/ \E answered \in BOOLEAN : CancelReturns(t, answered)
    PROVE  CancelIsRetained'
<1>1. "flag" \notin Threads /\ "nobody" \notin Threads BY StreamAssumption DEF Threads
<1>2. CASE t \in Cancellers /\ CheckActive(t)
  BY <1>2, OthersRetainCancel DEF CheckActive, Goto
<1>3. CASE t \in Cancellers /\ RequestCancel(t)
  <2> SUFFICES ASSUME NEW k \in Cancellers
               PROVE  /\ keeper'[k] = "flag" => flag'
                      /\ keeper'[k] \in Threads => pc'[keeper'[k]] \in {"held", "calling"}
    BY DEF CancelIsRetained
  <2>1. flag' = TRUE BY <1>3 DEF RequestCancel
  <2>2. CASE k = t BY <1>1, <1>3, <2>1, <2>2 DEF RequestCancel, TypeOK
  <2>3. CASE k # t
    <3>1. keeper'[k] = keeper[k] BY <1>3, <2>3 DEF RequestCancel, TypeOK
    <3>2. keeper[k] \in Threads => keeper[k] # t BY <1>3 DEF RequestCancel, CancelIsRetained
    <3> QED BY <1>3, <2>1, <3>1, <3>2 DEF RequestCancel, Goto, TypeOK, CancelIsRetained
  <2> QED BY <2>2, <2>3
<1>4. CASE TakeRequest(t)
  <2>1. CASE flag
    <3>1. /\ pc' = [pc EXCEPT ![t] = "held"]
          /\ keeper' = [k \in Cancellers |-> IF keeper[k] = "flag" THEN t ELSE keeper[k]]
      BY <1>4, <2>1 DEF TakeRequest, Goto, Pass
    <3> SUFFICES ASSUME NEW k \in Cancellers
                 PROVE  /\ keeper'[k] # "flag"
                        /\ keeper'[k] \in Threads => pc'[keeper'[k]] \in {"held", "calling"}
      BY DEF CancelIsRetained
    <3> QED BY <1>1, <3>1 DEF TypeOK, CancelIsRetained
  <2>2. CASE ~flag
    <3>1. flag' = flag /\ keeper' = keeper /\ pc' = [pc EXCEPT ![t] = After(t)]
          /\ pc[t] = "attempt"
      BY <1>4, <2>2 DEF TakeRequest, Goto, TypeOK
    <3> QED BY <3>1, OthersRetainCancel
  <2> QED BY <2>1, <2>2
<1>5. CASE ReadSession(t)
  <2>1. CASE session
    <3>1. /\ keeper' = keeper /\ pc' = [pc EXCEPT ![t] = "calling"]
          /\ flag => flag'
      BY <1>5, <2>1 DEF ReadSession, Goto
    <3> QED BY <3>1 DEF TypeOK, CancelIsRetained
  <2>2. CASE ~session
    <3>1. /\ pc' = [pc EXCEPT ![t] = After(t)] /\ flag'
          /\ keeper' = [k \in Cancellers |-> IF keeper[k] = t THEN "flag" ELSE keeper[k]]
      BY <1>5, <2>2 DEF ReadSession, Goto, Pass
    <3> QED BY <1>1, <3>1 DEF TypeOK, CancelIsRetained
  <2> QED BY <2>1, <2>2
<1>6. ASSUME NEW answered \in BOOLEAN, CancelReturns(t, answered) PROVE CancelIsRetained'
  <2> DEFINE to == IF answered THEN "nobody" ELSE "flag"
  <2>1. /\ pc' = [pc EXCEPT ![t] = After(t)]
        /\ keeper' = [k \in Cancellers |-> IF keeper[k] = t THEN to ELSE keeper[k]]
        /\ (flag => flag') /\ (to = "flag" => flag')
    BY <1>6 DEF CancelReturns, Goto, Pass
  <2>2. to \notin Threads BY <1>1
  <2> HIDE DEF to
  <2> QED BY <1>1, <2>1, <2>2 DEF TypeOK, CancelIsRetained
<1> QED BY <1>2, <1>3, <1>4, <1>5, <1>6

\* CancelIsRetained, for any number of cancel requests that race with each other
\* and with the driving thread: attempt_deferred_cancel loses none of them.
THEOREM CancelStays == Spec => []CancelIsRetained
<1>1. Init => CancelIsRetained
  BY StreamAssumption DEF Init, CancelIsRetained, Threads
<1>2. TypeOK /\ CancelIsRetained /\ [Next]_vars => CancelIsRetained'
  <2> SUFFICES ASSUME TypeOK, CancelIsRetained, [Next]_vars PROVE CancelIsRetained' OBVIOUS
  <2>1. "driver" \in Threads BY DEF Threads
  <2>2. CASE \/ \E named, speech \in BOOLEAN : Emit(named, speech)
             \/ RecordEvent \/ RecordFails \/ Abandon \/ LaneReturns
             \/ \E s \in Outcomes : Finish(s)
             \/ FinishFails \/ ForceTerminal
    <3>1. \E step : pc' = [pc EXCEPT !["driver"] = step]
      BY <2>2 DEF Emit, RecordEvent, RecordFails, Abandon, LaneReturns, Finish, FinishFails,
                  ForceTerminal, Goto
    <3>2. pc["driver"] \notin {"held", "calling"} /\ UNCHANGED <<flag, keeper>>
      BY <2>2 DEF Emit, RecordEvent, RecordFails, Abandon, LaneReturns, Finish, FinishFails,
                  ForceTerminal
    <3> QED BY <2>1, <3>1, <3>2, OthersRetainCancel
  <2>3. CASE \/ TakeRequest("driver") \/ ReadSession("driver")
             \/ \E answered \in BOOLEAN : CancelReturns("driver", answered)
    BY <2>1, <2>3, AttemptRetainsCancel
  <2>4. ASSUME NEW k \in Cancellers, CancelStep(k) PROVE CancelIsRetained'
    BY <2>4, AttemptRetainsCancel DEF CancelStep, Threads
  <2>5. CASE UNCHANGED laneVars BY <2>5 DEF laneVars, CancelIsRetained
  <2>6. ASSUME NEW o \in Observers, ObserverStep(o) \/ \E after \in 0..high : Attach(o, after)
        PROVE  UNCHANGED laneVars
    BY <2>6 DEF ObserverStep, Capture, Replay, ReplayFails, TellTerminal, Wait, Attach
  <2>7. ReopenStore \/ ClearHistory \/ UNCHANGED vars => UNCHANGED laneVars
    BY DEF ReopenStore, ClearHistory, vars
  <2> QED BY <2>2, <2>3, <2>4, <2>5, <2>6, <2>7 DEF Next, DriverStep
<1>3. StreamInv => TypeOK BY DEF StreamInv
<1> QED BY <1>1, <1>2, <1>3, StreamCorrect, PTL DEF Spec

=============================================================================
