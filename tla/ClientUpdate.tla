----------------------------- MODULE ClientUpdate -----------------------------
(***************************************************************************)
(* The update of the desktop client and the admission of its state.        *)
(*                                                                         *)
(* A running client of an older build prepares a handoff and spawns a      *)
(* script (client_update/native_runner).  The script waits for the client  *)
(* to exit, puts the new bundle in place of the old one, which it keeps as *)
(* a backup, starts it and watches: it restores the backup unless the new  *)
(* build claims the handoff.  A starting client asks its native process to *)
(* admit the state (client_state_migration.rs) before it uses any of it:   *)
(* claim the handoff, deny older builds, migrate every domain, record each *)
(* step in a ledger.                                                       *)
(*                                                                         *)
(* A step is one file operation, since the machine can stop between any    *)
(* two.  The script and the admission share files and no lock, and an      *)
(* admission runs on when its client is gone: the native process serves    *)
(* the request it has read before it sees the end of its input.            *)
(*                                                                         *)
(* The frontier of a build is its set of domains, and a domain has one     *)
(* step, from a legacy or absent store to a current one, because           *)
(* migration_handler_target knows no other edge.                           *)
(***************************************************************************)
EXTENDS Naturals

CONSTANTS
    Versions,    \* product versions; 0 is no version
    Domains,     \* domains of client state
    Frontier,    \* the domains in the embedded frontier of each version
    Databases,   \* domains that are kept in a database and not in a document
    Creating,    \* domains whose step creates an absent store
    Found,       \* what each store can be before the first admission
    Procs,       \* native processes
    MaxCrashes,  \* bound: the machine stops
    MaxFaults,   \* bound: a process dies or a file operation fails
    MaxInstalls, \* bound: a build installed by hand
    MaxStarts    \* bound: the user starts the client

\* A store is "partial" from the creation of its database file to the row that
\* names its schema; "files" of an older build are imported into a new database;
\* "outdated" has the version of the frontier and an older inner schema.
Stores == {"absent", "files", "partial", "legacy", "outdated", "current"}

ASSUME UpdateAssumption ==
    /\ Versions \subseteq Nat \ {0}
    /\ Creating \subseteq Databases /\ Databases \subseteq Domains
    /\ Frontier \in [Versions -> SUBSET Domains]
    \* validate_candidate_frontier: a newer build keeps the domains.
    /\ \A v, w \in Versions : v <= w => Frontier[v] \subseteq Frontier[w]
    /\ Found \in [Domains -> SUBSET (Stores \ {"partial"})]
    /\ \A d \in Domains \ Creating : Found[d] \subseteq {"absent", "legacy", "current"}
    /\ "none" \notin Procs
    /\ MaxCrashes \in Nat /\ MaxFaults \in Nat
    /\ MaxInstalls \in Nat /\ MaxStarts \in Nat

VARIABLES
    \* files of the installation
    installed,  \* version of the complete bundle at the target path, or 0
    backup,     \* pre-claim backup, by the version whose receipt names it
    \* files under client-state/migrations
    handoff,    \* update-handoff.json
    rejected,   \* whether update-handoff.json.rejected exists
    ledger,     \* ledger.json: the high-water and the domains recorded
    marker,     \* domains with a marker in domain-state
    \* the stores themselves
    store,
    \* processes
    gui,        \* the client that holds the instance lock
    script,     \* the update script
    pc, ver,    \* each admission: its next step and its build
    mem,        \* the ledger it has loaded
    plan,       \* the domains it still has to migrate
    \* history
    overtaken,  \* a build was admitted under a ready client of an older one
    crashes, faults, installs, starts

files == <<installed, backup, handoff, rejected>>
state == <<ledger, marker, store>>
admission == <<pc, ver, mem, plan>>
counters == <<crashes, faults, installs, starts>>
vars == <<files, state, gui, script, admission, overtaken, counters>>

NoHandoff == [state |-> "none", to |-> 0]
NoLedger == [high |-> 0, done |-> {}]
NoGui == [state |-> "off", ver |-> 0, tie |-> "none", proc |-> "none"]
NoScript == [pc |-> "off", to |-> 0]

Ledgers == [high : Versions \cup {0}, done : SUBSET Domains]
AdmitPcs == {"off", "lock", "claim", "write", "drop", "reject", "load", "high",
             "mark", "apply", "marker", "note"}
ScriptPcs == {"off", "prepared", "wait", "copy", "launch", "watch", "check",
              "probe", "kill", "restore", "clean", "forget"}

TypeOK ==
    /\ installed \in Versions \cup {0}
    /\ backup \in [Versions -> Versions \cup {0}]
    /\ handoff \in [state : {"none", "pending", "claimed"}, to : Versions \cup {0}]
    /\ rejected \in BOOLEAN
    /\ ledger \in Ledgers
    /\ marker \subseteq Domains
    /\ store \in [Domains -> Stores]
    /\ gui \in [state : {"off", "admitting", "ready", "closed"},
                ver : Versions \cup {0}, tie : {"none", "old", "new"},
                proc : Procs \cup {"none"}]
    /\ script \in [pc : ScriptPcs, to : Versions \cup {0}]
    /\ pc \in [Procs -> AdmitPcs]
    /\ ver \in [Procs -> Versions \cup {0}]
    /\ mem \in [Procs -> Ledgers]
    /\ plan \in [Procs -> SUBSET Domains]
    /\ overtaken \in BOOLEAN
    /\ crashes \in 0..MaxCrashes /\ faults \in 0..MaxFaults
    /\ installs \in 0..MaxInstalls /\ starts \in 0..MaxStarts

\* A machine with any build and with stores of any age but no ledger.
Init ==
    /\ installed \in Versions
    /\ backup = [v \in Versions |-> 0]
    /\ handoff = NoHandoff /\ rejected = FALSE
    /\ ledger = NoLedger /\ marker = {}
    /\ store \in {s \in [Domains -> Stores] : \A d \in Domains : s[d] \in Found[d]}
    /\ gui = NoGui /\ script = NoScript
    /\ pc = [p \in Procs |-> "off"] /\ ver = [p \in Procs |-> 0]
    /\ mem = [p \in Procs |-> NoLedger] /\ plan = [p \in Procs |-> {}]
    /\ overtaken = FALSE
    /\ crashes = 0 /\ faults = 0 /\ installs = 0 /\ starts = 0

-----------------------------------------------------------------------------
(* The admission of a native process.                                      *)

Holds(p) == pc[p] \notin {"off", "lock"}
LockFree == \A p \in Procs : ~Holds(p)

\* probe_authoritative_store: the version and the presence of a store.  A database
\* without its version row has no version: the probe fails.
StoreCurrent(d) == store[d] \in {"outdated", "current"}
StorePresent(d) == store[d] # "absent"
HalfCreated(d) == store[d] = "partial"

\* probe_domain: an existing store speaks for itself, a marker for an absent one.
Current(d) == StoreCurrent(d) \/ (~StorePresent(d) /\ d \in marker)
Unsupported(d) ==
    HalfCreated(d) \/ (StorePresent(d) /\ ~StoreCurrent(d) /\ d \in marker)

\* validate_ledger_reconciliation.
LedgerFits(v) == \A d \in ledger.done : d \in Frontier[v] /\ Current(d)

Admissible(v) == LedgerFits(v) /\ \A d \in Frontier[v] : ~Unsupported(d)

Goto(p, step) == pc' = [pc EXCEPT ![p] = step]
Own(p) == gui.proc = p /\ gui.state = "admitting"

\* admit returns: the process lets go of the lock and answers its client.
Return(p, answer) ==
    /\ Goto(p, "off")
    /\ ver' = [ver EXCEPT ![p] = 0]
    /\ mem' = [mem EXCEPT ![p] = NoLedger]
    /\ plan' = [plan EXCEPT ![p] = {}]
    /\ gui' = IF Own(p) THEN [gui EXCEPT !.state = answer] ELSE gui

\* Mutated form: the admission lock is shared.
LockShared(p) ==
    /\ pc[p] = "lock"
    /\ Goto(p, "claim")
    /\ UNCHANGED <<files, state, gui, script, ver, mem, plan, overtaken, counters>>

Lock(p) ==
    /\ pc[p] = "lock" /\ LockFree
    /\ Goto(p, "claim")
    /\ UNCHANGED <<files, state, gui, script, ver, mem, plan, overtaken, counters>>

\* Mutated form: the backup is deleted and the claim is not written first.
ReadHandoffDropFirst(p) ==
    /\ pc[p] = "claim"
    /\ Goto(p, CASE handoff.state = "none" -> "load"
                 [] handoff.state # "none" /\ handoff.to # ver[p] -> "reject"
                 [] handoff.state # "none" /\ handoff.to = ver[p] -> "drop")
    /\ UNCHANGED <<files, state, gui, script, ver, mem, plan, overtaken, counters>>

\* claim_update_handoff, up to its first write.
ReadHandoff(p) ==
    /\ pc[p] = "claim"
    /\ Goto(p, CASE handoff.state = "none" -> "load"
                 [] handoff.state # "none" /\ handoff.to # ver[p] -> "reject"
                 [] handoff.state = "pending" /\ handoff.to = ver[p] -> "write"
                 [] handoff.state = "claimed" /\ handoff.to = ver[p] -> "drop")
    /\ UNCHANGED <<files, state, gui, script, ver, mem, plan, overtaken, counters>>

WriteClaim(p) ==
    /\ pc[p] = "write"
    /\ handoff' = [state |-> "claimed", to |-> ver[p]]
    /\ Goto(p, "drop")
    /\ UNCHANGED <<installed, backup, rejected, state, gui, script, ver, mem,
                   plan, overtaken, counters>>

DropBackup(p) ==
    /\ pc[p] = "drop"
    /\ backup' = [backup EXCEPT ![ver[p]] = 0]
    /\ Goto(p, "load")
    /\ UNCHANGED <<installed, handoff, rejected, state, gui, script, ver, mem,
                   plan, overtaken, counters>>

\* An error of claim_update_handoff.
ClaimFails(p) ==
    /\ pc[p] \in {"write", "drop"} /\ faults < MaxFaults
    /\ faults' = faults + 1
    /\ Goto(p, "reject")
    /\ UNCHANGED <<files, state, gui, script, ver, mem, plan, overtaken,
                   crashes, installs, starts>>

HandoffIsClaimed == handoff.state = "claimed"

\* The handoff is read again: only an unclaimed one is rejected.
Reject(p) ==
    /\ pc[p] = "reject"
    /\ rejected' = (rejected \/ ~HandoffIsClaimed)
    /\ Return(p, "closed")
    /\ UNCHANGED <<installed, backup, handoff, state, script, overtaken, counters>>

Planned(v) == {d \in Frontier[v] : ~Current(d)}

\* reject_older_binary.
NotOlder(v) == ledger.high <= v

\* Mutated form: a refused admission waits for the state to change.
LoadAndProbeWaits(p) ==
    /\ pc[p] = "load"
    /\ NotOlder(ver[p]) /\ Admissible(ver[p])
    /\ mem' = [mem EXCEPT ![p] = ledger]
    /\ plan' = [plan EXCEPT ![p] = Planned(ver[p])]
    /\ Goto(p, "high")
    /\ UNCHANGED <<files, state, gui, ver, script, overtaken, counters>>

\* load_ledger, reject_older_binary, and the probes of all domains.
LoadAndProbe(p) ==
    /\ pc[p] = "load"
    /\ IF NotOlder(ver[p]) /\ Admissible(ver[p])
       THEN /\ mem' = [mem EXCEPT ![p] = ledger]
            /\ plan' = [plan EXCEPT ![p] = Planned(ver[p])]
            /\ Goto(p, "high")
            /\ UNCHANGED <<gui, ver>>
       ELSE Return(p, "closed")
    /\ UNCHANGED <<files, state, script, overtaken, counters>>

\* reconcile_ledger.
Reconciled(led, ds) == [led EXCEPT !.done = @ \cup ds]

\* write_json_atomic: the ledger in memory replaces the file.
Persist(p, led) ==
    /\ mem' = [mem EXCEPT ![p] = led]
    /\ ledger' = led

\* Mutated form: the planned domains are recorded before they are migrated.
RecordHighWaterAndPlan(p) ==
    /\ pc[p] = "high"
    /\ Persist(p, [high |-> ver[p], done |-> mem[p].done \cup plan[p]])
    /\ overtaken' = (overtaken \/ (gui.state = "ready" /\ gui.ver < ver[p]))
    /\ Goto(p, "mark")
    /\ UNCHANGED <<files, marker, store, gui, script, ver, plan, counters>>

RecordHighWater(p) ==
    /\ pc[p] = "high"
    /\ Persist(p, [mem[p] EXCEPT !.high = ver[p]])
    /\ overtaken' = (overtaken \/ (gui.state = "ready" /\ gui.ver < ver[p]))
    /\ Goto(p, "mark")
    /\ UNCHANGED <<files, marker, store, gui, script, ver, plan, counters>>

\* The domains that need no migration.
Skipped(p) == Frontier[ver[p]] \ plan[p]

\* upgrade_canonical_conversation_schema, before the domain's marker.
UpgradeStore(p) ==
    /\ pc[p] = "mark"
    /\ \E d \in Skipped(p) :
          store[d] = "outdated" /\ store' = [store EXCEPT ![d] = "current"]
    /\ UNCHANGED <<files, ledger, marker, gui, script, admission, overtaken, counters>>

\* reconcile_current_marker for one of those domains.
ReconcileMarker(p) ==
    /\ pc[p] = "mark"
    /\ \E d \in Skipped(p) \ marker : store[d] # "outdated" /\ marker' = marker \cup {d}
    /\ UNCHANGED <<files, ledger, store, gui, script, admission, overtaken, counters>>

\* The ledger is written once, after all of those stores and markers.
ReconcileLedger(p) ==
    /\ pc[p] = "mark" /\ Skipped(p) \subseteq marker
    /\ \A d \in Skipped(p) : store[d] # "outdated"
    /\ Persist(p, Reconciled(mem[p], Skipped(p)))
    /\ Goto(p, "apply")
    /\ UNCHANGED <<files, marker, store, gui, script, ver, plan, overtaken, counters>>

\* The next domain, in the order of the frontier's list.
Step(p) == CHOOSE d \in plan[p] : TRUE

\* What the step still has to make of a store before it can migrate it.
ToCreate(d) == d \in Creating /\ store[d] \in {"absent", "files"}
ToVersion(d) == d \in Creating /\ HalfCreated(d)

\* open_for_migration creates the database file, and initialize_schema commits
\* its statements one by one: the row with the version comes after the tables.
CreateStore(p) ==
    /\ pc[p] = "apply" /\ plan[p] # {} /\ ToCreate(Step(p))
    /\ store' = [store EXCEPT ![Step(p)] = "partial"]
    /\ UNCHANGED <<files, ledger, marker, gui, script, admission, overtaken, counters>>

VersionStore(p) ==
    /\ pc[p] = "apply" /\ plan[p] # {} /\ ToVersion(Step(p))
    /\ store' = [store EXCEPT ![Step(p)] = "legacy"]
    /\ UNCHANGED <<files, ledger, marker, gui, script, admission, overtaken, counters>>

\* apply_authoritative_store: an absent document stays absent.
MigrateStore(p) ==
    /\ pc[p] = "apply" /\ plan[p] # {} /\ ~ToCreate(Step(p)) /\ ~ToVersion(Step(p))
    /\ store' = [store EXCEPT ![Step(p)] =
                    IF @ = "absent" THEN "absent" ELSE "current"]
    /\ Goto(p, "marker")
    /\ UNCHANGED <<files, ledger, marker, gui, script, ver, mem, plan,
                   overtaken, counters>>

\* The marker, and the postcondition that probes the domain again.
WriteMarker(p) ==
    /\ pc[p] = "marker"
    /\ marker' = marker \cup {Step(p)}
    /\ IF StoreCurrent(Step(p)) \/ ~StorePresent(Step(p))
       THEN Goto(p, "note") /\ UNCHANGED <<gui, ver, mem, plan>>
       ELSE Return(p, "closed")
    /\ UNCHANGED <<files, ledger, store, script, overtaken, counters>>

\* Mutated form: the plan is dropped after its first step.
NoteStepOnly(p) ==
    /\ pc[p] = "note"
    /\ Persist(p, Reconciled(mem[p], {Step(p)}))
    /\ plan' = [plan EXCEPT ![p] = {}]
    /\ Goto(p, "apply")
    /\ UNCHANGED <<files, marker, store, gui, script, ver, overtaken, counters>>

NoteStep(p) ==
    /\ pc[p] = "note"
    /\ Persist(p, Reconciled(mem[p], {Step(p)}))
    /\ plan' = [plan EXCEPT ![p] = @ \ {Step(p)}]
    /\ Goto(p, "apply")
    /\ UNCHANGED <<files, marker, store, gui, script, ver, overtaken, counters>>

FinishAdmission(p) ==
    /\ pc[p] = "apply" /\ plan[p] = {}
    /\ handoff' = NoHandoff
    /\ Return(p, "ready")
    /\ UNCHANGED <<installed, backup, rejected, state, script, overtaken, counters>>

\* The native process dies, or a later file operation fails.
ProcessFails(p) ==
    /\ pc[p] # "off" /\ faults < MaxFaults
    /\ faults' = faults + 1
    /\ Return(p, "closed")
    /\ UNCHANGED <<files, state, script, overtaken, crashes, installs, starts>>

AdmitStep(p) ==
    \/ ReadHandoff(p) \/ WriteClaim(p) \/ DropBackup(p) \/ Reject(p)
    \/ LoadAndProbe(p) \/ RecordHighWater(p)
    \/ UpgradeStore(p) \/ ReconcileMarker(p) \/ ReconcileLedger(p)
    \/ CreateStore(p) \/ VersionStore(p) \/ MigrateStore(p) \/ WriteMarker(p) \/ NoteStep(p)
    \/ FinishAdmission(p)

-----------------------------------------------------------------------------
(* The client.                                                             *)

\* The client takes the instance lock and asks a native process for admission.
Start(p, tie) ==
    /\ pc[p] = "off"
    /\ gui' = [state |-> "admitting", ver |-> installed, tie |-> tie, proc |-> p]
    /\ Goto(p, "lock")
    /\ ver' = [ver EXCEPT ![p] = installed]
    /\ UNCHANGED <<mem, plan>>

UserStarts(p) ==
    /\ gui.state = "off" /\ installed # 0 /\ starts < MaxStarts
    /\ starts' = starts + 1
    /\ Start(p, "none")
    /\ UNCHANGED <<files, state, script, overtaken, crashes, faults, installs>>

\* The client quits or crashes; its native process goes on.
ClientEnds ==
    /\ gui.state # "off"
    /\ gui' = NoGui
    /\ UNCHANGED <<files, state, script, admission, overtaken, counters>>

\* A ready client writes a store for the first time, in its build's shape.
UseStore ==
    /\ gui.state = "ready"
    /\ \E d \in Domains :
          /\ store[d] = "absent"
          /\ store' = [store EXCEPT ![d] =
                          IF d \in Frontier[gui.ver] THEN "current" ELSE "legacy"]
    /\ UNCHANGED <<files, ledger, marker, gui, script, admission, overtaken, counters>>

\* The first use of a database fails between its file and its version row
\* (StrategyStore::open).
UseFails ==
    /\ gui.state = "ready" /\ faults < MaxFaults
    /\ faults' = faults + 1
    /\ \E d \in Databases :
          store[d] = "absent" /\ store' = [store EXCEPT ![d] = "partial"]
    /\ UNCHANGED <<files, ledger, marker, gui, script, admission, overtaken,
                   crashes, installs, starts>>

\* The user puts a build in place by hand, while no process of the client runs.
InstallByHand(v) ==
    /\ gui.state = "off" /\ script.pc = "off" /\ \A p \in Procs : pc[p] = "off"
    /\ installs < MaxInstalls
    /\ installs' = installs + 1
    /\ installed' = v
    /\ UNCHANGED <<backup, handoff, rejected, state, gui, script, admission,
                   overtaken, crashes, faults, starts>>

\* select_highest_release: only a strictly newer release is selected.
Eligible(v) == v > gui.ver

\* apply_live, up to prepare_update_handoff: a handoff that exists is never
\* replaced.
PrepareHandoff(v) ==
    /\ gui.state = "ready" /\ script.pc = "off"
    /\ Eligible(v) /\ handoff.state = "none"
    /\ rejected' = FALSE
    /\ handoff' = [state |-> "pending", to |-> v]
    /\ script' = [pc |-> "prepared", to |-> v]
    /\ gui' = [gui EXCEPT !.tie = "old"]
    /\ UNCHANGED <<installed, backup, state, admission, overtaken, counters>>

-----------------------------------------------------------------------------
(* The script.                                                             *)

ScriptGoto(step) ==
    script' = IF step = "off" THEN NoScript ELSE [script EXCEPT !.pc = step]

DispatchScript ==
    /\ script.pc = "prepared"
    /\ ScriptGoto("wait")
    /\ UNCHANGED <<files, state, gui, admission, overtaken, counters>>

\* The script cannot be started: apply_live takes the handoff back.
DispatchFails ==
    /\ script.pc = "prepared" /\ faults < MaxFaults
    /\ faults' = faults + 1
    /\ handoff' = NoHandoff
    /\ ScriptGoto("off")
    /\ UNCHANGED <<installed, backup, rejected, state, gui, admission, overtaken,
                   crashes, installs, starts>>

\* The old client is gone: keep its bundle as the backup.
MoveToBackup ==
    /\ script.pc = "wait" /\ gui.tie # "old" /\ installed # 0
    /\ backup' = [backup EXCEPT ![script.to] = installed]
    /\ installed' = 0
    /\ ScriptGoto("copy")
    /\ UNCHANGED <<handoff, rejected, state, gui, admission, overtaken, counters>>

\* set -e: the script ends at a command that fails, and leaves the handoff.
ScriptAborts ==
    /\ script.pc = "wait" /\ gui.tie # "old" /\ faults < MaxFaults
    /\ faults' = faults + 1
    /\ ScriptGoto("off")
    /\ UNCHANGED <<files, state, gui, admission, overtaken, crashes, installs, starts>>

CopyBundle ==
    /\ script.pc = "copy"
    /\ installed' = script.to
    /\ ScriptGoto("launch")
    /\ UNCHANGED <<backup, handoff, rejected, state, gui, admission, overtaken, counters>>

CopyFails ==
    /\ script.pc = "copy" /\ faults < MaxFaults
    /\ faults' = faults + 1
    /\ ScriptGoto("restore")
    /\ UNCHANGED <<files, state, gui, admission, overtaken, crashes, installs, starts>>

\* The candidate exits at once when another client holds the instance lock.
LaunchCandidate ==
    /\ script.pc = "launch"
    /\ ScriptGoto("watch")
    /\ IF gui.state = "off"
       THEN \E p \in Procs : Start(p, "new")
       ELSE UNCHANGED <<gui, admission>>
    /\ UNCHANGED <<files, state, overtaken, counters>>

\* One round of the loop: three tests, one after the other.
SeeRejection ==
    /\ script.pc = "watch"
    /\ ScriptGoto(IF rejected THEN "kill" ELSE "check")
    /\ UNCHANGED <<files, state, gui, admission, overtaken, counters>>

SeeClaim ==
    /\ script.pc = "check"
    /\ ScriptGoto(IF handoff.state = "pending" THEN "probe" ELSE "off")
    /\ UNCHANGED <<files, state, gui, admission, overtaken, counters>>

\* Mutated form: the script does not look whether the candidate runs.
SeeCandidateAlive ==
    /\ script.pc = "probe"
    /\ ScriptGoto("watch")
    /\ UNCHANGED <<files, state, gui, admission, overtaken, counters>>

SeeCandidate ==
    /\ script.pc = "probe"
    /\ ScriptGoto(IF gui.tie = "new" THEN "watch" ELSE "restore")
    /\ UNCHANGED <<files, state, gui, admission, overtaken, counters>>

KillCandidate ==
    /\ script.pc = "kill"
    /\ gui' = IF gui.tie = "new" THEN NoGui ELSE gui
    /\ ScriptGoto("restore")
    /\ UNCHANGED <<files, state, admission, overtaken, counters>>

\* restore_pre_claim: three removals, the last two of which follow.
RestoreBackup ==
    /\ script.pc = "restore"
    /\ installed' = backup[script.to]
    /\ backup' = [backup EXCEPT ![script.to] = 0]
    /\ ScriptGoto("clean")
    /\ UNCHANGED <<handoff, rejected, state, gui, admission, overtaken, counters>>

RemoveHandoff ==
    /\ script.pc = "clean"
    /\ handoff' = NoHandoff
    /\ ScriptGoto("forget")
    /\ UNCHANGED <<installed, backup, rejected, state, gui, admission, overtaken, counters>>

RemoveRejection ==
    /\ script.pc = "forget"
    /\ rejected' = FALSE
    /\ ScriptGoto("off")
    /\ UNCHANGED <<installed, backup, handoff, state, gui, admission, overtaken, counters>>

ScriptStep ==
    \/ DispatchScript \/ MoveToBackup \/ CopyBundle \/ LaunchCandidate
    \/ SeeRejection \/ SeeClaim \/ SeeCandidate \/ KillCandidate
    \/ RestoreBackup \/ RemoveHandoff \/ RemoveRejection

ScriptFault == DispatchFails \/ ScriptAborts \/ CopyFails

-----------------------------------------------------------------------------

\* The machine stops: every process is gone, the files stay.
MachineStops ==
    /\ crashes < MaxCrashes
    /\ crashes' = crashes + 1
    /\ gui' = NoGui /\ script' = NoScript
    /\ pc' = [p \in Procs |-> "off"] /\ ver' = [p \in Procs |-> 0]
    /\ mem' = [p \in Procs |-> NoLedger] /\ plan' = [p \in Procs |-> {}]
    /\ UNCHANGED <<files, state, overtaken, faults, installs, starts>>

Next ==
    \/ \E p \in Procs :
          Lock(p) \/ AdmitStep(p) \/ ClaimFails(p) \/ ProcessFails(p) \/ UserStarts(p)
    \/ ClientEnds \/ UseStore \/ UseFails
    \/ \E v \in Versions : InstallByHand(v) \/ PrepareHandoff(v)
    \/ ScriptStep \/ ScriptFault
    \/ MachineStops

\* The client that applied an update exits by itself.
AppliedClientExits == gui.tie = "old" /\ script.pc = "wait" /\ ClientEnds

Fairness ==
    /\ \A p \in Procs : WF_vars(AdmitStep(p)) /\ SF_vars(Lock(p))
    /\ WF_vars(ScriptStep) /\ WF_vars(AppliedClientExits)

Spec == Init /\ [][Next]_vars /\ Fairness

-----------------------------------------------------------------------------
(* Properties.                                                             *)

(* The high-water of the ledger never falls, whichever builds are started,
   overlap and die: reject_older_binary and the admission lock keep an older
   build from ever being recorded after a newer one. *)
HighWaterIsForward == [][ledger.high <= ledger'.high]_vars

(* A client becomes ready only over a state that is wholly that of its build:
   the high-water is its version, every domain of its frontier is current, also
   in its inner schema, and recorded in the ledger, and no handoff is left. *)
ReadyIsMigrated ==
    [][gui.state # "ready" /\ gui'.state = "ready" =>
          /\ ledger.high = gui.ver
          /\ ledger.done = Frontier[gui.ver]
          /\ \A d \in Frontier[gui.ver] : Current(d) /\ store[d] # "outdated"
          /\ handoff'.state = "none"]_vars

\* A database that is half created, by an admission that is still at work on it
\* or because that was interrupted.
CreationInterrupted(d) ==
    /\ HalfCreated(d)
    /\ \/ crashes + faults > 0
       \/ \E p \in Procs : pc[p] = "apply" /\ plan[p] # {} /\ d = Step(p)

(* Wherever an admission was interrupted, a build that is not older finds a
   state it admits: no ledger ahead of its stores and no store that contradicts
   its marker.  One interruption is not repaired, against what
   docs/architecture/CLIENT-UPDATE-AND-STATE-MIGRATION.md says of a retry: a
   database between its file and its version row is refused by every build
   (probe_sqlite_meta).  Lost also when a build was admitted under a ready
   client of an older one, which then goes on writing stores. *)
RestartIsAdmitted ==
    ~overtaken => \A v \in Versions :
        NotOlder(v) => Admissible(v) \/ \E d \in Frontier[v] : CreationInterrupted(d)

(* The script's backup of the old bundle is not deleted before the new build
   has claimed the handoff: until then it is only moved back.  A claim can be
   taken away under the admission that made it, by a dispatch that failed late
   or by the end of a restore; then no script is left that would restore.  The
   exception is an admission whose client is gone: the claim it made may have
   been removed and another update begun. *)
BackupKeptUntilClaim ==
    [][\A v \in Versions : backup[v] # 0 /\ backup'[v] = 0 =>
          \/ handoff = [state |-> "claimed", to |-> v]
          \/ installed' = backup[v]
          \/ handoff.state = "none" /\ script.pc \in {"off", "forget"}
          \/ \E p \in Procs : pc[p] = "drop" /\ gui.proc # p]_vars

(* A started admission ends, also when others hold the lock and die with it. *)
AdmissionEnds == \A p \in Procs : pc[p] # "off" ~> pc[p] = "off"

(* A dispatched update ends in a claim or in a restored bundle, unless the
   candidate has failed after its start and stays open with an error. *)
UpdateConcludes ==
    script.pc # "off" ~>
        \/ script.pc = "off"
        \/ gui.tie = "new" /\ gui.state = "closed"

(* The script restores the old bundle only while the handoff is not claimed
   (docs/architecture/CLIENT-UPDATE-AND-STATE-MIGRATION.md, "No later
   binary-restore surface exists"). *)
RestoreOnlyBeforeClaim ==
    [][script.pc = "restore" /\ script'.pc = "clean" => handoff.state # "claimed"]_vars

=============================================================================
