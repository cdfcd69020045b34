-------------------------- MODULE ClientUpdateProofs --------------------------
(***************************************************************************)
(* Proofs about ClientUpdate, for any versions, domains, frontiers and     *)
(* processes: the high-water only rises, an interrupted admission can be   *)
(* repeated, and a client becomes ready only over a migrated state.        *)
(*                                                                         *)
(* The argument: one process at a time is past the lock, so the ledger it  *)
(* has in memory is the ledger on disk; every domain in the ledger has its *)
(* marker, every marker is in the frontier of the high-water, and no store *)
(* contradicts its marker while no client of an older build writes stores. *)
(***************************************************************************)
EXTENDS ClientUpdate, TLAPS

Loaded == {"high", "mark", "apply", "marker", "note"}

\* The domains of the highest build that was admitted.
HighDomains == IF ledger.high = 0 THEN {} ELSE Frontier[ledger.high]

\* One admission is past the lock.
Mutex == \A p, q \in Procs : Holds(p) /\ Holds(q) => p = q

\* Every process has a build, and so has the script's target.
Builds ==
    /\ \A p \in Procs : pc[p] # "off" => ver[p] \in Versions
    /\ gui.state # "off" => gui.ver \in Versions
    /\ gui.state = "admitting" =>
          gui.proc \in Procs /\ pc[gui.proc] # "off" /\ ver[gui.proc] = gui.ver
    /\ script.pc # "off" => script.to \in Versions
    /\ script.pc = "launch" => installed # 0

\* The ledger in memory is the one on disk, and no newer build is in it.
Copies ==
    \A p \in Procs :
        /\ pc[p] \in Loaded => mem[p] = ledger /\ ledger.high <= ver[p]
        /\ pc[p] \in Loaded \ {"high"} => ledger.high = ver[p]

\* Recorded domains have markers, and markers are of the admitted frontier.
Marked == ledger.done \subseteq marker /\ marker \subseteq HighDomains

\* A ready client is not behind the high-water, and no store contradicts its
\* marker.
Old == {"files", "legacy"}
Supported ==
    ~overtaken =>
        /\ gui.state = "ready" => ledger.high <= gui.ver
        /\ \A d \in marker : store[d] \notin Old

\* What an admission has planned, and what it need not do any more.
Plans ==
    \A p \in Procs : pc[p] \in Loaded =>
        /\ plan[p] \subseteq Frontier[ver[p]]
        /\ pc[p] \in {"marker", "note"} => plan[p] # {}
        /\ pc[p] = "note" => Step(p) \in marker
        /\ \A d \in plan[p] \cap marker : pc[p] = "note" /\ d = Step(p)
        /\ pc[p] \in {"apply", "marker", "note"} =>
              Skipped(p) \subseteq ledger.done

\* The stores of those domains.  An older client that writes beside the admission
\* can set them back; a client that is ready can leave a database half created.
\* The inner schemas are upgraded before the plan is carried out.
Migrated ==
    \A p \in Procs : pc[p] \in Loaded =>
        /\ Own(p) => /\ \A d \in Skipped(p) : Current(d)
                     /\ pc[p] \in {"marker", "note"} =>
                           store[Step(p)] \notin Old \cup {"partial"}
        /\ ~overtaken => /\ \A d \in Skipped(p) : Current(d) \/ HalfCreated(d)
                         /\ pc[p] \in {"marker", "note"} => store[Step(p)] \notin Old
        /\ \A d \in plan[p] : store[d] # "outdated"
        /\ pc[p] \in {"apply", "marker", "note"} =>
              \A d \in Skipped(p) : store[d] # "outdated"

IInv == TypeOK /\ Mutex /\ Builds /\ Copies /\ Marked /\ Supported /\ Plans /\ Migrated

-----------------------------------------------------------------------------
(* Facts about the constants and the operators.                            *)

(* A newer build keeps the domains of an older one. *)
LEMMA FrontierGrows ==
    /\ \A v \in Versions : v \in Nat /\ v # 0 /\ Frontier[v] \in SUBSET Domains
    /\ \A v, w \in Versions : v <= w => Frontier[v] \subseteq Frontier[w]
BY UpdateAssumption DEF UpdateAssumption

(* The next domain is one of the planned ones, and the same while the plan is. *)
LEMMA StepIsPlanned ==
    ASSUME NEW p
    PROVE  /\ plan[p] # {} => Step(p) \in plan[p]
           /\ plan'[p] = plan[p] => Step(p)' = Step(p)
BY DEF Step

(* The domains of the high-water are in the frontier of every build that is
   not older. *)
LEMMA HighDomainsAdmitted ==
    ASSUME TypeOK, NEW v \in Versions, ledger.high <= v
    PROVE  HighDomains \subseteq Frontier[v]
BY FrontierGrows DEF TypeOK, Ledgers, HighDomains

-----------------------------------------------------------------------------
(* Steps outside the admission.                                            *)

\* What the client and the script leave alone, but for the end of a client.
Elsewhere ==
    /\ UNCHANGED <<state, admission, overtaken>>
    /\ \/ gui' = NoGui
       \/ gui'.state = gui.state /\ gui'.ver = gui.ver /\ gui'.proc = gui.proc

\* The script keeps its target, and starts a bundle that is in place.
ScriptGoesOn ==
    /\ script'.pc # "off" => script'.to \in Versions
    /\ script'.pc = "launch" => installed' # 0

(* A step elsewhere disturbs no admission. *)
LEMMA ElsewhereStep ==
    ASSUME IInv, TypeOK', Elsewhere, ScriptGoesOn
    PROVE  IInv'
<1>1. /\ UNCHANGED <<ledger, marker, store, pc, ver, mem, plan, overtaken>>
      /\ \/ gui'.state = "off"
         \/ gui'.state = gui.state /\ gui'.ver = gui.ver /\ gui'.proc = gui.proc
  BY DEF Elsewhere, state, admission, NoGui
<1>2. \A p \in Procs : Step(p)' = Step(p)
  BY <1>1, StepIsPlanned
<1>3. Mutex'
  BY <1>1 DEF IInv, Mutex, Holds
<1>4. Builds'
  BY <1>1 DEF IInv, Builds, ScriptGoesOn
<1>5. Copies'
  BY <1>1 DEF IInv, Copies
<1>6. Marked'
  BY <1>1 DEF IInv, Marked, HighDomains
<1>7. Supported'
  BY <1>1 DEF IInv, Supported
<1>8. Plans'
  BY <1>1, <1>2 DEF IInv, Plans, Skipped
<1>9. Migrated'
  BY <1>1, <1>2
     DEF IInv, Migrated, Own, Skipped, Old, Current, StoreCurrent, StorePresent, HalfCreated
<1> QED BY <1>3, <1>4, <1>5, <1>6, <1>7, <1>8, <1>9 DEF IInv

-----------------------------------------------------------------------------
(* Steps of an admission.                                                  *)

(* A step before the ledger is loaded moves one process and nothing else the
   invariant speaks of. *)
LEMMA EarlyStep ==
    ASSUME IInv, TypeOK', NEW p \in Procs, NEW s \in AdmitPcs \ (Loaded \cup {"off", "lock"}),
           pc[p] \notin Loaded \cup {"off"}, Holds(p) \/ LockFree, Goto(p, s),
           UNCHANGED <<state, gui, script, installed, ver, mem, plan, overtaken>>
    PROVE  IInv'
<1>1. /\ UNCHANGED <<ledger, marker, store, gui, script, installed, ver, mem, plan, overtaken>>
      /\ pc'[p] = s /\ \A q \in Procs \ {p} : pc'[q] = pc[q]
  BY DEF state, Goto, IInv, TypeOK
<1>2. \A q \in Procs : Step(q)' = Step(q)
  BY <1>1, StepIsPlanned
<1>3. Mutex'
  BY <1>1 DEF IInv, Mutex, Holds, LockFree
<1>4. Builds'
  BY <1>1 DEF IInv, Builds
<1>5. Copies'
  BY <1>1 DEF IInv, Copies
<1>6. Marked' /\ Supported'
  BY <1>1 DEF IInv, Marked, HighDomains, Supported, Old
<1>7. Plans'
  BY <1>1, <1>2 DEF IInv, Plans, Skipped
<1>8. Migrated'
  BY <1>1, <1>2
     DEF IInv, Migrated, Own, Skipped, Old, Current, StoreCurrent, StorePresent, HalfCreated
<1> QED BY <1>3, <1>4, <1>5, <1>6, <1>7, <1>8 DEF IInv

(* A start adds a process that waits for the lock. *)
LEMMA StartStep ==
    ASSUME IInv, TypeOK', NEW p \in Procs, NEW tie, Start(p, tie), installed # 0,
           UNCHANGED <<state, overtaken, installed>>, ScriptGoesOn
    PROVE  IInv'
<1>1. /\ UNCHANGED <<ledger, marker, store, mem, plan, overtaken>>
      /\ pc[p] = "off" /\ pc'[p] = "lock" /\ \A q \in Procs \ {p} : pc'[q] = pc[q]
      /\ ver'[p] = installed /\ \A q \in Procs \ {p} : ver'[q] = ver[q]
      /\ gui'.state = "admitting" /\ gui'.ver = installed /\ gui'.proc = p
      /\ installed \in Versions
  BY DEF state, Start, Goto, IInv, TypeOK
<1>2. \A q \in Procs : Step(q)' = Step(q)
  BY <1>1, StepIsPlanned
<1>3. Mutex'
  BY <1>1 DEF IInv, Mutex, Holds
<1>4. Builds'
  BY <1>1 DEF IInv, Builds, ScriptGoesOn
<1>5. Copies'
  BY <1>1 DEF IInv, Copies, Loaded
<1>6. Marked' /\ Supported'
  BY <1>1 DEF IInv, Marked, HighDomains, Supported, Old
<1>7. Plans'
  BY <1>1, <1>2 DEF IInv, Plans, Skipped, Loaded
<1>8. Migrated'
  BY <1>1, <1>2
     DEF IInv, Migrated, Own, Skipped, Old, Current, StoreCurrent, StorePresent, HalfCreated, Loaded
<1> QED BY <1>3, <1>4, <1>5, <1>6, <1>7, <1>8 DEF IInv

(* A process that returns leaves the others as they are; the client it makes
   ready is of the high-water's build. *)
LEMMA ReturnStep ==
    ASSUME IInv, TypeOK', NEW p \in Procs, NEW answer \in {"closed", "ready"},
           pc[p] # "off", answer = "ready" => pc[p] = "apply",
           Return(p, answer), UNCHANGED <<state, script, installed, overtaken>>
    PROVE  IInv'
<1>1. /\ UNCHANGED <<ledger, marker, store, script, installed, overtaken>>
      /\ pc'[p] = "off"
      /\ \A q \in Procs \ {p} : /\ pc'[q] = pc[q] /\ ver'[q] = ver[q]
                                /\ mem'[q] = mem[q] /\ plan'[q] = plan[q]
  BY DEF state, Return, Goto, IInv, TypeOK
<1>2. \A q \in Procs \ {p} : Step(q)' = Step(q)
  BY <1>1, StepIsPlanned
<1>3. /\ gui'.ver = gui.ver /\ gui'.proc = gui.proc
      /\ gui'.state = IF Own(p) THEN answer ELSE gui.state
  BY DEF Return, IInv, TypeOK
<1>4. Mutex'
  BY <1>1 DEF IInv, Mutex, Holds
<1>5. Builds'
  BY <1>1, <1>3 DEF IInv, Builds, Own
<1>6. Copies'
  BY <1>1 DEF IInv, Copies, Loaded
<1>7. Marked'
  BY <1>1 DEF IInv, Marked, HighDomains
<1>8. Supported'
  <2>1. CASE Own(p) /\ answer = "ready"
    <3>1. ledger.high = ver[p] /\ ver[p] = gui.ver /\ gui.ver \in Nat
      BY <2>1, FrontierGrows DEF IInv, Copies, Builds, Own, Loaded
    <3> QED BY <1>1, <1>3, <3>1 DEF IInv, Supported
  <2>2. CASE ~(Own(p) /\ answer = "ready")
    BY <1>1, <1>3, <2>2 DEF IInv, Supported
  <2> QED BY <2>1, <2>2
<1>9. Plans'
  BY <1>1, <1>2 DEF IInv, Plans, Skipped, Loaded
<1>10. Migrated'
  BY <1>1, <1>2, <1>3
     DEF IInv, Migrated, Own, Skipped, Old, Current, StoreCurrent, StorePresent, HalfCreated, Loaded
<1> QED BY <1>4, <1>5, <1>6, <1>7, <1>8, <1>9, <1>10 DEF IInv

(* The process past the lock stays alone there. *)
LEMMA HolderIsAlone ==
    ASSUME IInv, NEW p \in Procs, Holds(p), pc'[p] # "off",
           \A q \in Procs \ {p} : pc'[q] = pc[q],
           UNCHANGED <<gui, script, installed, ver>>
    PROVE  Mutex' /\ Builds' /\ \A q \in Procs : pc'[q] \in Loaded => q = p
<1>1. \A q \in Procs \ {p} : pc[q] \in {"off", "lock"}
  BY DEF IInv, Mutex, Holds
<1>2. Mutex' /\ \A q \in Procs : pc'[q] \in Loaded => q = p
  BY <1>1 DEF Mutex, Holds, Loaded
<1>3. Builds'
  BY DEF IInv, Builds, Holds
<1> QED BY <1>2, <1>3

(* What the process past the lock knows of the ledger. *)
LEMMA HolderKnows ==
    ASSUME IInv, NEW p \in Procs, pc[p] \in Loaded
    PROVE  /\ Holds(p) /\ ver[p] \in Versions /\ ver[p] \in Nat /\ ver[p] # 0
           /\ mem[p] = ledger /\ ledger.high <= ver[p] /\ HighDomains \subseteq Frontier[ver[p]]
           /\ pc[p] # "high" => ledger.high = ver[p] /\ HighDomains = Frontier[ver[p]]
<1>1. Holds(p) /\ ver[p] \in Versions /\ ver[p] \in Nat /\ ver[p] # 0
  BY FrontierGrows DEF IInv, Builds, Holds, Loaded
<1>2. mem[p] = ledger /\ ledger.high <= ver[p] /\ (pc[p] # "high" => ledger.high = ver[p])
  BY DEF IInv, Copies
<1>3. HighDomains \subseteq Frontier[ver[p]]
  BY <1>1, <1>2, HighDomainsAdmitted DEF IInv
<1> QED BY <1>1, <1>2, <1>3 DEF HighDomains

(* The plan is what is not current, and nothing planned is marked. *)
LEMMA LoadStep ==
    ASSUME IInv, TypeOK', NEW p \in Procs, LoadAndProbe(p)
    PROVE  IInv'
<1>1. CASE NotOlder(ver[p]) /\ Admissible(ver[p])
  <2>1. /\ UNCHANGED <<ledger, marker, store, gui, script, installed, ver, overtaken>>
        /\ pc[p] = "load" /\ pc'[p] = "high" /\ \A q \in Procs \ {p} : pc'[q] = pc[q]
        /\ mem'[p] = ledger /\ plan'[p] = Planned(ver[p])
    BY <1>1 DEF LoadAndProbe, Goto, files, state, IInv, TypeOK
  <2>2. Mutex' /\ Builds' /\ \A q \in Procs : pc'[q] \in Loaded => q = p
    BY <2>1, HolderIsAlone DEF Holds
  <2>3. Copies'
    BY <1>1, <2>1, <2>2 DEF Copies, NotOlder, Loaded
  <2>4. Marked' /\ Supported'
    BY <2>1 DEF IInv, Marked, HighDomains, Supported, Old
  <2>5. \A d \in Planned(ver[p]) : d \notin marker /\ store[d] # "outdated"
    BY <1>1 DEF Planned, Admissible, Current, Unsupported, StoreCurrent
  <2>6. Plans'
    BY <2>1, <2>2, <2>5 DEF Plans, Planned, Skipped
  <2>7. Migrated'
    BY <2>1, <2>2, <2>5
       DEF Migrated, Planned, Skipped, Current, StoreCurrent, StorePresent
  <2> QED BY <2>2, <2>3, <2>4, <2>6, <2>7 DEF IInv
<1>2. CASE ~(NotOlder(ver[p]) /\ Admissible(ver[p]))
  BY <1>2, ReturnStep DEF LoadAndProbe, files
<1> QED BY <1>1, <1>2

(* The high-water rises, and with it the frontier the markers are of. *)
LEMMA HighStep ==
    ASSUME IInv, TypeOK', NEW p \in Procs, RecordHighWater(p)
    PROVE  IInv'
<1>1. /\ UNCHANGED <<marker, store, gui, script, installed, ver, plan>>
      /\ pc[p] = "high" /\ pc'[p] = "mark" /\ \A q \in Procs \ {p} : pc'[q] = pc[q]
      /\ mem'[p] = ledger' /\ ledger'.high = ver[p] /\ ledger'.done = mem[p].done
      /\ overtaken' = (overtaken \/ (gui.state = "ready" /\ gui.ver < ver[p]))
  BY DEF RecordHighWater, Persist, Goto, files, IInv, TypeOK, Ledgers
<1>2. /\ Holds(p) /\ ver[p] \in Nat /\ ver[p] # 0
      /\ mem[p] = ledger /\ HighDomains \subseteq Frontier[ver[p]]
  BY <1>1, HolderKnows DEF Loaded
<1>3. Mutex' /\ Builds' /\ \A q \in Procs : pc'[q] \in Loaded => q = p
  BY <1>1, <1>2, HolderIsAlone
<1>4. Step(p)' = Step(p)
  BY <1>1, StepIsPlanned
<1>5. Copies'
  BY <1>1, <1>2, <1>3 DEF Copies
<1>6. Marked'
  BY <1>1, <1>2 DEF IInv, Marked, HighDomains
<1>7. Supported'
  <2>1. gui.state = "ready" => gui.ver \in Nat
    BY FrontierGrows DEF IInv, Builds
  <2>2. ~overtaken' => ~overtaken /\ (gui.state = "ready" => ~(gui.ver < ver[p]))
    BY <1>1
  <2> QED BY <1>1, <1>2, <2>1, <2>2 DEF IInv, Supported
<1>8. Plans'
  BY <1>1, <1>3, <1>4 DEF IInv, Plans, Skipped, Loaded
<1>9. Migrated'
  <2>1. ~overtaken' => ~overtaken
    BY <1>1
  <2>2. pc[p] \in Loaded /\ Skipped(p)' = Skipped(p) /\ Own(p)' = Own(p)
    BY <1>1 DEF Skipped, Own, Loaded
  <2>3. \A d : Current(d)' = Current(d) /\ HalfCreated(d)' = HalfCreated(d)
    BY <1>1 DEF Current, StoreCurrent, StorePresent, HalfCreated
  <2> QED BY <1>1, <1>3, <1>4, <2>1, <2>2, <2>3 DEF IInv, Migrated
<1> QED BY <1>3, <1>5, <1>6, <1>7, <1>8, <1>9 DEF IInv

(* A marker goes to a domain whose store does not contradict it. *)
LEMMA MarkStep ==
    ASSUME IInv, TypeOK', NEW p \in Procs, ReconcileMarker(p)
    PROVE  IInv'
<1>1. /\ UNCHANGED <<ledger, store, gui, script, installed, pc, ver, mem, plan, overtaken>>
      /\ pc[p] = "mark"
  BY DEF ReconcileMarker, files, admission
<1>2. PICK d \in Frontier[ver[p]] \ plan[p] : marker' = marker \cup {d}
  BY DEF ReconcileMarker, Skipped
<1>3. Holds(p) /\ HighDomains = Frontier[ver[p]]
  BY <1>1, HolderKnows DEF Loaded
<1>4. Mutex' /\ Builds' /\ \A q \in Procs : pc'[q] \in Loaded => q = p
  BY <1>1, <1>3, HolderIsAlone DEF Holds
<1>5. Step(p)' = Step(p)
  BY <1>1, StepIsPlanned
<1>6. Copies'
  BY <1>1 DEF IInv, Copies
<1>7. Marked'
  BY <1>1, <1>2, <1>3 DEF IInv, Marked, HighDomains
<1>8. Supported'
  <2>1. ~overtaken => Current(d) \/ HalfCreated(d)
    BY <1>1, <1>2 DEF IInv, Migrated, Skipped, Loaded
  <2>2. ~overtaken => store[d] \notin Old
    BY <2>1 DEF Old, Current, StoreCurrent, StorePresent, HalfCreated
  <2> QED BY <1>1, <1>2, <2>2 DEF IInv, Supported
<1>9. Plans'
  BY <1>1, <1>2, <1>4, <1>5 DEF IInv, Plans, Skipped, Loaded
<1>10. Migrated'
  BY <1>1, <1>2, <1>4, <1>5
     DEF IInv, Migrated, Own, Skipped, Old, Current, StoreCurrent, StorePresent, HalfCreated, Loaded
<1> QED BY <1>4, <1>6, <1>7, <1>8, <1>9, <1>10 DEF IInv

(* The ledger records marked domains. *)
LEMMA LedgerStep ==
    ASSUME IInv, TypeOK', NEW p \in Procs, ReconcileLedger(p)
    PROVE  IInv'
<1>1. /\ UNCHANGED <<marker, store, gui, script, installed, ver, plan, overtaken>>
      /\ pc[p] = "mark" /\ pc'[p] = "apply" /\ \A q \in Procs \ {p} : pc'[q] = pc[q]
      /\ mem'[p] = ledger' /\ ledger'.high = mem[p].high
      /\ ledger'.done = mem[p].done \cup (Frontier[ver[p]] \ plan[p])
      /\ Frontier[ver[p]] \ plan[p] \subseteq marker
      /\ \A d \in Skipped(p) : store[d] # "outdated"
  BY DEF ReconcileLedger, Skipped, Persist, Reconciled, Goto, files, IInv, TypeOK, Ledgers
<1>2. Holds(p) /\ ver[p] \in Nat /\ mem[p] = ledger /\ ledger.high = ver[p]
  BY <1>1, HolderKnows DEF Loaded
<1>3. Mutex' /\ Builds' /\ \A q \in Procs : pc'[q] \in Loaded => q = p
  BY <1>1, <1>2, HolderIsAlone
<1>4. Step(p)' = Step(p)
  BY <1>1, StepIsPlanned
<1>5. Copies'
  BY <1>1, <1>2, <1>3 DEF Copies
<1>6. Marked' /\ Supported'
  BY <1>1, <1>2 DEF IInv, Marked, HighDomains, Supported, Old
<1>7. Plans'
  BY <1>1, <1>3, <1>4 DEF IInv, Plans, Skipped, Loaded
<1>8. Migrated'
  BY <1>1, <1>3, <1>4
     DEF IInv, Migrated, Own, Skipped, Old, Current, StoreCurrent, StorePresent, HalfCreated, Loaded
<1> QED BY <1>3, <1>5, <1>6, <1>7, <1>8 DEF IInv

(* The inner schema of a current store is upgraded. *)
LEMMA UpgradeStep ==
    ASSUME IInv, TypeOK', NEW p \in Procs, UpgradeStore(p)
    PROVE  IInv'
<1>1. /\ UNCHANGED <<ledger, marker, gui, script, installed, pc, ver, mem, plan, overtaken>>
      /\ pc[p] = "mark"
  BY DEF UpgradeStore, files, admission
<1>2. PICK d \in Skipped(p) : store[d] = "outdated" /\ store' = [store EXCEPT ![d] = "current"]
  BY DEF UpgradeStore
<1>3. \A e \in Domains : store'[e] = store[e] \/ (store[e] = "outdated" /\ store'[e] = "current")
  BY <1>2 DEF IInv, TypeOK
<1>4. \A q \in Procs : /\ Step(q)' = Step(q)
                       /\ pc[q] \in Loaded =>
                             Skipped(q) \subseteq Domains /\ plan[q] \subseteq Domains
  BY <1>1, StepIsPlanned, HolderKnows, FrontierGrows DEF Skipped, IInv, TypeOK
<1>5. Mutex' /\ Builds' /\ Copies' /\ Marked'
  BY <1>1 DEF IInv, Mutex, Holds, Builds, Copies, Marked, HighDomains
<1>6. Supported'
  BY <1>1, <1>3 DEF IInv, Supported, Old, TypeOK
<1>7. Plans'
  BY <1>1, <1>4 DEF IInv, Plans, Skipped
<1>8. Migrated'
  <2> SUFFICES ASSUME NEW q \in Procs, pc[q] \in Loaded
               PROVE  /\ Own(q) => /\ \A e \in Skipped(q) : Current(e)'
                                   /\ pc[q] \in {"marker", "note"} =>
                                         store'[Step(q)] \notin Old \cup {"partial"}
                      /\ ~overtaken => /\ \A e \in Skipped(q) : Current(e)' \/ HalfCreated(e)'
                                       /\ pc[q] \in {"marker", "note"} => store'[Step(q)] \notin Old
                      /\ \A e \in plan[q] : store'[e] # "outdated"
                      /\ pc[q] \in {"apply", "marker", "note"} =>
                            \A e \in Skipped(q) : store'[e] # "outdated"
    BY <1>1, <1>4 DEF Migrated, Own, Skipped
  <2>1. \A e \in Domains : /\ Current(e) => Current(e)'
                           /\ HalfCreated(e) => HalfCreated(e)'
                           /\ store[e] \notin Old => store'[e] \notin Old
                           /\ store[e] # "partial" => store'[e] # "partial"
                           /\ store[e] # "outdated" => store'[e] # "outdated"
    BY <1>1, <1>3 DEF Current, StoreCurrent, StorePresent, HalfCreated, Old
  <2>2. pc[q] \in {"marker", "note"} => Step(q) \in Domains
    BY <1>4, StepIsPlanned DEF IInv, Plans
  <2> QED BY <1>4, <2>1, <2>2 DEF IInv, Migrated
<1> QED BY <1>5, <1>6, <1>7, <1>8 DEF IInv

(* A step of the plan: its store is not marked yet, or is no longer old. *)
LEMMA StoreStep ==
    ASSUME IInv, TypeOK', NEW p \in Procs,
           CreateStore(p) \/ VersionStore(p) \/ MigrateStore(p)
    PROVE  IInv'
<1> DEFINE d == Step(p)
<1>1. /\ UNCHANGED <<ledger, marker, gui, script, installed, ver, mem, plan, overtaken>>
      /\ pc[p] = "apply" /\ pc'[p] \in {"apply", "marker"}
      /\ \A q \in Procs \ {p} : pc'[q] = pc[q]
      /\ plan[p] # {}
  BY DEF CreateStore, VersionStore, MigrateStore, Goto, files, admission, IInv, TypeOK
<1>2. d \in plan[p] /\ d \in Domains /\ d \notin marker /\ d' = d
  BY <1>1, StepIsPlanned DEF IInv, Plans, TypeOK, Loaded
<1>3. /\ \A e \in Domains \ {d} : store'[e] = store[e]
      /\ pc'[p] = "marker" => store'[d] \notin Old \cup {"partial"}
      /\ store'[d] # "outdated"
  BY <1>1, <1>2 DEF CreateStore, VersionStore, MigrateStore, Old, IInv, TypeOK, admission
<1>4. Mutex' /\ Builds' /\ \A q \in Procs : pc'[q] \in Loaded => q = p
  BY <1>1, HolderKnows, HolderIsAlone DEF Loaded
<1>5. Copies'
  BY <1>1, <1>4 DEF IInv, Copies, Loaded
<1>6. Marked'
  BY <1>1 DEF IInv, Marked, HighDomains
<1>7. Supported'
  BY <1>1, <1>2, <1>3 DEF IInv, Supported, TypeOK
<1>8. Plans'
  BY <1>1, <1>2, <1>4 DEF IInv, Plans, Skipped, Loaded
<1>9. Migrated'
  <2>1. Skipped(p) \subseteq Domains \ {d} /\ plan[p] \subseteq Domains /\ Skipped(p)' = Skipped(p)
    BY <1>1, <1>2, HolderKnows, FrontierGrows DEF Loaded, Skipped, IInv, TypeOK
  <2>2. \A e \in Domains \ {d} : /\ Current(e)' = Current(e)
                                 /\ HalfCreated(e)' = HalfCreated(e)
    BY <1>1, <1>3 DEF Current, StoreCurrent, StorePresent, HalfCreated
  <2>3. \A e \in plan[p] : store'[e] # "outdated"
    BY <1>1, <1>3, <2>1 DEF IInv, Migrated, Loaded
  <2> QED BY <1>1, <1>2, <1>3, <1>4, <2>1, <2>2, <2>3
          DEF IInv, Migrated, Own, Loaded
<1> QED BY <1>4, <1>5, <1>6, <1>7, <1>8, <1>9 DEF IInv

(* The marker of the step is of the admitted frontier; its store agrees with it
   unless an older client wrote it meanwhile. *)
LEMMA MarkerStep ==
    ASSUME IInv, TypeOK', NEW p \in Procs, WriteMarker(p)
    PROVE  IInv'
<1> DEFINE d == Step(p)
<1>1. /\ UNCHANGED <<ledger, store, script, installed, overtaken>>
      /\ pc[p] = "marker" /\ marker' = marker \cup {d}
      /\ \A q \in Procs \ {p} : pc'[q] = pc[q]
  BY DEF WriteMarker, Return, Goto, files, IInv, TypeOK
<1>2. /\ Holds(p) /\ d \in plan[p] /\ d \in HighDomains
      /\ ~overtaken => store[d] \notin Old
      /\ Own(p) => store[d] \notin Old \cup {"partial"}
  BY <1>1, StepIsPlanned, HolderKnows DEF IInv, Plans, Migrated, Loaded
<1>3. Marked'
  BY <1>1, <1>2 DEF IInv, Marked, HighDomains
<1>4. CASE StoreCurrent(d) \/ ~StorePresent(d)
  <2>0. store[d] \notin Old \cup {"partial"}
    BY <1>4 DEF StoreCurrent, StorePresent, Old
  <2>1. UNCHANGED <<gui, ver, mem, plan>> /\ pc'[p] = "note" /\ d' = d
    BY <1>4, StepIsPlanned DEF WriteMarker, Goto, IInv, TypeOK
  <2>2. Mutex' /\ Builds' /\ \A q \in Procs : pc'[q] \in Loaded => q = p
    BY <1>1, <1>2, <2>1, HolderIsAlone
  <2>3. Copies'
    BY <1>1, <2>1, <2>2 DEF IInv, Copies, Loaded
  <2>4. Supported'
    BY <1>1, <2>0, <2>1 DEF IInv, Supported
  <2>5. Plans'
    BY <1>1, <1>2, <2>1, <2>2 DEF IInv, Plans, Skipped, Loaded
  <2>6. Migrated'
    BY <1>1, <2>0, <2>1, <2>2
       DEF IInv, Migrated, Own, Skipped, Old, Current, StoreCurrent, StorePresent,
           HalfCreated, Loaded
  <2> QED BY <1>3, <2>2, <2>3, <2>4, <2>5, <2>6 DEF IInv
<1>5. CASE ~(StoreCurrent(d) \/ ~StorePresent(d))
  <2>0. store[d] \in Old \cup {"partial"}
    BY <1>2, <1>5 DEF StoreCurrent, StorePresent, Stores, Old, IInv, TypeOK
  <2>1. /\ UNCHANGED gui /\ pc'[p] = "off"
        /\ \A q \in Procs \ {p} : ver'[q] = ver[q]
    BY <1>2, <1>5, <2>0 DEF WriteMarker, Return, Goto, IInv, TypeOK
  <2>2. \A q \in Procs : pc'[q] \in {"off", "lock"}
    BY <1>1, <1>2, <2>1 DEF IInv, Mutex, Holds
  <2>3. Mutex' /\ Copies' /\ Plans' /\ Migrated'
    BY <2>2 DEF Mutex, Holds, Copies, Plans, Migrated, Loaded
  <2>4. Builds'
    BY <1>1, <1>2, <2>0, <2>1 DEF IInv, Builds, Own
  <2>5. Supported'
    BY <1>1, <1>2, <2>0, <2>1 DEF IInv, Supported
  <2> QED BY <1>3, <2>3, <2>4, <2>5 DEF IInv
<1> QED BY <1>4, <1>5

(* The step is recorded: its domain is marked and its store migrated. *)
LEMMA NotedStep ==
    ASSUME IInv, TypeOK', NEW p \in Procs, NoteStep(p)
    PROVE  IInv'
<1> DEFINE d == Step(p)
<1>1. /\ UNCHANGED <<marker, store, gui, script, installed, ver, overtaken>>
      /\ pc[p] = "note" /\ pc'[p] = "apply" /\ \A q \in Procs \ {p} : pc'[q] = pc[q]
      /\ mem'[p] = ledger' /\ ledger'.high = mem[p].high
      /\ ledger'.done = mem[p].done \cup {d} /\ plan'[p] = plan[p] \ {d}
  BY DEF NoteStep, Persist, Reconciled, Goto, files, IInv, TypeOK, Ledgers
<1>2. Holds(p) /\ ver[p] \in Nat /\ mem[p] = ledger /\ ledger.high = ver[p]
  BY <1>1, HolderKnows DEF Loaded
<1>3. /\ d \in marker
      /\ ~overtaken => store[d] \notin Old
      /\ Own(p) => store[d] \notin Old \cup {"partial"}
      /\ d \in Domains /\ d \in plan[p] /\ d \in Frontier[ver[p]]
      /\ store[d] # "outdated"
  BY <1>1, StepIsPlanned DEF IInv, Plans, Migrated, TypeOK, Loaded
<1>4. Mutex' /\ Builds' /\ \A q \in Procs : pc'[q] \in Loaded => q = p
  BY <1>1, <1>2, HolderIsAlone
<1>5. Copies'
  BY <1>1, <1>2, <1>4 DEF Copies
<1>6. Marked' /\ Supported'
  BY <1>1, <1>2, <1>3 DEF IInv, Marked, HighDomains, Supported, Old
<1>7. Plans'
  BY <1>1, <1>2, <1>4 DEF IInv, Plans, Skipped, Loaded
<1>8. Migrated'
  <2>1. /\ Own(p) => Current(d)
        /\ ~overtaken => Current(d) \/ HalfCreated(d)
    BY <1>3 DEF IInv, TypeOK, Stores, Old, Current, StoreCurrent, StorePresent, HalfCreated
  <2>2. Skipped(p)' = Skipped(p) \cup {d}
    BY <1>1, <1>3 DEF Skipped
  <2> QED BY <1>1, <1>3, <1>4, <2>1, <2>2
             DEF IInv, Migrated, Own, Current, StoreCurrent, StorePresent, HalfCreated, Loaded
<1> QED BY <1>4, <1>5, <1>6, <1>7, <1>8 DEF IInv

(* A ready client writes a store in the shape of its build, which is not older
   than the high-water, or leaves it half created. *)
LEMMA UseStep ==
    ASSUME IInv, TypeOK', UseStore \/ UseFails
    PROVE  IInv'
<1>1. /\ UNCHANGED <<ledger, marker, gui, script, installed, pc, ver, mem, plan, overtaken>>
      /\ gui.state = "ready"
  BY DEF UseStore, UseFails, files, admission
<1>2. PICK d \in Domains :
        /\ store[d] = "absent"
        /\ \/ store' = [store EXCEPT ![d] =
                           IF d \in Frontier[gui.ver] THEN "current" ELSE "legacy"]
           \/ store' = [store EXCEPT ![d] = "partial"]
  BY UpdateAssumption DEF UpdateAssumption, UseStore, UseFails
<1>3. /\ \A e \in Domains \ {d} : store'[e] = store[e]
      /\ store'[d] \in {"current", "legacy", "partial"}
  BY <1>2 DEF IInv, TypeOK
<1>4. ~overtaken /\ d \in HighDomains => store'[d] \in {"current", "partial"}
  <2>1. gui.ver \in Versions /\ (~overtaken => ledger.high <= gui.ver)
    BY <1>1 DEF IInv, Builds, Supported
  <2>2. ~overtaken => HighDomains \subseteq Frontier[gui.ver]
    BY <2>1, HighDomainsAdmitted DEF IInv
  <2> QED BY <1>2, <2>2 DEF IInv, TypeOK
<1>5. \A q \in Procs : Step(q)' = Step(q)
  BY <1>1, StepIsPlanned
<1>6. Mutex' /\ Builds' /\ Copies' /\ Marked'
  BY <1>1 DEF IInv, Mutex, Holds, Builds, Copies, Marked, HighDomains
<1>7. Supported'
  BY <1>1, <1>3, <1>4 DEF IInv, Supported, Old, Marked, TypeOK
<1>8. Plans'
  BY <1>1, <1>5 DEF IInv, Plans, Skipped
<1>9. Migrated'
  <2> SUFFICES ASSUME NEW p \in Procs, pc[p] \in Loaded
               PROVE  /\ ~overtaken => /\ \A e \in Skipped(p) : Current(e)' \/ HalfCreated(e)'
                                       /\ pc[p] \in {"marker", "note"} => store'[Step(p)] \notin Old
                      /\ \A e \in plan[p] : store'[e] # "outdated"
                      /\ pc[p] \in {"apply", "marker", "note"} =>
                            \A e \in Skipped(p) : store'[e] # "outdated"
    BY <1>1, <1>5 DEF Migrated, Own, Skipped
  <2>1. /\ HighDomains \subseteq Frontier[ver[p]] /\ Skipped(p) \subseteq Domains
        /\ plan[p] \subseteq Domains
        /\ pc[p] # "high" => HighDomains = Frontier[ver[p]]
    BY HolderKnows, FrontierGrows DEF Skipped, IInv, TypeOK
  <2>2. ASSUME ~overtaken, NEW e \in Skipped(p) PROVE Current(e)' \/ HalfCreated(e)'
    <3>1. Current(e) \/ HalfCreated(e)
      BY <2>2 DEF IInv, Migrated
    <3>2. CASE e # d
      BY <1>1, <1>3, <2>1, <3>1, <3>2 DEF Current, StoreCurrent, StorePresent, HalfCreated
    <3>3. CASE e = d
      <4>1. d \in marker
        BY <1>2, <3>1, <3>3 DEF Current, StoreCurrent, HalfCreated
      <4> QED BY <1>4, <2>2, <3>3, <4>1
                 DEF IInv, Marked, Current, StoreCurrent, HalfCreated
    <3> QED BY <3>2, <3>3
  <2>3. ASSUME ~overtaken, pc[p] \in {"marker", "note"} PROVE store'[Step(p)] \notin Old
    <3>1. Step(p) \in HighDomains /\ store[Step(p)] \notin Old /\ Step(p) \in Domains
      BY <2>1, <2>3, StepIsPlanned DEF IInv, Plans, Migrated
    <3> QED BY <1>3, <1>4, <2>3, <3>1 DEF Old
  <2>4. \A e \in Domains : store[e] # "outdated" => store'[e] # "outdated"
    BY <1>3
  <2> QED BY <2>1, <2>2, <2>3, <2>4 DEF IInv, Migrated
<1> QED BY <1>6, <1>7, <1>8, <1>9 DEF IInv

-----------------------------------------------------------------------------
(* Every step.                                                             *)

\* TypeOK in parts, one for each group of variables.
FilesOK ==
    /\ installed \in Versions \cup {0}
    /\ backup \in [Versions -> Versions \cup {0}]
    /\ handoff \in [state : {"none", "pending", "claimed"}, to : Versions \cup {0}]
    /\ rejected \in BOOLEAN
StateOK ==
    /\ ledger \in Ledgers
    /\ marker \subseteq Domains
    /\ store \in [Domains -> Stores]
AdmissionOK ==
    /\ pc \in [Procs -> AdmitPcs] /\ ver \in [Procs -> Versions \cup {0}]
    /\ mem \in [Procs -> Ledgers] /\ plan \in [Procs -> SUBSET Domains]
GuiOK ==
    gui \in [state : {"off", "admitting", "ready", "closed"},
             ver : Versions \cup {0}, tie : {"none", "old", "new"},
             proc : Procs \cup {"none"}]
ScriptOK == script \in [pc : ScriptPcs, to : Versions \cup {0}]
CountersOK ==
    /\ crashes \in 0..MaxCrashes /\ faults \in 0..MaxFaults
    /\ installs \in 0..MaxInstalls /\ starts \in 0..MaxStarts

(* The parts make the whole, and a part that does not change stays. *)
LEMMA TypeParts ==
    /\ TypeOK => /\ FilesOK /\ StateOK /\ AdmissionOK /\ GuiOK /\ ScriptOK
                 /\ overtaken \in BOOLEAN /\ CountersOK
    /\ /\ FilesOK' /\ StateOK' /\ AdmissionOK' /\ GuiOK' /\ ScriptOK'
       /\ overtaken' \in BOOLEAN /\ CountersOK'
       => TypeOK'
    /\ FilesOK /\ UNCHANGED files => FilesOK'
    /\ StateOK /\ UNCHANGED state => StateOK'
    /\ AdmissionOK /\ UNCHANGED admission => AdmissionOK'
    /\ GuiOK /\ UNCHANGED gui => GuiOK'
    /\ ScriptOK /\ UNCHANGED script => ScriptOK'
    /\ CountersOK /\ UNCHANGED counters => CountersOK'
<1>1. /\ TypeOK => /\ FilesOK /\ StateOK /\ AdmissionOK /\ GuiOK /\ ScriptOK
                   /\ overtaken \in BOOLEAN /\ CountersOK
      /\ /\ FilesOK' /\ StateOK' /\ AdmissionOK' /\ GuiOK' /\ ScriptOK'
         /\ overtaken' \in BOOLEAN /\ CountersOK'
         => TypeOK'
  BY DEF TypeOK, FilesOK, StateOK, AdmissionOK, GuiOK, ScriptOK, CountersOK
<1>2. /\ FilesOK /\ UNCHANGED files => FilesOK'
      /\ StateOK /\ UNCHANGED state => StateOK'
      /\ AdmissionOK /\ UNCHANGED admission => AdmissionOK'
  BY DEF FilesOK, StateOK, AdmissionOK, files, state, admission
<1>3. /\ GuiOK /\ UNCHANGED gui => GuiOK'
      /\ ScriptOK /\ UNCHANGED script => ScriptOK'
      /\ CountersOK /\ UNCHANGED counters => CountersOK'
  BY DEF GuiOK, ScriptOK, CountersOK, counters
<1> QED BY <1>1, <1>2, <1>3

(* A process moves to a step. *)
LEMMA GotoTypes ==
    ASSUME AdmissionOK, NEW p, NEW s \in AdmitPcs, Goto(p, s)
    PROVE  /\ pc' \in [Procs -> AdmitPcs]
           /\ UNCHANGED <<ver, mem, plan>> => AdmissionOK'
BY DEF AdmissionOK, Goto

(* A process returns. *)
LEMMA ReturnTypes ==
    ASSUME AdmissionOK, GuiOK, NEW p \in Procs, NEW answer \in {"closed", "ready"},
           Return(p, answer)
    PROVE  AdmissionOK' /\ GuiOK'
<1>1. NoLedger \in Ledgers /\ "off" \in AdmitPcs
  BY DEF NoLedger, Ledgers, AdmitPcs
<1>2. pc' \in [Procs -> AdmitPcs] /\ mem' \in [Procs -> Ledgers]
  BY <1>1 DEF Return, Goto, AdmissionOK
<1>3. ver' \in [Procs -> Versions \cup {0}] /\ plan' \in [Procs -> SUBSET Domains]
  BY DEF Return, AdmissionOK
<1>4. GuiOK'
  BY DEF Return, GuiOK
<1> QED BY <1>2, <1>3, <1>4 DEF AdmissionOK

(* A process writes a ledger and moves on. *)
LEMMA PersistTypes ==
    ASSUME AdmissionOK, StateOK, NEW p \in Procs, NEW led \in Ledgers, Persist(p, led),
           UNCHANGED <<marker, store>>
    PROVE  mem' \in [Procs -> Ledgers] /\ StateOK'
BY DEF Persist, AdmissionOK, StateOK

(* A process is started. *)
LEMMA StartTypes ==
    ASSUME AdmissionOK, FilesOK, NEW p \in Procs, NEW tie \in {"none", "old", "new"},
           Start(p, tie)
    PROVE  AdmissionOK' /\ GuiOK'
<1>1. pc' \in [Procs -> AdmitPcs]
  BY DEF Start, Goto, AdmissionOK, AdmitPcs
<1>2. ver' \in [Procs -> Versions \cup {0}]
  BY DEF Start, AdmissionOK, FilesOK
<1> QED BY <1>1, <1>2 DEF Start, AdmissionOK, GuiOK, FilesOK

(* A fault is counted. *)
LEMMA FaultTypes ==
    ASSUME CountersOK, faults < MaxFaults, faults' = faults + 1,
           UNCHANGED <<crashes, installs, starts>>
    PROVE  CountersOK'
BY UpdateAssumption DEF UpdateAssumption, CountersOK

(* The script moves to a step. *)
LEMMA ScriptTypes ==
    ASSUME ScriptOK, NEW s \in ScriptPcs, ScriptGoto(s)
    PROVE  ScriptOK' /\ (script'.pc = s) /\ (s # "off" => script'.to = script.to)
BY DEF ScriptOK, ScriptGoto, NoScript, ScriptPcs

(* The steps of an admission keep the types. *)
LEMMA AdmissionTypes ==
    ASSUME IInv, NEW p \in Procs,
           \/ Lock(p) \/ AdmitStep(p) \/ ClaimFails(p) \/ ProcessFails(p) \/ UserStarts(p)
    PROVE  TypeOK'
<1>0. FilesOK /\ StateOK /\ AdmissionOK /\ GuiOK /\ ScriptOK /\ overtaken \in BOOLEAN /\ CountersOK
  BY TypeParts DEF IInv
<1> USE <1>0
<1>1. CASE Lock(p)
  <2>1. AdmissionOK'
    BY <1>1, GotoTypes DEF Lock, AdmitPcs
  <2> QED BY <1>1, TypeParts, <2>1 DEF Lock
<1>2. CASE ReadHandoff(p)
  <2>1. \E s \in AdmitPcs : Goto(p, s)
    BY <1>2 DEF ReadHandoff, AdmitPcs, FilesOK
  <2>2. AdmissionOK'
    BY <1>2, <2>1, GotoTypes DEF ReadHandoff
  <2> QED BY <1>2, TypeParts, <2>1, <2>2 DEF ReadHandoff
<1>3. CASE WriteClaim(p)
  <2>1. AdmissionOK'
    BY <1>3, GotoTypes DEF WriteClaim, AdmitPcs
  <2>2. FilesOK'
    BY <1>3 DEF WriteClaim, FilesOK, AdmissionOK
  <2> QED BY <1>3, TypeParts, <2>1, <2>2 DEF WriteClaim, state
<1>4. CASE DropBackup(p)
  <2>1. AdmissionOK'
    BY <1>4, GotoTypes DEF DropBackup, AdmitPcs
  <2>2. backup' \in [Versions -> Versions \cup {0}]
    BY <1>4 DEF DropBackup, FilesOK
  <2>3. FilesOK'
    BY <1>4, <2>2 DEF DropBackup, FilesOK
  <2> QED BY <1>4, TypeParts, <2>1, <2>2, <2>3 DEF DropBackup, state
<1>5. CASE Reject(p)
  <2>1. AdmissionOK' /\ GuiOK'
    BY <1>5, ReturnTypes DEF Reject
  <2>2. FilesOK'
    BY <1>5 DEF Reject, FilesOK, HandoffIsClaimed
  <2> QED BY <1>5, TypeParts, <2>1, <2>2 DEF Reject, state
<1>6. CASE LoadAndProbe(p)
  <2>1. Planned(ver[p]) \in SUBSET Domains
    BY <1>6, FrontierGrows DEF LoadAndProbe, Planned, IInv, Builds
  <2>2. CASE NotOlder(ver[p]) /\ Admissible(ver[p])
    <3>1. mem' \in [Procs -> Ledgers] /\ plan' \in [Procs -> SUBSET Domains]
      BY <1>6, <2>1, <2>2 DEF LoadAndProbe, AdmissionOK, StateOK
    <3>2. pc' \in [Procs -> AdmitPcs] /\ UNCHANGED <<gui, ver>>
      BY <1>6, <2>2, GotoTypes DEF LoadAndProbe, AdmitPcs
    <3>3. AdmissionOK'
      BY <3>1, <3>2 DEF AdmissionOK
    <3> QED BY <1>6, <3>2, <3>3, TypeParts DEF LoadAndProbe
  <2>3. CASE ~(NotOlder(ver[p]) /\ Admissible(ver[p]))
    BY <1>6, <2>3, ReturnTypes, TypeParts DEF LoadAndProbe
  <2> QED BY <2>2, <2>3
<1>7. CASE RecordHighWater(p)
  <2>1. [mem[p] EXCEPT !.high = ver[p]] \in Ledgers
    BY <1>7 DEF RecordHighWater, AdmissionOK, Ledgers
  <2>2. mem' \in [Procs -> Ledgers] /\ StateOK'
    BY <1>7, <2>1, PersistTypes DEF RecordHighWater
  <2>3. AdmissionOK'
    BY <1>7, <2>2, GotoTypes DEF RecordHighWater, AdmitPcs, AdmissionOK
  <2> QED BY <1>7, TypeParts, <2>1, <2>2, <2>3 DEF RecordHighWater
<1>8. CASE ReconcileMarker(p)
  <2>1. Frontier[ver[p]] \in SUBSET Domains
    BY <1>8, FrontierGrows DEF ReconcileMarker, IInv, Builds
  <2>2. StateOK'
    BY <1>8, <2>1 DEF ReconcileMarker, Skipped, StateOK
  <2> QED BY <1>8, TypeParts, <2>1, <2>2 DEF ReconcileMarker
<1>9. CASE ReconcileLedger(p)
  <2>1. Frontier[ver[p]] \in SUBSET Domains
    BY <1>9, FrontierGrows DEF ReconcileLedger, IInv, Builds
  <2>2. Reconciled(mem[p], Skipped(p)) \in Ledgers
    BY <1>9, <2>1 DEF ReconcileLedger, Skipped, Reconciled, AdmissionOK, Ledgers
  <2>3. mem' \in [Procs -> Ledgers] /\ StateOK'
    BY <1>9, <2>2, PersistTypes DEF ReconcileLedger
  <2>4. AdmissionOK'
    BY <1>9, <2>3, GotoTypes DEF ReconcileLedger, AdmitPcs, AdmissionOK
  <2> QED BY <1>9, TypeParts, <2>1, <2>2, <2>3, <2>4 DEF ReconcileLedger
<1>10. CASE CreateStore(p) \/ VersionStore(p) \/ UpgradeStore(p)
  <2>1. StateOK'
    BY <1>10 DEF CreateStore, VersionStore, UpgradeStore, Stores, StateOK
  <2> QED BY <1>10, TypeParts, <2>1 DEF CreateStore, VersionStore, UpgradeStore
<1>11. CASE MigrateStore(p)
  <2>1. store' \in [Domains -> Stores]
    BY <1>11 DEF MigrateStore, Stores, StateOK
  <2>2. StateOK'
    BY <1>11, <2>1 DEF MigrateStore, StateOK
  <2>3. AdmissionOK'
    BY <1>11, GotoTypes DEF MigrateStore, AdmitPcs
  <2> QED BY <1>11, TypeParts, <2>1, <2>2, <2>3 DEF MigrateStore
<1>12. CASE WriteMarker(p)
  <2>1. Step(p) \in Domains
    BY <1>12, StepIsPlanned DEF WriteMarker, IInv, Plans, Loaded, AdmissionOK
  <2>2. StateOK'
    BY <1>12, <2>1 DEF WriteMarker, StateOK
  <2>3. AdmissionOK' /\ GuiOK'
    BY <1>12, GotoTypes, ReturnTypes, TypeParts DEF WriteMarker, AdmitPcs
  <2> QED BY <1>12, TypeParts, <2>1, <2>2, <2>3 DEF WriteMarker
<1>13. CASE NoteStep(p)
  <2>1. Step(p) \in Domains
    BY <1>13, StepIsPlanned DEF NoteStep, IInv, Plans, Loaded, AdmissionOK
  <2>2. Reconciled(mem[p], {Step(p)}) \in Ledgers
    BY <1>13, <2>1 DEF NoteStep, Reconciled, AdmissionOK, Ledgers
  <2>3. mem' \in [Procs -> Ledgers] /\ StateOK'
    BY <1>13, <2>2, PersistTypes DEF NoteStep
  <2>4. plan' \in [Procs -> SUBSET Domains]
    BY <1>13 DEF NoteStep, AdmissionOK
  <2>5. AdmissionOK'
    BY <1>13, <2>3, <2>4, GotoTypes DEF NoteStep, AdmitPcs, AdmissionOK
  <2> QED BY <1>13, TypeParts, <2>1, <2>2, <2>3, <2>4, <2>5 DEF NoteStep
<1>14. CASE FinishAdmission(p)
  <2>1. AdmissionOK' /\ GuiOK'
    BY <1>14, ReturnTypes DEF FinishAdmission
  <2>2. FilesOK'
    BY <1>14 DEF FinishAdmission, FilesOK, NoHandoff
  <2> QED BY <1>14, TypeParts, <2>1, <2>2 DEF FinishAdmission, state
<1>15. CASE ClaimFails(p)
  <2>1. AdmissionOK'
    BY <1>15, GotoTypes DEF ClaimFails, AdmitPcs
  <2>2. CountersOK'
    BY <1>15, FaultTypes DEF ClaimFails
  <2> QED BY <1>15, TypeParts, <2>1, <2>2 DEF ClaimFails
<1>16. CASE ProcessFails(p)
  <2>1. AdmissionOK' /\ GuiOK'
    BY <1>16, ReturnTypes DEF ProcessFails
  <2>2. CountersOK'
    BY <1>16, FaultTypes DEF ProcessFails
  <2> QED BY <1>16, TypeParts, <2>1, <2>2 DEF ProcessFails
<1>17. CASE UserStarts(p)
  <2>1. AdmissionOK' /\ GuiOK'
    BY <1>17, StartTypes DEF UserStarts
  <2>2. CountersOK'
    BY <1>17, UpdateAssumption DEF UserStarts, UpdateAssumption, CountersOK
  <2> QED BY <1>17, TypeParts, <2>1, <2>2 DEF UserStarts
<1> QED BY <1>1, <1>2, <1>3, <1>4, <1>5, <1>6, <1>7, <1>8, <1>9, <1>10, <1>11, <1>12,
           <1>13, <1>14, <1>15, <1>16, <1>17
        DEF AdmitStep

(* A step of the client or of the script, and the end of the machine. *)
LEMMA OutsideStep ==
    ASSUME IInv,
           \/ ClientEnds \/ UseStore \/ UseFails \/ ScriptStep \/ ScriptFault \/ MachineStops
           \/ \E v \in Versions : InstallByHand(v) \/ PrepareHandoff(v)
    PROVE  IInv'
<1>0. FilesOK /\ StateOK /\ AdmissionOK /\ GuiOK /\ ScriptOK /\ overtaken \in BOOLEAN /\ CountersOK
  BY TypeParts DEF IInv
<1>a. script.pc # "off" => script.to \in Versions
  BY DEF IInv, Builds
<1>b. script.pc = "launch" => installed # 0
  BY DEF IInv, Builds
<1>c. \A v \in Versions : v # 0
  BY FrontierGrows
<1>d. UNCHANGED script /\ (UNCHANGED installed \/ installed' \in Versions) => ScriptGoesOn
  BY <1>a, <1>b, <1>c DEF ScriptGoesOn
<1>e. UNCHANGED <<state, admission, overtaken>> /\ (UNCHANGED gui \/ gui' = NoGui) => Elsewhere
  BY DEF Elsewhere
<1>f. gui' = NoGui => GuiOK'
  BY DEF NoGui, GuiOK
<1>g. handoff' = NoHandoff /\ UNCHANGED <<installed, backup, rejected>> => FilesOK'
  BY <1>0 DEF NoHandoff, FilesOK
<1>h. ASSUME NEW s \in ScriptPcs, ScriptGoto(s), script.pc # "off", s = "launch" => installed' # 0
      PROVE  ScriptOK' /\ ScriptGoesOn
  BY <1>0, <1>a, <1>h, ScriptTypes DEF ScriptGoesOn
<1> USE <1>0
<1>1. CASE ClientEnds
  <2>1. TypeOK'
    BY <1>1, <1>f, TypeParts DEF ClientEnds
  <2>2. Elsewhere /\ ScriptGoesOn
    BY <1>1, <1>d, <1>e DEF ClientEnds, files
  <2> QED BY <2>1, <2>2, ElsewhereStep DEF ClientEnds
<1>2. CASE UseStore \/ UseFails
  <2>1. StateOK'
    BY <1>2 DEF UseStore, UseFails, Stores, StateOK
  <2>2. CountersOK'
    BY <1>2, FaultTypes, TypeParts DEF UseStore, UseFails
  <2>3. TypeOK'
    BY <1>2, <2>1, <2>2, TypeParts DEF UseStore, UseFails
  <2> QED BY <1>2, <2>3, UseStep
<1>3. ASSUME NEW v \in Versions, InstallByHand(v) PROVE IInv'
  <2>1. FilesOK'
    BY <1>3 DEF InstallByHand, FilesOK
  <2>2. CountersOK'
    BY <1>3, UpdateAssumption DEF InstallByHand, UpdateAssumption, CountersOK
  <2>3. TypeOK'
    BY <1>3, <2>1, <2>2, TypeParts DEF InstallByHand
  <2>4. Elsewhere /\ ScriptGoesOn
    BY <1>3, <1>d, <1>e DEF InstallByHand
  <2> QED BY <2>3, <2>4, ElsewhereStep DEF InstallByHand
<1>4. ASSUME NEW v \in Versions, PrepareHandoff(v) PROVE IInv'
  <2>1. FilesOK'
    BY <1>4 DEF PrepareHandoff, FilesOK
  <2>2. ScriptOK'
    BY <1>4 DEF PrepareHandoff, ScriptOK, ScriptPcs
  <2>3. GuiOK'
    BY <1>4 DEF PrepareHandoff, GuiOK
  <2>4. TypeOK'
    BY <1>4, <2>1, <2>2, <2>3, TypeParts DEF PrepareHandoff, state
  <2>5. Elsewhere
    BY <1>4 DEF PrepareHandoff, Elsewhere, GuiOK
  <2>6. ScriptGoesOn
    BY <1>4 DEF PrepareHandoff, ScriptGoesOn
  <2> QED BY <2>4, <2>5, <2>6, ElsewhereStep DEF PrepareHandoff
<1>5. CASE DispatchScript
  <2>1. ScriptOK' /\ ScriptGoesOn
    BY <1>5, <1>h DEF DispatchScript, ScriptPcs
  <2>2. TypeOK'
    BY <1>5, <2>1, TypeParts DEF DispatchScript
  <2>3. Elsewhere
    BY <1>5, <1>e DEF DispatchScript
  <2> QED BY <2>1, <2>2, <2>3, ElsewhereStep DEF DispatchScript
<1>6. CASE DispatchFails
  <2>1. ScriptOK' /\ ScriptGoesOn
    BY <1>6, <1>h DEF DispatchFails, ScriptPcs
  <2>2. FilesOK'
    BY <1>6, <1>g DEF DispatchFails
  <2>3. CountersOK'
    BY <1>6, FaultTypes DEF DispatchFails
  <2>4. TypeOK'
    BY <1>6, <2>1, <2>2, <2>3, TypeParts DEF DispatchFails
  <2>5. Elsewhere
    BY <1>6, <1>e DEF DispatchFails
  <2> QED BY <2>1, <2>4, <2>5, ElsewhereStep DEF DispatchFails
<1>7. CASE MoveToBackup
  <2>1. backup' \in [Versions -> Versions \cup {0}]
    BY <1>7 DEF MoveToBackup, FilesOK
  <2>2. ScriptOK' /\ ScriptGoesOn
    BY <1>7, <1>h, <2>1 DEF MoveToBackup, ScriptPcs
  <2>3. FilesOK'
    BY <1>7, <2>1 DEF MoveToBackup, FilesOK
  <2>4. TypeOK'
    BY <1>7, <2>2, <2>3, TypeParts DEF MoveToBackup
  <2>5. Elsewhere
    BY <1>7, <1>e DEF MoveToBackup
  <2> QED BY <2>2, <2>4, <2>5, ElsewhereStep DEF MoveToBackup
<1>8. CASE ScriptAborts
  <2>1. ScriptOK' /\ ScriptGoesOn
    BY <1>8, <1>h DEF ScriptAborts, ScriptPcs
  <2>2. CountersOK'
    BY <1>8, FaultTypes DEF ScriptAborts
  <2>3. TypeOK'
    BY <1>8, <2>1, <2>2, TypeParts DEF ScriptAborts
  <2>4. Elsewhere
    BY <1>8, <1>e DEF ScriptAborts
  <2> QED BY <2>1, <2>3, <2>4, ElsewhereStep DEF ScriptAborts
<1>9. CASE CopyBundle
  <2>1. installed' # 0
    BY <1>9, <1>a, <1>c DEF CopyBundle
  <2>2. ScriptOK' /\ ScriptGoesOn
    BY <1>9, <1>h, <2>1 DEF CopyBundle, ScriptPcs
  <2>3. FilesOK'
    BY <1>9 DEF CopyBundle, FilesOK, ScriptOK
  <2>4. TypeOK'
    BY <1>9, <2>2, <2>3, TypeParts DEF CopyBundle
  <2>5. Elsewhere
    BY <1>9, <1>e DEF CopyBundle
  <2> QED BY <2>2, <2>4, <2>5, ElsewhereStep DEF CopyBundle
<1>10. CASE CopyFails
  <2>1. ScriptOK' /\ ScriptGoesOn
    BY <1>10, <1>h DEF CopyFails, ScriptPcs
  <2>2. CountersOK'
    BY <1>10, FaultTypes DEF CopyFails
  <2>3. TypeOK'
    BY <1>10, <2>1, <2>2, TypeParts DEF CopyFails
  <2>4. Elsewhere
    BY <1>10, <1>e DEF CopyFails
  <2> QED BY <2>1, <2>3, <2>4, ElsewhereStep DEF CopyFails
<1>11. CASE LaunchCandidate
  <2>1. ScriptOK' /\ ScriptGoesOn
    BY <1>11, <1>h DEF LaunchCandidate, ScriptPcs
  <2>2. CASE gui.state = "off"
    <3>1. PICK p \in Procs : Start(p, "new")
      BY <1>11, <2>2 DEF LaunchCandidate
    <3>2. AdmissionOK' /\ GuiOK'
      BY <3>1, StartTypes
    <3>3. TypeOK'
      BY <1>11, <2>1, <3>2, TypeParts DEF LaunchCandidate
    <3> QED BY <1>11, <1>b, <2>1, <3>1, <3>3, StartStep DEF LaunchCandidate, files
  <2>3. CASE gui.state # "off"
    <3>1. TypeOK'
      BY <1>11, <2>1, <2>3, TypeParts DEF LaunchCandidate
    <3>2. Elsewhere
      BY <1>11, <1>e, <2>3 DEF LaunchCandidate
    <3> QED BY <2>1, <3>1, <3>2, ElsewhereStep
  <2> QED BY <2>2, <2>3
<1>12. CASE SeeRejection
  <2>1. \E s \in {"kill", "check"} : ScriptGoto(s)
    BY <1>12 DEF SeeRejection
  <2>2. ScriptOK' /\ ScriptGoesOn
    BY <1>12, <1>h, <2>1 DEF SeeRejection, ScriptPcs
  <2>3. TypeOK'
    BY <1>12, <2>2, TypeParts DEF SeeRejection
  <2>4. Elsewhere
    BY <1>12, <1>e DEF SeeRejection
  <2> QED BY <2>2, <2>3, <2>4, ElsewhereStep DEF SeeRejection
<1>13. CASE SeeClaim
  <2>1. \E s \in {"probe", "off"} : ScriptGoto(s)
    BY <1>13 DEF SeeClaim
  <2>2. ScriptOK' /\ ScriptGoesOn
    BY <1>13, <1>h, <2>1 DEF SeeClaim, ScriptPcs
  <2>3. TypeOK'
    BY <1>13, <2>2, TypeParts DEF SeeClaim
  <2>4. Elsewhere
    BY <1>13, <1>e DEF SeeClaim
  <2> QED BY <2>2, <2>3, <2>4, ElsewhereStep DEF SeeClaim
<1>14. CASE SeeCandidate
  <2>1. \E s \in {"watch", "restore"} : ScriptGoto(s)
    BY <1>14 DEF SeeCandidate
  <2>2. ScriptOK' /\ ScriptGoesOn
    BY <1>14, <1>h, <2>1 DEF SeeCandidate, ScriptPcs
  <2>3. TypeOK'
    BY <1>14, <2>2, TypeParts DEF SeeCandidate
  <2>4. Elsewhere
    BY <1>14, <1>e DEF SeeCandidate
  <2> QED BY <2>2, <2>3, <2>4, ElsewhereStep DEF SeeCandidate
<1>15. CASE KillCandidate
  <2>1. ScriptOK' /\ ScriptGoesOn
    BY <1>15, <1>h DEF KillCandidate, ScriptPcs
  <2>2. GuiOK'
    BY <1>15, <1>f DEF KillCandidate, GuiOK
  <2>3. TypeOK'
    BY <1>15, <2>1, <2>2, TypeParts DEF KillCandidate
  <2>4. Elsewhere
    BY <1>15, <1>e DEF KillCandidate
  <2> QED BY <2>1, <2>3, <2>4, ElsewhereStep DEF KillCandidate
<1>16. CASE RestoreBackup
  <2>1. backup' \in [Versions -> Versions \cup {0}]
    BY <1>16 DEF RestoreBackup, FilesOK
  <2>2. ScriptOK' /\ ScriptGoesOn
    BY <1>16, <1>h, <2>1 DEF RestoreBackup, ScriptPcs
  <2>3. FilesOK'
    BY <1>16, <1>a, <2>1 DEF RestoreBackup, FilesOK
  <2>4. TypeOK'
    BY <1>16, <2>2, <2>3, TypeParts DEF RestoreBackup
  <2>5. Elsewhere
    BY <1>16, <1>e DEF RestoreBackup
  <2> QED BY <2>2, <2>4, <2>5, ElsewhereStep DEF RestoreBackup
<1>17. CASE RemoveHandoff
  <2>1. ScriptOK' /\ ScriptGoesOn
    BY <1>17, <1>h DEF RemoveHandoff, ScriptPcs
  <2>2. FilesOK'
    BY <1>17, <1>g DEF RemoveHandoff
  <2>3. TypeOK'
    BY <1>17, <2>1, <2>2, TypeParts DEF RemoveHandoff
  <2>4. Elsewhere
    BY <1>17, <1>e DEF RemoveHandoff
  <2> QED BY <2>1, <2>3, <2>4, ElsewhereStep DEF RemoveHandoff
<1>18. CASE RemoveRejection
  <2>1. ScriptOK' /\ ScriptGoesOn
    BY <1>18, <1>h DEF RemoveRejection, ScriptPcs
  <2>2. FilesOK'
    BY <1>18 DEF RemoveRejection, FilesOK
  <2>3. TypeOK'
    BY <1>18, <2>1, <2>2, TypeParts DEF RemoveRejection
  <2>4. Elsewhere
    BY <1>18, <1>e DEF RemoveRejection
  <2> QED BY <2>1, <2>3, <2>4, ElsewhereStep DEF RemoveRejection
<1>19. CASE MachineStops
  <2>1. /\ \A p \in Procs : pc'[p] = "off"
        /\ gui'.state = "off" /\ script'.pc = "off"
        /\ UNCHANGED <<ledger, marker, store, overtaken>>
    BY <1>19 DEF MachineStops, NoGui, NoScript, state
  <2>2. AdmissionOK'
    BY <1>19 DEF MachineStops, AdmissionOK, AdmitPcs, NoLedger, Ledgers
  <2>3. ScriptOK' /\ GuiOK'
    BY <1>19, <1>f DEF MachineStops, NoScript, ScriptOK, ScriptPcs
  <2>4. CountersOK'
    BY <1>19, UpdateAssumption DEF UpdateAssumption, MachineStops, CountersOK
  <2>5. TypeOK'
    BY <1>19, <2>2, <2>3, <2>4, TypeParts DEF MachineStops
  <2>6. Marked' /\ Supported'
    BY <2>1 DEF IInv, Marked, HighDomains, Supported, Old
  <2>7. Mutex' /\ Builds' /\ Copies' /\ Plans' /\ Migrated'
    BY <2>1 DEF Mutex, Holds, Builds, Copies, Plans, Migrated, Loaded
  <2> QED BY <2>5, <2>6, <2>7 DEF IInv
<1> QED BY <1>1, <1>2, <1>3, <1>4, <1>5, <1>6, <1>7, <1>8, <1>9, <1>10, <1>11, <1>12,
           <1>13, <1>14, <1>15, <1>16, <1>17, <1>18, <1>19
        DEF ScriptStep, ScriptFault

(* Every step keeps the invariant. *)
LEMMA NextStep ==
    ASSUME IInv, [Next]_vars
    PROVE  IInv'
<1>1. ASSUME NEW p \in Procs,
             \/ Lock(p) \/ AdmitStep(p) \/ ClaimFails(p) \/ ProcessFails(p) \/ UserStarts(p)
      PROVE  IInv'
  <2>1. TypeOK'
    BY <1>1, AdmissionTypes
  <2>2. CASE Lock(p)
    BY <2>1, <2>2, EarlyStep DEF Lock, files, AdmitPcs, Loaded
  <2>3. CASE ReadHandoff(p)
    <3>1. \E s \in {"load", "reject", "write", "drop"} : Goto(p, s)
      BY <2>3 DEF ReadHandoff, IInv, TypeOK
    <3> QED BY <2>1, <2>3, <3>1, EarlyStep
               DEF ReadHandoff, files, AdmitPcs, Loaded, Holds
  <2>4. CASE WriteClaim(p) \/ DropBackup(p) \/ ClaimFails(p)
    BY <2>1, <2>4, EarlyStep
       DEF WriteClaim, DropBackup, ClaimFails, files, AdmitPcs, Loaded, Holds
  <2>5. CASE Reject(p) \/ FinishAdmission(p) \/ ProcessFails(p)
    BY <2>1, <2>5, ReturnStep DEF Reject, FinishAdmission, ProcessFails, files
  <2>6. CASE \/ LoadAndProbe(p) \/ RecordHighWater(p)
             \/ UpgradeStore(p) \/ ReconcileMarker(p) \/ ReconcileLedger(p)
    BY <2>1, <2>6, LoadStep, HighStep, UpgradeStep, MarkStep, LedgerStep
  <2>7. CASE \/ CreateStore(p) \/ VersionStore(p) \/ MigrateStore(p)
             \/ WriteMarker(p) \/ NoteStep(p)
    BY <2>1, <2>7, StoreStep, MarkerStep, NotedStep
  <2>8. CASE UserStarts(p)
    <3>1. ScriptGoesOn
      BY <2>8 DEF UserStarts, ScriptGoesOn, files, IInv, Builds
    <3> QED BY <2>1, <2>8, <3>1, StartStep DEF UserStarts, files
  <2> QED BY <1>1, <2>2, <2>3, <2>4, <2>5, <2>6, <2>7, <2>8 DEF AdmitStep
<1>2. CASE UNCHANGED vars
  <2>1. TypeOK' /\ Elsewhere /\ ScriptGoesOn
    BY <1>2 DEF vars, files, state, admission, counters, IInv, TypeOK, Elsewhere,
                ScriptGoesOn, Builds
  <2> QED BY <2>1, ElsewhereStep
<1> QED BY <1>1, <1>2, OutsideStep DEF Next

(* The invariant is inductive. *)
LEMMA Inductive == Spec => []IInv
<1>1. Init => IInv
  <2> SUFFICES ASSUME Init PROVE IInv
    OBVIOUS
  <2>1. TypeOK
    <3>1. NoLedger \in Ledgers /\ "off" \in AdmitPcs
      BY DEF NoLedger, Ledgers, AdmitPcs
    <3>2. AdmissionOK /\ StateOK
      BY <3>1 DEF Init, AdmissionOK, StateOK
    <3>3. FilesOK /\ GuiOK /\ ScriptOK
      BY DEF Init, FilesOK, GuiOK, ScriptOK, NoHandoff, NoGui, NoScript, ScriptPcs
    <3>4. crashes = 0 /\ faults = 0 /\ installs = 0 /\ starts = 0
      BY DEF Init
    <3>5. CountersOK
      BY <3>4, UpdateAssumption DEF UpdateAssumption, CountersOK
    <3>6. overtaken \in BOOLEAN
      BY DEF Init
    <3> QED BY <3>2, <3>3, <3>5, <3>6
            DEF TypeOK, AdmissionOK, StateOK, FilesOK, GuiOK, ScriptOK, CountersOK
  <2>2. Mutex /\ Builds /\ Copies /\ Plans /\ Migrated
    BY DEF Init, Mutex, Holds, Builds, Copies, Plans, Migrated, Loaded, NoGui, NoScript
  <2>3. Marked /\ Supported
    BY DEF Init, Marked, Supported, NoLedger, NoGui
  <2> QED BY <2>1, <2>2, <2>3 DEF IInv
<1> QED BY <1>1, NextStep, PTL DEF Spec

-----------------------------------------------------------------------------
(* Theorems.                                                               *)

(* Every variable keeps its type, however often the machine stops. *)
THEOREM UpdateTypes == Spec => []TypeOK
<1>1. IInv => TypeOK
  BY DEF IInv
<1> QED BY <1>1, Inductive, PTL

\* A half-created database is being created or was left so by an interruption.
Creations == \A d \in Domains : HalfCreated(d) => CreationInterrupted(d)

(* A sum of two counters is positive when one of them is. *)
LEMMA SumPositive ==
    ASSUME NEW m \in Nat, NEW n \in Nat
    PROVE  m + n > 0 \/ (m = 0 /\ n = 0)
OBVIOUS

(* Only an admission that is at work on a database leaves it half created. *)
LEMMA CreationStep ==
    ASSUME IInv, IInv', Creations, Next
    PROVE  Creations'
<1>a. crashes \in Nat /\ faults \in Nat /\ crashes' \in Nat /\ faults' \in Nat
  BY UpdateAssumption DEF UpdateAssumption, IInv, TypeOK
<1>b. crashes' + faults' > 0 \/ (crashes' = 0 /\ faults' = 0)
  BY <1>a, SumPositive
<1> SUFFICES ASSUME NEW d \in Domains, HalfCreated(d)', crashes' = 0, faults' = 0
             PROVE  \E p \in Procs : pc'[p] = "apply" /\ plan'[p] # {} /\ d = Step(p)'
  BY <1>b DEF Creations, CreationInterrupted
<1>0. crashes \in Nat /\ faults \in Nat /\ crashes' = 0 /\ faults' = 0 /\ TypeOK
  BY <1>a DEF IInv
<1>1. ASSUME UNCHANGED <<pc, plan, crashes, faults>>, store'[d] = "partial" => store[d] = "partial"
      PROVE  \E p \in Procs : pc'[p] = "apply" /\ plan'[p] # {} /\ d = Step(p)'
  <2>1. PICK p \in Procs : pc[p] = "apply" /\ plan[p] # {} /\ d = Step(p)
    BY <1>0, <1>1 DEF Creations, HalfCreated, CreationInterrupted
  <2> QED BY <1>1, <2>1, StepIsPlanned
<1>2. ASSUME NEW q \in Procs, Holds(q) \/ LockFree, UNCHANGED <<crashes, faults>>,
             store'[d] = "partial" => store[d] = "partial",
             ~(pc[q] = "apply" /\ plan[q] # {} /\ d = Step(q))
      PROVE  FALSE
  <2>1. PICK p \in Procs : pc[p] = "apply" /\ plan[p] # {} /\ d = Step(p)
    BY <1>0, <1>2 DEF Creations, HalfCreated, CreationInterrupted
  <2> QED BY <1>2, <2>1 DEF IInv, Mutex, Holds, LockFree
<1>3. ASSUME NEW q \in Procs, NEW tie, Start(q, tie), UNCHANGED <<store, crashes, faults>>
      PROVE  \E p \in Procs : pc'[p] = "apply" /\ plan'[p] # {} /\ d = Step(p)'
  <2>1. PICK p \in Procs : pc[p] = "apply" /\ plan[p] # {} /\ d = Step(p)
    BY <1>0, <1>3 DEF Creations, HalfCreated, CreationInterrupted
  <2>2. pc'[p] = pc[p] /\ plan' = plan
    BY <1>0, <1>3, <2>1 DEF Start, Goto, TypeOK
  <2> QED BY <2>1, <2>2, StepIsPlanned
<1>4. ASSUME NEW q \in Procs,
             \/ Lock(q) \/ ReadHandoff(q) \/ WriteClaim(q) \/ DropBackup(q) \/ Reject(q)
             \/ LoadAndProbe(q) \/ RecordHighWater(q) \/ ReconcileLedger(q)
             \/ WriteMarker(q) \/ NoteStep(q) \/ FinishAdmission(q)
      PROVE  FALSE
  <2>1. /\ Holds(q) \/ LockFree
        /\ ~(pc[q] = "apply" /\ plan[q] # {} /\ d = Step(q))
    BY <1>4 DEF Lock, ReadHandoff, WriteClaim, DropBackup, Reject, LoadAndProbe,
       RecordHighWater, ReconcileLedger, WriteMarker, NoteStep, FinishAdmission, Holds
  <2>2. UNCHANGED <<store, crashes, faults>>
    BY <1>4 DEF Lock, ReadHandoff, WriteClaim, DropBackup, Reject, LoadAndProbe,
       RecordHighWater, ReconcileLedger, WriteMarker, NoteStep, FinishAdmission, state, counters
  <2> QED BY <1>2, <2>1, <2>2
<1>5. ASSUME NEW q \in Procs, CreateStore(q)
      PROVE  \E p \in Procs : pc'[p] = "apply" /\ plan'[p] # {} /\ d = Step(p)'
  <2>1. /\ pc'[q] = "apply" /\ plan'[q] # {} /\ Step(q)' = Step(q) /\ Holds(q)
        /\ UNCHANGED <<crashes, faults>>
    BY <1>5, StepIsPlanned DEF CreateStore, admission, counters, Holds
  <2>2. CASE d # Step(q)
    BY <1>0, <1>2, <1>5, <2>1, <2>2 DEF CreateStore, TypeOK
  <2> QED BY <2>1, <2>2
<1>6. ASSUME NEW q \in Procs, VersionStore(q) \/ MigrateStore(q) PROVE FALSE
  <2>1. Holds(q) /\ UNCHANGED <<crashes, faults>>
    BY <1>6 DEF VersionStore, MigrateStore, counters, Holds
  <2>2. d # Step(q) /\ store'[d] = store[d]
    BY <1>0, <1>6 DEF VersionStore, MigrateStore, HalfCreated, TypeOK
  <2> QED BY <1>2, <2>1, <2>2
<1>7. ASSUME NEW q \in Procs, UpgradeStore(q) \/ ReconcileMarker(q)
      PROVE  \E p \in Procs : pc'[p] = "apply" /\ plan'[p] # {} /\ d = Step(p)'
  <2>1. UNCHANGED <<pc, plan, crashes, faults>> /\ (store'[d] = "partial" => store[d] = "partial")
    BY <1>0, <1>7 DEF UpgradeStore, ReconcileMarker, admission, counters, TypeOK
  <2> QED BY <1>1, <2>1
<1>8. ~\/ \E q \in Procs : ClaimFails(q) \/ ProcessFails(q)
       \/ UseFails \/ ScriptFault \/ MachineStops
  BY <1>0 DEF ClaimFails, ProcessFails, UseFails, ScriptFault, DispatchFails, ScriptAborts,
     CopyFails, MachineStops
<1>9. ASSUME NEW q \in Procs, UserStarts(q)
      PROVE  \E p \in Procs : pc'[p] = "apply" /\ plan'[p] # {} /\ d = Step(p)'
  BY <1>3, <1>9 DEF UserStarts, state
<1>10. CASE LaunchCandidate
  <2>1. UNCHANGED <<store, crashes, faults>>
    BY <1>10 DEF LaunchCandidate, state, counters
  <2>2. CASE gui.state = "off"
    BY <1>3, <1>10, <2>1, <2>2 DEF LaunchCandidate
  <2>3. CASE gui.state # "off"
    <3>1. UNCHANGED <<pc, plan>>
      BY <1>10, <2>3 DEF LaunchCandidate, admission
    <3> QED BY <1>1, <2>1, <3>1
  <2> QED BY <2>2, <2>3
<1>11. CASE \/ ClientEnds \/ UseStore
            \/ \E v \in Versions : InstallByHand(v) \/ PrepareHandoff(v)
  <2>1. UNCHANGED <<pc, plan, crashes, faults>>
    BY <1>11 DEF ClientEnds, UseStore, InstallByHand, PrepareHandoff, admission, counters
  <2>2. store'[d] = "partial" => store[d] = "partial"
    BY <1>0, <1>11 DEF ClientEnds, UseStore, InstallByHand, PrepareHandoff, state, TypeOK
  <2> QED BY <1>1, <2>1, <2>2
<1>12. CASE \/ DispatchScript \/ MoveToBackup \/ CopyBundle \/ SeeRejection \/ SeeClaim
            \/ SeeCandidate \/ KillCandidate \/ RestoreBackup \/ RemoveHandoff
            \/ RemoveRejection
  <2>1. UNCHANGED <<pc, plan, store, crashes, faults>>
    BY <1>12 DEF DispatchScript, MoveToBackup, CopyBundle, SeeRejection, SeeClaim,
       SeeCandidate, KillCandidate, RestoreBackup, RemoveHandoff, RemoveRejection,
       admission, state, counters
  <2> QED BY <1>1, <2>1
<1> QED BY <1>4, <1>5, <1>6, <1>7, <1>8, <1>9, <1>10, <1>11, <1>12
        DEF Next, AdmitStep, ScriptStep

(* Wherever an admission was interrupted, a build that is not older than the
   high-water is admitted, unless a newer build was admitted under a client that
   was already ready, or the interruption left a database between its file and
   its version row. *)
THEOREM InterruptedIsAdmitted == Spec => []RestartIsAdmitted
<1>1. Init => Creations
  BY UpdateAssumption DEF UpdateAssumption, Init, Creations, HalfCreated
<1>2. IInv /\ IInv' /\ Creations /\ [Next]_vars => Creations'
  <2>1. CASE UNCHANGED vars
    BY <2>1 DEF vars, state, admission, counters, Creations, CreationInterrupted,
                HalfCreated, Step
  <2> QED BY <2>1, CreationStep
<1>3. IInv /\ Creations => RestartIsAdmitted
  <2> SUFFICES ASSUME IInv, Creations, ~overtaken, NEW v \in Versions, NotOlder(v),
                      \A d \in Frontier[v] : ~HalfCreated(d)
               PROVE  Admissible(v)
    BY FrontierGrows DEF RestartIsAdmitted, Creations
  <2>1. marker \subseteq Frontier[v] /\ ledger.done \subseteq marker
    BY HighDomainsAdmitted DEF NotOlder, IInv, Marked
  <2>2. \A d \in marker : Current(d) /\ ~Unsupported(d)
    BY <2>1 DEF IInv, Supported, TypeOK, Stores, Old, HalfCreated, Current, Unsupported,
           StoreCurrent, StorePresent
  <2> QED BY <2>1, <2>2 DEF Admissible, LedgerFits, Unsupported
<1> QED BY <1>1, <1>2, <1>3, Inductive, PTL DEF Spec

(* The high-water of the ledger never falls. *)
THEOREM HighWaterRises == Spec => HighWaterIsForward
<1>1. IInv /\ [Next]_vars => [ledger.high <= ledger'.high]_vars
  <2> SUFFICES ASSUME IInv, Next PROVE ledger.high <= ledger'.high
    OBVIOUS
  <2>1. ledger.high \in Nat
    BY FrontierGrows DEF IInv, TypeOK, Ledgers
  <2>2. ASSUME NEW p \in Procs, RecordHighWater(p) PROVE ledger.high <= ledger'.high
    BY <2>2, HolderKnows DEF RecordHighWater, Persist, Loaded, IInv, TypeOK, Ledgers
  <2>3. ASSUME NEW p \in Procs, ReconcileLedger(p) \/ NoteStep(p) PROVE ledger'.high = ledger.high
    BY <2>3, HolderKnows
       DEF ReconcileLedger, NoteStep, Persist, Reconciled, Loaded, IInv, TypeOK, Ledgers
  <2>4. ASSUME NEW p \in Procs,
               \/ ReadHandoff(p) \/ WriteClaim(p) \/ DropBackup(p) \/ Reject(p)
               \/ LoadAndProbe(p) \/ UpgradeStore(p) \/ ReconcileMarker(p) \/ CreateStore(p)
               \/ VersionStore(p) \/ MigrateStore(p) \/ WriteMarker(p) \/ FinishAdmission(p)
        PROVE  UNCHANGED ledger
    BY <2>4
       DEF ReadHandoff, WriteClaim, DropBackup, Reject, LoadAndProbe, UpgradeStore,
           ReconcileMarker, CreateStore, VersionStore, MigrateStore, WriteMarker,
           FinishAdmission, state
  <2>5. ASSUME NEW p \in Procs, Lock(p) \/ ClaimFails(p) \/ ProcessFails(p) \/ UserStarts(p)
        PROVE  UNCHANGED ledger
    BY <2>5 DEF Lock, ClaimFails, ProcessFails, UserStarts, state
  <2>6. ASSUME NEW v \in Versions, InstallByHand(v) \/ PrepareHandoff(v)
        PROVE  UNCHANGED ledger
    BY <2>6 DEF InstallByHand, PrepareHandoff, state
  <2>7. ScriptStep \/ ScriptFault => UNCHANGED ledger
    BY DEF ScriptStep, ScriptFault, DispatchScript, DispatchFails, MoveToBackup,
           ScriptAborts,
           CopyBundle, CopyFails, LaunchCandidate, SeeRejection, SeeClaim, SeeCandidate,
           KillCandidate, RestoreBackup, RemoveHandoff, RemoveRejection, state
  <2>8. ClientEnds \/ UseStore \/ UseFails \/ MachineStops => UNCHANGED ledger
    BY DEF ClientEnds, UseStore, UseFails, MachineStops, state
  <2> QED BY <2>1, <2>2, <2>3, <2>4, <2>5, <2>6, <2>7, <2>8 DEF Next, AdmitStep
<1> QED BY <1>1, Inductive, PTL DEF Spec, HighWaterIsForward

(* A client becomes ready only over a state that is wholly that of its build,
   also when a client of an older build was overtaken before. *)
THEOREM ReadyOverMigrated == Spec => ReadyIsMigrated
<1> DEFINE Opens == gui.state # "ready" /\ gui'.state = "ready"
           Whole == /\ ledger.high = gui.ver
                    /\ ledger.done = Frontier[gui.ver]
                    /\ \A d \in Frontier[gui.ver] : Current(d) /\ store[d] # "outdated"
                    /\ handoff'.state = "none"
<1>1. IInv /\ [Next]_vars => [Opens => Whole]_vars
  <2> SUFFICES ASSUME IInv, Next, Opens PROVE Whole
    OBVIOUS
  <2>1. ASSUME NEW p \in Procs, FinishAdmission(p) PROVE Whole
    <3>1. Own(p) /\ pc[p] = "apply" /\ plan[p] = {} /\ handoff'.state = "none"
      BY <2>1 DEF FinishAdmission, Return, NoHandoff
    <3>2. ver[p] = gui.ver /\ ledger.high = gui.ver /\ HighDomains = Frontier[gui.ver]
      BY <3>1, HolderKnows DEF IInv, Builds, Own, Loaded
    <3>3. Skipped(p) = Frontier[gui.ver] /\ Frontier[gui.ver] \subseteq ledger.done
      BY <3>1, <3>2 DEF IInv, Plans, Skipped, Loaded
    <3>4. \A d \in Frontier[gui.ver] : Current(d) /\ store[d] # "outdated"
      BY <3>1, <3>3 DEF IInv, Migrated, Loaded
    <3> QED BY <3>1, <3>2, <3>3, <3>4 DEF IInv, Marked
  <2>2. ASSUME NEW p \in Procs, Return(p, "closed") PROVE FALSE
    BY <2>2 DEF Return, IInv, TypeOK
  <2>3. ASSUME NEW p \in Procs, NEW tie, Start(p, tie) PROVE FALSE
    BY <2>3 DEF Start
  <2>4. ~UNCHANGED gui /\ gui' # NoGui
    BY DEF NoGui
  <2>5. ASSUME NEW p \in Procs,
               \/ Lock(p) \/ ReadHandoff(p) \/ WriteClaim(p) \/ DropBackup(p) \/ ClaimFails(p)
               \/ RecordHighWater(p) \/ UpgradeStore(p) \/ ReconcileMarker(p)
               \/ ReconcileLedger(p) \/ CreateStore(p) \/ VersionStore(p)
               \/ MigrateStore(p) \/ NoteStep(p)
        PROVE  UNCHANGED gui
    BY <2>5 DEF Lock, ReadHandoff, WriteClaim, DropBackup, ClaimFails, RecordHighWater,
                UpgradeStore, ReconcileMarker, ReconcileLedger, CreateStore, VersionStore,
                MigrateStore, NoteStep
  <2>6. ASSUME NEW p \in Procs,
               Reject(p) \/ LoadAndProbe(p) \/ WriteMarker(p) \/ ProcessFails(p) \/ UserStarts(p)
        PROVE  FALSE
    BY <2>2, <2>3, <2>4, <2>6
       DEF Reject, LoadAndProbe, WriteMarker, ProcessFails, UserStarts
  <2>7. ASSUME NEW v \in Versions, InstallByHand(v) \/ PrepareHandoff(v) PROVE FALSE
    BY <2>4, <2>7 DEF InstallByHand, PrepareHandoff
  <2>8. ScriptStep \/ ScriptFault => FALSE
    BY <2>3, <2>4
       DEF ScriptStep, ScriptFault, DispatchScript, DispatchFails, MoveToBackup, ScriptAborts,
           CopyBundle, CopyFails, LaunchCandidate, SeeRejection, SeeClaim, SeeCandidate,
           KillCandidate, RestoreBackup, RemoveHandoff, RemoveRejection
  <2>9. ClientEnds \/ UseStore \/ UseFails \/ MachineStops => FALSE
    BY <2>4 DEF ClientEnds, UseStore, UseFails, MachineStops
  <2> QED BY <2>1, <2>4, <2>5, <2>6, <2>7, <2>8, <2>9 DEF Next, AdmitStep
<1> QED BY <1>1, Inductive, PTL DEF Spec, ReadyIsMigrated

-----------------------------------------------------------------------------
(* The backup.                                                             *)

\* What an admission relies on when it deletes the backup of its build: its
\* claim is in the handoff, or was removed with the update it belonged to.
ClaimStands(p) ==
    \/ handoff = [state |-> "claimed", to |-> ver[p]]
    \/ handoff.state = "none" /\ script.pc \in {"off", "forget"}

\* An admission with a client is the one the client waits for, and has its claim
\* when it comes to delete the backup.
Claimed(p) ==
    gui.proc = p /\ pc[p] # "off" =>
        gui.state = "admitting" /\ (pc[p] = "drop" => ClaimStands(p))

(* An admission keeps its claim through the steps that leave the handoff and the
   script alone and do not bring it to the deletion. *)
LEMMA ClaimKept ==
    ASSUME NEW p \in Procs, Claimed(p), UNCHANGED <<handoff, script>>,
           gui'.proc = p /\ pc'[p] # "off" =>
               /\ gui.proc = p /\ pc[p] # "off"
               /\ gui'.state = gui.state /\ ver'[p] = ver[p]
               /\ pc'[p] = "drop" => pc[p] = "drop"
    PROVE  Claimed(p)'
BY DEF Claimed, ClaimStands

(* The end of a client, or of its admission, leaves no claim to keep. *)
LEMMA ReturnKeepsClaim ==
    ASSUME TypeOK, NEW p \in Procs, Claimed(p), NEW q \in Procs, NEW answer,
           Return(q, answer), handoff' = handoff \/ pc[p] # "drop" \/ p = q,
           UNCHANGED script
    PROVE  Claimed(p)'
<1>1. CASE p = q
  BY <1>1 DEF Return, Goto, TypeOK, Claimed
<1>2. CASE p # q
  <2>1. pc'[p] = pc[p] /\ ver'[p] = ver[p] /\ gui'.proc = gui.proc
    BY <1>2 DEF Return, Goto, TypeOK
  <2>2. gui.proc = p => gui' = gui
    BY <1>2 DEF Return, Own
  <2> QED BY <1>2, <2>1, <2>2 DEF Claimed, ClaimStands
<1> QED BY <1>1, <1>2

(* A new client waits for an admission that has not begun. *)
LEMMA StartKeepsClaim ==
    ASSUME TypeOK, NEW p \in Procs, NEW q \in Procs, NEW tie, Start(q, tie)
    PROVE  Claimed(p)'
BY DEF Start, Goto, TypeOK, Claimed

(* A step of an admission: only the one past the lock writes or removes a
   handoff, and it deletes the backup after it has written or read its claim. *)
LEMMA AdmissionKeepsClaim ==
    ASSUME IInv, NEW p \in Procs, Claimed(p), NEW q \in Procs,
           Lock(q) \/ AdmitStep(q) \/ ClaimFails(q) \/ ProcessFails(q) \/ UserStarts(q)
    PROVE  Claimed(p)'
<1> USE DEF IInv
<1>0. TypeOK /\ (Holds(q) /\ p # q => pc[p] # "drop")
  BY DEF Mutex, Holds
<1>1. CASE Lock(q)
  <2>1. pc'[p] # "off" => pc[p] # "off" /\ (pc'[p] = "drop" => pc[p] = "drop")
    BY <1>0, <1>1 DEF Lock, Goto, TypeOK
  <2> QED BY <1>1, <2>1, ClaimKept DEF Lock, files
<1>2. CASE ReadHandoff(q)
  <2>1. CASE p = q
    <3>1. pc'[p] = "drop" => handoff.state = "claimed" /\ handoff.to = ver[p]
      BY <1>0, <1>2, <2>1 DEF ReadHandoff, Goto, TypeOK
    <3>2. pc'[p] = "drop" => handoff = [state |-> "claimed", to |-> ver[p]]
      BY <1>0, <3>1 DEF TypeOK
    <3> QED BY <1>2, <2>1, <3>2 DEF ReadHandoff, files, Claimed, ClaimStands
  <2>2. CASE p # q
    <3>1. pc'[p] = pc[p]
      BY <1>0, <1>2, <2>2 DEF ReadHandoff, Goto, TypeOK
    <3> QED BY <1>2, <3>1, ClaimKept DEF ReadHandoff, files
  <2> QED BY <2>1, <2>2
<1>3. CASE WriteClaim(q)
  <2>1. CASE p = q
    BY <1>3, <2>1 DEF WriteClaim, Claimed, ClaimStands
  <2>2. CASE p # q
    <3>1. pc'[p] = pc[p] /\ pc[p] # "drop"
      BY <1>0, <1>3, <2>2 DEF WriteClaim, Goto, TypeOK, Holds
    <3> QED BY <1>3, <3>1 DEF WriteClaim, Claimed
  <2> QED BY <2>1, <2>2
<1>4. CASE DropBackup(q) \/ ClaimFails(q)
  <2>1. pc'[p] # "off" => pc[p] # "off" /\ (pc'[p] = "drop" => pc[p] = "drop")
    BY <1>0, <1>4 DEF DropBackup, ClaimFails, Goto, TypeOK
  <2> QED BY <1>4, <2>1, ClaimKept DEF DropBackup, ClaimFails, files
<1>5. CASE Reject(q) \/ ProcessFails(q)
  BY <1>0, <1>5, ReturnKeepsClaim DEF Reject, ProcessFails, files
<1>6. CASE FinishAdmission(q)
  BY <1>0, <1>6, ReturnKeepsClaim DEF FinishAdmission, Holds
<1>7. CASE LoadAndProbe(q) \/ WriteMarker(q)
  <2>1. CASE Return(q, "closed")
    BY <1>0, <1>7, <2>1, ReturnKeepsClaim DEF LoadAndProbe, WriteMarker, files
  <2>2. CASE ~Return(q, "closed")
    <3>1. Goto(q, "high") \/ Goto(q, "note")
      BY <1>7, <2>2 DEF LoadAndProbe, WriteMarker
    <3>2. pc'[p] # "off" => pc[p] # "off" /\ (pc'[p] = "drop" => pc[p] = "drop")
      BY <1>0, <1>7, <3>1 DEF LoadAndProbe, WriteMarker, Goto, TypeOK
    <3>3. UNCHANGED <<handoff, script, gui, ver>>
      BY <1>7, <2>2 DEF LoadAndProbe, WriteMarker, files
    <3> QED BY <3>2, <3>3, ClaimKept
  <2> QED BY <2>1, <2>2
<1>8. CASE \/ RecordHighWater(q) \/ UpgradeStore(q) \/ ReconcileMarker(q)
           \/ ReconcileLedger(q) \/ CreateStore(q) \/ VersionStore(q)
           \/ MigrateStore(q) \/ NoteStep(q)
  <2>1. pc'[p] # "off" => pc[p] # "off" /\ (pc'[p] = "drop" => pc[p] = "drop")
    BY <1>0, <1>8 DEF RecordHighWater, UpgradeStore, ReconcileMarker, ReconcileLedger,
       CreateStore, VersionStore, MigrateStore, NoteStep, Goto, TypeOK, admission
  <2>2. UNCHANGED <<handoff, script, gui, ver>>
    BY <1>8 DEF RecordHighWater, UpgradeStore, ReconcileMarker, ReconcileLedger,
       CreateStore, VersionStore, MigrateStore, NoteStep, files, admission
  <2> QED BY <2>1, <2>2, ClaimKept
<1>9. CASE UserStarts(q)
  BY <1>0, <1>9, StartKeepsClaim DEF UserStarts
<1> QED BY <1>1, <1>2, <1>3, <1>4, <1>5, <1>6, <1>7, <1>8, <1>9 DEF AdmitStep

(* A step of the client or of the script: a new handoff is prepared by a client
   that waits for nobody, and one is removed with the update it was for. *)
LEMMA OutsideKeepsClaim ==
    ASSUME IInv, NEW p \in Procs, Claimed(p),
           \/ ClientEnds \/ UseStore \/ UseFails \/ MachineStops \/ ScriptStep \/ ScriptFault
           \/ \E v \in Versions : InstallByHand(v) \/ PrepareHandoff(v)
    PROVE  Claimed(p)'
<1>0. TypeOK /\ p # "none"
  BY UpdateAssumption DEF UpdateAssumption, IInv
<1>1. CASE ClientEnds \/ MachineStops
  BY <1>0, <1>1 DEF ClientEnds, MachineStops, NoGui, Claimed
<1>2. CASE UseStore \/ UseFails \/ (\E v \in Versions : InstallByHand(v))
  BY <1>2, ClaimKept DEF UseStore, UseFails, InstallByHand, files, admission
<1>3. ASSUME NEW v \in Versions, PrepareHandoff(v) PROVE Claimed(p)'
  BY <1>0, <1>3 DEF PrepareHandoff, admission, Claimed, TypeOK
<1>4. CASE DispatchFails
  <2>1. handoff'.state = "none" /\ script'.pc = "off" /\ UNCHANGED <<gui, pc>>
    BY <1>4 DEF DispatchFails, ScriptGoto, NoHandoff, NoScript, admission
  <2> QED BY <2>1 DEF Claimed, ClaimStands
<1>5. CASE RemoveHandoff
  <2>1. handoff'.state = "none" /\ script'.pc = "forget" /\ UNCHANGED <<gui, pc>>
    BY <1>0, <1>5 DEF RemoveHandoff, ScriptGoto, NoHandoff, admission, TypeOK
  <2> QED BY <2>1 DEF Claimed, ClaimStands
<1>6. CASE RemoveRejection
  <2>1. script'.pc = "off" /\ UNCHANGED <<handoff, gui, pc, ver>>
    BY <1>6 DEF RemoveRejection, ScriptGoto, NoScript, admission
  <2> QED BY <2>1 DEF Claimed, ClaimStands
<1>7. CASE LaunchCandidate
  <2>1. CASE gui.state = "off"
    BY <1>0, <1>7, <2>1, StartKeepsClaim DEF LaunchCandidate
  <2>2. CASE gui.state # "off"
    BY <1>7, <2>2 DEF LaunchCandidate, files, admission, Claimed, ClaimStands
  <2> QED BY <2>1, <2>2
<1>8. CASE KillCandidate
  <2>1. (gui' = gui \/ gui'.proc = "none") /\ UNCHANGED <<handoff, pc, ver>>
    BY <1>8 DEF KillCandidate, NoGui, files, admission
  <2>2. script.pc = "kill"
    BY <1>8 DEF KillCandidate
  <2> QED BY <1>0, <2>1, <2>2 DEF Claimed, ClaimStands
<1>9. CASE \/ DispatchScript \/ MoveToBackup \/ ScriptAborts \/ CopyBundle \/ CopyFails
           \/ SeeRejection \/ SeeClaim \/ SeeCandidate \/ RestoreBackup
  <2>1. script.pc \notin {"off", "forget"} /\ UNCHANGED <<handoff, gui, pc, ver>>
    BY <1>9 DEF DispatchScript, MoveToBackup, ScriptAborts, CopyBundle, CopyFails,
       SeeRejection, SeeClaim, SeeCandidate, RestoreBackup, files, admission
  <2> QED BY <2>1 DEF Claimed, ClaimStands
<1> QED BY <1>1, <1>2, <1>3, <1>4, <1>5, <1>6, <1>7, <1>8, <1>9 DEF ScriptStep, ScriptFault

(* Only two steps take a backup away: the deletion and the restore. *)
LEMMA BackupTaken ==
    ASSUME IInv, Next, NEW v \in Versions, backup[v] # 0, backup'[v] = 0
    PROVE  \/ \E p \in Procs : pc[p] = "drop" /\ ver[p] = v
           \/ installed' = backup[v]
<1>0. TypeOK
  BY DEF IInv
<1>1. ASSUME NEW p \in Procs, DropBackup(p) PROVE pc[p] = "drop" /\ ver[p] = v
  BY <1>0, <1>1 DEF DropBackup, TypeOK
<1>2. CASE MoveToBackup
  BY <1>0, <1>2 DEF MoveToBackup, TypeOK
<1>3. CASE RestoreBackup
  BY <1>0, <1>3 DEF RestoreBackup, TypeOK
<1>4. ASSUME NEW p \in Procs,
             \/ Lock(p) \/ ReadHandoff(p) \/ WriteClaim(p) \/ Reject(p) \/ LoadAndProbe(p)
             \/ RecordHighWater(p) \/ UpgradeStore(p) \/ ReconcileMarker(p)
             \/ ReconcileLedger(p) \/ CreateStore(p) \/ VersionStore(p)
             \/ MigrateStore(p) \/ WriteMarker(p) \/ NoteStep(p) \/ FinishAdmission(p)
             \/ ClaimFails(p) \/ ProcessFails(p) \/ UserStarts(p)
      PROVE  UNCHANGED backup
  BY <1>4 DEF Lock, ReadHandoff, WriteClaim, Reject, LoadAndProbe, RecordHighWater,
     UpgradeStore, ReconcileMarker, ReconcileLedger, CreateStore, VersionStore,
     MigrateStore, WriteMarker, NoteStep, FinishAdmission, ClaimFails, ProcessFails,
     UserStarts, files
<1>5. CASE \/ ClientEnds \/ UseStore \/ UseFails \/ MachineStops \/ ScriptFault
           \/ \E w \in Versions : InstallByHand(w) \/ PrepareHandoff(w)
  BY <1>5
     DEF ClientEnds, UseStore, UseFails, MachineStops, ScriptFault, DispatchFails, ScriptAborts,
     CopyFails, InstallByHand, PrepareHandoff, files
<1>6. CASE \/ DispatchScript \/ CopyBundle \/ LaunchCandidate \/ SeeRejection \/ SeeClaim
           \/ SeeCandidate \/ KillCandidate \/ RemoveHandoff \/ RemoveRejection
  BY <1>6 DEF DispatchScript, CopyBundle, LaunchCandidate, SeeRejection, SeeClaim,
     SeeCandidate, KillCandidate, RemoveHandoff, RemoveRejection, files
<1> QED BY <1>1, <1>2, <1>3, <1>4, <1>5, <1>6 DEF Next, AdmitStep, ScriptStep

(* However builds, clients, scripts and crashes interleave, the backup of the
   old bundle is deleted only under a claim of the new build, or when no script
   is left that would restore it, or by an admission whose client is gone. *)
THEOREM BackupOutlivesDoubt == Spec => BackupKeptUntilClaim
<1> DEFINE ClaimInv == \A p \in Procs : Claimed(p)
           Kept == \A v \in Versions : backup[v] # 0 /\ backup'[v] = 0 =>
                      \/ handoff = [state |-> "claimed", to |-> v]
                      \/ installed' = backup[v]
                      \/ handoff.state = "none" /\ script.pc \in {"off", "forget"}
                      \/ \E p \in Procs : pc[p] = "drop" /\ gui.proc # p
<1>1. Init => ClaimInv
  BY DEF Init, Claimed
<1>2. IInv /\ ClaimInv /\ [Next]_vars => ClaimInv'
  <2> SUFFICES ASSUME IInv, [Next]_vars, NEW p \in Procs, Claimed(p) PROVE Claimed(p)'
    OBVIOUS
  <2>1. CASE UNCHANGED vars
    BY <2>1, ClaimKept DEF vars, files, admission
  <2>2. CASE Next
    BY <2>2, AdmissionKeepsClaim, OutsideKeepsClaim DEF Next
  <2> QED BY <2>1, <2>2
<1>3. IInv /\ ClaimInv /\ [Next]_vars => [Kept]_vars
  <2> SUFFICES ASSUME IInv, ClaimInv, Next, NEW v \in Versions,
                      backup[v] # 0, backup'[v] = 0, installed' # backup[v]
               PROVE  \/ handoff = [state |-> "claimed", to |-> v]
                      \/ handoff.state = "none" /\ script.pc \in {"off", "forget"}
                      \/ \E p \in Procs : pc[p] = "drop" /\ gui.proc # p
    OBVIOUS
  <2>1. PICK p \in Procs : pc[p] = "drop" /\ ver[p] = v
    BY BackupTaken
  <2> QED BY <2>1 DEF Claimed, ClaimStands
<1> QED BY <1>1, <1>2, <1>3, Inductive, PTL DEF Spec, BackupKeptUntilClaim


=============================================================================
