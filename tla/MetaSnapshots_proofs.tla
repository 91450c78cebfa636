------------------------ MODULE MetaSnapshots_proofs ------------------------
(***************************************************************************)
(* The theorem about snapshots: a rollback's hook finds a copy exactly if  *)
(* the guest had a document when the snapshot was taken.                   *)
(*                                                                         *)
(* The snapshot hooks run after their task dropped the guest lock, so the  *)
(* theorem is about tasks that do not overlap (Serial) and hooks that are  *)
(* not missed (MaxFaults = 0).  Requests, `rm' and scan-notes still run at *)
(* any time.                                                               *)
(***************************************************************************)
EXTENDS MetaGuest_proofs

Trio == {"snapshot", "rollback", "delsnap"}

(* In a PVE task.                                                          *)
AtWork(p) == pc[p] # "idle" /\ job[p].op \in Tasks

OneTask == \A p, q \in Procs : AtWork(p) /\ AtWork(q) => p = q

(* What a process about to write the configuration, or in a snapshot hook, *)
(* knows of its snapshot sections.                                         *)
Sections(p) ==
  /\ Config(p) => Plans(job[p]) /\ (job[p].op \in Trio => job[p].next = "hookwait")
  /\ Scanning(p) => job[p].conf.snaps = cfg.snaps
  /\ pc[p] \in InHook /\ job[p].hook \in Trio =>
       /\ job[p].op = job[p].hook
       /\ job[p].hook # "delsnap" <=> job[p].snap \in cfg.snaps
       /\ job[p].hook = "snapshot" => ~had[job[p].snap]

(* A snapshot of the guest has a copy if there was a document to copy, and *)
(* no copy is without a snapshot, but for the one delsnap's hook is about  *)
(* to remove.                                                              *)
Match(s) == IF s \in cfg.snaps THEN copies[s].there <=> had[s] ELSE ~copies[s].there

Dropping(p, s) == pc[p] \in InHook /\ job[p].hook = "delsnap" /\ job[p].snap = s

NoneKept == copies = NoCopies /\ \A s \in Snaps : ~had[s]

Matching ==
  /\ \A s \in Snaps : Match(s) \/ \E p \in Procs : Dropping(p, s)
  /\ \A p \in Procs : Building(p) => NoneKept

(* Unless somebody still owes a purge or failed to import, the copies go   *)
(* with the snapshots; a guest that is being built has neither.            *)
Copied == ~missed => Matching \/ \E p \in Procs : Debt(p)

Snapshots ==
  /\ OneTask
  /\ \A p \in Procs : Sections(p)
  /\ Copied

-----------------------------------------------------------------------------
(* One task at a time.                                                     *)

(* Whoever writes the configuration, builds, or is in a hook other than a  *)
(* scan's is in a task.                                                    *)
LEMMA WorkersWork ==
  ASSUME Flow, Ownership, NEW p \in Procs, Sections(p),
         \/ Config(p) \/ Building(p) \/ pc[p] = "unlink"
         \/ pc[p] \in InHook /\ job[p].hook # "install"
  PROVE  AtWork(p)
<1>0. Trail(p) /\ FlowOf(p)
  BY DEF Ownership, Mine, Flow
<1> USE DEF AtWork, Tasks, InHook
<1>1. CASE Config(p)
  BY <1>0, <1>1 DEF Trail, Config
<1>2. CASE Building(p) /\ ~Config(p)
  BY <1>0, <1>2 DEF Building, FlowOf
<1>3. CASE pc[p] = "unlink"
  BY <1>0, <1>3 DEF Trail
<1>4. CASE pc[p] \in InHook /\ job[p].hook # "install"
  <2>1. CASE job[p].hook \in Trio
    BY <1>4, <2>1 DEF Sections, Trio
  <2>2. CASE job[p].hook = "destroy"
    BY <1>0, <1>4, <2>2 DEF Trail, Destroying
  <2>3. CASE job[p].hook \in {"import", "purge"}
    <3>1. job[p].after \in {"file", "mark"}
      BY <1>0, <1>4, <2>3 DEF Trail
    <3> QED
      BY <1>0, <1>4, <3>1 DEF Trail, FlowOf, Config
  <2> QED
    BY <1>0, <1>4, <2>1, <2>2, <2>3 DEF Trail, Trio
<1> QED
  BY <1>1, <1>2, <1>3, <1>4

(* Nothing fails.                                                          *)
LEMMA NoFaults ==
  ASSUME MaxFaults = 0, TypeOK PROVE ~Garble /\ \A p \in Procs : ~HookMiss(p) /\ ~Die(p)
BY DEF TypeOK, Garble, HookMiss, Die

(* A step of a process that is in no task, while another one is: requests, *)
(* `rm' and scans leave the snapshots alone, and only `rm' the copies.     *)
LEMMA BesideTask ==
  ASSUME LocalScans, Serial, MaxFaults = 0, TypeOK, Flow, Ownership,
         \A p \in Procs : Sections(p),
         NEW p \in Procs, Acts(p), ~AtWork(p), NEW q \in Procs, AtWork(q)
  PROVE  /\ cfg'.snaps = cfg.snaps
         /\ (copies' = copies /\ had' = had) \/ PurgeCopies(p)
<1>0. Sections(p) /\ Trail(p)
  BY DEF Ownership, Mine
<1>1. Running(Tasks) # {}
  BY DEF Running, AtWork
<1>2. CASE Api(p)
  <2>1. cfg' = cfg
    BY <1>2, ApiMove
  <2>2. (copies' = copies /\ had' = had) \/ PurgeCopies(p)
    BY <1>2 DEF Api, Request, Remove, Acquire, LockTimeout, CheckGuest, Refuse, ReadDocument,
           WriteDocument, PurgeDocument, PutRaw, Delete, storeVars, ghostVars
  <2> QED
    BY <2>1, <2>2
<1>3. ~Config(p) /\ ~Building(p) /\ pc[p] # "unlink" /\ (pc[p] \in InHook => job[p].hook = "install")
  BY <1>0, WorkersWork
<1>4. CASE Task(p)
  <2>1. ~(\/ BeginSet(p) \/ BeginCreate(p) \/ BeginDestroy(p)
          \/ BeginSnapshot(p) \/ BeginRollback(p) \/ BeginDelsnap(p))
    BY <1>1, BeginMove DEF Begins
  <2>2. ~(\/ WriteConfig(p) \/ WriteConfigFile(p) \/ CreateConflict(p) \/ MarkCreated(p)
          \/ BuildWrite(p) \/ AbortCreate(p) \/ Unlink(p))
    BY <1>3, BuildMove, AbortMove DEF WriteConfig, WriteConfigFile, CreateConflict, MarkCreated,
           Unlink, Config, Building
  <2>3. CASE BeginScan(p)
    BY <2>3 DEF BeginScan, storeVars, ghostVars, guestVars
  <2>4. CASE WriteScanned(p)
    <3>1. Scanning(p)
      BY <2>4 DEF WriteScanned, Scanning
    <3> QED
      BY <1>0, <2>4, <3>1 DEF WriteScanned, Sections, storeVars, ghostVars
  <2> QED
    BY <1>4, <2>1, <2>2, <2>3, <2>4 DEF Task
<1>5. CASE Hook(p)
  <2>1. ~(HookMiss(p) \/ HookSweep(p) \/ HookTrio(p) \/ HookPurge(p) \/ HookImport(p))
    BY <1>0, <1>3, NoFaults DEF HookSweep, HookTrio, HookPurge, HookImport, InHook, Trail
  <2>2. CASE HookAcquire(p)
    BY <2>2 DEF HookAcquire, storeVars, ghostVars, guestVars
  <2>3. CASE HookImportFails(p)
    BY <2>3 DEF HookImportFails, storeVars, guestVars
  <2>4. CASE HookInstall(p)
    BY <1>0, <2>4, InstallMove DEF ghostVars, guestVars
  <2> QED
    BY <1>5, <2>1, <2>2, <2>3, <2>4 DEF Hook
<1> QED
  BY <1>2, <1>4, <1>5, NoFaults DEF Acts

(* A task begins when none is under way; until then a process stays out of *)
(* tasks.                                                                  *)
LEMMA OneTaskStep ==
  ASSUME LocalScans, Serial, MaxFaults = 0, TypeOK, Flow, Ownership, OneTask,
         \A p \in Procs : Sections(p), NEW p \in Procs, Acts(p)
  PROVE  OneTask'
<1>0. \A q \in Procs \ {p} : pc'[q] = pc[q] /\ job'[q] = job[q]
  BY StepShape
<1>1. CASE AtWork(p)
  BY <1>0, <1>1 DEF OneTask, AtWork
<1>2. CASE \A q \in Procs : ~AtWork(q)
  BY <1>0, <1>2 DEF OneTask, AtWork
<1>3. CASE ~AtWork(p) /\ \E q \in Procs : AtWork(q)
  <2>0. Sections(p) /\ Trail(p) /\ Running(Tasks) # {}
        /\ job \in [Procs -> Job] /\ pc \in [Procs -> Labels] /\ job[p] \in Job /\ NoJob \in Job
    BY <1>3, NoJobType DEF Ownership, Mine, Running, AtWork, TypeOK
  <2>1. ~Config(p) /\ ~Building(p) /\ pc[p] # "unlink"
        /\ (pc[p] \in InHook => job[p].hook = "install")
    BY <1>3, <2>0, WorkersWork
  <2> SUFFICES ~AtWork(p)'
    BY <1>0, <1>3 DEF OneTask, AtWork
  <2>2. CASE Api(p)
    <3>1. CASE Request(p)
      <4>1. PICK req \in Requests, pre \in Preconditions :
              job' = [job EXCEPT ![p] = [NoJob EXCEPT !.op = "request", !.req = req, !.pre = pre]]
        BY <3>1 DEF Request
      <4>2. job'[p].op = "request"
        BY <2>0, <4>1 DEF Job
      <4> QED
        BY <4>2 DEF AtWork, Tasks
    <3>2. CASE Remove(p)
      <4>1. PICK n \in Nodes :
              job' = [job EXCEPT ![p] = [NoJob EXCEPT !.op = "rm", !.node = n]]
        BY <3>2 DEF Remove
      <4>2. job'[p].op = "rm"
        BY <2>0, <4>1 DEF Job
      <4> QED
        BY <4>2 DEF AtWork, Tasks
    <3>3. CASE Acquire(p) \/ PurgeDocument(p)
      BY <1>3, <3>3 DEF Acquire, PurgeDocument, AtWork
    <3>4. CASE CheckGuest(p) \/ ReadDocument(p)
      <4>1. job'[p].op = job[p].op /\ pc[p] # "idle"
        BY <2>0, <3>4 DEF CheckGuest, ReadDocument, Job
      <4> QED
        BY <1>3, <4>1 DEF AtWork
    <3>5. CASE LockTimeout(p) \/ Refuse(p) \/ WriteDocument(p) \/ PurgeCopies(p)
      BY <3>5, FinishMove DEF LockTimeout, Refuse, WriteDocument, PurgeCopies, AtWork
    <3> QED
      BY <2>2, <3>1, <3>2, <3>3, <3>4, <3>5 DEF Api
  <2>3. CASE Task(p)
    <3>1. ~(\/ BeginSet(p) \/ BeginCreate(p) \/ BeginDestroy(p)
            \/ BeginSnapshot(p) \/ BeginRollback(p) \/ BeginDelsnap(p))
      BY <2>0, BeginMove DEF Begins
    <3>2. ~(\/ WriteConfig(p) \/ WriteConfigFile(p) \/ CreateConflict(p) \/ MarkCreated(p)
            \/ BuildWrite(p) \/ AbortCreate(p) \/ Unlink(p))
      BY <2>1, BuildMove, AbortMove DEF WriteConfig, WriteConfigFile, CreateConflict,
             MarkCreated, Unlink, Config, Building
    <3>3. CASE BeginScan(p)
      BY <3>3, ScanMove DEF AtWork, Tasks
    <3>4. CASE WriteScanned(p)
      BY <3>4, FinishMove DEF WriteScanned, AtWork
    <3> QED
      BY <2>3, <3>1, <3>2, <3>3, <3>4 DEF Task
  <2>4. CASE Hook(p)
    <3>1. ~(HookMiss(p) \/ HookSweep(p) \/ HookTrio(p) \/ HookPurge(p) \/ HookImport(p))
      BY <2>0, <2>1, NoFaults DEF HookSweep, HookTrio, HookPurge, HookImport, InHook, Trail
    <3>2. CASE HookAcquire(p)
      BY <1>3, <3>2 DEF HookAcquire, AtWork
    <3>3. CASE HookImportFails(p)
      <4>1. job[p].hook = "install"
        BY <2>1, <3>3 DEF HookImportFails, InHook
      <4> QED
        BY <2>0, <3>3, <4>1, ImportFailsMove DEF Ends, AtWork
    <3>4. CASE HookInstall(p)
      BY <1>3, <2>0, <3>4, InstallMove DEF GoesOn, Kept, AtWork
    <3> QED
      BY <2>4, <3>1, <3>2, <3>3, <3>4 DEF Hook
  <2> QED
    BY <2>2, <2>3, <2>4, NoFaults DEF Acts
<1> QED
  BY <1>1, <1>2, <1>3

-----------------------------------------------------------------------------
(* What a process knows of the sections stays true.                        *)

(* Nobody changes the sections under a task or under a scan.               *)
LEMMA SnapsPinned ==
  ASSUME LocalScans, Serial, MaxFaults = 0, TypeOK, Flow, Ownership, OneTask,
         \A r \in Procs : Sections(r), NEW p \in Procs, Acts(p),
         NEW q \in Procs \ {p}, AtWork(q) \/ Scanning(q)
  PROVE  cfg'.snaps = cfg.snaps
<1>1. CASE AtWork(q)
  <2>1. ~AtWork(p)
    BY <1>1 DEF OneTask
  <2> QED
    BY <1>1, <2>1, BesideTask
<1>2. CASE Scanning(q)
  <2>0. Mine(p) /\ Mine(q) /\ Sections(p)
    BY DEF Ownership
  <2>1. /\ Writing(q) /\ ~First(q)
    BY <1>2, <2>0 DEF Mine, Trail, Writing, First, Config, Scanning, InHook
  <2>2. cfg.alive /\ cfg.node = job[q].node /\ glock[cfg.node] = q
    BY <2>0, <2>1 DEF Mine
  <2>3. Writing(p) => job[p].node # cfg.node
    BY <2>0, <2>2 DEF Mine
  <2>4. CASE WriteScanned(p)
    <3>1. Scanning(p)
      BY <2>4 DEF WriteScanned, Scanning
    <3> QED
      BY <2>0, <2>4, <3>1 DEF WriteScanned, Sections
  <2>5. ~Unlink(p)
    <3>1. pc[p] # "unlink"
      BY <2>0, <2>3 DEF Mine, Writing, First, Config, InHook
    <3> QED
      BY <3>1 DEF Unlink
  <2>6. ~WriteConfigFile(p)
    <3> SUFFICES ASSUME WriteConfigFile(p) PROVE FALSE
      OBVIOUS
    <3>1. pc[p] = "file" /\ ~TakenElsewhere(job[p])
      BY DEF WriteConfigFile
    <3>2. Config(p) /\ Writing(p)
      BY <3>1 DEF Config, Writing
    <3>3. job[p].node = cfg.node
      BY <2>0, <2>2, <3>1, <3>2 DEF TakenElsewhere, Mine, First
    <3> QED
      BY <2>3, <3>2, <3>3
  <2> QED
    BY <2>4, <2>5, <2>6, ConfigSteps
<1> QED
  BY <1>1, <1>2

LEMMA SectionsOthers ==
  ASSUME LocalScans, Serial, MaxFaults = 0, TypeOK, Flow, Ownership, OneTask,
         \A r \in Procs : Sections(r), NEW p \in Procs, Acts(p), NEW q \in Procs \ {p}
  PROVE  Sections(q)'
<1>0. pc'[q] = pc[q] /\ job'[q] = job[q] /\ Sections(q) /\ job[q].snap \in Snaps
  BY StepShape DEF TypeOK, Job
<1> USE DEF InHook
<1>1. Config(q)' = Config(q) /\ Scanning(q)' = Scanning(q)
  BY <1>0 DEF Config, Scanning
<1>2. ASSUME Config(q) PROVE (Plans(job[q]) /\ (job[q].op \in Trio => job[q].next = "hookwait"))'
  <2>1. cfg'.snaps = cfg.snaps
    BY <1>0, <1>2, WorkersWork, SnapsPinned
  <2> QED
    BY <1>0, <1>2, <2>1 DEF Sections, Plans
<1>3. ASSUME Scanning(q) PROVE job'[q].conf.snaps = cfg'.snaps
  BY <1>0, <1>3, SnapsPinned DEF Sections
<1>4. ASSUME pc[q] \in InHook, job[q].hook \in Trio
      PROVE  /\ job[q].op = job[q].hook
             /\ job[q].hook # "delsnap" <=> job[q].snap \in cfg'.snaps
             /\ job[q].hook = "snapshot" => ~had'[job[q].snap]
  <2>1. AtWork(q)
    BY <1>0, <1>4, WorkersWork DEF Trio
  <2>2. ~AtWork(p)
    BY <2>1 DEF OneTask
  <2>3. cfg'.snaps = cfg.snaps /\ (had' = had \/ PurgeCopies(p))
    BY <2>1, <2>2, BesideTask
  <2>4. had' = had \/ ~had'[job[q].snap]
    BY <1>0, <2>3 DEF PurgeCopies
  <2> QED
    BY <1>0, <1>4, <2>3, <2>4 DEF Sections
<1> QED
  BY <1>0, <1>1, <1>2, <1>3, <1>4 DEF Sections

LEMMA SectionsOwn ==
  ASSUME LocalScans, MaxFaults = 0, TypeOK, Flow, Ownership, NEW p \in Procs, Sections(p),
         Acts(p)
  PROVE  Sections(p)'
<1>0. /\ Mine(p) /\ Trail(p) /\ FlowOf(p) /\ job \in [Procs -> Job] /\ pc \in [Procs -> Labels]
      /\ job[p] \in Job /\ job[p].snap \in Snaps /\ had \in [Snaps -> BOOLEAN]
  BY DEF Ownership, Mine, Flow, TypeOK, Job
<1> USE DEF InHook, Trio
<1>a. ASSUME ~Config(p)', ~Scanning(p)', pc'[p] \notin InHook PROVE Sections(p)'
  BY <1>a DEF Sections
<1>b. ASSUME pc'[p] \in {"idle", "want", "check", "read", "write", "purge", "sweep",
                         "unlink", "mark", "build", "built"}
      PROVE  Sections(p)'
  BY <1>b DEF Sections, Config, Scanning
<1>1. CASE Api(p)
  BY <1>1, <1>b, ApiMove
<1>2. CASE Task(p)
  <2>1. CASE \/ BeginSet(p) \/ BeginCreate(p) \/ BeginDestroy(p)
             \/ BeginSnapshot(p) \/ BeginRollback(p) \/ BeginDelsnap(p)
    <3>1. /\ pc'[p] \in {"unlink", "config"} /\ Plans(job'[p]) /\ cfg' = cfg
          /\ job'[p].op \in Trio => job'[p].next = "hookwait"
      BY <2>1, BeginMove DEF Begins, guestVars
    <3> QED
      BY <3>1 DEF Sections, Config, Scanning, Plans
  <2>2. CASE BeginScan(p)
    <3>1. /\ pc'[p] = "hookwait" /\ job'[p].hook = "install" /\ job'[p].after = "scanned"
          /\ job'[p].conf = cfg /\ cfg' = cfg
      BY <2>2, ScanMove DEF guestVars
    <3> QED
      BY <3>1 DEF Sections, Config, Scanning
  <2>3. CASE WriteConfig(p)
    <3>1. /\ pc[p] = "config" /\ pc'[p] \in {"file", "hookwait"} /\ Kept(p)
          /\ job'[p].conf = job[p].conf /\ job'[p].after = "file"
          /\ job'[p].hook \in {"none", "import", "purge"} /\ cfg' = cfg
      BY <2>3, ConfigMove
    <3>2. Plans(job[p]) /\ (job[p].op \in Trio => job[p].next = "hookwait")
      BY <3>1 DEF Sections, Config
    <3> QED
      BY <3>1, <3>2 DEF Sections, Config, Scanning, Plans, Kept
  <2>4. CASE WriteConfigFile(p)
    <3>1. pc[p] = "file" /\ cfg' = job[p].conf
      BY <2>4 DEF WriteConfigFile
    <3>2. Plans(job[p])
      BY <3>1 DEF Sections, Config
    <3>3. CASE pc'[p] \in {"idle", "mark", "build", "built"}
      BY <1>b, <3>3
    <3>4. CASE pc'[p] = "hookwait" /\ job'[p].hook = "purge" /\ job'[p].after = "mark"
      BY <3>4 DEF Sections, Config, Scanning
    <3>5. CASE /\ Kept(p) /\ pc'[p] = "hookwait" /\ job'[p].hook \in Trio
               /\ job'[p].hook = job[p].op /\ job'[p].after = "idle"
      <4>1. job[p].op = "snapshot" => ~had'[job[p].snap]
        BY <1>0, <2>4 DEF WriteConfigFile
      <4>2. job[p].op # "delsnap" <=> job[p].snap \in cfg'.snaps
        BY <3>1, <3>2, <3>5 DEF Plans
      <4> QED
        BY <3>5, <4>1, <4>2 DEF Sections, Config, Scanning, Kept
    <3> QED
      BY <2>4, <3>3, <3>4, <3>5, FileMove
  <2>5. CASE CreateConflict(p) \/ WriteScanned(p)
    BY <1>b, <2>5, FinishMove DEF CreateConflict, WriteScanned
  <2>6. CASE MarkCreated(p)
    BY <1>0, <1>b, <2>6 DEF MarkCreated, Goto
  <2>7. CASE BuildWrite(p)
    <3>1. pc[p] \in {"build", "built"} /\ pc'[p] = "config" /\ job'[p].op = job[p].op
      BY <2>7, BuildMove
    <3>2. job[p].op = "create"
      BY <1>0, <3>1 DEF FlowOf
    <3> QED
      BY <3>1, <3>2 DEF Sections, Config, Scanning, Plans
  <2>8. CASE AbortCreate(p)
    BY <1>b, <2>8, AbortMove
  <2>9. CASE Unlink(p)
    <3>1. pc'[p] = "hookwait" /\ job'[p].hook = "destroy" /\ job'[p].after = "idle"
      BY <2>9, UnlinkMove
    <3> QED
      BY <3>1 DEF Sections, Config, Scanning
  <2> QED
    BY <1>2, <2>1, <2>2, <2>3, <2>4, <2>5, <2>6, <2>7, <2>8, <2>9 DEF Task
<1>3. CASE Hook(p)
  <2>1. CASE HookAcquire(p) \/ HookPurge(p) \/ HookImport(p)
    <3>1. /\ pc[p] \in InHook /\ pc'[p] \in InHook /\ job'[p] = job[p]
          /\ cfg' = cfg /\ had' = had
      BY <2>1, QuietHook DEF guestVars, ghostVars
    <3> QED
      BY <3>1 DEF Sections, Config, Scanning, Plans
  <2>2. ASSUME pc[p] \in InHook, GoesOn(p), cfg'.snaps = cfg.snaps PROVE Sections(p)'
    <3>1. /\ Kept(p) /\ pc'[p] = job[p].after /\ job'[p].conf.snaps = job[p].conf.snaps
          /\ job[p].after # "idle"
      BY <2>2 DEF GoesOn
    <3>2. CASE job[p].after = "file"
      <4>1. Plans(job[p]) /\ (job[p].op \in Trio => job[p].next = "hookwait")
        BY <2>2, <3>2 DEF Sections, Config
      <4> QED
        BY <2>2, <3>1, <3>2, <4>1 DEF Sections, Config, Scanning, Plans, Kept
    <3>3. CASE job[p].after = "mark"
      BY <1>b, <3>1, <3>3
    <3>4. CASE job[p].after = "scanned"
      <4>1. job[p].conf.snaps = cfg.snaps
        BY <2>2, <3>4 DEF Sections, Scanning
      <4> QED
        BY <2>2, <3>1, <3>4, <4>1 DEF Sections, Config, Scanning
    <3> QED
      BY <1>0, <2>2, <3>1, <3>2, <3>3, <3>4 DEF Trail
  <2>3. CASE HookImportFails(p)
    <3>1. pc[p] \in InHook /\ (Ends(p) \/ GoesOn(p)) /\ cfg' = cfg
      BY <1>0, <2>3, ImportFailsMove DEF guestVars
    <3> QED
      BY <1>b, <2>2, <3>1 DEF Ends
  <2>4. CASE HookSweep(p)
    <3>1. pc[p] \in InHook /\ (Ends(p) \/ GoesOn(p)) /\ cfg' = cfg
      BY <1>0, <2>4, SweepMove
    <3> QED
      BY <1>b, <2>2, <3>1 DEF Ends
  <2>5. CASE HookInstall(p)
    <3>1. pc[p] \in InHook /\ GoesOn(p) /\ cfg' = cfg
      BY <1>0, <2>5, InstallMove DEF guestVars
    <3> QED
      BY <2>2, <3>1
  <2>6. CASE HookTrio(p)
    BY <1>b, <2>6, FinishMove DEF HookTrio
  <2> QED
    BY <1>3, <2>1, <2>3, <2>4, <2>5, <2>6, NoFaults DEF Hook
<1> QED
  BY <1>1, <1>2, <1>3, NoFaults DEF Acts

-----------------------------------------------------------------------------
(* The copies go with the snapshots.                                       *)

(* A step that leaves sections and copies alone, and after which nobody    *)
(* builds who did not before.                                              *)
LEMMA MatchingFrame ==
  ASSUME TypeOK, Matching, NEW p \in Procs, Acts(p),
         cfg'.snaps = cfg.snaps, copies' = copies, had' = had,
         Building(p)' => Building(p), \A s \in Snaps : Dropping(p, s) => Dropping(p, s)'
  PROVE  Matching'
<1>0. \A q \in Procs \ {p} : pc'[q] = pc[q] /\ job'[q] = job[q]
  BY StepShape
<1>1. ASSUME NEW s \in Snaps PROVE Match(s)' \/ \E q \in Procs : Dropping(q, s)'
  <2>1. CASE Match(s)
    BY <2>1 DEF Match
  <2>2. ASSUME NEW q \in Procs, Dropping(q, s) PROVE Dropping(q, s)'
    BY <1>0, <2>2 DEF Dropping, InHook
  <2> QED
    BY <2>1, <2>2 DEF Matching
<1>2. ASSUME NEW q \in Procs, Building(q)' PROVE NoneKept'
  <2>1. Building(q)
    BY <1>0, <1>2 DEF Building, Config, InHook
  <2> QED
    BY <2>1 DEF Matching, NoneKept
<1> QED
  BY <1>1, <1>2 DEF Matching

(* The file written by a task: sections and copies stay in step, or the    *)
(* guest is new and its files are owed a purge.                            *)
LEMMA MatchingFile ==
  ASSUME TypeOK, Flow, Ownership, \A r \in Procs : Sections(r), Matching,
         NEW p \in Procs, WriteConfigFile(p), ~First(p)
  PROVE  Matching'
<1>0. /\ Trail(p) /\ FlowOf(p) /\ Sections(p) /\ job[p].snap \in Snaps
      /\ had \in [Snaps -> BOOLEAN] /\ job[p].next \in AfterWrite
  BY DEF Ownership, Mine, Flow, TypeOK, Job
<1>1. /\ pc[p] = "file" /\ cfg' = job[p].conf /\ copies' = copies
      /\ had' = IF job[p].op = "snapshot" THEN [had EXCEPT ![job[p].snap] = FALSE] ELSE had
  BY DEF WriteConfigFile, storeVars
<1>2. Config(p) /\ job[p].next # "mark" /\ Plans(job[p])
  BY <1>0, <1>1 DEF Config, First, Sections
<1>3. \A q \in Procs \ {p} : pc'[q] = pc[q] /\ job'[q] = job[q]
  BY StepShape DEF Acts, Task
<1>4. \A s \in Snaps : had'[s] => had[s]
  BY <1>0, <1>1
<1>5. NoneKept => NoneKept'
  BY <1>1, <1>4 DEF NoneKept
<1>6. ASSUME NEW q \in Procs, Building(q)' PROVE NoneKept'
  <2>1. CASE q # p
    <3>1. Building(q)
      BY <1>3, <1>6, <2>1 DEF Building, Config, InHook
    <3> QED
      BY <1>5, <3>1 DEF Matching
  <2>2. CASE q = p
    <3>1. job[p].next \in {"build", "built"}
      BY <1>2, <1>6, <2>2, FileMove DEF Building, Config, InHook
    <3>2. Building(p)
      BY <1>0, <1>2, <3>1 DEF FlowOf, Building
    <3> QED
      BY <1>5, <3>2 DEF Matching
  <2> QED
    BY <2>1, <2>2
<1>7. ASSUME NEW s \in Snaps PROVE Match(s)' \/ \E q \in Procs : Dropping(q, s)'
  <2>1. CASE NoneKept
    <3>1. ~copies'[s].there /\ ~had'[s]
      BY <1>5, <2>1, NoJobFields DEF NoneKept, NoCopies
    <3> QED
      BY <3>1 DEF Match
  <2>2. ASSUME NEW q \in Procs, Dropping(q, s) PROVE \E r \in Procs : Dropping(r, s)'
    <3>1. q # p
      BY <1>1, <2>2 DEF Dropping, InHook
    <3> QED
      BY <1>3, <2>2, <3>1 DEF Dropping, InHook
  <2>3. CASE Match(s) /\ ~NoneKept
    <3>1. job[p].op # "create"
      <4>1. job[p].op = "create" => Building(p)
        BY <1>2 DEF Building
      <4> QED
        BY <2>3, <4>1 DEF Matching
    <3>2. job[p].op \in {"set", "snapshot", "rollback", "delsnap"}
      BY <1>0, <1>2, <3>1 DEF Trail
    <3>3. CASE job[p].op \in {"set", "rollback"}
      <4>1. cfg'.snaps = cfg.snaps /\ had' = had
        BY <1>1, <1>2, <3>3 DEF Plans
      <4> QED
        BY <1>1, <2>3, <4>1 DEF Match
    <3>4. CASE job[p].op = "snapshot"
      <4>1. job[p].snap \notin cfg.snaps /\ cfg'.snaps = cfg.snaps \cup {job[p].snap}
        BY <1>1, <1>2, <3>4 DEF Plans
      <4>2. had' = [had EXCEPT ![job[p].snap] = FALSE]
        BY <1>1, <3>4
      <4> QED
        BY <1>0, <1>1, <2>3, <4>1, <4>2 DEF Match
    <3>5. CASE job[p].op = "delsnap"
      <4>1. cfg'.snaps = cfg.snaps \ {job[p].snap} /\ had' = had
        BY <1>1, <1>2, <3>5 DEF Plans
      <4>2. CASE s # job[p].snap
        BY <1>1, <2>3, <4>1, <4>2 DEF Match
      <4>3. CASE s = job[p].snap
        <5>1. job[p].next = "hookwait"
          BY <1>0, <1>2, <3>5 DEF Sections, Trio
        <5>2. Kept(p) /\ pc'[p] = "hookwait" /\ job'[p].hook = job[p].op
          BY <5>1, FileMove
        <5> QED
          BY <3>5, <4>3, <5>2 DEF Dropping, InHook, Kept
      <4> QED
        BY <4>2, <4>3
    <3> QED
      BY <3>2, <3>3, <3>4, <3>5
  <2> QED
    BY <2>1, <2>2, <2>3 DEF Matching
<1> QED
  BY <1>6, <1>7 DEF Matching

(* The snapshot hooks.                                                     *)
LEMMA MatchingTrio ==
  ASSUME TypeOK, Flow, Ownership, OneTask, \A r \in Procs : Sections(r), Matching,
         NEW p \in Procs, HookTrio(p)
  PROVE  Matching'
<1>0. /\ Sections(p) /\ job[p].snap \in Snaps /\ had \in [Snaps -> BOOLEAN]
      /\ copies \in [Snaps -> File] /\ doc.there \in BOOLEAN
  BY DEF TypeOK, Job, StoreTypeOK, File
<1>1. pc[p] = "hook" /\ pc'[p] = "idle" /\ cfg' = cfg
  BY FinishMove DEF HookTrio, guestVars
<1>2. \A q \in Procs \ {p} : pc'[q] = pc[q] /\ job'[q] = job[q]
  BY StepShape DEF Acts, Hook
<1>3. job[p].hook \in Trio
  BY DEF HookTrio, Trio
<1>4. AtWork(p)
  BY <1>0, <1>1, <1>3, WorkersWork DEF InHook, Trio
<1>5. \A q \in Procs : ~Building(q)'
  <2>1. ASSUME NEW q \in Procs \ {p} PROVE ~Building(q)'
    <3>1. ~Building(q)
      BY <1>4, <2>1, WorkersWork DEF OneTask
    <3> QED
      BY <1>2, <2>1, <3>1 DEF Building, Config, InHook
  <2>2. ~Building(p)'
    BY <1>1 DEF Building, Config, InHook
  <2> QED
    BY <2>1, <2>2
<1>6. ASSUME NEW s \in Snaps, NEW q \in Procs \ {p}, Dropping(q, s)
      PROVE  Dropping(q, s)'
  BY <1>2, <1>6 DEF Dropping, InHook
<1> DEFINE t == job[p].snap
<1>7. /\ job[p].hook # "delsnap" <=> t \in cfg.snaps
      /\ job[p].hook = "snapshot" => ~had[t]
  BY <1>0, <1>1, <1>3 DEF Sections, InHook
<1>8. ASSUME NEW s \in Snaps PROVE Match(s)' \/ \E q \in Procs : Dropping(q, s)'
  <2>1. CASE \E q \in Procs \ {p} : Dropping(q, s)
    BY <1>6, <2>1
  <2>2. CASE Dropping(p, s)
    <3>1. s = t /\ job[p].hook = "delsnap"
      BY <2>2 DEF Dropping
    <3>2. copies' = [copies EXCEPT ![t] = Absent]
      BY <3>1 DEF HookTrio, DeleteSnapshot
    <3>3. ~copies'[s].there
      BY <1>0, <3>1, <3>2, NoJobFields
    <3> QED
      BY <1>1, <1>7, <3>1, <3>3 DEF Match
  <2>3. CASE Match(s)
    <3>1. CASE job[p].hook = "snapshot"
      <4>1. /\ copies' = IF doc.there THEN [copies EXCEPT ![t] = doc] ELSE copies
            /\ had' = [had EXCEPT ![t] = doc.there]
        BY <3>1 DEF HookTrio, Snapshot
      <4>2. CASE s # t
        BY <1>0, <1>1, <2>3, <4>1, <4>2 DEF Match
      <4>3. CASE s = t
        <5>1. ~copies[t].there /\ t \in cfg'.snaps
          BY <1>1, <1>7, <2>3, <3>1, <4>3 DEF Match
        <5>2. copies'[t].there <=> had'[t]
          BY <1>0, <4>1, <5>1
        <5> QED
          BY <4>3, <5>1, <5>2 DEF Match
      <4> QED
        BY <4>2, <4>3
    <3>2. CASE job[p].hook = "rollback"
      BY <1>1, <2>3, <3>2 DEF HookTrio, Rollback, Match
    <3>3. CASE job[p].hook = "delsnap"
      <4>1. copies' = [copies EXCEPT ![t] = Absent] /\ had' = had
        BY <3>3 DEF HookTrio, DeleteSnapshot
      <4>2. CASE s # t
        BY <1>0, <1>1, <2>3, <4>1, <4>2 DEF Match
      <4>3. CASE s = t
        <5>1. ~copies'[s].there
          BY <1>0, <4>1, <4>3, NoJobFields
        <5> QED
          BY <1>1, <1>7, <3>3, <4>3, <5>1 DEF Match
      <4> QED
        BY <4>2, <4>3
    <3> QED
      BY <1>3, <3>1, <3>2, <3>3 DEF Trio
  <2> QED
    BY <2>1, <2>2, <2>3 DEF Matching
<1> QED
  BY <1>5, <1>8 DEF Matching

(* The steps that take no sides: sections, copies and what counts as being *)
(* built stay as they are.                                                 *)
LEMMA MatchingQuiet ==
  ASSUME LocalScans, MaxFaults = 0, TypeOK, Flow, Ownership, \A r \in Procs : Sections(r),
         Matching, NEW p \in Procs, Acts(p), ~missed, ~missed',
         ~HookSweep(p), ~PurgeCopies(p), ~WriteConfigFile(p), ~Unlink(p), ~AbortCreate(p),
         ~HookTrio(p)
  PROVE  Matching'
<1>0. /\ Mine(p) /\ Trail(p) /\ FlowOf(p) /\ Sections(p) /\ pc \in [Procs -> Labels]
  BY DEF Ownership, Mine, Flow, TypeOK
<1> USE DEF InHook
<1>a. pc[p] \notin InHook => \A s \in Snaps : ~Dropping(p, s)
  BY DEF Dropping
<1>1. CASE Api(p)
  <2>1. /\ cfg' = cfg /\ pc'[p] \notin {"mark", "build", "built", "config", "file"} \cup InHook
        /\ pc[p] \notin InHook
    BY <1>1, ApiMove DEF Away
  <2>2. copies' = copies /\ had' = had
    BY <1>1 DEF Api, Request, Remove, Acquire, LockTimeout, CheckGuest, Refuse, ReadDocument,
           WriteDocument, PurgeDocument, PutRaw, Delete, storeVars, ghostVars
  <2>3. ~Building(p)'
    BY <2>1 DEF Building, Config
  <2> QED
    BY <1>a, <2>1, <2>2, <2>3, MatchingFrame
<1>2. CASE Task(p)
  <2>1. CASE \/ BeginSet(p) \/ BeginCreate(p) \/ BeginDestroy(p)
             \/ BeginSnapshot(p) \/ BeginRollback(p) \/ BeginDelsnap(p)
    <3>1. /\ pc[p] = "idle" /\ pc'[p] \in {"unlink", "config"}
          /\ job'[p].op = "create" => job'[p].next = "mark"
          /\ cfg' = cfg /\ copies' = copies /\ had' = had
      BY <2>1, BeginMove DEF Begins, guestVars, storeVars, ghostVars
    <3>2. ~Building(p)'
      BY <3>1 DEF Building, Config
    <3> QED
      BY <1>a, <3>1, <3>2, MatchingFrame
  <2>2. CASE BeginScan(p)
    <3>1. /\ pc[p] = "idle" /\ pc'[p] = "hookwait" /\ job'[p].after = "scanned"
          /\ cfg' = cfg /\ copies' = copies /\ had' = had
      BY <2>2, ScanMove DEF guestVars, storeVars, ghostVars
    <3>2. ~Building(p)'
      BY <3>1 DEF Building, Config
    <3> QED
      BY <1>a, <3>1, <3>2, MatchingFrame
  <2>3. CASE WriteConfig(p)
    <3>1. /\ pc[p] = "config" /\ pc'[p] \in {"file", "hookwait"} /\ Kept(p)
          /\ job'[p].after = "file" /\ cfg' = cfg /\ copies' = copies /\ had' = had
      BY <2>3, ConfigMove DEF storeVars, ghostVars
    <3>2. Building(p)' => Building(p)
      BY <3>1 DEF Building, Config, Kept
    <3> QED
      BY <1>a, <3>1, <3>2, MatchingFrame
  <2>4. CASE CreateConflict(p)
    <3>1. /\ pc[p] = "file" /\ pc'[p] = "idle" /\ cfg' = cfg /\ copies' = copies /\ had' = had
      BY <2>4, FinishMove DEF CreateConflict, guestVars, storeVars, ghostVars
    <3>2. ~Building(p)'
      BY <3>1 DEF Building, Config
    <3> QED
      BY <1>a, <3>1, <3>2, MatchingFrame
  <2>5. CASE MarkCreated(p) \/ BuildWrite(p)
    <3>1. /\ pc[p] \in {"mark", "build", "built"}
          /\ cfg' = cfg /\ copies' = copies /\ had' = had
      BY <2>5, BuildMove DEF MarkCreated, guestVars, storeVars, ghostVars
    <3>2. Building(p)
      BY <3>1 DEF Building
    <3> QED
      BY <1>a, <3>1, <3>2, MatchingFrame
  <2>6. CASE WriteScanned(p)
    <3>1. /\ pc[p] = "scanned" /\ pc'[p] = "idle" /\ cfg' = job[p].conf
          /\ copies' = copies /\ had' = had
      BY <2>6, FinishMove DEF WriteScanned, storeVars, ghostVars
    <3>2. cfg'.snaps = cfg.snaps
      BY <1>0, <3>1 DEF Sections, Scanning
    <3>3. ~Building(p)'
      BY <3>1 DEF Building, Config
    <3> QED
      BY <1>a, <3>1, <3>2, <3>3, MatchingFrame
  <2> QED
    BY <1>2, <2>1, <2>2, <2>3, <2>4, <2>5, <2>6 DEF Task
<1>3. CASE Hook(p)
  <2>1. CASE HookAcquire(p) \/ HookPurge(p) \/ HookImport(p)
    <3>1. /\ pc[p] \in InHook /\ pc'[p] \in InHook /\ job'[p] = job[p]
          /\ cfg' = cfg /\ copies' = copies /\ had' = had
      BY <2>1, QuietHook DEF guestVars, ghostVars
    <3>2. Building(p)' => Building(p)
      BY <3>1 DEF Building, Config
    <3>3. \A s \in Snaps : Dropping(p, s) => Dropping(p, s)'
      BY <3>1 DEF Dropping
    <3> QED
      BY <3>1, <3>2, <3>3, MatchingFrame
  <2>2. CASE HookImportFails(p)
    <3>1. /\ job[p].hook = "install" /\ pc'[p] = "idle"
          /\ cfg' = cfg /\ copies' = copies /\ had' = had
      BY <1>0, <2>2, ImportFailsMove DEF Ends, HookImportFails, guestVars, storeVars
    <3>2. ~Building(p)' /\ \A s \in Snaps : ~Dropping(p, s)
      BY <3>1 DEF Building, Config, Dropping
    <3> QED
      BY <3>1, <3>2, MatchingFrame
  <2>3. CASE HookInstall(p)
    <3>1. /\ job[p].hook = "install" /\ pc'[p] = "scanned"
          /\ cfg' = cfg /\ copies' = copies /\ had' = had
      BY <1>0, <2>3, InstallMove DEF guestVars, ghostVars
    <3>2. ~Building(p)' /\ \A s \in Snaps : ~Dropping(p, s)
      BY <3>1 DEF Building, Config, Dropping
    <3> QED
      BY <3>1, <3>2, MatchingFrame
  <2> QED
    BY <1>3, <2>1, <2>2, <2>3, NoFaults DEF Hook
<1> QED
  BY <1>1, <1>2, <1>3, NoFaults DEF Acts

LEMMA CopiedStep ==
  ASSUME LocalScans, MaxFaults = 0, IInv, Ownership, OneTask,
         \A r \in Procs : Sections(r), Copied, NEW p \in Procs, Acts(p)
  PROVE  Copied'
<1>0. TypeOK /\ Flow
  BY DEF IInv
<1>1. CASE HookSweep(p) \/ PurgeCopies(p)
  <2>1. copies' = NoCopies /\ had' = [s \in Snaps |-> FALSE]
    BY <1>1 DEF HookSweep, PurgeCopies, DeleteSnapshots
  <2>2. \A s \in Snaps : ~copies'[s].there /\ ~had'[s]
    BY <2>1, NoJobFields DEF NoCopies
  <2> QED
    BY <2>1, <2>2 DEF Copied, Matching, Match, NoneKept
<1>2. CASE ~HookSweep(p) /\ ~PurgeCopies(p)
  <2> SUFFICES ASSUME ~missed' PROVE Matching' \/ \E q \in Procs : Debt(q)'
    BY DEF Copied
  <2>1. ~missed
    BY <1>2, MissedStays
  <2>2. ASSUME NEW q \in Procs, Debt(q) PROVE Debt(q)'
    <3>1. CASE q = p
      BY <1>0, <1>2, <2>2, <3>1, OwnDebt
    <3>2. CASE q # p
      BY <1>0, <1>2, <2>2, <3>2, OthersDebt
    <3> QED
      BY <3>1, <3>2
  <2>3. CASE Matching
    <3>1. CASE Unlink(p) \/ AbortCreate(p)
      <4>1. Debt(p)'
        BY <1>0, <3>1, UnlinkMove, AbortMove DEF Debt, Destroying, InHook
      <4> QED
        BY <4>1
    <3>2. CASE WriteConfigFile(p) /\ First(p)
      <4>1. job[p].next = "mark"
        BY <3>2 DEF First
      <4>2. \/ pc'[p] = "hookwait" /\ job'[p].after = "mark"
            \/ pc'[p] = "mark" /\ job'[p].allow
        BY <1>0, <3>2, <4>1, FileMove DEF Kept
      <4>3. Debt(p)'
        BY <4>2 DEF Debt, InHook
      <4> QED
        BY <4>3
    <3>3. CASE WriteConfigFile(p) /\ ~First(p)
      BY <1>0, <2>3, <3>3, MatchingFile
    <3>4. CASE HookTrio(p)
      BY <1>0, <2>3, <3>4, MatchingTrio
    <3> QED
      BY <1>0, <1>2, <2>1, <2>3, <3>1, <3>2, <3>3, <3>4, MatchingQuiet
  <2> QED
    BY <2>1, <2>2, <2>3 DEF Copied
<1> QED
  BY <1>1, <1>2

LEMMA SnapshotsStep ==
  ASSUME LocalScans, Serial, MaxFaults = 0, IInv, Ownership, Snapshots, [Next]_vars
  PROVE  Snapshots'
<1>0. TypeOK /\ Flow /\ OneTask /\ Copied /\ \A r \in Procs : Sections(r)
  BY DEF IInv, Snapshots
<1>1. CASE UNCHANGED vars
  <2>1. OneTask'
    BY <1>0, <1>1 DEF OneTask, AtWork, vars
  <2>2. \A r \in Procs : Sections(r)'
    BY <1>0, <1>1 DEF Sections, Config, Scanning, InHook, Plans, vars, guestVars, ghostVars
  <2>3. Copied'
    BY <1>0, <1>1 DEF Copied, Matching, Match, Dropping, NoneKept, Building, Config, InHook,
           Debt, Destroying, vars, storeVars, guestVars, ghostVars
  <2> QED
    BY <2>1, <2>2, <2>3 DEF Snapshots
<1>2. ASSUME NEW p \in Procs, Acts(p) PROVE Snapshots'
  <2>1. OneTask'
    BY <1>0, <1>2, OneTaskStep
  <2>2. ASSUME NEW q \in Procs PROVE Sections(q)'
    <3>1. CASE q = p
      BY <1>0, <1>2, <3>1, SectionsOwn
    <3>2. CASE q # p
      BY <1>0, <1>2, <3>2, SectionsOthers
    <3> QED
      BY <3>1, <3>2
  <2>3. Copied'
    BY <1>0, <1>2, CopiedStep
  <2> QED
    BY <2>1, <2>2, <2>3 DEF Snapshots
<1> QED
  BY <1>0, <1>1, <1>2, NoFaults DEF Next, Acts

(* With one task at a time and no missed hook, on_rollback finds a copy    *)
(* exactly if the guest had a document when the snapshot was taken, for    *)
(* any number of snapshots, incarnations and requests in between.          *)
THEOREM RollbacksFindTheirCopies ==
  ASSUME LocalScans, Serial, MaxFaults = 0 PROVE Spec => []RollbackMatchesSnapshot
<1>1. Init => Snapshots
  <2> SUFFICES ASSUME Init PROVE Snapshots
    OBVIOUS
  <2>1. /\ \A p \in Procs : pc[p] = "idle"
        /\ copies = NoCopies /\ had = [s \in Snaps |-> FALSE]
    BY DEF Init, StoreInit
  <2>2. \A s \in Snaps : Match(s)
    BY <2>1, NoJobFields DEF Match, NoCopies
  <2> QED
    BY <2>1, <2>2 DEF Snapshots, OneTask, AtWork, Sections, Config, Scanning, InHook, Copied,
           Matching, Building
<1>2. IInv /\ Ownership /\ Snapshots /\ [Next]_vars => Snapshots'
  BY SnapshotsStep
<1>3. IInv /\ Ownership /\ Snapshots => RollbackMatchesSnapshot
  <2> SUFFICES ASSUME IInv, Ownership, Snapshots, NEW p \in Procs,
                      ~missed, pc[p] = "hook", job[p].hook = "rollback"
               PROVE  copies[job[p].snap].there <=> had[job[p].snap]
    BY DEF RollbackMatchesSnapshot
  <2>0. /\ Flow /\ Sections(p) /\ Copied /\ OneTask /\ job[p].snap \in Snaps
    BY DEF IInv, Snapshots, TypeOK, Job
  <2>1. job[p].op = "rollback" /\ job[p].snap \in cfg.snaps /\ AtWork(p)
    BY <2>0 DEF Sections, InHook, Trio, AtWork, Tasks
  <2>2. ASSUME NEW q \in Procs, Debt(q) PROVE FALSE
    <3>1. AtWork(q) /\ job[q].op \in {"create", "destroy"}
      BY <2>0, <2>2, DebtOp DEF AtWork, Tasks
    <3> QED
      BY <2>0, <2>1, <3>1 DEF OneTask
  <2>3. ASSUME NEW q \in Procs, Dropping(q, job[p].snap) PROVE FALSE
    BY <2>1, <2>3 DEF Dropping, Snapshots, Sections, Trio
  <2>4. Match(job[p].snap)
    BY <2>0, <2>2, <2>3 DEF Copied, Matching
  <2> QED
    BY <2>1, <2>4 DEF Match
<1> QED
  BY <1>1, <1>2, <1>3, AlwaysIInv, AlwaysOwnership, PTL DEF Spec
=============================================================================
