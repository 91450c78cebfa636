--------------------------- MODULE MetaLifecycle ---------------------------
(***************************************************************************)
(* Everything that writes one guest's document, and the locks it does so   *)
(* under: API and CLI requests (perl/PVE/API2/Ext/Meta.pm, bin/pve-meta,   *)
(* api.rs), the lifecycle hooks patched into PVE's AbstractConfig.pm,      *)
(* `pve-meta rm' and `pve-meta scan-notes'.                                *)
(*                                                                         *)
(* Two kinds of lock.  The document lock, cfs_lock_domain                  *)
(* "pve-meta-<vmid>", is cluster-wide and taken by every writer.  The      *)
(* guest lock, lock_config, is node-local and PVE's own: create, destroy   *)
(* and every config write hold it, API requests never do.                  *)
(*                                                                         *)
(* A process runs one request or task at a time, in the steps between      *)
(* which another process can run.                                          *)
(***************************************************************************)
EXTENDS MetaEdit

CONSTANTS
  Procs,      (* API workers, CLI invocations and PVE tasks                *)
  NoProc,     (* the holder of a free lock                                 *)
  Nodes,      (* cluster nodes                                             *)
  Jobs,       (* the kinds of work the processes take up                   *)
  Serial,     (* TRUE: no PVE task starts while another runs               *)
  MaxGen,     (* bound: incarnations of the guest                          *)
  MaxFaults   (* bound: missed hooks, dead processes, garbled files        *)

AllJobs == {"request", "rm", "scan", "set", "create", "destroy", "snapshot",
            "rollback", "delsnap"}

Tasks == {"set", "create", "destroy", "snapshot", "rollback", "delsnap"}

ASSUME ProcsAssumption == NoProc \notin Procs
ASSUME JobsAssumption == Jobs \subseteq AllJobs
ASSUME SerialAssumption == Serial \in BOOLEAN
ASSUME BoundsAssumption == MaxGen \in Nat /\ MaxFaults \in Nat
ASSUME NodesAssumption == Nodes # {} /\ Snaps # {}

VARIABLES
  lock,       (* holder of the document lock                               *)
  glock,      (* holder of each node's guest lock                          *)
  cfg,        (* the guest's configuration file                            *)
  gen,        (* history: which incarnation of the vmid this is            *)
  created,    (* nodes with the restore marker /run/pve-meta/<vmid>        *)
  existing,   (* nodes with its companion <vmid>.existing                  *)
  pc,         (* where each process is                                     *)
  job,        (* what each process is doing                                *)
  missed,     (* history: a purge or import was missed and none followed   *)
  had,        (* history: had the guest a document when s was taken?       *)
  faults      (* faults so far                                             *)

lockVars == <<lock, glock>>
guestVars == <<cfg, gen, created, existing>>
ghostVars == <<missed, had, faults>>
vars == <<storeVars, lockVars, guestVars, pc, job, ghostVars>>

-----------------------------------------------------------------------------
(* A configuration: in the vmlist or not, on which node, whether it        *)
(* carries a `lock:' line, the pve-meta block in its notes and its         *)
(* snapshot sections.  A block with gen 0 was pasted into the notes, one   *)
(* with an incarnation came with the backup that incarnation restored.     *)
Conf == [alive : BOOLEAN, node : Nodes, locked : BOOLEAN, block : File,
         snaps : SUBSET Snaps]

Hooks == {"none", "purge", "destroy", "import", "install", "snapshot",
          "rollback", "delsnap"}

Labels == {"idle", "want", "check", "read", "write",      (* API and CLI   *)
           "purge", "sweep",                              (* purge         *)
           "config", "file", "unlink",                    (* config writes *)
           "hookwait", "hook", "hooksweep",               (* locked_warn   *)
           "mark", "build", "built", "scanned"}           (* continuations *)

AfterWrite == {"idle", "mark", "build", "built", "hookwait"}

AfterHook == {"idle", "file", "mark", "scanned"}

Job == [op : AllJobs \cup {"none"},
        node : Nodes,
        snap : Snaps,
        req : Requests,        (* what an API request asks                 *)
        pre : Preconditions,   (* the digest it names, if any              *)
        seen : File,           (* the document it planned against          *)
        plan : SUBSET Keys,    (* the document it would write              *)
        for : Nat,             (* history: the incarnation it acts for     *)
        allow : BOOLEAN,       (* create_and_lock_config's $allow_existing *)
        block : File,          (* the notes block of the restored backup   *)
        conf : Conf,           (* the configuration about to be written    *)
        next : AfterWrite,     (* where to go on after that write          *)
        hook : Hooks,          (* the hook about to run                    *)
        after : AfterHook]     (* where to go on after the hook            *)

AnyNode == CHOOSE n \in Nodes : TRUE

NoConf == [alive |-> FALSE, node |-> AnyNode, locked |-> FALSE,
           block |-> Absent, snaps |-> {}]

NoJob == [op |-> "none", node |-> AnyNode, snap |-> CHOOSE s \in Snaps : TRUE,
          req |-> [act |-> "replace", keys |-> {}], pre |-> {},
          seen |-> Absent, plan |-> {}, for |-> 0, allow |-> FALSE,
          block |-> Absent, conf |-> NoConf, next |-> "idle", hook |-> "none",
          after |-> "idle"]

Init ==
  /\ StoreInit
  /\ lock = NoProc
  /\ glock = [n \in Nodes |-> NoProc]
  /\ cfg = NoConf
  /\ gen = 0
  /\ created = {}
  /\ existing = {}
  /\ pc = [p \in Procs |-> "idle"]
  /\ job = [p \in Procs |-> NoJob]
  /\ missed = FALSE
  /\ had = [s \in Snaps |-> FALSE]
  /\ faults = 0

-----------------------------------------------------------------------------
(* Moves of a process and of the locks it holds.                           *)

Goto(p, l) == pc' = [pc EXCEPT ![p] = l]

Finish(p) ==
  /\ Goto(p, "idle")
  /\ job' = [job EXCEPT ![p] = NoJob]

Unlock == lock' = NoProc /\ UNCHANGED glock

(* The guest lock of the job's node, let go if this process holds it.      *)
GuestUnlock(p) ==
  glock' = [n \in Nodes |-> IF glock[n] = p THEN NoProc ELSE glock[n]]

Running(T) == {p \in Procs : pc[p] # "idle" /\ job[p].op \in T}

(* A process takes up a piece of work.                                     *)
Start(p, op) ==
  /\ pc[p] = "idle"
  /\ op \in Jobs
  /\ op \in Tasks /\ Serial => Running(Tasks) = {}

-----------------------------------------------------------------------------
(* API and CLI writes.                                                     *)

(* A PUT or DELETE arrives, with or without a digest.                      *)
Request(p) ==
  /\ Start(p, "request")
  /\ \E req \in Requests, pre \in Preconditions :
       job' = [job EXCEPT ![p] = [NoJob EXCEPT !.op = "request",
                                               !.req = req, !.pre = pre]]
  /\ Goto(p, "want")
  /\ UNCHANGED <<storeVars, lockVars, guestVars, ghostVars>>

(* pve-meta rm.                                                            *)
Remove(p) ==
  /\ Start(p, "rm")
  /\ \E n \in Nodes :
       job' = [job EXCEPT ![p] = [NoJob EXCEPT !.op = "rm", !.node = n]]
  /\ Goto(p, "want")
  /\ UNCHANGED <<storeVars, lockVars, guestVars, ghostVars>>

(* cfs_lock_domain hands the document lock to one waiter.                  *)
Acquire(p) ==
  /\ pc[p] = "want"
  /\ lock = NoProc
  /\ lock' = p
  /\ Goto(p, "check")
  /\ UNCHANGED <<storeVars, glock, guestVars, job, ghostVars>>

(* Mutant of LockTimeout: no timeout.                                      *)
MutNoTimeout(p) == FALSE /\ Finish(p)

(* ... or gives up after its timeout: the request is answered 503.         *)
LockTimeout(p) ==
  /\ pc[p] = "want"
  /\ lock # NoProc
  /\ Finish(p)
  /\ UNCHANGED <<storeVars, lockVars, guestVars, ghostVars>>

(* Mutant of CheckGuest: the vmlist was only read outside the lock.        *)
MutUncheckedGuest(p) ==
  /\ pc[p] = "check"
  /\ Goto(p, IF job[p].op = "rm" THEN "purge" ELSE "read")
  /\ job' = [job EXCEPT ![p].for = gen]
  /\ UNCHANGED <<storeVars, lockVars, guestVars, ghostVars>>

(* The vmlist check, made inside the lock: a request needs the guest, `rm' *)
(* needs it gone.                                                          *)
CheckGuest(p) ==
  /\ pc[p] = "check"
  /\ \/ /\ job[p].op = "request"
        /\ cfg.alive
        /\ Goto(p, "read")
     \/ /\ job[p].op = "rm"
        /\ ~cfg.alive
        /\ Goto(p, "purge")
  /\ job' = [job EXCEPT ![p].for = gen]
  /\ UNCHANGED <<storeVars, lockVars, guestVars, ghostVars>>

(* Mutant of Refuse: the error path keeps the lock.                        *)
MutRefuseKeepsLock(p) ==
  /\ \/ pc[p] = "check" /\ (cfg.alive <=> job[p].op = "rm")
     \/ pc[p] = "read"
  /\ Finish(p)
  /\ UNCHANGED <<storeVars, lockVars, guestVars, ghostVars>>

(* The request is answered with an error: no such guest (404), a live one  *)
(* for `rm', a digest that does not match (409), a view of a document that *)
(* cannot be read back (400), and whatever only depends on data left out   *)
(* here: no permission (403), the lint (400), an enforced schema (422), an *)
(* unavailable store (503).  A dry run also ends here.                     *)
Refuse(p) ==
  /\ \/ pc[p] = "check" /\ (cfg.alive <=> job[p].op = "rm")
     \/ pc[p] = "read"
  /\ Finish(p)
  /\ Unlock
  /\ UNCHANGED <<storeVars, guestVars, ghostVars>>

(* Mutant of ReadDocument: no check_precondition before the plan.          *)
MutReadAnyDigest(p) ==
  /\ pc[p] = "read"
  /\ Repairable(job[p].req, doc)
  /\ job' = [job EXCEPT ![p].seen = doc, ![p].plan = Plan(job[p].req, doc)]
  /\ Goto(p, "write")
  /\ UNCHANGED <<storeVars, lockVars, guestVars, ghostVars>>

(* check_precondition, read_stored, check_repairable and the plan.         *)
ReadDocument(p) ==
  /\ pc[p] = "read"
  /\ MatchesDigest(doc, job[p].pre)
  /\ Repairable(job[p].req, doc)
  /\ job' = [job EXCEPT ![p].seen = doc, ![p].plan = Plan(job[p].req, doc)]
  /\ Goto(p, "write")
  /\ UNCHANGED <<storeVars, lockVars, guestVars, ghostVars>>

(* store.delete for a whole document; nothing for a plan that changes      *)
(* nothing; else put_raw, which checks the digest again.                   *)
WriteDocument(p) ==
  /\ pc[p] = "write"
  /\ LET j == job[p] IN
       IF j.req.act = "delete" THEN Delete
       ELSE IF Unchanged(j.req, j.plan, j.seen) THEN UNCHANGED storeVars
       ELSE PutRaw(j.plan, j.for, j.pre)
  /\ Finish(p)
  /\ Unlock
  /\ UNCHANGED <<guestVars, ghostVars>>

(* rm ends in on_destroy: the document, ...                                *)
PurgeDocument(p) ==
  /\ pc[p] = "purge"
  /\ Delete
  /\ Goto(p, "sweep")
  /\ UNCHANGED <<lockVars, guestVars, job, ghostVars>>

(* ... every copy, and the restore marker of the node it runs on.          *)
PurgeCopies(p) ==
  /\ pc[p] = "sweep"
  /\ DeleteSnapshots
  /\ created' = created \ {job[p].node}
  /\ missed' = FALSE
  /\ had' = [s \in Snaps |-> FALSE]
  /\ Finish(p)
  /\ Unlock
  /\ UNCHANGED <<cfg, gen, existing, faults>>

-----------------------------------------------------------------------------
(* PVE tasks.  Begin takes the node's guest lock and settles on the        *)
(* configuration to write; write_config then runs in two steps around its  *)
(* hook.                                                                   *)

Begin(p, j, l) ==
  /\ Start(p, j.op)
  /\ glock[j.node] = NoProc
  /\ glock' = [glock EXCEPT ![j.node] = p]
  /\ job' = [job EXCEPT ![p] = j]
  /\ Goto(p, l)
  /\ UNCHANGED <<storeVars, lock, guestVars, ghostVars>>

(* check_lock: an ordinary task refuses a configuration that carries a     *)
(* lock line.                                                              *)
Editable(n) == cfg.alive /\ cfg.node = n /\ ~cfg.locked

(* qm set: the notes lose their block or gain a pasted one.  qm unlock: a  *)
(* lock line left by a task that died is dropped.                          *)
BeginSet(p) ==
  \E n \in Nodes, K \in SUBSET Keys, b \in {"paste", "clear", "unlock"} :
    /\ IF b = "unlock"
         THEN cfg.alive /\ cfg.node = n /\ cfg.locked /\ Running(Tasks) = {}
         ELSE Editable(n)
    /\ Begin(p, [NoJob EXCEPT
                   !.op = "set", !.node = n,
                   !.conf = CASE b = "paste" -> [cfg EXCEPT !.block = Text(K, 0)]
                              [] b = "clear" -> [cfg EXCEPT !.block = Absent]
                              [] b = "unlock" -> [cfg EXCEPT !.locked = FALSE]],
             "config")

(* create_and_lock_config: check_vmid_unused, check_lock, then a locked    *)
(* configuration.  A restore brings the notes of its backup, whose block   *)
(* may not parse.                                                          *)
BeginCreate(p) ==
  \E n \in Nodes, allow \in BOOLEAN,
     b \in {Absent, Garbled(gen + 1)} \cup {Text(K, gen + 1) : K \in SUBSET Keys} :
    /\ gen < MaxGen
    /\ cfg.alive => allow /\ Editable(n)
    /\ Begin(p, [NoJob EXCEPT
                   !.op = "create", !.node = n, !.allow = allow, !.block = b,
                   !.next = "mark",
                   !.conf = IF cfg.alive THEN [cfg EXCEPT !.locked = TRUE]
                            ELSE [NoConf EXCEPT !.alive = TRUE, !.node = n,
                                                !.locked = TRUE]],
             "config")

BeginDestroy(p) ==
  \E n \in Nodes :
    /\ Editable(n)
    /\ Begin(p, [NoJob EXCEPT !.op = "destroy", !.node = n, !.for = gen],
             "unlink")

(* The snapshot trio, from the point where the task commits the section.   *)
BeginSnapshot(p) ==
  \E n \in Nodes, s \in Snaps :
    /\ Editable(n)
    /\ s \notin cfg.snaps
    /\ Begin(p, [NoJob EXCEPT !.op = "snapshot", !.node = n, !.snap = s,
                              !.for = gen, !.next = "hookwait",
                              !.conf = [cfg EXCEPT !.snaps = @ \cup {s}]],
             "config")

BeginRollback(p) ==
  \E n \in Nodes, s \in Snaps :
    /\ Editable(n)
    /\ s \in cfg.snaps
    /\ Begin(p, [NoJob EXCEPT !.op = "rollback", !.node = n, !.snap = s,
                              !.for = gen, !.next = "hookwait", !.conf = cfg],
             "config")

BeginDelsnap(p) ==
  \E n \in Nodes, s \in Snaps :
    /\ Editable(n)
    /\ s \in cfg.snaps
    /\ Begin(p, [NoJob EXCEPT !.op = "delsnap", !.node = n, !.snap = s,
                              !.for = gen, !.next = "hookwait",
                              !.conf = [cfg EXCEPT !.snaps = @ \ {s}]],
             "config")

-----------------------------------------------------------------------------
(* Mutants of TakesMarker: no marker needed; an unlocked write leaves it.  *)
MutTakesWithoutMarker(conf) == conf.block.there \/ ~conf.locked
MutTakesForABlockOnly(conf) == conf.block.there /\ conf.node \in created

(* write_config, patched.  Before the file is written the restore marker   *)
(* is taken by a write that carries a block or is unlocked; what it took   *)
(* decides whether the block is imported, the replaced guest's document    *)
(* cleared, or nothing done.                                               *)
TakesMarker(conf) ==
  /\ conf.block.there \/ ~conf.locked
  /\ conf.node \in created

WriteConfig(p) ==
  /\ pc[p] = "config"
  /\ LET conf == job[p].conf
         n == conf.node
         took == TakesMarker(conf)
         hook == CASE took /\ conf.block.there -> "import"
                   [] took /\ ~conf.block.there /\ n \in existing -> "purge"
                   [] OTHER -> "none"
     IN /\ created' = IF took THEN created \ {n} ELSE created
        /\ existing' = IF took THEN existing \ {n} ELSE existing
        /\ job' = [job EXCEPT ![p].hook = hook, ![p].after = "file"]
        /\ Goto(p, IF hook = "none" THEN "file" ELSE "hookwait")
  /\ UNCHANGED <<storeVars, lockVars, cfg, gen, ghostVars>>

(* pmxcfs lets one node have a vmid: the first write of a create that lost *)
(* the race for it to another node fails, and the task with it.            *)
TakenElsewhere(j) == j.next = "mark" /\ cfg.alive /\ cfg.node # j.node

(* cfs_write_file, and the task's way on.  The first write of a create     *)
(* puts the guest into the vmlist and is followed by the create hook,      *)
(* outside the guest lock, unless it went over an existing guest; a        *)
(* snapshot task's write is followed by its hook.                          *)
WriteConfigFile(p) ==
  /\ pc[p] = "file"
  /\ LET j == job[p]
         on_create == j.next = "mark" /\ ~j.allow
         trio == j.next = "hookwait"
     IN /\ ~TakenElsewhere(j)
        /\ cfg' = j.conf
        /\ gen' = IF j.next = "mark" THEN gen + 1 ELSE gen
        /\ had' = IF j.op = "snapshot" THEN [had EXCEPT ![j.snap] = FALSE] ELSE had
        /\ IF j.next = "idle" THEN Finish(p)
           ELSE /\ Goto(p, IF on_create THEN "hookwait" ELSE j.next)
                /\ job' = [job EXCEPT
                     ![p].hook = IF on_create THEN "purge"
                                 ELSE IF trio THEN j.op ELSE "none",
                     ![p].after = IF on_create THEN "mark" ELSE "idle",
                     ![p].conf = NoConf]
  /\ GuestUnlock(p)
  /\ UNCHANGED <<storeVars, lock, created, existing, missed, faults>>

CreateConflict(p) ==
  /\ pc[p] = "file"
  /\ TakenElsewhere(job[p])
  /\ Finish(p)
  /\ GuestUnlock(p)
  /\ UNCHANGED <<storeVars, lock, guestVars, ghostVars>>

(* mark_created, and the companion marker: set for a restore over an       *)
(* existing guest, cleared by a plain create.  Either can fail, on its     *)
(* own; the create then warns and goes on, and an import or a clearing     *)
(* will be missed.                                                         *)
MarkCreated(p) ==
  /\ pc[p] = "mark"
  /\ LET n == job[p].node
         marked == created \cup {n}
         over == IF job[p].allow THEN existing \cup {n} ELSE existing \ {n}
     IN \/ created' = marked /\ existing' = over /\ UNCHANGED <<missed, faults>>
        \/ /\ faults < MaxFaults /\ faults' = faults + 1
           /\ created' \in {created, marked} /\ existing' \in {existing, over}
           /\ missed' = TRUE
  /\ Goto(p, "build")
  /\ UNCHANGED <<storeVars, lockVars, cfg, gen, job, had>>

(* The writes a create or restore makes under the guest lock until it is   *)
(* done: pve-container's bare locked skeleton, the configuration with the  *)
(* backup's notes (still locked or not), and the one that drops the lock.  *)
BuildWrite(p) ==
  LET n == job[p].node
      Build(from, conf, next) ==
        /\ pc[p] = from
        /\ job' = [job EXCEPT ![p].conf = conf, ![p].next = next]
      fresh == [NoConf EXCEPT !.alive = TRUE, !.node = n, !.locked = TRUE]
      archive == [fresh EXCEPT !.block = job[p].block]
  IN /\ glock[n] = NoProc
     /\ \/ Build("build", fresh, "build")
        \/ Build("build", archive, "built")
        \/ Build("build", [archive EXCEPT !.locked = FALSE], "idle")
        \/ Build("built", [cfg EXCEPT !.locked = FALSE], "idle")
     /\ glock' = [glock EXCEPT ![n] = p]
     /\ Goto(p, "config")
     /\ UNCHANGED <<storeVars, lock, guestVars, ghostVars>>

(* A create or restore fails: its cleanup destroys the configuration.      *)
AbortCreate(p) ==
  /\ pc[p] \in {"build", "built"}
  /\ glock[job[p].node] = NoProc
  /\ glock' = [glock EXCEPT ![job[p].node] = p]
  /\ job' = [job EXCEPT ![p] = [NoJob EXCEPT !.op = "destroy",
                                             !.node = job[p].node]]
  /\ Goto(p, "unlink")
  /\ UNCHANGED <<storeVars, lock, guestVars, ghostVars>>

(* destroy_config: the configuration goes, then its hook runs.             *)
Unlink(p) ==
  /\ pc[p] = "unlink"
  /\ cfg' = NoConf
  /\ job' = [job EXCEPT ![p].hook = "destroy", ![p].after = "idle"]
  /\ Goto(p, "hookwait")
  /\ UNCHANGED <<storeVars, lockVars, gen, created, existing, ghostVars>>

-----------------------------------------------------------------------------
(* Mutant of BeginScan: no guest lock on the scan's own node either.       *)
MutScanUnlocked(p) ==
  /\ Start(p, "scan")
  /\ cfg.alive /\ cfg.block.there
  /\ \E n \in Nodes :
       job' = [job EXCEPT ![p] = [NoJob EXCEPT
                 !.op = "scan", !.node = n, !.for = gen, !.conf = cfg,
                 !.hook = "install", !.after = "scanned"]]
  /\ Goto(p, "hookwait")
  /\ UNCHANGED <<storeVars, lockVars, guestVars, ghostVars>>

(* pve-meta scan-notes.  The configuration is read (again) under the guest *)
(* lock if the guest is on the node the scan runs on, under no lock at all *)
(* if it is not; the import then waits for the document lock.              *)
BeginScan(p) ==
  /\ Start(p, "scan")
  /\ cfg.alive /\ cfg.block.there
  /\ \E n \in Nodes :
       /\ IF n = cfg.node
            THEN /\ glock[n] = NoProc
                 /\ glock' = [glock EXCEPT ![n] = p]
            ELSE UNCHANGED glock
       /\ job' = [job EXCEPT ![p] = [NoJob EXCEPT
                    !.op = "scan", !.node = n, !.for = gen, !.conf = cfg,
                    !.hook = "install", !.after = "scanned"]]
  /\ Goto(p, "hookwait")
  /\ UNCHANGED <<storeVars, lock, guestVars, ghostVars>>

(* The stripped notes go back with the rest of the configuration as it was *)
(* read, straight to the guest's path.                                     *)
WriteScanned(p) ==
  /\ pc[p] = "scanned"
  /\ cfg' = job[p].conf
  /\ Finish(p)
  /\ GuestUnlock(p)
  /\ UNCHANGED <<storeVars, lock, gen, created, existing, ghostVars>>

-----------------------------------------------------------------------------
(* locked_warn: the hook's body under the document lock.                   *)

(* The task goes on where the hook left it; the guest lock goes with the   *)
(* end of the task.                                                        *)
Resume(p, label) ==
  IF label = "idle"
    THEN Finish(p) /\ GuestUnlock(p)
    ELSE /\ Goto(p, label)
         /\ job' = [job EXCEPT ![p].hook = "none"]
         /\ UNCHANGED glock

(* Mutant of HookAcquire: the hook runs whoever holds the lock.            *)
MutHookBarges(p) ==
  /\ pc[p] = "hookwait"
  /\ lock' = p
  /\ Goto(p, "hook")
  /\ UNCHANGED <<storeVars, glock, guestVars, job, ghostVars>>

HookAcquire(p) ==
  /\ pc[p] = "hookwait"
  /\ lock = NoProc
  /\ lock' = p
  /\ Goto(p, "hook")
  /\ UNCHANGED <<storeVars, glock, guestVars, job, ghostVars>>

(* The lock is not to be had in time, or the store is not available: the   *)
(* hook warns and the task goes on.  scan-notes gives the guest up.        *)
HookMiss(p) ==
  /\ pc[p] = "hookwait"
  /\ faults < MaxFaults
  /\ faults' = faults + 1
  /\ missed' = (missed \/ job[p].hook \in {"purge", "destroy", "import"})
  /\ had' = IF job[p].hook = "snapshot" THEN [had EXCEPT ![job[p].snap] = FALSE]
            ELSE had
  /\ Resume(p, IF job[p].hook = "install" THEN "idle" ELSE job[p].after)
  /\ UNCHANGED <<storeVars, lock, guestVars>>

(* Mutant of HookPurge: a create trusts that the destroy hook has run.     *)
MutCreateKeeps(p) ==
  /\ pc[p] = "hook"
  /\ job[p].hook \in {"purge", "destroy"}
  /\ IF job[p].hook = "destroy" THEN Delete ELSE UNCHANGED storeVars
  /\ Goto(p, "hooksweep")
  /\ UNCHANGED <<lockVars, guestVars, job, ghostVars>>

(* on_create and on_destroy begin with the document.                       *)
HookPurge(p) ==
  /\ pc[p] = "hook"
  /\ job[p].hook \in {"purge", "destroy"}
  /\ Delete
  /\ Goto(p, "hooksweep")
  /\ UNCHANGED <<lockVars, guestVars, job, ghostVars>>

(* notes_import for a restore: a good block replaces the document, ...     *)
HookImport(p) ==
  /\ pc[p] = "hook"
  /\ job[p].hook = "import"
  /\ job[p].conf.block.ok
  /\ PutRaw(job[p].conf.block.keys, gen, {})
  /\ Goto(p, "hooksweep")
  /\ UNCHANGED <<lockVars, guestVars, job, ghostVars>>

(* ... a mangled one is an error, which leaves the notes and the store.    *)
HookImportFails(p) ==
  /\ pc[p] = "hook"
  /\ job[p].hook \in {"import", "install"}
  /\ ~job[p].conf.block.ok
  /\ Resume(p, IF job[p].hook = "install" THEN "idle" ELSE "file")
  /\ lock' = NoProc
  /\ missed' = (missed \/ job[p].hook = "import")
  /\ UNCHANGED <<storeVars, guestVars, had, faults>>

(* The copies, the marker of a destroyed guest, the imported block.        *)
HookSweep(p) ==
  /\ pc[p] = "hooksweep"
  /\ DeleteSnapshots
  /\ created' = IF job[p].hook = "destroy" THEN created \ {job[p].node}
                ELSE created
  /\ lock' = NoProc
  /\ IF job[p].after = "idle"
       THEN Finish(p) /\ GuestUnlock(p)
       ELSE /\ Goto(p, job[p].after)
            /\ job' = [job EXCEPT ![p].hook = "none",
                         ![p].conf.block = IF job[p].hook = "import" THEN Absent
                                           ELSE @]
            /\ UNCHANGED glock
  /\ missed' = FALSE
  /\ had' = [s \in Snaps |-> FALSE]
  /\ UNCHANGED <<cfg, gen, existing, faults>>

(* notes_import for an install: a document already there is kept, the      *)
(* block is stripped either way.                                           *)
HookInstall(p) ==
  /\ pc[p] = "hook"
  /\ job[p].hook = "install"
  /\ job[p].conf.block.ok
  /\ IF doc.there THEN UNCHANGED storeVars
     ELSE PutRaw(job[p].conf.block.keys, job[p].for, {})
  /\ Goto(p, "scanned")
  /\ job' = [job EXCEPT ![p].hook = "none", ![p].conf.block = Absent]
  /\ Unlock
  /\ UNCHANGED <<guestVars, ghostVars>>

(* on_snapshot, on_rollback, on_delsnap.                                   *)
HookTrio(p) ==
  /\ pc[p] = "hook"
  /\ LET s == job[p].snap IN
       \/ /\ job[p].hook = "snapshot"
          /\ Snapshot(s)
          /\ had' = [had EXCEPT ![s] = doc.there]
       \/ job[p].hook = "rollback" /\ Rollback(s) /\ UNCHANGED had
       \/ job[p].hook = "delsnap" /\ DeleteSnapshot(s) /\ UNCHANGED had
  /\ Finish(p)
  /\ Unlock
  /\ UNCHANGED <<guestVars, missed, faults>>

-----------------------------------------------------------------------------
(* Faults.                                                                 *)

(* A process dies.  Its guest lock goes with it, the document lock when    *)
(* pmxcfs expires it; a task that died owes its hooks.                     *)
Die(p) ==
  /\ pc[p] # "idle"
  /\ faults < MaxFaults
  /\ faults' = faults + 1
  /\ missed' = (missed \/ job[p].op \in Tasks)
  /\ lock' = IF lock = p THEN NoProc ELSE lock
  /\ GuestUnlock(p)
  /\ Finish(p)
  /\ UNCHANGED <<storeVars, guestVars, had>>

(* An administrator saves the file by hand, between two writers, and it no *)
(* longer parses.                                                          *)
Garble ==
  /\ faults < MaxFaults
  /\ lock = NoProc
  /\ doc.there
  /\ doc' = Garbled(doc.gen)
  /\ faults' = faults + 1
  /\ UNCHANGED <<copies, lockVars, guestVars, pc, job, missed, had>>

-----------------------------------------------------------------------------
Api(p) ==
  \/ Request(p) \/ Remove(p) \/ Acquire(p) \/ LockTimeout(p) \/ CheckGuest(p)
  \/ Refuse(p) \/ ReadDocument(p) \/ WriteDocument(p)
  \/ PurgeDocument(p) \/ PurgeCopies(p)

Task(p) ==
  \/ BeginSet(p) \/ BeginCreate(p) \/ BeginDestroy(p) \/ BeginSnapshot(p)
  \/ BeginRollback(p) \/ BeginDelsnap(p) \/ BeginScan(p)
  \/ WriteConfig(p) \/ WriteConfigFile(p) \/ CreateConflict(p)
  \/ MarkCreated(p) \/ BuildWrite(p) \/ AbortCreate(p) \/ Unlink(p) \/ WriteScanned(p)

Hook(p) ==
  \/ HookAcquire(p) \/ HookMiss(p) \/ HookPurge(p) \/ HookImport(p)
  \/ HookImportFails(p) \/ HookSweep(p) \/ HookInstall(p) \/ HookTrio(p)

Next == (\E p \in Procs : Api(p) \/ Task(p) \/ Hook(p) \/ Die(p)) \/ Garble

Spec == Init /\ [][Next]_vars

(* A process that is not idle goes on: pve-daemon workers and CLI commands *)
(* run to their end, and cfs_lock_domain gives up after its timeout.       *)
Proceed(p) ==
  \/ Acquire(p) \/ LockTimeout(p) \/ CheckGuest(p) \/ Refuse(p)
  \/ ReadDocument(p) \/ WriteDocument(p) \/ PurgeDocument(p) \/ PurgeCopies(p)
  \/ WriteConfig(p) \/ WriteConfigFile(p) \/ CreateConflict(p)
  \/ MarkCreated(p) \/ BuildWrite(p) \/ AbortCreate(p) \/ Unlink(p) \/ WriteScanned(p)
  \/ Hook(p)

FairSpec == Spec /\ \A p \in Procs : WF_vars(Proceed(p))

-----------------------------------------------------------------------------
(* Properties.                                                             *)

(* Every variable keeps its type: what a process carries is always a job   *)
(* the code can have, a file is always a file.                             *)
TypeOK ==
  /\ StoreTypeOK
  /\ lock \in Procs \cup {NoProc}
  /\ glock \in [Nodes -> Procs \cup {NoProc}]
  /\ cfg \in Conf
  /\ gen \in Nat
  /\ created \subseteq Nodes
  /\ existing \subseteq Nodes
  /\ pc \in [Procs -> Labels]
  /\ job \in [Procs -> Job]
  /\ missed \in BOOLEAN
  /\ had \in [Snaps -> BOOLEAN]
  /\ faults \in Nat

(* The steps a process makes under the document lock.                      *)
Locked == {"check", "read", "write", "purge", "sweep", "hook", "hooksweep"}

(* No create, restore or destroy is under way.                             *)
Settled == Running({"create", "destroy"}) = {}

(* One holder: a process between its vmlist check and its answer, or in    *)
(* the body of a hook, is the one cfs_lock_domain gave the lock to.        *)
DocumentLock == \A p \in Procs : pc[p] \in Locked => lock = p

(* put_document plans against what it read and writes the result later.    *)
(* When it does, the document is still the one it read: no hook, no other  *)
(* request and no `rm' got in between, with or without a digest.           *)
PlannedWriteIsFresh ==
  \A p \in Procs : pc[p] = "write" => doc = job[p].seen

(* AtomicDocument's view of this state: who waits for which answer.        *)
pending ==
  [p \in Procs |-> IF job[p].op = "request"
                     THEN {[req |-> job[p].req, pre |-> job[p].pre]}
                     ELSE {}]

Atomic == INSTANCE AtomicDocument WITH Clients <- Procs

(* An answered request was one edit of the document as it was at that      *)
(* moment, or nothing: no hook, `rm' or other request gets in between the  *)
(* read put_document plans on and the write it makes.                      *)
RequestsAreAtomic == Atomic!Spec

(* After a create or a restore is over, whatever is stored at the vmid was *)
(* written for the guest that is there now, unless the create or restore's *)
(* own hook failed.  A destroy hook that never ran is made up for.         *)
SettledGuestOwnsItsFiles ==
  cfg.alive /\ ~missed /\ Settled =>
    \A f \in {doc} \cup {copies[s] : s \in Snaps} : f.there => f.gen = gen

(* A destroyed guest leaves nothing behind: an API write in flight when    *)
(* the configuration went lands before the destroy hook or not at all.     *)
DeadGuestLeavesNothing ==
  ~cfg.alive /\ ~missed /\ Settled =>
    doc = Absent /\ copies = NoCopies

(* What on_destroy is about to remove, from the destroy hook or from       *)
(* `pve-meta rm', is never the document of a guest that is there: its PUT  *)
(* was answered 200.                                                       *)
PurgeSparesTheLiving ==
  \A p \in Procs :
    \/ pc[p] = "purge"
    \/ pc[p] = "hook" /\ job[p].hook = "destroy"
    => ~(cfg.alive /\ doc.there /\ doc.gen = gen)

(* A block pasted into a live guest's notes is never imported by a config  *)
(* write: when write_config takes the marker for a block, the block came   *)
(* with the backup being restored, unless a create that died left the      *)
(* marker and nothing cleared it since.                                    *)
PastedBlockStaysOut ==
  \A p \in Procs :
    ~missed /\ pc[p] = "config" /\ job[p].conf.block.there /\ TakesMarker(job[p].conf)
      => job[p].conf.block.gen # 0

(* No restore marker outlives its create: an unlocked guest whose create   *)
(* is over has none on its node, so no later write can use it.             *)
NoMarkerOutlivesItsCreate ==
  cfg.alive /\ ~cfg.locked /\ Settled => cfg.node \notin created

(* A guest comes into being in create_and_lock_config and nowhere else:    *)
(* a config write that lost its guest to a destroy never brings it back.   *)
OnlyCreateMakesAGuest == [][~cfg.alive /\ cfg'.alive => gen' = gen + 1]_vars

(* on_rollback restores a copy if the guest had a document when the        *)
(* snapshot was taken, and removes the document if it had none, unless a   *)
(* restore's mangled block left the replaced guest's copies in the store.  *)
RollbackMatchesSnapshot ==
  \A p \in Procs :
    ~missed /\ pc[p] = "hook" /\ job[p].hook = "rollback" =>
      (copies[job[p].snap].there <=> had[job[p].snap])

(* Every request is answered: it gets the document lock and runs to its    *)
(* end or times out, whatever tasks and hooks do meanwhile.                *)
RequestsAreAnswered ==
  \A p \in Procs : pc[p] = "want" ~> pc[p] = "idle"

(* Whoever holds the document lock lets go of it: no holder waits for a    *)
(* guest lock whose holder waits for the document lock.                    *)
DocumentLockIsLetGo ==
  \A p \in Procs : lock = p ~> lock # p
=============================================================================
