------------------------ MODULE MetaLifecycle_proofs ------------------------
(***************************************************************************)
(* Theorems about MetaLifecycle, for every value of its constants.         *)
(*                                                                         *)
(* The inductive invariant adds to the properties which work a process can *)
(* be at when it is at a label (Flow), and what a request knows when it is *)
(* about to write (Planned).  The first is needed because locks alone do   *)
(* not say who is at which label; the second is what makes a write an      *)
(* atomic edit.                                                            *)
(***************************************************************************)
EXTENDS MetaLifecycle, TLAPS

(* The file values store.rs writes are files.                              *)
LEMMA FileTypes ==
  /\ Absent \in File
  /\ NoCopies \in [Snaps -> File]
  /\ \A K \in SUBSET Keys, g \in Nat : Text(K, g) \in File
  /\ \A g \in Nat : Garbled(g) \in File
BY DEF Absent, NoCopies, Text, Garbled, File

(* The configuration of a guest that is not there is a configuration.      *)
LEMMA NoConfType == NoConf \in Conf
BY FileTypes, NodesAssumption DEF NoConf, Conf, AnyNode

(* The job of an idle process is a job.                                    *)
LEMMA NoJobType == NoJob \in Job
<1>1. AnyNode \in Nodes /\ (CHOOSE s \in Snaps : TRUE) \in Snaps
  BY NodesAssumption DEF AnyNode
<1>2. [act |-> "replace", keys |-> {}] \in Requests
  BY DEF Requests
<1> QED
  BY <1>1, <1>2, FileTypes, NoConfType
     DEF NoJob, Job, AllJobs, Preconditions, Hooks, AfterWrite, AfterHook

(* The initial state is well typed.                                        *)
THEOREM InitType == Init => TypeOK
<1> SUFFICES ASSUME Init PROVE TypeOK
  OBVIOUS
<1>1. missed \in BOOLEAN /\ had \in [Snaps -> BOOLEAN]
  BY Zenon DEF Init
<1>2. StoreTypeOK /\ cfg \in Conf /\ job \in [Procs -> Job]
  BY FileTypes, NoConfType, NoJobType DEF Init, StoreInit, StoreTypeOK
<1>3. /\ lock \in Procs \cup {NoProc}
      /\ glock \in [Nodes -> Procs \cup {NoProc}]
      /\ pc \in [Procs -> Labels]
      /\ gen \in Nat /\ faults \in Nat
      /\ created \subseteq Nodes /\ existing \subseteq Nodes
  BY DEF Init, Labels
<1> QED
  BY <1>1, <1>2, <1>3 DEF TypeOK

(* Which work a process can be at when it is at a label: a request waits,  *)
(* checks, reads and writes and nothing else does the last two; only a     *)
(* create marks and builds; only a snapshot task writes its section with a *)
(* hook to follow.                                                         *)
FlowOf(p) ==
  /\ job[p].op = "request" => pc[p] \in {"want", "check", "read", "write"}
  /\ pc[p] \in {"read", "write"} => job[p].op = "request"
  /\ pc[p] \in {"mark", "build", "built"} => job[p].op = "create"
  /\ job[p].next \in {"mark", "build", "built"} => job[p].op = "create"
  /\ job[p].next = "hookwait" => job[p].op \in {"snapshot", "rollback", "delsnap"}
  /\ job[p].after = "mark" => job[p].op = "create"

Flow == \A p \in Procs : FlowOf(p)

(* What CheckGuest and ReadDocument put in a job is of its type.           *)
LEMMA JobUpdates ==
  ASSUME NEW j \in Job
  PROVE  /\ \A g \in Nat : [j EXCEPT !.for = g] \in Job
         /\ \A d \in File, S \in SUBSET Keys : [j EXCEPT !.seen = d, !.plan = S] \in Job
BY DEF Job

(* A step of a request or of `pve-meta rm' keeps every variable in its     *)
(* type.                                                                   *)
LEMMA ApiType ==
  ASSUME TypeOK, NEW p \in Procs, Api(p) PROVE TypeOK'
<1> USE DEF TypeOK, StoreTypeOK, storeVars, lockVars, guestVars, ghostVars, Goto
<1>1. CASE Request(p)
  <2>1. PICK req \in Requests, pre \in Preconditions :
          job' = [job EXCEPT ![p] = [NoJob EXCEPT !.op = "request",
                                                  !.req = req, !.pre = pre]]
    BY <1>1 DEF Request
  <2>2. [NoJob EXCEPT !.op = "request", !.req = req, !.pre = pre] \in Job
    BY NoJobType DEF Job, AllJobs
  <2> QED
    BY <1>1, <2>1, <2>2 DEF Request, Start, Labels
<1>2. CASE Remove(p)
  <2>1. PICK n \in Nodes :
          job' = [job EXCEPT ![p] = [NoJob EXCEPT !.op = "rm", !.node = n]]
    BY <1>2 DEF Remove
  <2>2. [NoJob EXCEPT !.op = "rm", !.node = n] \in Job
    BY NoJobType DEF Job, AllJobs
  <2> QED
    BY <1>2, <2>1, <2>2 DEF Remove, Start, Labels
<1>3. CASE Acquire(p)
  BY <1>3 DEF Acquire, Labels
<1>4. CASE LockTimeout(p)
  BY <1>4, NoJobType DEF LockTimeout, Finish, Labels
<1>5. CASE CheckGuest(p)
  <2>1. [job[p] EXCEPT !.for = gen] \in Job
    BY JobUpdates
  <2>2. job' \in [Procs -> Job]
    BY <1>5, <2>1 DEF CheckGuest
  <2> QED
    BY <1>5, <2>2 DEF CheckGuest, Labels
<1>6. CASE Refuse(p)
  BY <1>6, NoJobType DEF Refuse, Finish, Unlock, Labels
<1>7. CASE ReadDocument(p)
  <2>1. Plan(job[p].req, doc) \in SUBSET Keys
    BY DEF Plan, Job, Requests, File
  <2>2. [job[p] EXCEPT !.seen = doc, !.plan = Plan(job[p].req, doc)] \in Job
    BY <2>1, JobUpdates
  <2>3. job' = [job EXCEPT ![p] = [job[p] EXCEPT !.seen = doc, !.plan = Plan(job[p].req, doc)]]
    BY <1>7 DEF ReadDocument
  <2> QED
    BY <1>7, <2>2, <2>3 DEF ReadDocument, Labels
<1>8. CASE WriteDocument(p)
  <2>1. doc' \in File /\ copies' = copies
    <3>1. Text(job[p].plan, job[p].for) \in File
      BY FileTypes DEF Job
    <3> QED
      BY <1>8, <3>1, FileTypes DEF WriteDocument, Delete, PutRaw
  <2> QED
    BY <1>8, <2>1, NoJobType DEF WriteDocument, Finish, Unlock, Labels
<1>9. CASE PurgeDocument(p)
  BY <1>9, FileTypes DEF PurgeDocument, Delete, Labels
<1>10. CASE PurgeCopies(p)
  <2>1. had' \in [Snaps -> BOOLEAN] /\ missed' \in BOOLEAN
    BY <1>10, Zenon DEF PurgeCopies
  <2> QED
    BY <1>10, <2>1, NoJobType, FileTypes
       DEF PurgeCopies, DeleteSnapshots, Finish, Unlock, Labels
<1> QED
  BY <1>1, <1>2, <1>3, <1>4, <1>5, <1>6, <1>7, <1>8, <1>9, <1>10 DEF Api

(* Taking the guest lock and a well-typed job keeps every variable in its  *)
(* type.                                                                   *)
LEMMA BeginType ==
  ASSUME TypeOK, NEW p \in Procs, NEW j \in Job, NEW l \in Labels, Begin(p, j, l)
  PROVE  TypeOK'
<1>1. glock' \in [Nodes -> Procs \cup {NoProc}]
  BY DEF TypeOK, Begin
<1> QED
  BY <1>1 DEF TypeOK, StoreTypeOK, storeVars, guestVars, ghostVars, Begin, Goto

(* A PVE task was started with job j at label l, and the job fits the      *)
(* flow.                                                                   *)
StartedJob(p, j, l) ==
  /\ Begin(p, j, l)
  /\ j.op # "request" /\ j.after = "idle"
  /\ j.next \in {"mark", "build", "built"} => j.op = "create"
  /\ j.next = "hookwait" => j.op \in {"snapshot", "rollback", "delsnap"}

(* Every PVE task starts through Begin, with a job that fits the flow.     *)
LEMMA StartShape ==
  ASSUME TypeOK, NEW p \in Procs,
         \/ BeginSet(p) \/ BeginCreate(p) \/ BeginDestroy(p)
         \/ BeginSnapshot(p) \/ BeginRollback(p) \/ BeginDelsnap(p)
  PROVE  \E j \in Job, l \in {"config", "unlink"} : StartedJob(p, j, l)
<1> USE NoJobType
<1>0. cfg \in Conf /\ gen + 1 \in Nat /\ gen \in Nat
  BY DEF TypeOK
<1>0a. NoJob.next = "idle" /\ NoJob.after = "idle"
  BY DEF NoJob
<1>1. CASE BeginSet(p)
  <2>1. PICK n \in Nodes, K \in SUBSET Keys, b \in {"paste", "clear", "unlock"} :
          Begin(p, [NoJob EXCEPT
                      !.op = "set", !.node = n,
                      !.conf = CASE b = "paste" -> [cfg EXCEPT !.block = Text(K, 0)]
                                 [] b = "clear" -> [cfg EXCEPT !.block = Absent]
                                 [] b = "unlock" -> [cfg EXCEPT !.locked = FALSE]],
                "config")
    BY <1>1 DEF BeginSet
  <2> DEFINE c == CASE b = "paste" -> [cfg EXCEPT !.block = Text(K, 0)]
                    [] b = "clear" -> [cfg EXCEPT !.block = Absent]
                    [] b = "unlock" -> [cfg EXCEPT !.locked = FALSE]
             j == [NoJob EXCEPT !.op = "set", !.node = n, !.conf = c]
  <2>2. c \in Conf
    BY <1>0, FileTypes DEF Conf
  <2>3. j \in Job
    BY <2>2 DEF Job, AllJobs
  <2>4. j.op = "set" /\ j.next = "idle" /\ j.after = "idle"
    BY <1>0a DEF Job
  <2> HIDE DEF c
  <2> QED
    BY <2>1, <2>3, <2>4 DEF StartedJob, c
<1>2. CASE BeginCreate(p)
  <2>1. PICK n \in Nodes, allow \in BOOLEAN,
             b \in {Absent, Garbled(gen + 1)} \cup {Text(K, gen + 1) : K \in SUBSET Keys} :
          Begin(p, [NoJob EXCEPT
                   !.op = "create", !.node = n, !.allow = allow, !.block = b,
                   !.next = "mark",
                   !.conf = IF cfg.alive THEN [cfg EXCEPT !.locked = TRUE]
                            ELSE [NoConf EXCEPT !.alive = TRUE, !.node = n,
                                                !.locked = TRUE]],
             "config")
    BY <1>2 DEF BeginCreate
  <2> DEFINE c == IF cfg.alive THEN [cfg EXCEPT !.locked = TRUE]
                  ELSE [NoConf EXCEPT !.alive = TRUE, !.node = n, !.locked = TRUE]
             j == [NoJob EXCEPT !.op = "create", !.node = n, !.allow = allow,
                                !.block = b, !.next = "mark", !.conf = c]
  <2>2. c \in Conf
    BY <1>0, NoConfType DEF Conf
  <2>3. b \in File
    BY <1>0, FileTypes
  <2>4. j \in Job
    BY <2>2, <2>3 DEF Job, AllJobs, AfterWrite
  <2>5. j.op = "create" /\ j.next = "mark" /\ j.after = "idle"
    BY <1>0a DEF Job
  <2> QED
    BY <2>1, <2>4, <2>5 DEF StartedJob
<1>3. CASE BeginDestroy(p)
  <2>1. PICK n \in Nodes :
          Begin(p, [NoJob EXCEPT !.op = "destroy", !.node = n, !.for = gen], "unlink")
    BY <1>3 DEF BeginDestroy
  <2> DEFINE j == [NoJob EXCEPT !.op = "destroy", !.node = n, !.for = gen]
  <2>2. j \in Job
    BY <1>0 DEF Job, AllJobs
  <2>3. j.op = "destroy" /\ j.next = "idle" /\ j.after = "idle"
    BY <1>0a DEF Job
  <2> QED
    BY <2>1, <2>2, <2>3 DEF StartedJob
<1>4. ASSUME NEW n \in Nodes, NEW s \in Snaps, NEW c \in Conf,
             NEW op \in {"snapshot", "rollback", "delsnap"},
             Begin(p, [NoJob EXCEPT !.op = op, !.node = n, !.snap = s, !.for = gen,
                                    !.next = "hookwait", !.conf = c], "config")
      PROVE \E j \in Job, l \in {"config", "unlink"} : StartedJob(p, j, l)
  <2> DEFINE j == [NoJob EXCEPT !.op = op, !.node = n, !.snap = s, !.for = gen,
                                !.next = "hookwait", !.conf = c]
  <2>1. j \in Job
    BY <1>0 DEF Job, AllJobs, AfterWrite
  <2>2. j.op = op /\ j.next = "hookwait" /\ j.after = "idle"
    BY <1>0a DEF Job
  <2> QED
    BY <2>1, <2>2, <1>4 DEF StartedJob
<1>5. CASE BeginSnapshot(p)
  <2>1. PICK n \in Nodes, s \in Snaps :
          Begin(p, [NoJob EXCEPT !.op = "snapshot", !.node = n, !.snap = s,
                      !.for = gen, !.next = "hookwait",
                      !.conf = [cfg EXCEPT !.snaps = @ \cup {s}]], "config")
    BY <1>5 DEF BeginSnapshot
  <2>2. [cfg EXCEPT !.snaps = @ \cup {s}] \in Conf
    BY <1>0 DEF Conf
  <2> QED
    BY <2>1, <2>2, <1>4
<1>6. CASE BeginRollback(p)
  <2>1. PICK n \in Nodes, s \in Snaps :
          Begin(p, [NoJob EXCEPT !.op = "rollback", !.node = n, !.snap = s,
                      !.for = gen, !.next = "hookwait", !.conf = cfg], "config")
    BY <1>6 DEF BeginRollback
  <2> QED
    BY <2>1, <1>0, <1>4
<1>7. CASE BeginDelsnap(p)
  <2>1. PICK n \in Nodes, s \in Snaps :
          Begin(p, [NoJob EXCEPT !.op = "delsnap", !.node = n, !.snap = s,
                      !.for = gen, !.next = "hookwait",
                      !.conf = [cfg EXCEPT !.snaps = @ \ {s}]], "config")
    BY <1>7 DEF BeginDelsnap
  <2>2. [cfg EXCEPT !.snaps = @ \ {s}] \in Conf
    BY <1>0 DEF Conf
  <2> QED
    BY <2>1, <2>2, <1>4
<1> QED
  BY <1>1, <1>2, <1>3, <1>5, <1>6, <1>7

(* Starting a PVE task keeps every variable in its type.                   *)
LEMMA TaskStartType ==
  ASSUME TypeOK, NEW p \in Procs,
         \/ BeginSet(p) \/ BeginCreate(p) \/ BeginDestroy(p)
         \/ BeginSnapshot(p) \/ BeginRollback(p) \/ BeginDelsnap(p)
  PROVE  TypeOK'
<1>1. PICK j \in Job, l \in {"config", "unlink"} : Begin(p, j, l)
  BY StartShape DEF StartedJob
<1> QED
  BY <1>1, BeginType DEF Labels

(* Letting go of the guest lock leaves a guest lock table.                 *)
LEMMA GuestUnlockType ==
  ASSUME TypeOK, NEW p \in Procs, GuestUnlock(p)
  PROVE  glock' \in [Nodes -> Procs \cup {NoProc}]
BY DEF TypeOK, GuestUnlock

(* A process that finishes is idle and has no job.                         *)
LEMMA FinishType ==
  ASSUME TypeOK, NEW p \in Procs, Finish(p)
  PROVE  pc' \in [Procs -> Labels] /\ job' \in [Procs -> Job]
BY NoJobType DEF TypeOK, Finish, Goto, Labels

(* A config write, a create's steps, an unlink or a scan keeps every       *)
(* variable in its type.                                                   *)
LEMMA TaskStepType ==
  ASSUME TypeOK, Flow, NEW p \in Procs,
         \/ BeginScan(p) \/ WriteConfig(p) \/ WriteConfigFile(p)
         \/ CreateConflict(p) \/ MarkCreated(p) \/ BuildWrite(p)
         \/ AbortCreate(p) \/ Unlink(p) \/ WriteScanned(p)
  PROVE  TypeOK'
<1> USE DEF TypeOK, StoreTypeOK, storeVars, lockVars, guestVars, ghostVars, Goto
<1>0. /\ job[p] \in Job /\ job[p].conf \in Conf /\ job[p].node \in Nodes
      /\ job[p].conf.node \in Nodes /\ job[p].block \in File
  BY DEF Job, Conf
<1>1. CASE BeginScan(p)
  <2>1. PICK n \in Nodes :
          /\ IF n = cfg.node
               THEN glock' = [glock EXCEPT ![n] = p]
               ELSE UNCHANGED glock
          /\ job' = [job EXCEPT ![p] = [NoJob EXCEPT
                    !.op = "scan", !.node = n, !.for = gen, !.conf = cfg,
                    !.hook = "install", !.after = "scanned"]]
    BY <1>1 DEF BeginScan
  <2>2. [NoJob EXCEPT !.op = "scan", !.node = n, !.for = gen, !.conf = cfg,
                      !.hook = "install", !.after = "scanned"] \in Job
    BY NoJobType DEF Job, AllJobs, Hooks, AfterHook
  <2>3. job' \in [Procs -> Job] /\ glock' \in [Nodes -> Procs \cup {NoProc}]
    BY <2>1, <2>2
  <2> QED
    BY <1>1, <2>3 DEF BeginScan, Labels
<1>2. CASE WriteConfig(p)
  <2>1. PICK hook \in {"import", "purge", "none"} :
          job' = [job EXCEPT ![p].hook = hook, ![p].after = "file"]
    BY <1>2 DEF WriteConfig
  <2>2. [job[p] EXCEPT !.hook = hook, !.after = "file"] \in Job
    BY <1>0 DEF Job, Hooks, AfterHook
  <2>3. job' = [job EXCEPT ![p] = [job[p] EXCEPT !.hook = hook, !.after = "file"]]
    BY <2>1
  <2>4. job' \in [Procs -> Job]
    BY <2>2, <2>3
  <2>5. pc' \in [Procs -> Labels]
    BY <1>2 DEF WriteConfig, Labels
  <2>6. created' \subseteq Nodes /\ existing' \subseteq Nodes
    BY <1>2 DEF WriteConfig
  <2> QED
    BY <1>2, <2>4, <2>5, <2>6 DEF WriteConfig
<1>3. CASE WriteConfigFile(p)
  <2> DEFINE j == job[p]
             on_create == j.next = "mark" /\ ~j.allow
             trio == j.next = "hookwait"
             hook == IF on_create THEN "purge" ELSE IF trio THEN j.op ELSE "none"
             after == IF on_create THEN "mark" ELSE "idle"
  <2>1. hook \in Hooks /\ after \in AfterHook
    BY DEF Flow, FlowOf, Hooks, AfterHook
  <2>2. [j EXCEPT !.hook = hook, !.after = after, !.conf = NoConf] \in Job
    BY <2>1, <1>0, NoConfType DEF Job
  <2>3. pc' \in [Procs -> Labels] /\ job' \in [Procs -> Job]
    <3>1. CASE j.next = "idle"
      BY <3>1, <1>3, FinishType DEF WriteConfigFile
    <3>2. CASE j.next # "idle"
      <4>1. Goto(p, IF on_create THEN "hookwait" ELSE j.next)
        BY <3>2, <1>3 DEF WriteConfigFile
      <4>2. job' = [job EXCEPT ![p] = [j EXCEPT !.hook = hook, !.after = after,
                                                !.conf = NoConf]]
        BY <3>2, <1>3 DEF WriteConfigFile
      <4>3. j.next \in Labels
        BY <1>0 DEF Job, AfterWrite, Labels
      <4> QED
        BY <4>1, <4>2, <4>3, <2>2 DEF Labels
    <3> QED
      BY <3>1, <3>2
  <2>4. had' \in [Snaps -> BOOLEAN]
    <3>1. j.snap \in Snaps
      BY <1>0 DEF Job
    <3>2. had' = [had EXCEPT ![j.snap] = FALSE] \/ had' = had
      BY <1>3 DEF WriteConfigFile
    <3> QED
      BY <3>1, <3>2, Zenon
  <2>5. gen' \in Nat /\ cfg' \in Conf
    BY <1>0, <1>3 DEF WriteConfigFile
  <2>6. glock' \in [Nodes -> Procs \cup {NoProc}]
    BY <1>3, GuestUnlockType DEF WriteConfigFile
  <2> QED
    BY <1>3, <2>3, <2>4, <2>5, <2>6 DEF WriteConfigFile
<1>4. CASE CreateConflict(p)
  BY <1>4, FinishType, GuestUnlockType DEF CreateConflict
<1>5. CASE MarkCreated(p)
  <2>1. missed' \in BOOLEAN /\ faults' \in Nat
    <3>1. missed' = missed \/ missed' = TRUE
      BY <1>5, Zenon DEF MarkCreated
    <3>2. faults' = faults \/ faults' = faults + 1
      BY <1>5, Zenon DEF MarkCreated
    <3>3. missed' \in BOOLEAN
      BY <3>1, Zenon
    <3>4. faults' \in Nat
      BY <3>2
    <3> QED
      BY <3>3, <3>4
  <2>2. created' \subseteq Nodes /\ existing' \subseteq Nodes
    BY <1>5, <1>0 DEF MarkCreated
  <2>3. pc' \in [Procs -> Labels]
    BY <1>5 DEF MarkCreated, Labels
  <2> QED
    BY <1>5, <2>1, <2>2, <2>3 DEF MarkCreated
<1>6. CASE BuildWrite(p)
  <2>1. PICK c, next :
          /\ c \in Conf /\ next \in {"build", "built", "idle"}
          /\ job' = [job EXCEPT ![p].conf = c, ![p].next = next]
    <3> DEFINE fresh == [NoConf EXCEPT !.alive = TRUE, !.node = job[p].node,
                                       !.locked = TRUE]
               archive == [fresh EXCEPT !.block = job[p].block]
    <3>1. fresh \in Conf
      BY <1>0, NoConfType DEF Conf
    <3>2. archive \in Conf
      BY <3>1, <1>0 DEF Conf
    <3>3. [archive EXCEPT !.locked = FALSE] \in Conf
      BY <3>2 DEF Conf
    <3>4. [cfg EXCEPT !.locked = FALSE] \in Conf
      BY DEF Conf
    <3> QED
      BY <3>1, <3>2, <3>3, <3>4, <1>6 DEF BuildWrite
  <2>2. [job[p] EXCEPT !.conf = c, !.next = next] \in Job
    BY <1>0, <2>1 DEF Job, AfterWrite
  <2>3. job' = [job EXCEPT ![p] = [job[p] EXCEPT !.conf = c, !.next = next]]
    BY <2>1
  <2>4. glock' \in [Nodes -> Procs \cup {NoProc}] /\ pc' \in [Procs -> Labels]
    BY <1>6, <1>0 DEF BuildWrite, Labels
  <2> QED
    BY <1>6, <2>2, <2>3, <2>4 DEF BuildWrite
<1>7. CASE AbortCreate(p)
  <2>1. [NoJob EXCEPT !.op = "destroy", !.node = job[p].node] \in Job
    BY <1>0, NoJobType DEF Job, AllJobs
  <2>2. glock' \in [Nodes -> Procs \cup {NoProc}] /\ pc' \in [Procs -> Labels]
    BY <1>7, <1>0 DEF AbortCreate, Labels
  <2> QED
    BY <1>7, <2>1, <2>2 DEF AbortCreate
<1>8. CASE Unlink(p)
  <2>1. [job[p] EXCEPT !.hook = "destroy", !.after = "idle"] \in Job
    BY <1>0 DEF Job, Hooks, AfterHook
  <2>2. job' = [job EXCEPT ![p] = [job[p] EXCEPT !.hook = "destroy", !.after = "idle"]]
    BY <1>8 DEF Unlink
  <2> QED
    BY <1>8, <2>1, <2>2, NoConfType DEF Unlink, Labels
<1>9. CASE WriteScanned(p)
  BY <1>9, <1>0, FinishType, GuestUnlockType DEF WriteScanned
<1> QED
  BY <1>1, <1>2, <1>3, <1>4, <1>5, <1>6, <1>7, <1>8, <1>9

(* A task that goes on after its hook stays well typed.                    *)
LEMMA ResumeType ==
  ASSUME TypeOK, NEW p \in Procs, NEW l \in AfterHook, Resume(p, l)
  PROVE  /\ pc' \in [Procs -> Labels]
         /\ job' \in [Procs -> Job]
         /\ glock' \in [Nodes -> Procs \cup {NoProc}]
<1>1. CASE l = "idle"
  BY <1>1, FinishType, GuestUnlockType DEF Resume
<1>2. CASE l # "idle"
  <2>0. job[p] \in Job
    BY DEF TypeOK
  <2>1. [job[p] EXCEPT !.hook = "none"] \in Job
    BY <2>0 DEF Job, Hooks
  <2>2. job' = [job EXCEPT ![p] = [job[p] EXCEPT !.hook = "none"]]
    BY <1>2 DEF Resume
  <2> QED
    BY <1>2, <2>1, <2>2 DEF TypeOK, Resume, Goto, Labels, AfterHook
<1> QED
  BY <1>1, <1>2

(* A step of a hook under locked_warn keeps every variable in its type.    *)
LEMMA HookType ==
  ASSUME TypeOK, NEW p \in Procs, Hook(p)
  PROVE  TypeOK'
<1> USE DEF TypeOK, StoreTypeOK, storeVars, lockVars, guestVars, ghostVars, Goto
<1>0. /\ job[p] \in Job /\ job[p].conf \in Conf /\ job[p].conf.block \in File
      /\ job[p].snap \in Snaps /\ job[p].after \in AfterHook
  BY DEF Job, Conf
<1>1. CASE HookAcquire(p)
  BY <1>1 DEF HookAcquire, Labels
<1>2. CASE HookMiss(p)
  <2>1. missed' \in BOOLEAN
    BY <1>2, Zenon DEF HookMiss
  <2>2. had' \in [Snaps -> BOOLEAN]
    <3>1. had' = [had EXCEPT ![job[p].snap] = FALSE] \/ had' = had
      BY <1>2 DEF HookMiss
    <3> QED
      BY <3>1, <1>0, Zenon
  <2>3. faults' \in Nat
    BY <1>2 DEF HookMiss
  <2>4. "idle" \in AfterHook
    BY DEF AfterHook
  <2> QED
    BY <1>2, <1>0, <2>1, <2>2, <2>3, <2>4, ResumeType DEF HookMiss
<1>3. CASE HookPurge(p)
  BY <1>3, FileTypes DEF HookPurge, Delete, Labels
<1>4. CASE HookImport(p)
  <2>1. doc' \in File
    <3>1. Text(job[p].conf.block.keys, gen) \in File
      BY <1>0, FileTypes DEF File
    <3> QED
      BY <1>4, <3>1 DEF HookImport, PutRaw
  <2> QED
    BY <1>4, <2>1 DEF HookImport, PutRaw, Labels
<1>5. CASE HookImportFails(p)
  <2>1. missed' \in BOOLEAN
    BY <1>5, Zenon DEF HookImportFails
  <2>2. "idle" \in AfterHook /\ "file" \in AfterHook
    BY DEF AfterHook
  <2> QED
    BY <1>5, <2>1, <2>2, ResumeType DEF HookImportFails
<1>6. CASE HookSweep(p)
  <2>1. missed' \in BOOLEAN /\ had' \in [Snaps -> BOOLEAN]
    BY <1>6, Zenon DEF HookSweep
  <2>2. CASE job[p].after = "idle"
    BY <1>6, <2>1, <2>2, FinishType, GuestUnlockType, FileTypes
       DEF HookSweep, DeleteSnapshots
  <2>3. CASE job[p].after # "idle"
    <3>1. PICK b \in File :
            job' = [job EXCEPT ![p].hook = "none", ![p].conf.block = b]
      BY <1>6, <2>3, <1>0, FileTypes DEF HookSweep
    <3>2. [job[p].conf EXCEPT !.block = b] \in Conf
      BY <1>0 DEF Conf
    <3>3. [job[p] EXCEPT !.hook = "none", !.conf = [job[p].conf EXCEPT !.block = b]] \in Job
      BY <1>0, <3>2 DEF Job, Hooks
    <3>4. job' = [job EXCEPT ![p] = [job[p] EXCEPT !.hook = "none",
                                      !.conf = [job[p].conf EXCEPT !.block = b]]]
      BY <3>1
    <3>5. job' \in [Procs -> Job]
      BY <3>3, <3>4
    <3>6. pc' \in [Procs -> Labels] /\ UNCHANGED glock
      BY <1>6, <2>3, <1>0 DEF HookSweep, Labels, AfterHook
    <3> QED
      BY <1>6, <2>1, <3>5, <3>6, FileTypes DEF HookSweep, DeleteSnapshots
  <2> QED
    BY <2>2, <2>3
<1>7. CASE HookInstall(p)
  <2>1. doc' \in File /\ copies' = copies
    <3>1. Text(job[p].conf.block.keys, job[p].for) \in File
      BY <1>0, FileTypes DEF File, Job
    <3> QED
      BY <1>7, <3>1 DEF HookInstall, PutRaw
  <2>2. [job[p].conf EXCEPT !.block = Absent] \in Conf
    BY <1>0, FileTypes DEF Conf
  <2>3. [job[p] EXCEPT !.hook = "none",
                       !.conf = [job[p].conf EXCEPT !.block = Absent]] \in Job
    BY <1>0, <2>2 DEF Job, Hooks
  <2>4. job' = [job EXCEPT ![p] = [job[p] EXCEPT !.hook = "none",
                                     !.conf = [job[p].conf EXCEPT !.block = Absent]]]
    BY <1>7 DEF HookInstall
  <2> QED
    BY <1>7, <2>1, <2>3, <2>4 DEF HookInstall, Unlock, Labels
<1>8. CASE HookTrio(p)
  <2>1. doc' \in File /\ copies' \in [Snaps -> File]
    BY <1>8, <1>0, FileTypes DEF HookTrio, Snapshot, Rollback, DeleteSnapshot
  <2>2. had' \in [Snaps -> BOOLEAN]
    <3>1. doc.there \in BOOLEAN
      BY DEF File
    <3>2. had' = [had EXCEPT ![job[p].snap] = doc.there] \/ had' = had
      BY <1>8, Zenon DEF HookTrio
    <3> QED
      BY <3>1, <3>2, <1>0, Zenon
  <2> QED
    BY <1>8, <2>1, <2>2, FinishType DEF HookTrio, Unlock
<1> QED
  BY <1>1, <1>2, <1>3, <1>4, <1>5, <1>6, <1>7, <1>8 DEF Hook

(* A dying process and a hand-edited document keep every variable in its   *)
(* type.                                                                   *)
LEMMA FaultType ==
  ASSUME TypeOK, Garble \/ \E p \in Procs : Die(p)
  PROVE  TypeOK'
<1> USE DEF TypeOK, StoreTypeOK, storeVars, lockVars, guestVars, ghostVars
<1>1. CASE Garble
  <2>1. doc' \in File
    <3>1. doc.gen \in Nat
      BY DEF File
    <3> QED
      BY <1>1, <3>1, FileTypes DEF Garble
  <2> QED
    BY <1>1, <2>1 DEF Garble
<1>2. ASSUME NEW p \in Procs, Die(p) PROVE TypeOK'
  <2>1. missed' \in BOOLEAN
    BY <1>2, Zenon DEF Die
  <2> QED
    BY <1>2, <2>1, FinishType, GuestUnlockType DEF Die
<1> QED
  BY <1>1, <1>2

(* Every step keeps every variable in its type.                            *)
LEMMA TypeStep == TypeOK /\ Flow /\ [Next]_vars => TypeOK'
<1> SUFFICES ASSUME TypeOK, Flow, [Next]_vars PROVE TypeOK'
  OBVIOUS
<1>1. CASE UNCHANGED vars
  BY <1>1 DEF vars, TypeOK, StoreTypeOK, storeVars, lockVars, guestVars, ghostVars
<1>2. CASE Garble \/ \E p \in Procs : Die(p)
  BY <1>2, FaultType
<1>3. ASSUME NEW p \in Procs, Api(p) \/ Task(p) \/ Hook(p) PROVE TypeOK'
  BY <1>3, ApiType, TaskStartType, TaskStepType, HookType DEF Task
<1> QED
  BY <1>1, <1>2, <1>3 DEF Next

(* Any step of process p.                                                  *)
Acts(p) == Api(p) \/ Task(p) \/ Hook(p) \/ Die(p)

(* What every step of p has in common: it leaves the other processes       *)
(* alone; it keeps the document lock, takes it when free, or gives up one  *)
(* it holds; it touches the document under the lock only; and it gets      *)
(* ready to write by ReadDocument only.                                    *)
LEMMA StepShape ==
  ASSUME TypeOK, NEW p \in Procs, Acts(p)
  PROVE  /\ \A q \in Procs \ {p} : pc'[q] = pc[q] /\ job'[q] = job[q]
         /\ \/ lock' = lock /\ (pc'[p] \in Locked => pc[p] \in Locked)
            \/ lock = NoProc /\ lock' = p
            \/ /\ pc[p] \in Locked \/ lock = p
               /\ lock' = NoProc /\ pc'[p] \notin Locked
         /\ doc' # doc => pc[p] \in Locked
         /\ pc'[p] = "write" => ReadDocument(p)
<1> USE DEF TypeOK, Goto, Finish, Unlock, Locked, storeVars, lockVars, guestVars, ghostVars
<1>0. job[p].after \in AfterHook /\ job[p].next \in AfterWrite
  BY DEF Job
<1>1. CASE Api(p)
  <2>1. CASE Request(p) \/ Remove(p)
    BY <2>1 DEF Request, Remove
  <2>2. CASE Acquire(p) \/ LockTimeout(p) \/ CheckGuest(p) \/ Refuse(p)
    BY <2>2 DEF Acquire, LockTimeout, CheckGuest, Refuse
  <2>3. CASE ReadDocument(p)
    BY <2>3 DEF ReadDocument
  <2>4. CASE WriteDocument(p)
    BY <2>4 DEF WriteDocument
  <2>5. CASE PurgeDocument(p) \/ PurgeCopies(p)
    BY <2>5 DEF PurgeDocument, PurgeCopies, DeleteSnapshots
  <2> QED
    BY <1>1, <2>1, <2>2, <2>3, <2>4, <2>5 DEF Api
<1>2. CASE Task(p)
  <2>1. CASE BeginSet(p) \/ BeginCreate(p) \/ BeginDestroy(p)
    <3>1. CASE BeginSet(p)
      BY <3>1 DEF BeginSet, Begin
    <3>2. CASE BeginCreate(p)
      BY <3>2 DEF BeginCreate, Begin
    <3>3. CASE BeginDestroy(p)
      BY <3>3 DEF BeginDestroy, Begin
    <3> QED
      BY <2>1, <3>1, <3>2, <3>3
  <2>2. CASE BeginSnapshot(p) \/ BeginRollback(p) \/ BeginDelsnap(p)
    <3>1. CASE BeginSnapshot(p)
      BY <3>1 DEF BeginSnapshot, Begin
    <3>2. CASE BeginRollback(p)
      BY <3>2 DEF BeginRollback, Begin
    <3>3. CASE BeginDelsnap(p)
      BY <3>3 DEF BeginDelsnap, Begin
    <3> QED
      BY <2>2, <3>1, <3>2, <3>3
  <2>3. CASE BeginScan(p) \/ WriteScanned(p)
    BY <2>3 DEF BeginScan, WriteScanned
  <2>4. CASE WriteConfig(p)
    BY <2>4 DEF WriteConfig
  <2>5. CASE WriteConfigFile(p)
    BY <2>5, <1>0 DEF WriteConfigFile, AfterWrite
  <2>6. CASE CreateConflict(p) \/ MarkCreated(p) \/ AbortCreate(p) \/ Unlink(p)
    BY <2>6 DEF CreateConflict, MarkCreated, AbortCreate, Unlink
  <2>7. CASE BuildWrite(p)
    BY <2>7 DEF BuildWrite
  <2> QED
    BY <1>2, <2>1, <2>2, <2>3, <2>4, <2>5, <2>6, <2>7 DEF Task
<1>3. CASE Hook(p)
  <2>1. CASE HookAcquire(p) \/ HookPurge(p) \/ HookImport(p) \/ HookInstall(p)
    BY <2>1 DEF HookAcquire, HookPurge, HookImport, HookInstall
  <2>2. CASE HookMiss(p) \/ HookImportFails(p)
    BY <2>2, <1>0 DEF HookMiss, HookImportFails, Resume, AfterHook
  <2>3. CASE HookSweep(p)
    BY <2>3, <1>0 DEF HookSweep, DeleteSnapshots, AfterHook
  <2>4. CASE HookTrio(p)
    BY <2>4 DEF HookTrio
  <2> QED
    BY <1>3, <2>1, <2>2, <2>3, <2>4 DEF Hook
<1>4. CASE Die(p)
  BY <1>4 DEF Die
<1> QED
  BY <1>1, <1>2, <1>3, <1>4 DEF Acts

(* No step leaves two processes under the document lock, or one there      *)
(* without it.                                                             *)
LEMMA DocumentLockStep ==
  TypeOK /\ DocumentLock /\ [Next]_vars => DocumentLock'
<1> SUFFICES ASSUME TypeOK, DocumentLock, [Next]_vars PROVE DocumentLock'
  OBVIOUS
<1>1. CASE UNCHANGED vars
  BY <1>1 DEF vars, lockVars, DocumentLock
<1>2. CASE Garble
  BY <1>2 DEF Garble, lockVars, DocumentLock
<1>3. ASSUME NEW p \in Procs, Acts(p) PROVE DocumentLock'
  BY <1>3, StepShape, ProcsAssumption DEF DocumentLock
<1> QED
  BY <1>1, <1>2, <1>3 DEF Next, Acts

(* A step of p keeps p in its flow.                                        *)
LEMMA FlowFrame ==
  ASSUME TypeOK, Flow, NEW p \in Procs, Acts(p) PROVE FlowOf(p)'
<1> USE DEF TypeOK, FlowOf, Goto, Finish
<1>0. FlowOf(p)
  BY DEF Flow
<1>1. NoJob.op = "none" /\ NoJob.next = "idle" /\ NoJob.after = "idle"
  BY DEF NoJob
<1>2. job[p] \in Job /\ job[p].after \in AfterHook /\ job[p].next \in AfterWrite
  BY DEF Job
<1>3. ASSUME Finish(p) PROVE FlowOf(p)'
  BY <1>1, <1>3
<1>4. CASE Api(p)
  <2>1a. CASE Request(p)
    <3>1. PICK req \in Requests, pre \in Preconditions :
            job' = [job EXCEPT ![p] = [NoJob EXCEPT !.op = "request",
                                                    !.req = req, !.pre = pre]]
      BY <2>1a DEF Request
    <3>2. /\ job'[p].next = "idle" /\ job'[p].after = "idle"
          /\ pc'[p] = "want"
      BY <2>1a, <3>1, <1>1, NoJobType DEF Request, Job
    <3> QED
      BY <3>2
  <2>1b. CASE Remove(p)
    <3>1. PICK n \in Nodes :
            job' = [job EXCEPT ![p] = [NoJob EXCEPT !.op = "rm", !.node = n]]
      BY <2>1b DEF Remove
    <3>2. /\ job'[p].next = "idle" /\ job'[p].after = "idle"
          /\ pc'[p] = "want"
      BY <2>1b, <3>1, <1>1, NoJobType DEF Remove, Job
    <3> QED
      BY <3>2
  <2>2. CASE Acquire(p)
    BY <2>2, <1>0 DEF Acquire
  <2>3. CASE CheckGuest(p)
    BY <2>3, <1>0, <1>2 DEF CheckGuest, Job
  <2>4. CASE ReadDocument(p)
    BY <2>4, <1>0, <1>2 DEF ReadDocument, Job
  <2>5. CASE PurgeDocument(p)
    BY <2>5, <1>0 DEF PurgeDocument
  <2>6. CASE LockTimeout(p) \/ Refuse(p) \/ WriteDocument(p) \/ PurgeCopies(p)
    BY <2>6, <1>3 DEF LockTimeout, Refuse, WriteDocument, PurgeCopies
  <2> QED
    BY <1>4, <2>1a, <2>1b, <2>2, <2>3, <2>4, <2>5, <2>6 DEF Api
<1>5. CASE Task(p)
  <2>1. CASE \/ BeginSet(p) \/ BeginCreate(p) \/ BeginDestroy(p)
             \/ BeginSnapshot(p) \/ BeginRollback(p) \/ BeginDelsnap(p)
    <3>1. PICK j \in Job, l \in {"config", "unlink"} : StartedJob(p, j, l)
      BY <2>1, StartShape
    <3> QED
      BY <3>1 DEF StartedJob, Begin
  <2>3. CASE BeginScan(p)
    BY <2>3, <1>1, NoJobType DEF BeginScan, Job
  <2>4. CASE WriteConfig(p)
    BY <2>4, <1>0, <1>2 DEF WriteConfig, Job
  <2>5. CASE WriteConfigFile(p)
    <3>1. CASE job[p].next = "idle"
      BY <2>5, <3>1, <1>3 DEF WriteConfigFile
    <3>2. CASE job[p].next # "idle"
      BY <2>5, <3>2, <1>0, <1>2 DEF WriteConfigFile, AfterWrite, Job
    <3> QED
      BY <3>1, <3>2
  <2>6. CASE MarkCreated(p)
    BY <2>6, <1>0 DEF MarkCreated
  <2>7. CASE BuildWrite(p)
    BY <2>7, <1>0, <1>2 DEF BuildWrite, Job
  <2>8. CASE AbortCreate(p)
    BY <2>8, <1>1, NoJobType DEF AbortCreate, Job
  <2>9. CASE Unlink(p)
    BY <2>9, <1>0, <1>2 DEF Unlink, Job
  <2>10. CASE CreateConflict(p) \/ WriteScanned(p)
    BY <2>10, <1>3 DEF CreateConflict, WriteScanned
  <2> QED
    BY <1>5, <2>1, <2>3, <2>4, <2>5, <2>6, <2>7, <2>8, <2>9, <2>10 DEF Task
<1>6. CASE Hook(p)
  <2>1. CASE HookAcquire(p) \/ HookPurge(p) \/ HookImport(p)
    BY <2>1, <1>0 DEF HookAcquire, HookPurge, HookImport
  <2>2. CASE HookMiss(p) \/ HookImportFails(p)
    <3>1. PICK l : /\ l \in {"idle", "file", job[p].after}
                   /\ Resume(p, l) /\ pc[p] \in {"hookwait", "hook"}
      BY <2>2 DEF HookMiss, HookImportFails
    <3> QED
      BY <3>1, <1>0, <1>2, <1>3 DEF Resume, AfterHook, Job
  <2>3. CASE HookSweep(p)
    BY <2>3, <1>0, <1>2, <1>3 DEF HookSweep, AfterHook, Job
  <2>4. CASE HookInstall(p)
    BY <2>4, <1>0, <1>2 DEF HookInstall, Job
  <2>5. CASE HookTrio(p)
    BY <2>5, <1>3 DEF HookTrio
  <2> QED
    BY <1>6, <2>1, <2>2, <2>3, <2>4, <2>5 DEF Hook
<1>7. CASE Die(p)
  BY <1>7, <1>3 DEF Die
<1> QED
  BY <1>4, <1>5, <1>6, <1>7 DEF Acts

(* Every step keeps every process in its flow.                             *)
LEMMA FlowStep == TypeOK /\ Flow /\ [Next]_vars => Flow'
<1> SUFFICES ASSUME TypeOK, Flow, [Next]_vars PROVE Flow'
  OBVIOUS
<1>1. CASE UNCHANGED vars
  BY <1>1 DEF vars, Flow, FlowOf
<1>2. CASE Garble
  BY <1>2 DEF Garble, Flow, FlowOf
<1>3. ASSUME NEW p \in Procs, Acts(p) PROVE Flow'
  BY <1>3, StepShape, FlowFrame DEF Flow, FlowOf
<1> QED
  BY <1>1, <1>2, <1>3 DEF Next, Acts

(* A request about to write planned on the document that is stored now: it *)
(* is the one it read, it has the digest the request named, and the plan   *)
(* is the plan for it.                                                     *)
Planned ==
  \A p \in Procs :
    pc[p] = "write" =>
      /\ doc = job[p].seen
      /\ MatchesDigest(doc, job[p].pre)
      /\ Repairable(job[p].req, doc)
      /\ job[p].plan = Plan(job[p].req, doc)

(* Nothing gets in between a request's plan and its write: whoever else    *)
(* could change the document would have to hold the lock.                  *)
LEMMA PlannedStep ==
  TypeOK /\ DocumentLock /\ Planned /\ [Next]_vars => Planned'
<1> SUFFICES ASSUME TypeOK, DocumentLock, Planned, [Next]_vars PROVE Planned'
  OBVIOUS
<1>1. CASE UNCHANGED vars
  BY <1>1 DEF vars, storeVars, Planned, MatchesDigest, Digest, Repairable, Plan
<1>2. CASE Garble
  BY <1>2, ProcsAssumption DEF Garble, Planned, DocumentLock, Locked
<1>3. ASSUME NEW p \in Procs, Acts(p) PROVE Planned'
  <2>1. SUFFICES ASSUME NEW q \in Procs, pc'[q] = "write"
                 PROVE  /\ doc' = job'[q].seen
                        /\ MatchesDigest(doc', job'[q].pre)
                        /\ Repairable(job'[q].req, doc')
                        /\ job'[q].plan = Plan(job'[q].req, doc')
    BY DEF Planned, MatchesDigest, Digest, Repairable, Plan
  <2>2. CASE q # p
    <3>1. pc[q] = "write" /\ job'[q] = job[q] /\ doc' = doc
      BY <1>3, <2>1, <2>2, StepShape DEF DocumentLock, Locked
    <3> QED
      BY <3>1 DEF Planned
  <2>3. CASE q = p
    <3>1. ReadDocument(p)
      BY <1>3, <2>1, <2>3, StepShape
    <3>2. doc' = doc /\ job'[p].pre = job[p].pre /\ job'[p].req = job[p].req
            /\ job'[p].seen = doc /\ job'[p].plan = Plan(job[p].req, doc)
      BY <3>1 DEF ReadDocument, storeVars, TypeOK, Job
    <3> QED
      BY <3>1, <3>2, <2>3 DEF ReadDocument
  <2> QED
    BY <2>2, <2>3
<1> QED
  BY <1>1, <1>2, <1>3 DEF Next, Acts

(* The inductive invariant.                                                *)
IInv == TypeOK /\ Flow /\ DocumentLock /\ Planned

(* The inductive invariant holds initially.                                *)
LEMMA InitIInv == Init => IInv
<1> SUFFICES ASSUME Init PROVE IInv
  OBVIOUS
<1>1. \A p \in Procs : pc[p] = "idle" /\ job[p] = NoJob
  BY DEF Init
<1>2. NoJob.op = "none" /\ NoJob.next = "idle" /\ NoJob.after = "idle"
  BY DEF NoJob
<1>3. Flow
  BY <1>1, <1>2 DEF Flow, FlowOf
<1>4. DocumentLock /\ Planned
  BY <1>1 DEF DocumentLock, Locked, Planned
<1> QED
  BY <1>3, <1>4, InitType DEF IInv

(* Every step keeps the inductive invariant.                               *)
LEMMA StepIInv == IInv /\ [Next]_vars => IInv'
BY TypeStep, FlowStep, DocumentLockStep, PlannedStep DEF IInv

(* The inductive invariant holds in every reachable state, for any number  *)
(* of processes, nodes, keys, snapshots, incarnations and faults.          *)
THEOREM AlwaysIInv == Spec => []IInv
BY InitIInv, StepIInv, PTL DEF Spec

(* Every variable keeps its type.                                          *)
THEOREM TypeCorrect == Spec => []TypeOK
BY AlwaysIInv, PTL DEF IInv

(* cfs_lock_domain's holder is the only process between its vmlist check   *)
(* and its answer, or in the body of a hook.                               *)
THEOREM LockHolder == Spec => []DocumentLock
BY AlwaysIInv, PTL DEF IInv

(* put_document always writes over the document it read.                   *)
THEOREM FreshWrites == Spec => []PlannedWriteIsFresh
<1>1. IInv => PlannedWriteIsFresh
  BY DEF IInv, Planned, PlannedWriteIsFresh
<1> QED
  BY <1>1, AlwaysIInv, PTL

(* Where a request can be.                                                 *)
Waiting == {"want", "check", "read", "write"}

(* Tasks and hooks never enter or leave a request's labels.                *)
LEMMA TaskLabels ==
  ASSUME TypeOK, NEW p \in Procs, Task(p) \/ Hook(p)
  PROVE  pc[p] \notin Waiting /\ pc'[p] \notin Waiting
<1> USE DEF TypeOK, Goto, Finish, Waiting
<1>0. job[p].after \in AfterHook /\ job[p].next \in AfterWrite
  BY DEF Job
<1>1. CASE BeginSet(p) \/ BeginCreate(p) \/ BeginDestroy(p)
  <2>1. CASE BeginSet(p)
    BY <2>1 DEF BeginSet, Begin, Start
  <2>2. CASE BeginCreate(p)
    BY <2>2 DEF BeginCreate, Begin, Start
  <2>3. CASE BeginDestroy(p)
    BY <2>3 DEF BeginDestroy, Begin, Start
  <2> QED
    BY <1>1, <2>1, <2>2, <2>3
<1>2. CASE BeginSnapshot(p) \/ BeginRollback(p) \/ BeginDelsnap(p)
  <2>1. CASE BeginSnapshot(p)
    BY <2>1 DEF BeginSnapshot, Begin, Start
  <2>2. CASE BeginRollback(p)
    BY <2>2 DEF BeginRollback, Begin, Start
  <2>3. CASE BeginDelsnap(p)
    BY <2>3 DEF BeginDelsnap, Begin, Start
  <2> QED
    BY <1>2, <2>1, <2>2, <2>3
<1>3. CASE BeginScan(p) \/ WriteScanned(p) \/ WriteConfig(p)
  BY <1>3 DEF BeginScan, WriteScanned, WriteConfig, Start
<1>4. CASE WriteConfigFile(p)
  BY <1>4, <1>0 DEF WriteConfigFile, AfterWrite
<1>5. CASE CreateConflict(p) \/ MarkCreated(p) \/ AbortCreate(p) \/ Unlink(p) \/ BuildWrite(p)
  BY <1>5 DEF CreateConflict, MarkCreated, AbortCreate, Unlink, BuildWrite
<1>6. CASE HookAcquire(p) \/ HookPurge(p) \/ HookImport(p) \/ HookInstall(p) \/ HookTrio(p)
  BY <1>6 DEF HookAcquire, HookPurge, HookImport, HookInstall, HookTrio
<1>7. CASE HookMiss(p) \/ HookImportFails(p)
  BY <1>7, <1>0 DEF HookMiss, HookImportFails, Resume, AfterHook
<1>8. CASE HookSweep(p)
  BY <1>8, <1>0 DEF HookSweep, AfterHook
<1> QED
  BY <1>1, <1>2, <1>3, <1>4, <1>5, <1>6, <1>7, <1>8 DEF Task, Hook

(* A step that is not a request's leaves the pending requests.             *)
LEMMA PendingStays ==
  ASSUME TypeOK, Flow, Flow', NEW p \in Procs, Acts(p),
         pc[p] \notin Waiting, pc'[p] \notin Waiting
  PROVE  pending' = pending
<1>1. job[p].op # "request" /\ job'[p].op # "request"
  BY DEF Flow, FlowOf, Waiting
<1>2. \A q \in Procs : (job'[q].op = "request" \/ job[q].op = "request") => job'[q] = job[q]
  BY <1>1, StepShape
<1>3. pending' = [q \in Procs |-> IF job'[q].op = "request"
                                   THEN {[req |-> job'[q].req, pre |-> job'[q].pre]}
                                   ELSE {}]
  BY DEF pending
<1> QED
  BY <1>2, <1>3 DEF pending

(* A step of a request or of `rm' is an abstract step or a stutter: the    *)
(* arrival invokes, the write edits, a refusal rejects.                    *)
LEMMA ApiImplements ==
  ASSUME IInv, Flow', NEW p \in Procs, Api(p)
  PROVE  [Atomic!Next]_<<storeVars, pending>>
<1> USE DEF IInv, TypeOK, storeVars, Goto
<1>0. /\ FlowOf(p) /\ FlowOf(p)' /\ Acts(p)
      /\ \A q \in Procs \ {p} : job'[q] = job[q]
  BY StepShape DEF Flow, Acts
<1>1. CASE Request(p)
  <2>1. PICK req \in Requests, pre \in Preconditions :
          job' = [job EXCEPT ![p] = [NoJob EXCEPT !.op = "request",
                                                  !.req = req, !.pre = pre]]
    BY <1>1 DEF Request
  <2>2. job'[p].op = "request" /\ job'[p].req = req /\ job'[p].pre = pre
    BY <2>1, NoJobType DEF Job
  <2>3. pending[p] = {}
    BY <1>0, <1>1 DEF pending, FlowOf, Request, Start
  <2>4. pending' = [pending EXCEPT ![p] = {[req |-> req, pre |-> pre]}]
    BY <1>0, <2>2 DEF pending
  <2>5. Atomic!Invoke(p)
    BY <1>1, <2>3, <2>4 DEF Atomic!Invoke, Atomic!storeVars, Request,
         Atomic!Requests, Requests, Atomic!Preconditions, Preconditions,
         Atomic!Digests, Digests, Atomic!Digest, Digest, Atomic!Absent, Absent,
         Atomic!Garbled, Garbled, Atomic!Text, Text
  <2> QED
    BY <2>5 DEF Atomic!Next
<1>2. CASE Remove(p)
  <2>1. PICK n \in Nodes :
          job' = [job EXCEPT ![p] = [NoJob EXCEPT !.op = "rm", !.node = n]]
    BY <1>2 DEF Remove
  <2>2. job'[p].op # "request" /\ job[p].op # "request"
    BY <1>0, <1>2, <2>1, NoJobType DEF Remove, Start, FlowOf, Job
  <2>3. pending' = pending
    BY <1>0, <2>2 DEF pending
  <2> QED
    BY <1>2, <2>3 DEF Remove
<1>3. CASE Acquire(p) \/ CheckGuest(p) \/ ReadDocument(p)
  <2>1. job'[p].op = job[p].op /\ job'[p].req = job[p].req /\ job'[p].pre = job[p].pre
    BY <1>3 DEF Acquire, CheckGuest, ReadDocument, Job
  <2>2. pending' = pending
    BY <1>0, <2>1 DEF pending
  <2> QED
    BY <1>3, <2>2 DEF Acquire, CheckGuest, ReadDocument
<1>4. ASSUME Finish(p)
      PROVE  pending' = [pending EXCEPT ![p] = {}]
  <2>1. job'[p].op = "none"
    BY <1>4 DEF Finish, NoJob
  <2> QED
    BY <1>0, <2>1 DEF pending
<1>5. CASE LockTimeout(p) \/ Refuse(p)
  <2>1. pending' = [pending EXCEPT ![p] = {}] /\ UNCHANGED storeVars
    BY <1>4, <1>5 DEF LockTimeout, Refuse
  <2>2. CASE pending[p] = {}
    BY <2>1, <2>2 DEF pending
  <2>3. CASE pending[p] # {}
    BY <2>1, <2>3 DEF Atomic!Next, Atomic!Reject, Atomic!Answer, Atomic!storeVars
  <2> QED
    BY <2>2, <2>3
<1>6. CASE WriteDocument(p)
  <2> DEFINE r == [req |-> job[p].req, pre |-> job[p].pre]
  <2>1. job[p].op = "request" /\ pending[p] = {r}
    BY <1>0, <1>6 DEF FlowOf, WriteDocument, pending
  <2>2. Atomic!Answer(p)
    BY <2>1, <1>4, <1>6 DEF WriteDocument, Atomic!Answer
  <2>3. /\ MatchesDigest(doc, job[p].pre) /\ Repairable(job[p].req, doc)
        /\ job[p].plan = Plan(job[p].req, doc) /\ job[p].seen = doc
    BY <1>6 DEF Planned, WriteDocument
  <2>4. Atomic!MatchesDigest(doc, r.pre) /\ Atomic!Repairable(r.req, doc)
    BY <2>3 DEF MatchesDigest, Digest, Repairable, Atomic!MatchesDigest,
                Atomic!Digest, Atomic!Repairable
  <2>5. CASE job[p].req.act = "delete"
    <3>1. doc' = Atomic!Absent /\ UNCHANGED copies
      BY <1>6, <2>5 DEF WriteDocument, Delete, Absent, Atomic!Absent
    <3>2. Atomic!Edit(p)
      BY <2>1, <2>2, <2>4, <2>5, <3>1 DEF Atomic!Edit
    <3> QED
      BY <3>2 DEF Atomic!Next
  <2>6. CASE job[p].req.act # "delete" /\ Unchanged(job[p].req, job[p].plan, job[p].seen)
    <3>1. UNCHANGED storeVars
      BY <1>6, <2>6 DEF WriteDocument
    <3> QED
      BY <2>2, <3>1 DEF Atomic!Next, Atomic!Reject, Atomic!storeVars
  <2>7. CASE job[p].req.act # "delete" /\ ~Unchanged(job[p].req, job[p].plan, job[p].seen)
    <3>1. doc' = Text(Plan(r.req, doc), job[p].for) /\ UNCHANGED copies
      BY <1>6, <2>3, <2>7 DEF WriteDocument, PutRaw
    <3>2. doc' \in File
      <4>1. job[p].plan \in SUBSET Keys /\ job[p].for \in Nat
        BY DEF Job
      <4> QED
        BY <3>1, <2>3, <4>1, FileTypes
    <3>3. Plan(r.req, doc) = Atomic!Plan(r.req, doc)
      BY DEF Plan, Atomic!Plan
    <3>4. Atomic!Becomes(Atomic!Plan(r.req, doc))
      BY <3>1, <3>2, <3>3 DEF Atomic!Becomes, File, Atomic!File, Text, Atomic!Text,
                              Atomic!Digest
    <3>5. Atomic!Edit(p)
      BY <2>1, <2>2, <2>4, <2>7, <3>1, <3>4 DEF Atomic!Edit
    <3> QED
      BY <3>5 DEF Atomic!Next
  <2> QED
    BY <2>5, <2>6, <2>7
<1>7. CASE PurgeDocument(p) \/ PurgeCopies(p)
  <2>1. pending' = pending
    <3>1. pc[p] \notin Waiting /\ pc'[p] \notin Waiting
      BY <1>7 DEF PurgeDocument, PurgeCopies, Finish, Waiting
    <3> QED
      BY <1>0, <3>1, PendingStays
  <2>2. Atomic!Delete \/ Atomic!DeleteSnapshots
    BY <1>7 DEF PurgeDocument, PurgeCopies, Delete, DeleteSnapshots, Absent, NoCopies,
                Atomic!Delete, Atomic!DeleteSnapshots, Atomic!Absent, Atomic!NoCopies
  <2> QED
    BY <2>1, <2>2 DEF Atomic!Next, Atomic!Lifecycle
<1> QED
  BY <1>1, <1>2, <1>3, <1>5, <1>6, <1>7 DEF Api

(* A task's own steps are invisible to the store's clients.                *)
LEMMA TaskImplements ==
  ASSUME IInv, Flow', NEW p \in Procs, Task(p)
  PROVE  UNCHANGED <<storeVars, pending>>
<1>1. UNCHANGED storeVars
  BY DEF Task, BeginSet, BeginCreate, BeginDestroy, BeginSnapshot, BeginRollback,
         BeginDelsnap, Begin, BeginScan, WriteConfig, WriteConfigFile, CreateConflict,
         MarkCreated, BuildWrite, AbortCreate, Unlink, WriteScanned
<1>2. pending' = pending
  BY TaskLabels, PendingStays DEF IInv, Acts
<1> QED
  BY <1>1, <1>2

(* A hook's step is one lifecycle change of the files, outside any         *)
(* request.                                                                *)
LEMMA HookImplements ==
  ASSUME IInv, Flow', NEW p \in Procs, Hook(p)
  PROVE  [Atomic!Next]_<<storeVars, pending>>
<1> USE DEF IInv, TypeOK, storeVars
<1>0. pending' = pending
  BY TaskLabels, PendingStays DEF Acts
<1>1. job[p] \in Job /\ job[p].conf.block \in File /\ job[p].snap \in Snaps
  BY DEF Job, Conf
<1>2. ASSUME NEW K \in SUBSET Keys, NEW g \in Nat, PutRaw(K, g, {})
      PROVE  (\E L \in SUBSET Keys : Atomic!Becomes(L)) /\ UNCHANGED copies
  <2>1. doc' = Text(K, g) /\ UNCHANGED copies
    BY <1>2 DEF PutRaw, MatchesDigest
  <2>2. doc' \in File
    BY <2>1, FileTypes
  <2> QED
    BY <2>1, <2>2 DEF Atomic!Becomes, File, Atomic!File, Text, Atomic!Text, Atomic!Digest
<1>3. CASE HookAcquire(p) \/ HookMiss(p) \/ HookImportFails(p)
  BY <1>0, <1>3 DEF HookAcquire, HookMiss, HookImportFails
<1>4. CASE HookPurge(p) \/ HookSweep(p)
  <2>1. Atomic!Delete \/ Atomic!DeleteSnapshots
    BY <1>4 DEF HookPurge, HookSweep, Delete, DeleteSnapshots, Absent, NoCopies,
                Atomic!Delete, Atomic!DeleteSnapshots, Atomic!Absent, Atomic!NoCopies
  <2> QED
    BY <1>0, <2>1 DEF Atomic!Next, Atomic!Lifecycle
<1>5. CASE HookImport(p)
  <2>1. PutRaw(job[p].conf.block.keys, gen, {}) /\ job[p].conf.block.keys \in SUBSET Keys
    BY <1>1, <1>5 DEF HookImport, File
  <2> QED
    BY <1>0, <1>2, <2>1 DEF Atomic!Next, Atomic!Lifecycle
<1>6. CASE HookInstall(p)
  <2>1. CASE doc.there
    BY <1>0, <1>6, <2>1 DEF HookInstall
  <2>2. CASE ~doc.there
    <3>1. /\ PutRaw(job[p].conf.block.keys, job[p].for, {})
          /\ job[p].conf.block.keys \in SUBSET Keys /\ job[p].for \in Nat
      BY <1>1, <1>6, <2>2 DEF HookInstall, File, Job
    <3> QED
      BY <1>0, <1>2, <3>1 DEF Atomic!Next, Atomic!Lifecycle
  <2> QED
    BY <2>1, <2>2
<1>7. CASE HookTrio(p)
  <2>1. PICK s \in Snaps : Snapshot(s) \/ Rollback(s) \/ DeleteSnapshot(s)
    BY <1>1, <1>7 DEF HookTrio
  <2>2. Atomic!Snapshot(s) \/ Atomic!Rollback(s) \/ Atomic!DeleteSnapshot(s)
    BY <2>1 DEF Snapshot, Rollback, DeleteSnapshot, Absent, Atomic!Snapshot,
                Atomic!Rollback, Atomic!DeleteSnapshot, Atomic!Absent
  <2> QED
    BY <1>0, <2>2 DEF Atomic!Next, Atomic!Lifecycle
<1> QED
  BY <1>3, <1>4, <1>5, <1>6, <1>7 DEF Hook

(* A process that dies takes its request with it, unanswered and without   *)
(* effect; a hand edit is a lifecycle change.                              *)
LEMMA FaultImplements ==
  ASSUME IInv, Garble \/ \E p \in Procs : Die(p)
  PROVE  [Atomic!Next]_<<storeVars, pending>>
<1>1. CASE Garble
  <2>1. doc' = Atomic!Garbled(doc.gen) /\ UNCHANGED <<copies, pending>>
    BY <1>1 DEF Garble, Garbled, Atomic!Garbled, pending
  <2> QED
    BY <2>1 DEF Atomic!Next, Atomic!Lifecycle
<1>2. ASSUME NEW p \in Procs, Die(p) PROVE [Atomic!Next]_<<storeVars, pending>>
  <2>1. job' = [job EXCEPT ![p] = NoJob] /\ UNCHANGED storeVars
    BY <1>2 DEF Die, Finish
  <2>2. job'[p].op = "none"
    BY <2>1 DEF IInv, TypeOK, NoJob
  <2>3. pending' = [pending EXCEPT ![p] = {}]
    BY <2>1, <2>2 DEF IInv, TypeOK, pending
  <2>4. CASE pending[p] = {}
    BY <2>1, <2>3, <2>4 DEF pending
  <2>5. CASE pending[p] # {}
    BY <2>1, <2>3, <2>5
       DEF Atomic!Next, Atomic!Reject, Atomic!Answer, storeVars, Atomic!storeVars
  <2> QED
    BY <2>4, <2>5
<1> QED
  BY <1>1, <1>2

(* MetaLifecycle implements AtomicDocument: an answered request was one    *)
(* edit of the document as it was at that moment, or nothing, whatever     *)
(* hooks, tasks and other requests do meanwhile.                           *)
THEOREM AtomicRequests == Spec => RequestsAreAtomic
<1>1. Init => Atomic!Init
  <2> SUFFICES ASSUME Init PROVE Atomic!Init
    OBVIOUS
  <2>1. pending = [p \in Procs |-> {}]
    BY DEF Init, NoJob, pending
  <2> QED
    BY <2>1 DEF Init, StoreInit, Absent, NoCopies, Atomic!Init, Atomic!StoreInit,
                Atomic!Absent, Atomic!NoCopies
<1>2. IInv /\ [Next]_vars => [Atomic!Next]_<<storeVars, pending>>
  <2> SUFFICES ASSUME IInv, [Next]_vars PROVE [Atomic!Next]_<<storeVars, pending>>
    OBVIOUS
  <2>1. Flow'
    BY FlowStep DEF IInv
  <2>2. CASE UNCHANGED vars
    BY <2>2 DEF vars, storeVars, pending
  <2>3. ASSUME NEW p \in Procs, Api(p) \/ Task(p) \/ Hook(p)
        PROVE  [Atomic!Next]_<<storeVars, pending>>
    BY <2>1, <2>3, ApiImplements, TaskImplements, HookImplements
  <2>4. CASE Garble \/ \E p \in Procs : Die(p)
    BY <2>4, FaultImplements
  <2> QED
    BY <2>2, <2>3, <2>4 DEF Next
<1>3. UNCHANGED <<storeVars, pending>> <=> UNCHANGED <<Atomic!storeVars, pending>>
  BY DEF storeVars, Atomic!storeVars
<1> QED
  BY <1>1, <1>2, <1>3, AlwaysIInv, PTL DEF Spec, RequestsAreAtomic, Atomic!Spec
=============================================================================
