-------------------------- MODULE MetaGuest_proofs --------------------------
(***************************************************************************)
(* Theorems about what MetaLifecycle's guest lock, lock line, restore      *)
(* marker and hooks achieve together: who owns the configuration (Owner-   *)
(* ship), who still owes a purge (Debts), and where a marker can be left.  *)
(*                                                                         *)
(* scan-notes takes no guest lock for a guest of another node, so where it *)
(* matters the theorems ask that scans run on a single node or not at all  *)
(* (LocalScans).  Everything else is for any constants.                    *)
(***************************************************************************)
EXTENDS MetaLifecycle_proofs

OneNode == \A m, n \in Nodes : m = n

LocalScans == "scan" \notin Jobs \/ OneNode

-----------------------------------------------------------------------------
(* Where a process is in its task.                                         *)

InHook == {"hookwait", "hook", "hooksweep"}

(* In write_config, in the first such write of a create, past that one.    *)
Config(p) == pc[p] \in {"config", "file"} \/ (pc[p] \in InHook /\ job[p].after = "file")

First(p) == Config(p) /\ job[p].next = "mark"

Building(p) ==
  \/ pc[p] \in {"mark", "build", "built"}
  \/ pc[p] \in InHook /\ job[p].after = "mark"
  \/ Config(p) /\ job[p].op = "create" /\ job[p].next # "mark"

Scanning(p) == pc[p] = "scanned" \/ (pc[p] \in InHook /\ job[p].after = "scanned")

Destroying(p) == pc[p] \in InHook /\ job[p].hook = "destroy"

(* About to replace or remove the configuration.                           *)
Writing(p) == Config(p) \/ Scanning(p) \/ pc[p] = "unlink"

(* None of these.                                                          *)
Away(p) == pc[p] \in {"idle", "want", "check", "read", "write", "purge", "sweep"}

(* Which task, and which hook, goes with which label.                      *)
Trail(p) ==
  /\ Config(p) => job[p].op \in {"set", "create", "snapshot", "rollback", "delsnap"}
  /\ pc[p] = "unlink" \/ Destroying(p) => job[p].op = "destroy"
  /\ Scanning(p) => job[p].op = "scan"
  /\ pc[p] = "file" => job[p].after = "file"
  /\ pc[p] = "hooksweep" => job[p].hook \in {"purge", "destroy", "import"}
  /\ pc[p] \in InHook =>
       \/ job[p].after = "file" /\ job[p].hook \in {"import", "purge"}
       \/ job[p].after = "mark" /\ job[p].hook = "purge"
       \/ job[p].after = "scanned" /\ job[p].hook = "install"
       \/ /\ job[p].after = "idle"
          /\ job[p].hook \in {"destroy", "snapshot", "rollback", "delsnap"}

(* What a process about to write the configuration writes: a guest of its  *)
(* own node, locked as long as a create goes on; a first write with a      *)
(* block goes over a guest that is there.                                  *)
Conforms(p) ==
  /\ job[p].conf.alive /\ job[p].conf.node = job[p].node
  /\ job[p].op = "create" => (job[p].conf.locked <=> job[p].next # "idle")
  /\ First(p) /\ job[p].conf.block.there => cfg.alive /\ cfg.node = job[p].node

Scans(p) ==
  /\ job[p].conf.alive /\ job[p].conf.node = job[p].node
  /\ job[p].conf.locked = cfg.locked /\ job[p].for = gen

(* What a process can rely on: the guest lock of its node, the guest being *)
(* there, and the lock line while it builds.                               *)
Mine(p) ==
  /\ Trail(p)
  /\ Writing(p) \/ Destroying(p) => glock[job[p].node] = p
  /\ (Writing(p) /\ ~First(p)) \/ Building(p) => cfg.alive /\ cfg.node = job[p].node
  /\ Building(p) => cfg.locked
  /\ Config(p) => Conforms(p)
  /\ Scanning(p) => Scans(p)

(* A guest is built by one process, and meanwhile only a scan, or a create *)
(* on another node that is going to fail, is about to write.               *)
Apart(p, q) ==
  Building(q) => /\ ~Building(p)
                 /\ Writing(p) => \/ job[p].op = "scan"
                                  \/ First(p) /\ job[p].node # job[q].node

Ownership ==
  /\ \A p \in Procs : Mine(p)
  /\ \A p, q \in Procs : p # q => Apart(p, q)

-----------------------------------------------------------------------------
(* What the steps of a process do to its job.                              *)

LEMMA NoJobFields ==
  /\ NoJob.op = "none" /\ NoJob.next = "idle" /\ NoJob.after = "idle" /\ NoJob.hook = "none"
  /\ NoJob.for = 0 /\ NoJob.allow = FALSE /\ NoJob.block = Absent /\ NoJob.conf = NoConf
  /\ NoConf.alive = FALSE /\ NoConf.locked = FALSE /\ NoConf.block = Absent /\ NoConf.snaps = {}
  /\ Absent.there = FALSE /\ Absent.gen = 0
BY DEF NoJob, NoConf, Absent

(* What a job would make of the configuration's snapshot sections.         *)
Plans(j) ==
  /\ j.op \in {"set", "rollback"} => j.conf.snaps = cfg.snaps
  /\ j.op = "rollback" => j.snap \in cfg.snaps
  /\ j.op = "snapshot" => j.snap \notin cfg.snaps /\ j.conf.snaps = cfg.snaps \cup {j.snap}
  /\ j.op = "delsnap" => j.conf.snaps = cfg.snaps \ {j.snap}

(* A task takes the guest lock of a node and sets out: to destroy or       *)
(* snapshot a guest that may be edited, to create one, or to set or unlock *)
(* one.                                                                    *)
Begins(p, n) ==
  /\ pc[p] = "idle" /\ glock[n] = NoProc /\ glock' = [glock EXCEPT ![n] = p]
  /\ job'[p].node = n /\ job'[p].after = "idle"
  /\ Serial => Running(Tasks) = {}
  /\ Plans(job'[p])
  /\ \/ pc'[p] = "unlink" /\ job'[p].op = "destroy" /\ Editable(n)
     \/ /\ pc'[p] = "config" /\ job'[p].op = "create" /\ job'[p].next = "mark"
        /\ cfg.alive => job'[p].allow /\ Editable(n)
        /\ job'[p].conf.alive /\ job'[p].conf.locked /\ job'[p].conf.node = n
        /\ job'[p].conf.block.there => cfg.alive
        /\ job'[p].block.there => job'[p].block.gen # 0
     \/ /\ pc'[p] = "config" /\ job'[p].op \in {"snapshot", "rollback", "delsnap"}
        /\ job'[p].next = "hookwait" /\ Editable(n)
        /\ job'[p].conf.alive /\ ~job'[p].conf.locked /\ job'[p].conf.node = n
     \/ /\ pc'[p] = "config" /\ job'[p].op = "set" /\ job'[p].next = "idle"
        /\ cfg.alive /\ cfg.node = n
        /\ job'[p].conf.alive /\ ~job'[p].conf.locked /\ job'[p].conf.node = n
        /\ \/ Editable(n)
           \/ cfg.locked /\ Running(Tasks) = {} /\ job'[p].conf.block = cfg.block
  /\ UNCHANGED <<storeVars, lock, guestVars, ghostVars>>

LEMMA BeginMove ==
  ASSUME TypeOK, NEW p \in Procs,
         \/ BeginSet(p) \/ BeginCreate(p) \/ BeginDestroy(p)
         \/ BeginSnapshot(p) \/ BeginRollback(p) \/ BeginDelsnap(p)
  PROVE  \E n \in Nodes : Begins(p, n)
<1>0. /\ cfg \in Conf /\ job \in [Procs -> Job] /\ pc \in [Procs -> Labels] /\ gen \in Nat
      /\ NoJob \in Job /\ NoConf \in Conf
  BY NoJobType, NoConfType DEF TypeOK
<1>1. CASE BeginDestroy(p)
  <2>1. PICK n \in Nodes :
          /\ Editable(n)
          /\ Begin(p, [NoJob EXCEPT !.op = "destroy", !.node = n, !.for = gen], "unlink")
    BY <1>1 DEF BeginDestroy
  <2> DEFINE j == [NoJob EXCEPT !.op = "destroy", !.node = n, !.for = gen]
  <2>2. j.op = "destroy" /\ j.node = n /\ j.after = "idle"
    BY <1>0, NoJobFields DEF Job
  <2> HIDE DEF j
  <2>3. Begin(p, j, "unlink")
    BY <2>1 DEF j
  <2> QED
    BY <1>0, <2>1, <2>2, <2>3 DEF Begins, Begin, Start, Goto, Tasks, Plans
<1>2. CASE BeginCreate(p)
  <2>1. PICK n \in Nodes, allow \in BOOLEAN,
             b \in {Absent, Garbled(gen + 1)} \cup {Text(K, gen + 1) : K \in SUBSET Keys} :
          /\ cfg.alive => allow /\ Editable(n)
          /\ Begin(p, [NoJob EXCEPT
                   !.op = "create", !.node = n, !.allow = allow, !.block = b,
                   !.next = "mark",
                   !.conf = IF cfg.alive THEN [cfg EXCEPT !.locked = TRUE]
                            ELSE [NoConf EXCEPT !.alive = TRUE, !.node = n,
                                                !.locked = TRUE]],
             "config")
    BY <1>2 DEF BeginCreate
  <2> DEFINE c == IF cfg.alive THEN [cfg EXCEPT !.locked = TRUE]
                  ELSE [NoConf EXCEPT !.alive = TRUE, !.node = n, !.locked = TRUE]
             j == [NoJob EXCEPT !.op = "create", !.node = n, !.allow = allow,
                                !.block = b, !.next = "mark", !.conf = c]
  <2>2. c.alive /\ c.locked /\ c.node = n /\ (c.block.there => cfg.alive)
    <3>1. CASE cfg.alive
      <4>1. c = [cfg EXCEPT !.locked = TRUE]
        BY <3>1
      <4> QED
        BY <1>0, <2>1, <3>1, <4>1 DEF Conf, Editable
    <3>2. CASE ~cfg.alive
      <4>1. c = [NoConf EXCEPT !.alive = TRUE, !.node = n, !.locked = TRUE]
        BY <3>2
      <4> HIDE DEF c
      <4>2. c.block = NoConf.block /\ c.alive /\ c.locked /\ c.node = n
        BY <1>0, <4>1 DEF Conf
      <4> QED
        BY <4>2, NoJobFields
    <3> QED
      BY <3>1, <3>2
  <2>3. b.there => b.gen # 0
    <3>1. CASE b = Absent
      BY <3>1, NoJobFields
    <3>2. CASE b = Garbled(gen + 1)
      BY <1>0, <3>2 DEF Garbled
    <3>3. CASE b \in {Text(K, gen + 1) : K \in SUBSET Keys}
      <4>1. PICK K \in SUBSET Keys : b = Text(K, gen + 1)
        BY <3>3
      <4> QED
        BY <1>0, <4>1 DEF Text
    <3> QED
      BY <3>1, <3>2, <3>3
  <2> HIDE DEF c
  <2>4. /\ j.op = "create" /\ j.node = n /\ j.after = "idle" /\ j.next = "mark"
        /\ j.allow = allow /\ j.block = b /\ j.conf = c
    BY <1>0, NoJobFields DEF Job
  <2>5. Begin(p, j, "config")
    BY <2>1 DEF c
  <2> HIDE DEF j
  <2>6. /\ pc[p] = "idle" /\ glock[n] = NoProc /\ glock' = [glock EXCEPT ![n] = p]
        /\ job'[p] = j /\ pc'[p] = "config" /\ (Serial => Running(Tasks) = {})
        /\ UNCHANGED <<storeVars, lock, guestVars, ghostVars>>
    BY <1>0, <2>4, <2>5 DEF Begin, Start, Goto, Tasks
  <2>7. cfg.alive => job'[p].allow /\ Editable(n)
    BY <2>1, <2>4, <2>6, Zenon
  <2> QED
    BY <2>2, <2>3, <2>4, <2>6, <2>7 DEF Begins, Plans
<1>3. CASE BeginSet(p)
  <2>1. PICK n \in Nodes, K \in SUBSET Keys, b \in {"paste", "clear", "unlock"} :
          /\ IF b = "unlock"
               THEN cfg.alive /\ cfg.node = n /\ cfg.locked /\ Running(Tasks) = {}
               ELSE Editable(n)
          /\ Begin(p, [NoJob EXCEPT
                      !.op = "set", !.node = n,
                      !.conf = CASE b = "paste" -> [cfg EXCEPT !.block = Text(K, 0)]
                                 [] b = "clear" -> [cfg EXCEPT !.block = Absent]
                                 [] b = "unlock" -> [cfg EXCEPT !.locked = FALSE]],
                "config")
    BY <1>3 DEF BeginSet
  <2> DEFINE c == CASE b = "paste" -> [cfg EXCEPT !.block = Text(K, 0)]
                    [] b = "clear" -> [cfg EXCEPT !.block = Absent]
                    [] b = "unlock" -> [cfg EXCEPT !.locked = FALSE]
             j == [NoJob EXCEPT !.op = "set", !.node = n, !.conf = c]
  <2>2. /\ c.alive = cfg.alive /\ c.node = cfg.node /\ (b # "unlock" => c.locked = cfg.locked)
        /\ c.snaps = cfg.snaps
        /\ b = "unlock" => c.locked = FALSE /\ c.block = cfg.block
    BY <1>0 DEF Conf
  <2>3. Editable(n) => cfg.alive /\ cfg.node = n /\ ~cfg.locked
    BY DEF Editable
  <2> HIDE DEF c
  <2>4. j.op = "set" /\ j.node = n /\ j.after = "idle" /\ j.next = "idle" /\ j.conf = c
    BY <1>0, NoJobFields DEF Job
  <2>5. Begin(p, j, "config")
    BY <2>1 DEF c
  <2> HIDE DEF j
  <2>6. Plans(j)
    BY <2>2, <2>4 DEF Plans
  <2>7. /\ pc[p] = "idle" /\ glock[n] = NoProc /\ glock' = [glock EXCEPT ![n] = p]
        /\ job'[p] = j /\ pc'[p] = "config" /\ (Serial => Running(Tasks) = {})
        /\ UNCHANGED <<storeVars, lock, guestVars, ghostVars>>
    BY <1>0, <2>4, <2>5 DEF Begin, Start, Goto, Tasks
  <2>8. /\ cfg.alive /\ cfg.node = n /\ c.alive /\ ~c.locked /\ c.node = n
        /\ Editable(n) \/ (cfg.locked /\ Running(Tasks) = {} /\ c.block = cfg.block)
    BY <2>1, <2>2, <2>3
  <2> QED
    BY <2>4, <2>6, <2>7, <2>8 DEF Begins
<1>4. ASSUME NEW n \in Nodes, NEW s \in Snaps, NEW c,
             Editable(n), c.alive = cfg.alive /\ c.node = cfg.node /\ c.locked = cfg.locked,
             NEW op \in {"snapshot", "rollback", "delsnap"},
             \/ op = "snapshot" /\ s \notin cfg.snaps /\ c.snaps = cfg.snaps \cup {s}
             \/ op = "rollback" /\ s \in cfg.snaps /\ c.snaps = cfg.snaps
             \/ op = "delsnap" /\ c.snaps = cfg.snaps \ {s},
             Begin(p, [NoJob EXCEPT !.op = op, !.node = n, !.snap = s, !.for = gen,
                                    !.next = "hookwait", !.conf = c], "config")
      PROVE \E m \in Nodes : Begins(p, m)
  <2> DEFINE j == [NoJob EXCEPT !.op = op, !.node = n, !.snap = s, !.for = gen,
                                !.next = "hookwait", !.conf = c]
  <2>1. /\ j.op = op /\ j.node = n /\ j.after = "idle" /\ j.next = "hookwait" /\ j.conf = c
        /\ j.snap = s
    BY <1>0, NoJobFields DEF Job
  <2>2. Begin(p, j, "config")
    BY <1>4
  <2>3. cfg.alive /\ cfg.node = n /\ ~cfg.locked
    BY <1>4 DEF Editable
  <2> HIDE DEF j
  <2>4. Plans(j)
    BY <1>4, <2>1 DEF Plans
  <2>5. /\ pc[p] = "idle" /\ glock[n] = NoProc /\ glock' = [glock EXCEPT ![n] = p]
        /\ job'[p] = j /\ pc'[p] = "config" /\ (Serial => Running(Tasks) = {})
        /\ UNCHANGED <<storeVars, lock, guestVars, ghostVars>>
    BY <1>0, <2>1, <2>2 DEF Begin, Start, Goto, Tasks
  <2> QED
    BY <1>4, <2>1, <2>3, <2>4, <2>5 DEF Begins
<1>5. CASE BeginSnapshot(p)
  <2>1. PICK n \in Nodes, s \in Snaps :
          /\ Editable(n) /\ s \notin cfg.snaps
          /\ Begin(p, [NoJob EXCEPT !.op = "snapshot", !.node = n, !.snap = s,
                      !.for = gen, !.next = "hookwait",
                      !.conf = [cfg EXCEPT !.snaps = @ \cup {s}]], "config")
    BY <1>5 DEF BeginSnapshot
  <2> DEFINE c == [cfg EXCEPT !.snaps = @ \cup {s}]
  <2>2. /\ c.alive = cfg.alive /\ c.node = cfg.node /\ c.locked = cfg.locked
        /\ c.snaps = cfg.snaps \cup {s}
    BY <1>0 DEF Conf
  <2>3. Begin(p, [NoJob EXCEPT !.op = "snapshot", !.node = n, !.snap = s, !.for = gen,
                               !.next = "hookwait", !.conf = c], "config")
    BY <2>1
  <2> HIDE DEF c
  <2> QED
    BY <1>4, <2>1, <2>2, <2>3
<1>6. CASE BeginRollback(p)
  <2>1. PICK n \in Nodes, s \in Snaps :
          /\ Editable(n) /\ s \in cfg.snaps
          /\ Begin(p, [NoJob EXCEPT !.op = "rollback", !.node = n, !.snap = s,
                      !.for = gen, !.next = "hookwait", !.conf = cfg], "config")
    BY <1>6 DEF BeginRollback
  <2> QED
    BY <1>4, <2>1
<1>7. CASE BeginDelsnap(p)
  <2>1. PICK n \in Nodes, s \in Snaps :
          /\ Editable(n)
          /\ Begin(p, [NoJob EXCEPT !.op = "delsnap", !.node = n, !.snap = s,
                      !.for = gen, !.next = "hookwait",
                      !.conf = [cfg EXCEPT !.snaps = @ \ {s}]], "config")
    BY <1>7 DEF BeginDelsnap
  <2> DEFINE c == [cfg EXCEPT !.snaps = @ \ {s}]
  <2>2. /\ c.alive = cfg.alive /\ c.node = cfg.node /\ c.locked = cfg.locked
        /\ c.snaps = cfg.snaps \ {s}
    BY <1>0 DEF Conf
  <2>3. Begin(p, [NoJob EXCEPT !.op = "delsnap", !.node = n, !.snap = s, !.for = gen,
                               !.next = "hookwait", !.conf = c], "config")
    BY <2>1
  <2> HIDE DEF c
  <2> QED
    BY <1>4, <2>1, <2>2, <2>3
<1> QED
  BY <1>1, <1>2, <1>3, <1>5, <1>6, <1>7

(* The job goes on as it was, but for its configuration and its hook.      *)
Kept(p) ==
  /\ job'[p].op = job[p].op /\ job'[p].node = job[p].node /\ job'[p].next = job[p].next
  /\ job'[p].allow = job[p].allow /\ job'[p].for = job[p].for /\ job'[p].block = job[p].block
  /\ job'[p].snap = job[p].snap

LEMMA ConfigMove ==
  ASSUME TypeOK, NEW p \in Procs, WriteConfig(p)
  PROVE  /\ pc[p] = "config" /\ Kept(p) /\ job'[p].conf = job[p].conf
         /\ job'[p].after = "file"
         /\ \/ /\ pc'[p] = "file" /\ job'[p].hook = "none"
               /\ TakesMarker(job[p].conf) =>
                    ~job[p].conf.block.there /\ job[p].conf.node \notin existing
            \/ /\ pc'[p] = "hookwait" /\ job'[p].hook = "import"
               /\ TakesMarker(job[p].conf) /\ job[p].conf.block.there
            \/ /\ pc'[p] = "hookwait" /\ job'[p].hook = "purge"
               /\ TakesMarker(job[p].conf) /\ ~job[p].conf.block.there
         /\ created' = IF TakesMarker(job[p].conf) THEN created \ {job[p].conf.node} ELSE created
         /\ existing' = IF TakesMarker(job[p].conf) THEN existing \ {job[p].conf.node}
                        ELSE existing
         /\ UNCHANGED <<storeVars, lockVars, cfg, gen, ghostVars>>
<1> DEFINE conf == job[p].conf
           hook == CASE TakesMarker(conf) /\ conf.block.there -> "import"
                     [] TakesMarker(conf) /\ ~conf.block.there /\ conf.node \in existing -> "purge"
                     [] OTHER -> "none"
<1>0. job \in [Procs -> Job] /\ pc \in [Procs -> Labels] /\ job[p] \in Job
  BY DEF TypeOK
<1>1. /\ pc[p] = "config"
      /\ created' = IF TakesMarker(conf) THEN created \ {conf.node} ELSE created
      /\ existing' = IF TakesMarker(conf) THEN existing \ {conf.node} ELSE existing
      /\ UNCHANGED <<storeVars, lockVars, cfg, gen, ghostVars>>
  BY DEF WriteConfig
<1>2. /\ job' = [job EXCEPT ![p].hook = hook, ![p].after = "file"]
      /\ Goto(p, IF hook = "none" THEN "file" ELSE "hookwait")
  BY DEF WriteConfig
<1>3. \/ /\ hook = "none"
         /\ TakesMarker(conf) => ~conf.block.there /\ conf.node \notin existing
      \/ hook = "import" /\ TakesMarker(conf) /\ conf.block.there
      \/ hook = "purge" /\ TakesMarker(conf) /\ ~conf.block.there
  OBVIOUS
<1> HIDE DEF hook
<1>4. Kept(p) /\ job'[p].conf = conf /\ job'[p].after = "file" /\ job'[p].hook = hook
  BY <1>0, <1>2 DEF Kept, Job
<1>5. pc'[p] = IF hook = "none" THEN "file" ELSE "hookwait"
  BY <1>0, <1>2 DEF Goto
<1> QED
  BY <1>1, <1>3, <1>4, <1>5

LEMMA FileMove ==
  ASSUME TypeOK, Flow, NEW p \in Procs, WriteConfigFile(p)
  PROVE  /\ pc[p] = "file" /\ ~TakenElsewhere(job[p]) /\ cfg' = job[p].conf
         /\ gen' = IF job[p].next = "mark" THEN gen + 1 ELSE gen
         /\ GuestUnlock(p)
         /\ UNCHANGED <<storeVars, lock, created, existing, missed, faults>>
         /\ \/ job[p].next = "idle" /\ pc'[p] = "idle" /\ job'[p] = NoJob
            \/ /\ Kept(p) /\ job[p].next = "mark" /\ ~job[p].allow
               /\ pc'[p] = "hookwait" /\ job'[p].hook = "purge" /\ job'[p].after = "mark"
            \/ Kept(p) /\ job[p].next = "mark" /\ job[p].allow /\ pc'[p] = "mark"
            \/ Kept(p) /\ job[p].next \in {"build", "built"} /\ pc'[p] = job[p].next
            \/ /\ Kept(p) /\ job[p].next = "hookwait" /\ pc'[p] = "hookwait"
               /\ job'[p].hook \in {"snapshot", "rollback", "delsnap"}
               /\ job'[p].hook = job[p].op /\ job'[p].after = "idle"
<1>0. /\ job \in [Procs -> Job] /\ pc \in [Procs -> Labels] /\ job[p] \in Job
      /\ job[p].next \in AfterWrite
  BY DEF TypeOK, Job
<1>1. /\ pc[p] = "file" /\ ~TakenElsewhere(job[p]) /\ cfg' = job[p].conf
      /\ gen' = IF job[p].next = "mark" THEN gen + 1 ELSE gen
      /\ GuestUnlock(p)
      /\ UNCHANGED <<storeVars, lock, created, existing, missed, faults>>
  BY DEF WriteConfigFile
<1>2. CASE job[p].next = "idle"
  BY <1>0, <1>1, <1>2 DEF WriteConfigFile, Finish, Goto
<1>3. CASE job[p].next # "idle"
  <2> DEFINE on_create == job[p].next = "mark" /\ ~job[p].allow
             hook == IF on_create THEN "purge"
                     ELSE IF job[p].next = "hookwait" THEN job[p].op ELSE "none"
             after == IF on_create THEN "mark" ELSE "idle"
             l == IF on_create THEN "hookwait" ELSE job[p].next
  <2>1. /\ Goto(p, l)
        /\ job' = [job EXCEPT ![p].hook = hook, ![p].after = after, ![p].conf = NoConf]
    BY <1>3 DEF WriteConfigFile
  <2>2. job[p].next = "hookwait" => job[p].op \in {"snapshot", "rollback", "delsnap"}
    BY DEF Flow, FlowOf
  <2>3. \/ job[p].next = "mark" /\ ~job[p].allow /\ l = "hookwait" /\ hook = "purge" /\ after = "mark"
        \/ job[p].next = "mark" /\ job[p].allow /\ l = "mark"
        \/ job[p].next \in {"build", "built"} /\ l = job[p].next
        \/ /\ job[p].next = "hookwait" /\ l = "hookwait" /\ after = "idle"
           /\ hook \in {"snapshot", "rollback", "delsnap"} /\ hook = job[p].op
    BY <1>0, <1>3, <2>2 DEF AfterWrite
  <2> HIDE DEF hook, after, l
  <2>4. Kept(p) /\ job'[p].hook = hook /\ job'[p].after = after
    BY <1>0, <2>1 DEF Kept, Job
  <2>5. pc'[p] = l
    BY <1>0, <2>1 DEF Goto
  <2> QED
    BY <1>1, <2>3, <2>4, <2>5
<1> QED
  BY <1>2, <1>3

LEMMA BuildMove ==
  ASSUME TypeOK, NEW p \in Procs, BuildWrite(p)
  PROVE  /\ pc[p] \in {"build", "built"} /\ pc'[p] = "config"
         /\ job'[p].op = job[p].op /\ job'[p].node = job[p].node /\ job'[p].for = job[p].for
         /\ job'[p].allow = job[p].allow /\ job'[p].block = job[p].block
         /\ job'[p].next \in {"build", "built", "idle"}
         /\ job'[p].conf.locked <=> job'[p].next # "idle"
         /\ \/ /\ job'[p].conf.alive /\ job'[p].conf.node = job[p].node
               /\ \/ job'[p].conf.block = Absent \/ job'[p].conf.block = job[p].block
            \/ /\ pc[p] = "built" /\ job'[p].next = "idle"
               /\ job'[p].conf.alive = cfg.alive /\ job'[p].conf.node = cfg.node
               /\ job'[p].conf.block = cfg.block
         /\ glock[job[p].node] = NoProc /\ glock' = [glock EXCEPT ![job[p].node] = p]
         /\ UNCHANGED <<storeVars, lock, guestVars, ghostVars>>
<1>0. /\ job \in [Procs -> Job] /\ pc \in [Procs -> Labels] /\ job[p] \in Job
      /\ cfg \in Conf /\ NoConf \in Conf
  BY NoConfType DEF TypeOK
<1> DEFINE n == job[p].node
           fresh == [NoConf EXCEPT !.alive = TRUE, !.node = n, !.locked = TRUE]
           archive == [fresh EXCEPT !.block = job[p].block]
<1>1. PICK c, next :
        /\ job' = [job EXCEPT ![p].conf = c, ![p].next = next]
        /\ \/ pc[p] = "build" /\ c = fresh /\ next = "build"
           \/ pc[p] = "build" /\ c = archive /\ next = "built"
           \/ pc[p] = "build" /\ c = [archive EXCEPT !.locked = FALSE] /\ next = "idle"
           \/ pc[p] = "built" /\ c = [cfg EXCEPT !.locked = FALSE] /\ next = "idle"
  BY DEF BuildWrite
<1>2. /\ glock[n] = NoProc /\ glock' = [glock EXCEPT ![n] = p] /\ Goto(p, "config")
      /\ UNCHANGED <<storeVars, lock, guestVars, ghostVars>>
  BY DEF BuildWrite
<1>3. fresh.alive /\ fresh.node = n /\ fresh.locked /\ fresh.block = Absent
  BY <1>0, NoJobFields DEF Conf
<1>4. archive.alive /\ archive.node = n /\ archive.locked /\ archive.block = job[p].block
  BY <1>0 DEF Conf
<1>5. /\ [archive EXCEPT !.locked = FALSE].alive /\ [archive EXCEPT !.locked = FALSE].node = n
      /\ [archive EXCEPT !.locked = FALSE].locked = FALSE
      /\ [archive EXCEPT !.locked = FALSE].block = job[p].block
  BY <1>0 DEF Conf
<1>6. /\ [cfg EXCEPT !.locked = FALSE].alive = cfg.alive
      /\ [cfg EXCEPT !.locked = FALSE].node = cfg.node
      /\ [cfg EXCEPT !.locked = FALSE].locked = FALSE
      /\ [cfg EXCEPT !.locked = FALSE].block = cfg.block
  BY <1>0 DEF Conf
<1>7. /\ job'[p].op = job[p].op /\ job'[p].node = job[p].node /\ job'[p].for = job[p].for
      /\ job'[p].allow = job[p].allow /\ job'[p].block = job[p].block
      /\ job'[p].conf = c /\ job'[p].next = next
  BY <1>0, <1>1 DEF Job
<1>8. pc'[p] = "config"
  BY <1>0, <1>2 DEF Goto
<1> HIDE DEF fresh, archive
<1>9. CASE pc[p] = "build"
  BY <1>1, <1>2, <1>3, <1>4, <1>5, <1>7, <1>8, <1>9
<1>10. CASE pc[p] = "built"
  BY <1>1, <1>2, <1>6, <1>7, <1>8, <1>10
<1> QED
  BY <1>1, <1>9, <1>10

LEMMA AbortMove ==
  ASSUME TypeOK, NEW p \in Procs, AbortCreate(p)
  PROVE  /\ pc[p] \in {"build", "built"} /\ pc'[p] = "unlink"
         /\ job'[p].op = "destroy" /\ job'[p].node = job[p].node
         /\ glock[job[p].node] = NoProc /\ glock' = [glock EXCEPT ![job[p].node] = p]
         /\ UNCHANGED <<storeVars, lock, guestVars, ghostVars>>
<1>0. job \in [Procs -> Job] /\ pc \in [Procs -> Labels] /\ NoJob \in Job
  BY NoJobType DEF TypeOK
<1>1. job'[p] = [NoJob EXCEPT !.op = "destroy", !.node = job[p].node]
  BY <1>0 DEF AbortCreate
<1>2. job'[p].op = "destroy" /\ job'[p].node = job[p].node
  BY <1>0, <1>1 DEF Job
<1> QED
  BY <1>0, <1>2 DEF AbortCreate, Goto

LEMMA UnlinkMove ==
  ASSUME TypeOK, NEW p \in Procs, Unlink(p)
  PROVE  /\ pc[p] = "unlink" /\ pc'[p] = "hookwait" /\ Kept(p)
         /\ job'[p].hook = "destroy" /\ job'[p].after = "idle" /\ cfg' = NoConf
         /\ UNCHANGED <<storeVars, lockVars, gen, created, existing, ghostVars>>
<1>0. job \in [Procs -> Job] /\ pc \in [Procs -> Labels] /\ job[p] \in Job
  BY DEF TypeOK
<1>1. Kept(p) /\ job'[p].hook = "destroy" /\ job'[p].after = "idle"
  BY <1>0 DEF Unlink, Kept, Job
<1> QED
  BY <1>0, <1>1 DEF Unlink, Goto

(* A scan reads the configuration, under its node's guest lock where scans *)
(* are local.                                                              *)
LEMMA ScanMove ==
  ASSUME LocalScans, TypeOK, NEW p \in Procs, BeginScan(p)
  PROVE  /\ pc[p] = "idle" /\ pc'[p] = "hookwait" /\ cfg.alive
         /\ job'[p].op = "scan" /\ job'[p].node = cfg.node /\ job'[p].for = gen
         /\ job'[p].conf = cfg /\ job'[p].hook = "install" /\ job'[p].after = "scanned"
         /\ glock[cfg.node] = NoProc /\ glock' = [glock EXCEPT ![cfg.node] = p]
         /\ UNCHANGED <<storeVars, lock, guestVars, ghostVars>>
<1>0. /\ job \in [Procs -> Job] /\ pc \in [Procs -> Labels] /\ NoJob \in Job
      /\ cfg \in Conf /\ cfg.node \in Nodes
  BY NoJobType DEF TypeOK, Conf
<1>1. OneNode /\ pc[p] = "idle"
  BY DEF LocalScans, BeginScan, Start
<1>2. PICK n \in Nodes :
        /\ IF n = cfg.node
             THEN /\ glock[n] = NoProc
                  /\ glock' = [glock EXCEPT ![n] = p]
             ELSE UNCHANGED glock
        /\ job' = [job EXCEPT ![p] = [NoJob EXCEPT
                     !.op = "scan", !.node = n, !.for = gen, !.conf = cfg,
                     !.hook = "install", !.after = "scanned"]]
  BY DEF BeginScan
<1>3. n = cfg.node
  BY <1>0, <1>1 DEF OneNode
<1>4. job'[p] = [NoJob EXCEPT !.op = "scan", !.node = n, !.for = gen, !.conf = cfg,
                              !.hook = "install", !.after = "scanned"]
  BY <1>0, <1>2
<1>5. /\ job'[p].op = "scan" /\ job'[p].node = n /\ job'[p].for = gen
      /\ job'[p].conf = cfg /\ job'[p].hook = "install" /\ job'[p].after = "scanned"
  BY <1>0, <1>4 DEF Job
<1> QED
  BY <1>0, <1>1, <1>2, <1>3, <1>5 DEF BeginScan, Goto

LEMMA FinishMove ==
  ASSUME TypeOK, NEW p \in Procs, Finish(p)
  PROVE  pc'[p] = "idle" /\ job'[p] = NoJob
BY DEF TypeOK, Finish, Goto

(* The task goes on after its hook, or ends.                               *)
GoesOn(p) ==
  /\ Kept(p) /\ job[p].after # "idle" /\ pc'[p] = job[p].after
  /\ job'[p].after = job[p].after /\ job'[p].hook = "none" /\ glock' = glock
  /\ job'[p].conf.alive = job[p].conf.alive /\ job'[p].conf.node = job[p].conf.node
  /\ job'[p].conf.locked = job[p].conf.locked /\ job'[p].conf.snaps = job[p].conf.snaps
  /\ job'[p].conf.block \in {job[p].conf.block, Absent}

Ends(p) == pc'[p] = "idle" /\ job'[p] = NoJob /\ GuestUnlock(p)

LEMMA ResumeMove ==
  ASSUME TypeOK, NEW p \in Procs, NEW l, Resume(p, l), l # "idle" => l = job[p].after
  PROVE  (l = "idle" /\ Ends(p)) \/ (l # "idle" /\ GoesOn(p) /\ job'[p].conf = job[p].conf)
<1>1. CASE l = "idle"
  BY <1>1, FinishMove DEF Resume, Ends
<1>2. CASE l # "idle"
  <2>0. job \in [Procs -> Job] /\ pc \in [Procs -> Labels] /\ job[p] \in Job
    BY DEF TypeOK
  <2>1. /\ Kept(p) /\ job'[p].after = job[p].after /\ job'[p].hook = "none"
        /\ job'[p].conf = job[p].conf
    BY <1>2, <2>0 DEF Resume, Kept, Job
  <2>2. pc'[p] = l /\ glock' = glock
    BY <1>2, <2>0 DEF Resume, Goto
  <2> QED
    BY <1>2, <2>1, <2>2 DEF GoesOn
<1> QED
  BY <1>1, <1>2

LEMMA MissMove ==
  ASSUME TypeOK, NEW p \in Procs, HookMiss(p)
  PROVE  /\ pc[p] = "hookwait"
         /\ \/ (job[p].hook = "install" \/ job[p].after = "idle") /\ Ends(p)
            \/ job[p].hook # "install" /\ GoesOn(p) /\ job'[p].conf = job[p].conf
         /\ missed' = (missed \/ job[p].hook \in {"purge", "destroy", "import"})
         /\ UNCHANGED <<storeVars, lock, guestVars>>
<1>1. Resume(p, IF job[p].hook = "install" THEN "idle" ELSE job[p].after)
  BY DEF HookMiss
<1>2. CASE job[p].hook = "install" \/ job[p].after = "idle"
  BY <1>1, <1>2, ResumeMove DEF HookMiss
<1>3. CASE job[p].hook # "install" /\ job[p].after # "idle"
  BY <1>1, <1>3, ResumeMove DEF HookMiss
<1> QED
  BY <1>2, <1>3

LEMMA ImportFailsMove ==
  ASSUME TypeOK, NEW p \in Procs, Trail(p), HookImportFails(p)
  PROVE  /\ pc[p] = "hook" /\ lock' = NoProc
         /\ \/ job[p].hook = "install" /\ Ends(p)
            \/ job[p].hook = "import" /\ GoesOn(p) /\ job'[p].conf = job[p].conf
         /\ missed' = (missed \/ job[p].hook = "import")
         /\ UNCHANGED <<storeVars, guestVars>>
<1>1. /\ Resume(p, IF job[p].hook = "install" THEN "idle" ELSE "file")
      /\ pc[p] = "hook" /\ job[p].hook \in {"import", "install"}
  BY DEF HookImportFails
<1>2. CASE job[p].hook = "install"
  BY <1>1, <1>2, ResumeMove DEF HookImportFails
<1>3. CASE job[p].hook = "import"
  <2>1. job[p].after = "file"
    BY <1>1, <1>3 DEF Trail, InHook
  <2> QED
    BY <1>1, <1>3, <2>1, ResumeMove DEF HookImportFails
<1> QED
  BY <1>1, <1>2, <1>3

LEMMA SweepMove ==
  ASSUME TypeOK, NEW p \in Procs, HookSweep(p)
  PROVE  /\ pc[p] = "hooksweep" /\ copies' = NoCopies /\ doc' = doc
         /\ created' = IF job[p].hook = "destroy" THEN created \ {job[p].node} ELSE created
         /\ lock' = NoProc /\ missed' = FALSE
         /\ \/ job[p].after = "idle" /\ Ends(p)
            \/ /\ GoesOn(p)
               /\ job[p].hook = "import" => job'[p].conf.block = Absent
         /\ UNCHANGED <<cfg, gen, existing>>
<1>1. CASE job[p].after = "idle"
  BY <1>1, FinishMove DEF HookSweep, Ends, DeleteSnapshots
<1>2. CASE job[p].after # "idle"
  <2>0. job \in [Procs -> Job] /\ pc \in [Procs -> Labels] /\ job[p] \in Job /\ job[p].conf \in Conf
    BY DEF TypeOK, Job
  <2>b. job[p].conf.block \in File /\ Absent \in File
    BY <2>0, FileTypes DEF Conf
  <2>3. PICK b \in File :
          /\ job' = [job EXCEPT ![p].hook = "none", ![p].conf.block = b]
          /\ b \in {job[p].conf.block, Absent} /\ (job[p].hook = "import" => b = Absent)
    BY <1>2, <2>0, <2>b DEF HookSweep
  <2> DEFINE c == [job[p].conf EXCEPT !.block = b]
  <2>1. job' = [job EXCEPT ![p] = [job[p] EXCEPT !.hook = "none", !.conf = c]]
    BY <2>3
  <2>2. /\ c.alive = job[p].conf.alive /\ c.node = job[p].conf.node
        /\ c.locked = job[p].conf.locked /\ c.block = b /\ c.snaps = job[p].conf.snaps
    BY <2>0 DEF Conf
  <2> HIDE DEF c
  <2>4. Kept(p) /\ job'[p].after = job[p].after /\ job'[p].hook = "none" /\ job'[p].conf = c
    BY <2>0, <2>1 DEF Kept, Job
  <2>5. pc'[p] = job[p].after /\ glock' = glock
    BY <1>2, <2>0 DEF HookSweep, Goto
  <2>6. GoesOn(p) /\ (job[p].hook = "import" => job'[p].conf.block = Absent)
    BY <1>2, <2>2, <2>3, <2>4, <2>5 DEF GoesOn
  <2>7. /\ pc[p] = "hooksweep" /\ copies' = NoCopies /\ doc' = doc
        /\ created' = IF job[p].hook = "destroy" THEN created \ {job[p].node} ELSE created
        /\ lock' = NoProc /\ missed' = FALSE /\ UNCHANGED <<cfg, gen, existing>>
    BY DEF HookSweep, DeleteSnapshots
  <2> QED
    BY <2>6, <2>7
<1> QED
  BY <1>1, <1>2

LEMMA InstallMove ==
  ASSUME TypeOK, NEW p \in Procs, Trail(p), HookInstall(p)
  PROVE  /\ pc[p] = "hook" /\ job[p].hook = "install" /\ GoesOn(p) /\ pc'[p] = "scanned"
         /\ lock' = NoProc /\ copies' = copies /\ job'[p].conf.block = Absent
         /\ doc' = doc \/ doc' = Text(job[p].conf.block.keys, job[p].for)
         /\ UNCHANGED <<guestVars, ghostVars>>
<1>0. job \in [Procs -> Job] /\ pc \in [Procs -> Labels] /\ job[p] \in Job /\ job[p].conf \in Conf
  BY DEF TypeOK, Job
<1>a. job[p].after = "scanned"
  BY DEF HookInstall, Trail, InHook
<1> DEFINE c == [job[p].conf EXCEPT !.block = Absent]
<1>1. job' = [job EXCEPT ![p] = [job[p] EXCEPT !.hook = "none", !.conf = c]]
  BY DEF HookInstall
<1>2. /\ c.alive = job[p].conf.alive /\ c.node = job[p].conf.node
      /\ c.locked = job[p].conf.locked /\ c.block = Absent /\ c.snaps = job[p].conf.snaps
  BY <1>0 DEF Conf
<1> HIDE DEF c
<1>3. Kept(p) /\ job'[p].after = job[p].after /\ job'[p].hook = "none" /\ job'[p].conf = c
  BY <1>0, <1>1 DEF Kept, Job
<1>4. pc'[p] = "scanned" /\ glock' = glock
  BY <1>0 DEF HookInstall, Goto, Unlock
<1>5. GoesOn(p)
  BY <1>a, <1>2, <1>3, <1>4 DEF GoesOn
<1>6. copies' = copies /\ (doc' = doc \/ doc' = Text(job[p].conf.block.keys, job[p].for))
  BY DEF HookInstall, PutRaw, MatchesDigest, storeVars
<1> QED
  BY <1>2, <1>3, <1>4, <1>5, <1>6 DEF HookInstall, Unlock

(* A hook that takes the lock or changes the document keeps its job.       *)
LEMMA QuietHook ==
  ASSUME TypeOK, NEW p \in Procs, HookAcquire(p) \/ HookPurge(p) \/ HookImport(p)
  PROVE  /\ pc[p] \in InHook /\ pc'[p] \in InHook /\ job'[p] = job[p]
         /\ pc'[p] = "hooksweep" => job[p].hook \in {"purge", "destroy", "import"}
         /\ copies' = copies
         /\ UNCHANGED <<glock, guestVars, ghostVars>>
BY DEF TypeOK, InHook, HookAcquire, HookPurge, HookImport, Goto, Delete, PutRaw, storeVars,
       lockVars

(* A request or `rm' leaves the guest alone, but for the marker.           *)
LEMMA ApiMove ==
  ASSUME TypeOK, NEW p \in Procs, Api(p)
  PROVE  /\ Away(p) /\ pc'[p] \in {"idle", "want", "check", "read", "write", "purge", "sweep"}
         /\ created' \subseteq created
         /\ UNCHANGED <<glock, cfg, gen, existing>>
<1> USE DEF TypeOK, Away, Goto, Finish, Unlock, lockVars, guestVars
<1>1. CASE Request(p) \/ Remove(p) \/ Acquire(p) \/ LockTimeout(p)
  BY <1>1 DEF Request, Remove, Acquire, LockTimeout, Start
<1>2. CASE CheckGuest(p) \/ Refuse(p) \/ ReadDocument(p)
  BY <1>2 DEF CheckGuest, Refuse, ReadDocument
<1>3. CASE WriteDocument(p) \/ PurgeDocument(p) \/ PurgeCopies(p)
  BY <1>3 DEF WriteDocument, PurgeDocument, PurgeCopies
<1> QED
  BY <1>1, <1>2, <1>3 DEF Api

-----------------------------------------------------------------------------
(* Ownership.                                                              *)

(* A step leaves the guest locks of others with them.                      *)
LEMMA OthersLocks ==
  ASSUME LocalScans, TypeOK, Flow, NEW p \in Procs, Trail(p), Acts(p),
         NEW q \in Procs \ {p}, NEW n \in Nodes, glock[n] = q
  PROVE  glock'[n] = q
<1>0. q # NoProc /\ glock \in [Nodes -> Procs \cup {NoProc}]
  BY ProcsAssumption DEF TypeOK
<1>1. ASSUME GuestUnlock(p) PROVE glock'[n] = q
  BY <1>1 DEF GuestUnlock
<1>2. ASSUME NEW m \in Nodes, glock[m] = NoProc, glock' = [glock EXCEPT ![m] = p]
      PROVE  glock'[n] = q
  BY <1>0, <1>2
<1>3. CASE Api(p)
  BY <1>3, ApiMove
<1>4. CASE Task(p)
  <2>1. CASE \/ BeginSet(p) \/ BeginCreate(p) \/ BeginDestroy(p)
             \/ BeginSnapshot(p) \/ BeginRollback(p) \/ BeginDelsnap(p)
    BY <1>2, <2>1, BeginMove DEF Begins
  <2>2. CASE BeginScan(p)
    <3>1. cfg.node \in Nodes
      BY DEF TypeOK, Conf
    <3> QED
      BY <1>2, <2>2, <3>1, ScanMove
  <2>3. CASE WriteConfig(p)
    BY <2>3 DEF WriteConfig, lockVars
  <2>4. CASE WriteConfigFile(p)
    BY <1>1, <2>4 DEF WriteConfigFile
  <2>5. CASE CreateConflict(p) \/ WriteScanned(p)
    BY <1>1, <2>5 DEF CreateConflict, WriteScanned
  <2>6. CASE MarkCreated(p) \/ Unlink(p)
    BY <2>6 DEF MarkCreated, Unlink, lockVars
  <2>7. CASE BuildWrite(p) \/ AbortCreate(p)
    <3>1. job[p].node \in Nodes
      BY DEF TypeOK, Job
    <3> QED
      BY <1>2, <2>7, <3>1, BuildMove, AbortMove
  <2> QED
    BY <1>4, <2>1, <2>2, <2>3, <2>4, <2>5, <2>6, <2>7 DEF Task
<1>5. CASE Hook(p)
  <2>1. CASE HookAcquire(p) \/ HookPurge(p) \/ HookImport(p)
    BY <2>1, QuietHook
  <2>2. CASE HookMiss(p)
    BY <1>1, <2>2, MissMove DEF GoesOn, Ends
  <2>3. CASE HookImportFails(p)
    BY <1>1, <2>3, ImportFailsMove DEF GoesOn, Ends
  <2>4. CASE HookSweep(p)
    BY <1>1, <2>4, SweepMove DEF GoesOn, Ends
  <2>5. CASE HookInstall(p)
    BY <2>5, InstallMove DEF GoesOn
  <2>6. CASE HookTrio(p)
    BY <2>6 DEF HookTrio, Unlock
  <2> QED
    BY <1>5, <2>1, <2>2, <2>3, <2>4, <2>5, <2>6 DEF Hook
<1>6. CASE Die(p)
  BY <1>1, <1>6 DEF Die
<1> QED
  BY <1>3, <1>4, <1>5, <1>6 DEF Acts

(* Three steps change the configuration, the first of a create also the    *)
(* incarnation.                                                            *)
LEMMA ConfigSteps ==
  ASSUME TypeOK, NEW p \in Procs, Acts(p)
  PROVE  (cfg' = cfg /\ gen' = gen) \/ WriteConfigFile(p) \/ Unlink(p) \/ WriteScanned(p)
<1> USE DEF guestVars
<1>1. CASE Api(p)
  BY <1>1, ApiMove
<1>2. CASE Task(p)
  <2>1. CASE \/ BeginSet(p) \/ BeginCreate(p) \/ BeginDestroy(p)
             \/ BeginSnapshot(p) \/ BeginRollback(p) \/ BeginDelsnap(p)
    BY <2>1, BeginMove DEF Begins
  <2>2. CASE BeginScan(p) \/ WriteConfig(p) \/ CreateConflict(p) \/ MarkCreated(p)
    BY <2>2 DEF BeginScan, WriteConfig, CreateConflict, MarkCreated
  <2>3. CASE BuildWrite(p) \/ AbortCreate(p)
    BY <2>3 DEF BuildWrite, AbortCreate
  <2> QED
    BY <1>2, <2>1, <2>2, <2>3 DEF Task
<1>3. CASE Hook(p)
  BY <1>3 DEF Hook, HookAcquire, HookMiss, HookPurge, HookImport, HookImportFails, HookSweep,
              HookInstall, HookTrio
<1>4. CASE Die(p)
  BY <1>4 DEF Die
<1> QED
  BY <1>1, <1>2, <1>3, <1>4 DEF Acts

(* A process that writes, builds, or sets out to create over a guest of    *)
(* its node holds the guest where it is.                                   *)
Pins(q) ==
  \/ Writing(q) /\ ~First(q)
  \/ Building(q)
  \/ First(q) /\ cfg.alive /\ cfg.node = job[q].node

LEMMA Pinned ==
  ASSUME TypeOK, Flow, Ownership, NEW p \in Procs, Acts(p), NEW q \in Procs \ {p}, Pins(q)
  PROVE  /\ cfg.alive /\ cfg.node = job[q].node /\ cfg'.alive /\ cfg'.node = cfg.node
         /\ cfg'.locked = cfg.locked /\ gen' = gen
<1>0. Mine(p) /\ Mine(q) /\ Apart(p, q)
  BY DEF Ownership
<1>1. cfg.alive /\ cfg.node = job[q].node
  BY <1>0 DEF Mine, Pins
<1>2. CASE cfg' = cfg /\ gen' = gen
  BY <1>1, <1>2
<1>3. Writing(p) /\ cfg.node = job[p].node => ~Writing(q)
  <2> SUFFICES ASSUME Writing(p), cfg.node = job[p].node, Writing(q) PROVE FALSE
    OBVIOUS
  <2>1. glock[job[p].node] = p /\ glock[job[q].node] = q
    BY <1>0 DEF Mine
  <2> QED
    BY <1>1, <2>1
<1>4. ASSUME Building(q), Writing(p)
      PROVE  job[p].op = "scan" \/ (First(p) /\ job[p].node # job[q].node)
  BY <1>0, <1>4 DEF Apart
<1>5. CASE Unlink(p)
  <2>1. pc[p] = "unlink"
    BY <1>5 DEF Unlink
  <2>2. Writing(p) /\ ~First(p) /\ job[p].op = "destroy"
    BY <1>0, <2>1 DEF Writing, First, Config, InHook, Mine, Trail
  <2>3. cfg.node = job[p].node
    BY <1>0, <2>2 DEF Mine
  <2> QED
    BY <1>3, <1>4, <2>2, <2>3 DEF Pins, First, Writing
<1>6. CASE WriteScanned(p)
  <2>1. pc[p] = "scanned" /\ cfg' = job[p].conf /\ gen' = gen
    BY <1>6 DEF WriteScanned
  <2>2. Scanning(p) /\ Writing(p) /\ ~First(p)
    BY <2>1 DEF Scanning, Writing, First, Config, InHook
  <2>3. cfg.node = job[p].node /\ Scans(p)
    BY <1>0, <2>2 DEF Mine
  <2> QED
    BY <1>1, <2>1, <2>3 DEF Scans
<1>7. CASE WriteConfigFile(p)
  <2>1. pc[p] = "file" /\ ~TakenElsewhere(job[p])
    BY <1>7 DEF WriteConfigFile
  <2>2. Config(p) /\ Writing(p)
    BY <2>1 DEF Writing, Config
  <2>3. job[p].op # "scan"
    BY <1>0, <2>2 DEF Mine, Trail
  <2>4. cfg.node = job[p].node
    <3>1. CASE First(p)
      BY <1>1, <2>1, <3>1 DEF First, TakenElsewhere
    <3>2. CASE ~First(p)
      BY <1>0, <2>2, <3>2 DEF Mine
    <3> QED
      BY <3>1, <3>2
  <2> QED
    BY <1>1, <1>3, <1>4, <2>2, <2>3, <2>4 DEF Pins, First, Writing
<1> QED
  BY <1>2, <1>5, <1>6, <1>7, ConfigSteps

(* What another process relies on stays.                                   *)
LEMMA OthersMine ==
  ASSUME LocalScans, TypeOK, Flow, Ownership, NEW p \in Procs, Acts(p), NEW q \in Procs \ {p}
  PROVE  Mine(q)'
<1>0. Mine(p) /\ Mine(q) /\ pc'[q] = pc[q] /\ job'[q] = job[q] /\ job[q].node \in Nodes
  BY StepShape DEF Ownership, TypeOK, Job
<1> USE DEF InHook
<1>1. /\ Config(q)' = Config(q) /\ First(q)' = First(q) /\ Building(q)' = Building(q)
      /\ Scanning(q)' = Scanning(q) /\ Destroying(q)' = Destroying(q)
      /\ Writing(q)' = Writing(q)
  BY <1>0 DEF Config, First, Building, Scanning, Destroying, Writing
<1>2. Trail(q)'
  BY <1>0, <1>1 DEF Mine, Trail
<1>3. (Writing(q) \/ Destroying(q)) => glock'[job[q].node] = q
  BY <1>0, OthersLocks DEF Mine
<1>4. Pins(q) => /\ cfg'.alive /\ cfg'.node = job[q].node /\ cfg'.locked = cfg.locked
                 /\ gen' = gen
  BY Pinned
<1>5. Config(q) => Conforms(q)'
  <2> SUFFICES ASSUME Config(q) PROVE Conforms(q)'
    OBVIOUS
  <2>1. First(q) /\ job[q].conf.block.there => Pins(q)
    BY <1>0 DEF Mine, Conforms, Pins
  <2> QED
    BY <1>0, <1>1, <1>4, <2>1 DEF Mine, Conforms
<1>6. Scanning(q) => Scans(q)'
  <2> SUFFICES ASSUME Scanning(q) PROVE Scans(q)'
    OBVIOUS
  <2>1. Pins(q)
    BY <1>0 DEF Pins, Writing, First, Config, Scanning, Mine, Trail
  <2> QED
    BY <1>0, <1>4, <2>1 DEF Mine, Scans
<1>7. /\ (Writing(q) /\ ~First(q)) \/ Building(q) => cfg'.alive /\ cfg'.node = job[q].node
      /\ Building(q) => cfg'.locked
  BY <1>0, <1>4 DEF Pins, Mine
<1> QED
  BY <1>0, <1>1, <1>2, <1>3, <1>5, <1>6, <1>7 DEF Mine

(* A step that starts neither to build nor to write.                       *)
Tame(p) ==
  /\ Building(p)' => Building(p) /\ job'[p].node = job[p].node
  /\ Writing(p)' => /\ Writing(p) /\ job'[p].op = job[p].op /\ job'[p].node = job[p].node
                    /\ First(p) => First(p)'

LEMMA TameApart ==
  ASSUME Ownership, NEW p \in Procs, NEW q \in Procs \ {p}, Tame(p),
         pc'[q] = pc[q], job'[q] = job[q]
  PROVE  Apart(p, q)' /\ Apart(q, p)'
<1>1. Apart(p, q) /\ Apart(q, p)
  BY DEF Ownership
<1>2. Building(q)' = Building(q) /\ Writing(q)' = Writing(q) /\ First(q)' = First(q)
  BY DEF Building, Writing, First, Config, Scanning, InHook
<1> QED
  BY <1>1, <1>2 DEF Apart, Tame

(* A step that ends a task, or is part of none.                            *)
LEMMA AwayStep ==
  ASSUME NEW p \in Procs,
         pc'[p] \in {"idle", "want", "check", "read", "write", "purge", "sweep"}
  PROVE  Mine(p)' /\ Tame(p)
<1>1. ~Config(p)' /\ ~Scanning(p)' /\ ~Building(p)' /\ ~Destroying(p)' /\ ~First(p)'
      /\ ~Writing(p)' /\ pc'[p] \notin InHook /\ pc'[p] \notin {"unlink", "file", "hooksweep"}
  BY DEF Config, Scanning, Building, Destroying, First, Writing, InHook
<1> QED
  BY <1>1 DEF Mine, Trail, Tame

(* A step inside a hook, or from it to the rest of the task.               *)
LEMMA HookStep ==
  ASSUME Flow, Ownership, NEW p \in Procs, pc[p] \in InHook, glock' = glock, cfg' = cfg, gen' = gen,
         \/ GoesOn(p)
         \/ /\ job'[p] = job[p] /\ pc'[p] \in InHook
            /\ pc'[p] = "hooksweep" => job[p].hook \in {"purge", "destroy", "import"}
  PROVE  Mine(p)' /\ Tame(p)
<1>0. Mine(p) /\ Trail(p)
  BY DEF Ownership, Mine
<1>1. CASE GoesOn(p)
  <2>0. /\ job'[p].op = job[p].op /\ job'[p].node = job[p].node /\ job'[p].next = job[p].next
        /\ job'[p].for = job[p].for
        /\ pc'[p] = job[p].after /\ job'[p].after = job[p].after /\ job[p].after # "idle"
        /\ job'[p].conf.alive = job[p].conf.alive /\ job'[p].conf.node = job[p].conf.node
        /\ job'[p].conf.locked = job[p].conf.locked
        /\ job'[p].conf.block.there => job[p].conf.block.there
    BY <1>1, NoJobFields DEF GoesOn, Kept
  <2>1. job[p].after \in {"file", "mark", "scanned"}
    BY <1>0, <2>0 DEF Trail
  <2>2. /\ Config(p)' = Config(p) /\ First(p)' = First(p) /\ Building(p)' = Building(p)
        /\ Scanning(p)' = Scanning(p) /\ Writing(p)' = Writing(p) /\ ~Destroying(p)'
        /\ pc'[p] \notin InHook /\ pc'[p] # "unlink"
    BY <2>0, <2>1 DEF Config, First, Building, Scanning, Writing, Destroying, InHook
  <2>3. Trail(p)'
    BY <1>0, <2>0, <2>1, <2>2 DEF Trail, InHook
  <2>4. Conforms(p) => Conforms(p)'
    BY <2>0, <2>2 DEF Conforms
  <2>5. Scans(p) => Scans(p)'
    BY <2>0 DEF Scans
  <2>6. Mine(p)'
    BY <1>0, <2>0, <2>2, <2>3, <2>4, <2>5 DEF Mine
  <2> QED
    BY <2>0, <2>2, <2>6 DEF Tame
<1>2. CASE /\ job'[p] = job[p] /\ pc'[p] \in InHook
           /\ pc'[p] = "hooksweep" => job[p].hook \in {"purge", "destroy", "import"}
  <2>2. /\ Config(p)' = Config(p) /\ First(p)' = First(p) /\ Building(p)' = Building(p)
        /\ Scanning(p)' = Scanning(p) /\ Writing(p)' = Writing(p)
        /\ Destroying(p)' = Destroying(p) /\ pc'[p] # "unlink" /\ pc'[p] # "file"
    BY <1>2 DEF Config, First, Building, Scanning, Writing, Destroying, InHook
  <2>3. Trail(p)'
    BY <1>0, <1>2, <2>2 DEF Trail, InHook
  <2>4. Conforms(p)' = Conforms(p) /\ Scans(p)' = Scans(p)
    BY <1>2, <2>2 DEF Conforms, Scans
  <2>5. Mine(p)'
    BY <1>0, <1>2, <2>2, <2>3, <2>4 DEF Mine
  <2> QED
    BY <1>2, <2>2, <2>5 DEF Tame
<1> QED
  BY <1>1, <1>2

LEMMA BeginStep ==
  ASSUME TypeOK, Flow, Ownership, NEW p \in Procs, NEW n \in Nodes, Begins(p, n)
  PROVE  /\ Mine(p)' /\ ~Building(p)'
         /\ \A q \in Procs : ~Building(q)
<1>0. glock' = [glock EXCEPT ![n] = p] /\ glock \in [Nodes -> Procs \cup {NoProc}]
      /\ cfg' = cfg /\ gen' = gen /\ job'[p].node = n
  BY DEF Begins, TypeOK, guestVars
<1>1. glock'[job'[p].node] = p
  BY <1>0
<1>2. ASSUME NEW q \in Procs, Building(q)
      PROVE  cfg.alive /\ cfg.locked /\ q \in Running(Tasks)
  <2>1. cfg.alive /\ cfg.locked
    BY <1>2 DEF Ownership, Mine
  <2>2. job[q].op = "create" /\ pc[q] # "idle"
    BY <1>2 DEF Building, Config, InHook, Flow, FlowOf
  <2> QED
    BY <2>1, <2>2 DEF Running, Tasks
<1>3. \A q \in Procs : ~Building(q)
  BY <1>2 DEF Begins, Editable
<1>4. CASE pc'[p] = "unlink"
  <2>1. cfg.alive /\ cfg.node = n /\ job'[p].op = "destroy"
    BY <1>4 DEF Begins, Editable
  <2>2. ~Config(p)' /\ ~Scanning(p)' /\ ~Building(p)' /\ ~Destroying(p)' /\ ~First(p)'
        /\ pc'[p] \notin InHook
    BY <1>4 DEF Config, Scanning, Building, Destroying, First, InHook
  <2>3. Trail(p)'
    BY <1>4, <2>1, <2>2 DEF Trail, InHook
  <2>4. Mine(p)'
    BY <1>0, <1>1, <2>1, <2>2, <2>3 DEF Mine
  <2> QED
    BY <1>3, <2>2, <2>4
<1>5. CASE pc'[p] = "config"
  <2>1. Config(p)' /\ ~Scanning(p)' /\ ~Destroying(p)' /\ pc'[p] \notin InHook
    BY <1>5 DEF Config, Scanning, Destroying, InHook
  <2>2. /\ job'[p].op \in {"set", "create", "snapshot", "rollback", "delsnap"}
        /\ job'[p].op = "create" <=> job'[p].next = "mark"
        /\ job'[p].conf.alive /\ job'[p].conf.node = n
        /\ job'[p].op = "create" => job'[p].conf.locked
        /\ job'[p].op # "create" => cfg.alive /\ cfg.node = n
        /\ job'[p].op = "create" /\ job'[p].conf.block.there => cfg.alive /\ cfg.node = n
    BY <1>5 DEF Begins, Editable
  <2>3. First(p)' = (job'[p].op = "create") /\ ~Building(p)'
    BY <1>5, <2>1, <2>2 DEF First, Building, InHook
  <2>4. Trail(p)'
    BY <1>5, <2>1, <2>2 DEF Trail, InHook
  <2>5. Conforms(p)'
    BY <1>0, <2>2, <2>3 DEF Conforms
  <2>6. Mine(p)'
    BY <1>0, <1>1, <2>1, <2>2, <2>3, <2>4, <2>5 DEF Mine
  <2> QED
    BY <1>3, <2>3, <2>6
<1> QED
  BY <1>4, <1>5 DEF Begins

(* What the process that moves relies on.                                  *)
LEMMA OwnStep ==
  ASSUME LocalScans, TypeOK, Flow, Ownership, NEW p \in Procs, Acts(p)
  PROVE  Mine(p)' /\ \A q \in Procs \ {p} : Apart(p, q)' /\ Apart(q, p)'
<1>0. /\ Mine(p) /\ Trail(p) /\ glock \in [Nodes -> Procs \cup {NoProc}]
      /\ job[p].node \in Nodes /\ cfg \in Conf /\ cfg.node \in Nodes
      /\ job[p].next \in AfterWrite
  BY DEF Ownership, Mine, TypeOK, Job, Conf
<1>1. \A q \in Procs \ {p} :
        /\ pc'[q] = pc[q] /\ job'[q] = job[q]
        /\ Building(q)' = Building(q) /\ Writing(q)' = Writing(q) /\ First(q)' = First(q)
  <2>1. \A q \in Procs \ {p} : pc'[q] = pc[q] /\ job'[q] = job[q]
    BY StepShape
  <2> QED
    BY <2>1 DEF Building, Writing, First, Config, Scanning, InHook
<1>t. ASSUME Tame(p) PROVE \A q \in Procs \ {p} : Apart(p, q)' /\ Apart(q, p)'
  BY <1>1, <1>t, TameApart
<1>a. ASSUME pc'[p] \in {"idle", "want", "check", "read", "write", "purge", "sweep"}
      PROVE  Mine(p)' /\ \A q \in Procs \ {p} : Apart(p, q)' /\ Apart(q, p)'
  BY <1>a, <1>t, AwayStep
<1>b. ASSUME Building(p), ~Building(p)' \/ job'[p].node = job[p].node
      PROVE  \A q \in Procs \ {p} : Apart(p, q)' /\ Apart(q, p)'
  <2> SUFFICES ASSUME NEW q \in Procs \ {p} PROVE Apart(p, q)' /\ Apart(q, p)'
    OBVIOUS
  <2>1. Apart(p, q) /\ Apart(q, p)
    BY DEF Ownership
  <2> QED
    BY <1>1, <1>b, <2>1 DEF Apart
<1>3. CASE Api(p)
  BY <1>3, <1>a, ApiMove
<1>4. CASE \/ BeginSet(p) \/ BeginCreate(p) \/ BeginDestroy(p)
           \/ BeginSnapshot(p) \/ BeginRollback(p) \/ BeginDelsnap(p)
  <2>1. Mine(p)' /\ ~Building(p)' /\ \A q \in Procs : ~Building(q)
    BY <1>4, BeginMove, BeginStep
  <2> QED
    BY <1>1, <2>1 DEF Apart
<1>5. CASE BeginScan(p)
  <2>1. /\ pc'[p] = "hookwait" /\ cfg.alive /\ cfg' = cfg /\ gen' = gen
        /\ job'[p].op = "scan" /\ job'[p].node = cfg.node /\ job'[p].for = gen
        /\ job'[p].conf = cfg /\ job'[p].hook = "install" /\ job'[p].after = "scanned"
        /\ glock' = [glock EXCEPT ![cfg.node] = p]
    BY <1>5, ScanMove DEF guestVars
  <2>2. /\ Scanning(p)' /\ ~Config(p)' /\ ~First(p)' /\ ~Building(p)' /\ ~Destroying(p)'
        /\ pc'[p] \notin {"unlink", "file", "hooksweep"}
    BY <2>1 DEF Scanning, Config, First, Building, Destroying, InHook
  <2>3. Trail(p)'
    BY <2>1, <2>2 DEF Trail
  <2>4. glock'[job'[p].node] = p
    BY <1>0, <2>1
  <2>5. Mine(p)'
    BY <2>1, <2>2, <2>3, <2>4 DEF Mine, Scans
  <2> QED
    BY <2>1, <2>2, <2>5 DEF Apart
<1>6. CASE WriteConfig(p)
  <2>1. /\ pc[p] = "config" /\ Kept(p) /\ job'[p].conf = job[p].conf /\ job'[p].after = "file"
        /\ \/ pc'[p] = "file"
           \/ pc'[p] = "hookwait" /\ job'[p].hook \in {"import", "purge"}
    BY <1>6, ConfigMove
  <2>2. glock' = glock /\ cfg' = cfg /\ gen' = gen
    BY <1>6 DEF WriteConfig, lockVars
  <2>3. /\ Config(p) /\ Config(p)' /\ ~Scanning(p)' /\ ~Destroying(p)' /\ pc'[p] # "unlink"
        /\ Writing(p) /\ Writing(p)' /\ pc'[p] # "hooksweep"
        /\ First(p)' = First(p) /\ Building(p)' = Building(p)
    BY <2>1 DEF Config, Scanning, Destroying, Writing, First, Building, InHook, Kept
  <2>4. Trail(p)'
    BY <1>0, <2>1, <2>3 DEF Trail, InHook, Kept
  <2>5. Conforms(p)'
    BY <1>0, <2>1, <2>2, <2>3 DEF Mine, Conforms, Kept
  <2>6. Mine(p)'
    BY <1>0, <2>1, <2>2, <2>3, <2>4, <2>5 DEF Mine, Kept
  <2> QED
    BY <1>t, <2>1, <2>3, <2>6 DEF Tame, Kept
<1>7. CASE WriteConfigFile(p)
  <2>0. /\ pc[p] = "file" /\ ~TakenElsewhere(job[p]) /\ cfg' = job[p].conf
    BY <1>7 DEF WriteConfigFile
  <2>1. Config(p) /\ Writing(p) /\ Conforms(p) /\ job[p].op # "scan"
        /\ glock[job[p].node] = p
    BY <1>0, <2>0 DEF Config, Writing, Mine, Trail
  <2>2. CASE job[p].next = "idle"
    <3>1. pc'[p] = "idle"
      BY <1>7, <2>2, FinishMove DEF WriteConfigFile
    <3> QED
      BY <1>a, <3>1
  <2>3. CASE job[p].next # "idle"
    <3>1. /\ Kept(p)
          /\ \/ /\ job[p].next = "mark" /\ pc'[p] = "hookwait" /\ job'[p].hook = "purge"
                /\ job'[p].after = "mark"
             \/ job[p].next = "mark" /\ pc'[p] = "mark"
             \/ job[p].next \in {"build", "built"} /\ pc'[p] = job[p].next
             \/ /\ job[p].next = "hookwait" /\ pc'[p] = "hookwait" /\ job'[p].after = "idle"
                /\ job'[p].hook \in {"snapshot", "rollback", "delsnap"}
      BY <1>7, <2>3, FileMove
    <3>2. ~Config(p)' /\ ~First(p)' /\ ~Scanning(p)' /\ ~Destroying(p)' /\ ~Writing(p)'
          /\ pc'[p] \notin {"unlink", "file", "hooksweep"}
      BY <3>1 DEF Config, First, Scanning, Destroying, Writing, InHook
    <3>3. Building(p)' = (job[p].next # "hookwait")
      BY <3>1, <3>2 DEF Building, InHook
    <3>4. Building(p)' => job[p].op = "create"
      BY <3>1, <3>3 DEF Flow, FlowOf
    <3>5. Trail(p)'
      BY <3>1, <3>2 DEF Trail, InHook
    <3>6. Building(p)' => cfg'.alive /\ cfg'.node = job'[p].node /\ cfg'.locked
      BY <2>0, <2>1, <2>3, <3>1, <3>4 DEF Conforms, Kept
    <3>7. Mine(p)'
      BY <3>2, <3>5, <3>6 DEF Mine
    <3>8. CASE job[p].next # "mark"
      <4>1. Building(p)' => Building(p)
        BY <2>1, <3>4, <3>8 DEF Building
      <4> QED
        BY <1>t, <3>1, <3>2, <3>7, <4>1 DEF Tame, Kept
    <3>9. CASE job[p].next = "mark"
      <4>1. First(p)
        BY <2>1, <3>9 DEF First
      <4> SUFFICES ASSUME NEW q \in Procs \ {p} PROVE Apart(p, q)' /\ Apart(q, p)'
        BY <3>7
      <4>2. Mine(q) /\ Apart(p, q)
        BY DEF Ownership
      <4>3. cfg.alive => cfg.node = job[p].node
        BY <2>0, <3>9 DEF TakenElsewhere
      <4>4. ~Building(q)
        BY <2>1, <4>2, <4>3 DEF Apart, Mine
      <4>5. Writing(q) => job[q].node # job[p].node
        <5>1. Writing(q) => glock[job[q].node] = q
          BY <4>2 DEF Mine
        <5> QED
          BY <2>1, <5>1
      <4>6. Writing(q) => First(q)
        BY <4>2, <4>3, <4>5 DEF Mine
      <4> QED
        BY <1>1, <3>1, <4>4, <4>5, <4>6 DEF Apart, Kept
    <3> QED
      BY <3>8, <3>9
  <2> QED
    BY <2>2, <2>3
<1>8. CASE CreateConflict(p) \/ WriteScanned(p)
  <2>1. pc'[p] = "idle"
    BY <1>8, FinishMove DEF CreateConflict, WriteScanned
  <2> QED
    BY <1>a, <2>1
<1>9. CASE MarkCreated(p)
  <2>1. /\ pc[p] = "mark" /\ pc'[p] = "build" /\ job'[p] = job[p] /\ cfg' = cfg /\ gen' = gen
        /\ glock' = glock
    BY <1>9 DEF MarkCreated, Goto, TypeOK, lockVars
  <2>2. /\ Building(p) /\ Building(p)' /\ ~Config(p)' /\ ~First(p)' /\ ~Scanning(p)'
        /\ ~Writing(p)' /\ ~Destroying(p)' /\ pc'[p] \notin InHook
        /\ pc'[p] \notin {"unlink", "file", "hooksweep"}
    BY <2>1 DEF Building, Config, First, Scanning, Writing, Destroying, InHook
  <2>3. Trail(p)'
    BY <2>2 DEF Trail
  <2>4. Mine(p)'
    BY <1>0, <2>1, <2>2, <2>3 DEF Mine
  <2> QED
    BY <1>t, <2>1, <2>2, <2>4 DEF Tame
<1>10. CASE BuildWrite(p)
  <2>1. /\ pc[p] \in {"build", "built"} /\ pc'[p] = "config"
        /\ job'[p].op = job[p].op /\ job'[p].node = job[p].node
        /\ job'[p].next \in {"build", "built", "idle"}
        /\ job'[p].conf.locked <=> job'[p].next # "idle"
        /\ \/ job'[p].conf.alive /\ job'[p].conf.node = job[p].node
           \/ job'[p].conf.alive = cfg.alive /\ job'[p].conf.node = cfg.node
        /\ glock' = [glock EXCEPT ![job[p].node] = p]
        /\ cfg' = cfg
    BY <1>10, BuildMove DEF guestVars
  <2>2. job[p].op = "create"
    BY <2>1 DEF Flow, FlowOf
  <2>3. /\ Building(p) /\ Building(p)' /\ Config(p)' /\ ~First(p)' /\ ~Scanning(p)'
        /\ ~Destroying(p)' /\ pc'[p] \notin InHook /\ pc'[p] \notin {"unlink", "file", "hooksweep"}
    BY <2>1, <2>2 DEF Building, Config, First, Scanning, Destroying, InHook
  <2>4. Trail(p)'
    BY <2>1, <2>2, <2>3 DEF Trail
  <2>5. cfg.alive /\ cfg.node = job[p].node /\ cfg.locked
    BY <1>0, <2>3 DEF Mine
  <2>6. Conforms(p)'
    BY <2>1, <2>2, <2>3, <2>5 DEF Conforms
  <2>7. glock'[job'[p].node] = p
    BY <1>0, <2>1
  <2>8. Mine(p)'
    BY <2>1, <2>3, <2>4, <2>5, <2>6, <2>7 DEF Mine
  <2> QED
    BY <1>b, <2>1, <2>3, <2>8
<1>11. CASE AbortCreate(p)
  <2>1. /\ pc[p] \in {"build", "built"} /\ pc'[p] = "unlink"
        /\ job'[p].op = "destroy" /\ job'[p].node = job[p].node
        /\ glock' = [glock EXCEPT ![job[p].node] = p] /\ cfg' = cfg
    BY <1>11, AbortMove DEF guestVars
  <2>2. /\ Building(p) /\ ~Building(p)' /\ ~Config(p)' /\ ~First(p)' /\ ~Scanning(p)'
        /\ ~Destroying(p)' /\ pc'[p] \notin InHook
    BY <2>1 DEF Building, Config, First, Scanning, Destroying, InHook
  <2>3. Trail(p)'
    BY <2>1, <2>2 DEF Trail, InHook
  <2>4. glock'[job'[p].node] = p
    BY <1>0, <2>1
  <2>5. Mine(p)'
    BY <1>0, <2>1, <2>2, <2>3, <2>4 DEF Mine
  <2> QED
    BY <1>b, <2>2, <2>5
<1>12. CASE Unlink(p)
  <2>1. /\ pc[p] = "unlink" /\ pc'[p] = "hookwait" /\ Kept(p)
        /\ job'[p].hook = "destroy" /\ job'[p].after = "idle" /\ glock' = glock
    BY <1>12, UnlinkMove DEF lockVars
  <2>2. /\ ~Building(p)' /\ ~Config(p)' /\ ~First(p)' /\ ~Scanning(p)' /\ ~Writing(p)'
        /\ pc'[p] \notin {"unlink", "file", "hooksweep"}
    BY <2>1 DEF Building, Config, First, Scanning, Writing, InHook
  <2>3. Writing(p) /\ job[p].op = "destroy"
    BY <1>0, <2>1 DEF Writing, Trail
  <2>4. Trail(p)'
    BY <2>1, <2>2, <2>3 DEF Trail, Kept
  <2>5. Mine(p)'
    BY <1>0, <2>1, <2>2, <2>3, <2>4 DEF Mine, Kept
  <2> QED
    BY <1>t, <2>2, <2>5 DEF Tame
<1>13. CASE Hook(p)
  <2>e. ASSUME Ends(p) PROVE Mine(p)' /\ \A q \in Procs \ {p} : Apart(p, q)' /\ Apart(q, p)'
    BY <1>a, <2>e DEF Ends
  <2>g. ASSUME GoesOn(p), pc[p] \in InHook, cfg' = cfg, gen' = gen
        PROVE  Mine(p)' /\ \A q \in Procs \ {p} : Apart(p, q)' /\ Apart(q, p)'
    <3>1. glock' = glock
      BY <2>g DEF GoesOn
    <3> QED
      BY <1>t, <2>g, <3>1, HookStep
  <2>1. CASE HookAcquire(p) \/ HookPurge(p) \/ HookImport(p)
    BY <1>t, <2>1, QuietHook, HookStep DEF guestVars
  <2>2. CASE HookMiss(p)
    BY <2>2, <2>e, <2>g, MissMove DEF guestVars, InHook
  <2>3. CASE HookImportFails(p)
    BY <1>0, <2>3, <2>e, <2>g, ImportFailsMove DEF guestVars, InHook
  <2>4. CASE HookSweep(p)
    BY <2>4, <2>e, <2>g, SweepMove DEF InHook
  <2>5. CASE HookInstall(p)
    BY <1>0, <2>5, <2>g, InstallMove DEF guestVars, InHook
  <2>6. CASE HookTrio(p)
    <3>1. pc'[p] = "idle"
      BY <2>6, FinishMove DEF HookTrio
    <3> QED
      BY <1>a, <3>1
  <2> QED
    BY <1>13, <2>1, <2>2, <2>3, <2>4, <2>5, <2>6 DEF Hook
<1>14. CASE Die(p)
  <2>1. pc'[p] = "idle"
    BY <1>14, FinishMove DEF Die
  <2> QED
    BY <1>a, <2>1
<1> QED
  BY <1>3, <1>4, <1>5, <1>6, <1>7, <1>8, <1>9, <1>10, <1>11, <1>12, <1>13, <1>14 DEF Acts, Task

LEMMA OwnershipStep ==
  LocalScans /\ TypeOK /\ Flow /\ Ownership /\ [Next]_vars => Ownership'
<1> SUFFICES ASSUME LocalScans, TypeOK, Flow, Ownership, [Next]_vars PROVE Ownership'
  OBVIOUS
<1>1. ASSUME pc' = pc, job' = job, glock' = glock, cfg' = cfg, gen' = gen
      PROVE  Ownership'
  <2> USE DEF InHook, Config, First, Building, Scanning, Destroying, Writing
  <2>1. \A p \in Procs : Mine(p)'
    BY <1>1 DEF Ownership, Mine, Trail, Conforms, Scans
  <2>2. \A p, q \in Procs : p # q => Apart(p, q)'
    BY <1>1 DEF Ownership, Apart
  <2> QED
    BY <2>1, <2>2 DEF Ownership
<1>2. CASE UNCHANGED vars
  BY <1>1, <1>2 DEF vars, lockVars, guestVars
<1>3. CASE Garble
  BY <1>1, <1>3 DEF Garble, lockVars, guestVars
<1>4. ASSUME NEW p \in Procs, Acts(p) PROVE Ownership'
  <2>1. \A q \in Procs : Mine(q)'
    BY <1>4, OwnStep, OthersMine
  <2>2. ASSUME NEW q \in Procs, NEW r \in Procs, q # r PROVE Apart(q, r)'
    <3>1. CASE q = p \/ r = p
      BY <1>4, <2>2, <3>1, OwnStep
    <3>2. CASE q # p /\ r # p
      <4>1. pc'[q] = pc[q] /\ job'[q] = job[q] /\ pc'[r] = pc[r] /\ job'[r] = job[r]
        BY <1>4, <3>2, StepShape
      <4>2. Apart(q, r)
        BY <2>2 DEF Ownership
      <4> QED
        BY <4>1, <4>2 DEF Apart, Building, Writing, First, Config, Scanning, InHook
    <3> QED
      BY <3>1, <3>2
  <2> QED
    BY <2>1, <2>2 DEF Ownership
<1> QED
  BY <1>2, <1>3, <1>4 DEF Next, Acts

LEMMA InitOwnership == Init => Ownership
<1> SUFFICES ASSUME Init PROVE Ownership
  OBVIOUS
<1>1. \A p \in Procs : pc[p] = "idle"
  BY DEF Init
<1> QED
  BY <1>1 DEF Ownership, Mine, Apart, Trail, Config, First, Building, Scanning, Destroying,
              Writing, InHook

(* Where scans are local, Ownership holds in every reachable state.        *)
THEOREM AlwaysOwnership ==
  ASSUME LocalScans PROVE Spec => []Ownership
<1>1. Init => Ownership
  BY InitOwnership
<1>2. IInv /\ Ownership /\ [Next]_vars => Ownership'
  BY OwnershipStep DEF IInv
<1> QED
  BY <1>1, <1>2, AlwaysIInv, PTL DEF Spec

(* What the three steps that change the configuration make of it.          *)
LEMMA ConfigChanges ==
  ASSUME TypeOK, Flow, Ownership, NEW p \in Procs, Acts(p)
  PROVE  \/ cfg' = cfg /\ gen' = gen
         \/ WriteConfigFile(p) /\ First(p) /\ cfg' = job[p].conf /\ gen' = gen + 1
         \/ /\ WriteConfigFile(p) /\ ~First(p) /\ cfg' = job[p].conf /\ gen' = gen
            /\ cfg.alive
         \/ Unlink(p) /\ ~cfg'.alive /\ gen' = gen
         \/ /\ WriteScanned(p) /\ gen' = gen /\ cfg.alive /\ cfg'.alive
            /\ cfg'.node = cfg.node /\ cfg'.locked = cfg.locked
<1>0. Mine(p) /\ Trail(p)
  BY DEF Ownership, Mine
<1>1. CASE WriteConfigFile(p)
  <2>1. /\ pc[p] = "file" /\ cfg' = job[p].conf
        /\ gen' = IF job[p].next = "mark" THEN gen + 1 ELSE gen
    BY <1>1 DEF WriteConfigFile
  <2>2. Config(p) /\ Writing(p) /\ (First(p) <=> job[p].next = "mark")
    BY <2>1 DEF Config, Writing, First
  <2> QED
    BY <1>0, <1>1, <2>1, <2>2 DEF Mine
<1>2. CASE Unlink(p)
  BY <1>2, UnlinkMove, NoJobFields
<1>3. CASE WriteScanned(p)
  <2>1. pc[p] = "scanned" /\ cfg' = job[p].conf /\ gen' = gen
    BY <1>3 DEF WriteScanned
  <2>2. Scanning(p) /\ Writing(p) /\ ~First(p)
    BY <2>1 DEF Scanning, Writing, First, Config, InHook
  <2> QED
    BY <1>0, <1>3, <2>1, <2>2 DEF Mine, Scans
<1> QED
  BY <1>1, <1>2, <1>3, ConfigSteps

(* A config write that lost its guest to a destroy never brings it back:   *)
(* create_and_lock_config's first write is the only step that puts a guest *)
(* into the vmlist.                                                        *)
THEOREM GuestsComeFromCreate ==
  ASSUME LocalScans PROVE Spec => OnlyCreateMakesAGuest
<1>1. IInv /\ Ownership /\ [Next]_vars =>
        [~cfg.alive /\ cfg'.alive => gen' = gen + 1]_vars
  <2> SUFFICES ASSUME IInv, Ownership, [Next]_vars, ~cfg.alive, cfg'.alive
               PROVE  gen' = gen + 1
    OBVIOUS
  <2>1. CASE UNCHANGED vars
    BY <2>1 DEF vars, guestVars
  <2>2. CASE Garble
    BY <2>2 DEF Garble, guestVars
  <2>3. ASSUME NEW p \in Procs, Acts(p) PROVE gen' = gen + 1
    BY <2>3, ConfigChanges DEF IInv
  <2> QED
    BY <2>1, <2>2, <2>3 DEF Next, Acts
<1> QED
  BY <1>1, AlwaysIInv, AlwaysOwnership, PTL DEF Spec, OnlyCreateMakesAGuest

-----------------------------------------------------------------------------
(* The restore marker.                                                     *)

(* Past the point where write_config takes the marker.                     *)
PastMarker(p) == Config(p) /\ pc[p] # "config"

(* The marker is gone from the node of an unlocked guest, and from that of *)
(* a write that is about to leave one.                                     *)
Markers ==
  /\ cfg.alive /\ ~cfg.locked => cfg.node \notin created
  /\ \A p \in Procs : PastMarker(p) /\ ~job[p].conf.locked => job[p].node \notin created

(* A process gets past the marker in write_config only, and then keeps its *)
(* job.                                                                    *)
LEMMA PastMarkerStep ==
  ASSUME LocalScans, TypeOK, Flow, Ownership, NEW p \in Procs, Acts(p), PastMarker(p)'
  PROVE  \/ WriteConfig(p)
         \/ /\ PastMarker(p) /\ pc[p] \in InHook /\ Kept(p) /\ job'[p].after = job[p].after
            /\ job'[p].conf.locked = job[p].conf.locked
            /\ job'[p].conf.block.there => job'[p].conf.block = job[p].conf.block
<1>0. Mine(p) /\ Trail(p)
  BY DEF Ownership, Mine
<1>1. pc'[p] = "file" \/ (pc'[p] \in InHook /\ job'[p].after = "file")
  BY DEF PastMarker, Config
<1> USE DEF InHook
<1>2. CASE Api(p)
  BY <1>1, <1>2, ApiMove
<1>3. CASE Task(p)
  <2>1. CASE \/ BeginSet(p) \/ BeginCreate(p) \/ BeginDestroy(p)
             \/ BeginSnapshot(p) \/ BeginRollback(p) \/ BeginDelsnap(p)
    BY <1>1, <2>1, BeginMove DEF Begins
  <2>2. CASE BeginScan(p)
    BY <1>1, <2>2, ScanMove
  <2>3. CASE WriteConfigFile(p)
    BY <1>1, <2>3, FileMove
  <2>4. CASE CreateConflict(p) \/ WriteScanned(p)
    BY <1>1, <2>4, FinishMove DEF CreateConflict, WriteScanned
  <2>5. CASE MarkCreated(p)
    BY <1>1, <2>5 DEF MarkCreated, Goto, TypeOK
  <2>6. CASE BuildWrite(p) \/ AbortCreate(p)
    BY <1>1, <2>6, BuildMove, AbortMove
  <2>7. CASE Unlink(p)
    BY <1>1, <2>7, UnlinkMove
  <2> QED
    BY <1>3, <2>1, <2>2, <2>3, <2>4, <2>5, <2>6, <2>7 DEF Task
<1>4. CASE Hook(p)
  <2>e. ~Ends(p)
    BY <1>1 DEF Ends
  <2>g. ASSUME GoesOn(p), pc[p] \in InHook
        PROVE  /\ PastMarker(p) /\ pc[p] \in InHook /\ Kept(p) /\ job'[p].after = job[p].after
               /\ job'[p].conf.locked = job[p].conf.locked
               /\ job'[p].conf.block.there => job'[p].conf.block = job[p].conf.block
    <3>1. job[p].after = "file"
      BY <1>0, <1>1, <2>g DEF GoesOn, Trail
    <3> QED
      BY <2>g, <3>1, NoJobFields DEF GoesOn, PastMarker, Config
  <2>1. CASE HookAcquire(p) \/ HookPurge(p) \/ HookImport(p)
    BY <1>1, <2>1, QuietHook DEF PastMarker, Config, Kept
  <2>2. CASE HookMiss(p)
    BY <2>2, <2>e, <2>g, MissMove
  <2>3. CASE HookImportFails(p)
    BY <1>0, <2>3, <2>e, <2>g, ImportFailsMove
  <2>4. CASE HookSweep(p)
    BY <2>4, <2>e, <2>g, SweepMove
  <2>5. CASE HookInstall(p)
    BY <1>0, <2>5, <2>g, InstallMove
  <2>6. CASE HookTrio(p)
    BY <1>1, <2>6, FinishMove DEF HookTrio
  <2> QED
    BY <1>4, <2>1, <2>2, <2>3, <2>4, <2>5, <2>6 DEF Hook
<1>5. CASE Die(p)
  BY <1>1, <1>5, FinishMove DEF Die
<1> QED
  BY <1>2, <1>3, <1>4, <1>5 DEF Acts

(* mark_created is the only step that leaves a marker.                     *)
LEMMA MarkerSteps ==
  ASSUME LocalScans, TypeOK, Flow, Ownership, NEW p \in Procs, Acts(p)
  PROVE  created' \subseteq created \/ MarkCreated(p)
<1>0. Trail(p)
  BY DEF Ownership, Mine
<1> USE DEF guestVars
<1>1. CASE Api(p)
  BY <1>1, ApiMove
<1>2. CASE Task(p)
  <2>1. CASE \/ BeginSet(p) \/ BeginCreate(p) \/ BeginDestroy(p)
             \/ BeginSnapshot(p) \/ BeginRollback(p) \/ BeginDelsnap(p)
    BY <2>1, BeginMove DEF Begins
  <2>2. CASE BeginScan(p) \/ CreateConflict(p) \/ WriteConfigFile(p) \/ WriteScanned(p)
    BY <2>2 DEF BeginScan, CreateConflict, WriteConfigFile, WriteScanned
  <2>3. CASE WriteConfig(p)
    BY <2>3, ConfigMove
  <2>4. CASE BuildWrite(p) \/ AbortCreate(p) \/ Unlink(p)
    BY <2>4 DEF BuildWrite, AbortCreate, Unlink
  <2> QED
    BY <1>2, <2>1, <2>2, <2>3, <2>4 DEF Task
<1>3. CASE Hook(p)
  <2>1. CASE HookAcquire(p) \/ HookPurge(p) \/ HookImport(p) \/ HookTrio(p) \/ HookInstall(p)
    BY <2>1, QuietHook DEF HookTrio, HookInstall
  <2>2. CASE HookMiss(p) \/ HookImportFails(p)
    BY <2>2 DEF HookMiss, HookImportFails
  <2>3. CASE HookSweep(p)
    BY <2>3, SweepMove
  <2> QED
    BY <1>3, <2>1, <2>2, <2>3 DEF Hook
<1>4. CASE Die(p)
  BY <1>4 DEF Die
<1> QED
  BY <1>1, <1>2, <1>3, <1>4 DEF Acts

LEMMA MarkersStep ==
  LocalScans /\ TypeOK /\ Flow /\ Ownership /\ Markers /\ [Next]_vars => Markers'
<1> SUFFICES ASSUME LocalScans, TypeOK, Flow, Ownership, Markers, [Next]_vars PROVE Markers'
  OBVIOUS
<1>1. CASE UNCHANGED vars \/ Garble
  BY <1>1 DEF Markers, PastMarker, Config, InHook, vars, Garble, guestVars
<1>2. ASSUME NEW p \in Procs, Acts(p) PROVE Markers'
  <2>0. /\ Mine(p) /\ \A q \in Procs \ {p} : pc'[q] = pc[q] /\ job'[q] = job[q]
        /\ \A q \in Procs \ {p} : PastMarker(q)' = PastMarker(q)
    <3>1. \A q \in Procs \ {p} : pc'[q] = pc[q] /\ job'[q] = job[q]
      BY <1>2, StepShape
    <3> QED
      BY <3>1 DEF Ownership, PastMarker, Config, InHook
  <2>1. CASE MarkCreated(p)
    <3>1. /\ pc[p] = "mark" /\ pc'[p] = "build" /\ cfg' = cfg
          /\ created' \subseteq created \cup {job[p].node}
      BY <2>1 DEF MarkCreated, Goto, TypeOK
    <3>2. Building(p) /\ ~PastMarker(p)'
      BY <3>1 DEF Building, PastMarker, Config, InHook
    <3>3. cfg'.locked
      BY <2>0, <3>1, <3>2 DEF Mine
    <3>4. ASSUME NEW q \in Procs \ {p}, PastMarker(q), ~job[q].conf.locked
          PROVE  job[q].node \notin created'
      <4>1. Mine(q) /\ Apart(q, p)
        BY DEF Ownership
      <4>2. Config(q) /\ Writing(q) /\ job[q].op # "scan"
        BY <3>4, <4>1 DEF PastMarker, Writing, Mine, Trail
      <4>3. First(q) => job[q].op = "create" /\ job[q].next = "mark"
        BY DEF First, Flow, FlowOf
      <4>4. ~First(q)
        BY <3>4, <4>1, <4>2, <4>3 DEF Mine, Conforms
      <4> QED
        BY <3>2, <4>1, <4>2, <4>4 DEF Apart
    <3> QED
      BY <2>0, <3>2, <3>3, <3>4 DEF Markers
  <2>2. CASE created' \subseteq created
    <3>1. ASSUME PastMarker(p)', ~job'[p].conf.locked PROVE job'[p].node \notin created'
      <4>1. CASE WriteConfig(p)
        <5>1. /\ pc[p] = "config" /\ Kept(p) /\ job'[p].conf = job[p].conf
              /\ created' = IF TakesMarker(job[p].conf) THEN created \ {job[p].conf.node}
                            ELSE created
          BY <4>1, ConfigMove
        <5>2. job[p].conf.node = job[p].node
          BY <2>0, <5>1 DEF Config, Mine, Conforms
        <5> QED
          BY <3>1, <5>1, <5>2 DEF TakesMarker, Kept
      <4>2. CASE PastMarker(p) /\ Kept(p) /\ job'[p].conf.locked = job[p].conf.locked
        BY <2>2, <3>1, <4>2 DEF Markers, Kept
      <4> QED
        BY <1>2, <3>1, <4>1, <4>2, PastMarkerStep
    <3>2. cfg'.alive /\ ~cfg'.locked => cfg'.node \notin created'
      <4>1. CASE cfg' = cfg
        BY <2>2, <4>1 DEF Markers
      <4>2. CASE WriteConfigFile(p)
        <5>1. pc[p] = "file" /\ cfg' = job[p].conf
          BY <4>2 DEF WriteConfigFile
        <5>2. PastMarker(p) /\ Config(p)
          BY <5>1 DEF PastMarker, Config
        <5>3. cfg'.node = job[p].node
          BY <2>0, <5>1, <5>2 DEF Mine, Conforms
        <5> QED
          BY <2>2, <5>1, <5>2, <5>3 DEF Markers
      <4>3. CASE cfg.alive /\ cfg'.node = cfg.node /\ cfg'.locked = cfg.locked
        BY <2>2, <4>3 DEF Markers
      <4> QED
        BY <1>2, <4>1, <4>2, <4>3, ConfigChanges
    <3>3. ASSUME NEW q \in Procs \ {p}, PastMarker(q)', ~job'[q].conf.locked
          PROVE  job'[q].node \notin created'
      BY <2>0, <2>2, <3>3 DEF Markers
    <3> QED
      BY <3>1, <3>2, <3>3 DEF Markers
  <2> QED
    BY <1>2, <2>1, <2>2, MarkerSteps
<1> QED
  BY <1>1, <1>2 DEF Next, Acts

(* No restore marker outlives its create: on an unlocked guest's node      *)
(* there is none, so no later config write can take it for its own.        *)
THEOREM MarkersAreTaken ==
  ASSUME LocalScans PROVE Spec => []NoMarkerOutlivesItsCreate
<1>1. Init => Markers
  BY NoJobFields DEF Init, Markers, PastMarker, Config, InHook
<1>2. IInv /\ Ownership /\ Markers /\ [Next]_vars => Markers'
  BY MarkersStep DEF IInv
<1>3. Markers => NoMarkerOutlivesItsCreate
  BY DEF Markers, NoMarkerOutlivesItsCreate
<1> QED
  BY <1>1, <1>2, <1>3, AlwaysIInv, AlwaysOwnership, PTL DEF Spec

-----------------------------------------------------------------------------
(* Who still owes a purge.                                                 *)

(* A task between the step that makes the stored files foreign and the end *)
(* of the hook that clears them: a destroy, a create's own hook, a restore *)
(* over a guest until the write that takes the marker, and that write's    *)
(* hook.                                                                   *)
Debt(p) ==
  \/ pc[p] = "unlink" \/ Destroying(p)
  \/ pc[p] \in InHook /\ job[p].after = "mark"
  \/ job[p].op = "create" /\ pc[p] \in InHook /\ job[p].after = "file"
  \/ job[p].allow /\ pc[p] = "mark"
  \/ /\ job[p].allow /\ job[p].op = "create"
     /\ job[p].node \in created /\ job[p].node \in existing
     /\ \/ pc[p] \in {"build", "built"}
        \/ pc[p] = "config" /\ job[p].next # "mark"
        \/ pc[p] = "file" /\ job[p].next \in {"build", "built"}

(* Every file was written for incarnation g, and so will be what a request *)
(* past its vmlist check writes.                                           *)
OwnedBy(g) ==
  /\ doc.there => doc.gen = g
  /\ \A s \in Snaps : copies[s].there => copies[s].gen = g
  /\ \A p \in Procs : pc[p] \in {"read", "write"} => job[p].for = g

NoFiles ==
  /\ doc = Absent /\ copies = NoCopies
  /\ \A p \in Procs : pc[p] \notin {"read", "write"}

Clean == IF cfg.alive THEN OwnedBy(gen) ELSE NoFiles

(* Unless a hook was missed, what is not clean is owed by somebody.        *)
Debts == ~missed => Clean \/ \E p \in Procs : Debt(p)

(* What the halves of a purge and of an import rely on.                    *)
Purging(p) ==
  /\ pc[p] = "sweep" \/ (pc[p] = "hooksweep" /\ job[p].hook # "import") => doc = Absent
  /\ pc[p] \in InHook /\ job[p].hook = "import" => job[p].conf.block.there
  /\ pc[p] = "hooksweep" /\ job[p].hook = "import" => doc.gen = gen

Purges == \A p \in Procs : Purging(p)

(* A restore's import hook runs for a guest that is there and stays.       *)
LEMMA ImportAlive ==
  ASSUME NEW p \in Procs, Mine(p), Purging(p), pc[p] \in InHook, job[p].hook = "import"
  PROVE  cfg.alive /\ Pins(p)
<1>1. Config(p)
  BY DEF Mine, Trail, Config
<1>2. Writing(p) /\ Conforms(p) /\ job[p].conf.block.there
  BY <1>1 DEF Writing, Mine, Purging
<1>3. First(p) => cfg.alive /\ cfg.node = job[p].node
  BY <1>2 DEF Conforms
<1> QED
  BY <1>2, <1>3 DEF Mine, Pins

(* What a step of a process can do to the files.                           *)
LEMMA StoreStep ==
  ASSUME TypeOK, NEW p \in Procs, Trail(p), Acts(p)
  PROVE  /\ \/ doc' = doc \/ doc' = Absent
            \/ /\ pc[p] = "write" \/ (pc[p] = "hook" /\ job[p].hook = "install")
               /\ doc'.gen = job[p].for
            \/ pc[p] = "hook" /\ job[p].hook = "import" /\ doc'.gen = gen
            \/ \E s \in Snaps : copies[s].there /\ doc' = copies[s]
         /\ \/ copies' = copies \/ copies' = NoCopies
            \/ \E s \in Snaps : doc.there /\ copies' = [copies EXCEPT ![s] = doc]
            \/ \E s \in Snaps : copies' = [copies EXCEPT ![s] = Absent]
<1> USE DEF storeVars
<1>0. job[p].snap \in Snaps
  BY DEF TypeOK, Job
<1>1. CASE Api(p)
  <2>1. CASE Request(p) \/ Remove(p) \/ Acquire(p) \/ LockTimeout(p)
    BY <2>1 DEF Request, Remove, Acquire, LockTimeout
  <2>2. CASE CheckGuest(p) \/ Refuse(p) \/ ReadDocument(p)
    BY <2>2 DEF CheckGuest, Refuse, ReadDocument
  <2>3. CASE WriteDocument(p)
    <3>1. /\ pc[p] = "write"
          /\ Delete \/ UNCHANGED storeVars \/ PutRaw(job[p].plan, job[p].for, job[p].pre)
      BY <2>3 DEF WriteDocument
    <3> QED
      BY <3>1 DEF Delete, PutRaw, Text
  <2>4. CASE PurgeDocument(p) \/ PurgeCopies(p)
    BY <2>4 DEF PurgeDocument, PurgeCopies, Delete, DeleteSnapshots
  <2> QED
    BY <1>1, <2>1, <2>2, <2>3, <2>4 DEF Api
<1>2. CASE Task(p)
  <2>1. UNCHANGED storeVars
    BY <1>2 DEF Task, BeginSet, BeginCreate, BeginDestroy, BeginSnapshot, BeginRollback,
           BeginDelsnap, Begin, BeginScan, WriteConfig, WriteConfigFile, CreateConflict,
           MarkCreated, BuildWrite, AbortCreate, Unlink, WriteScanned
  <2> QED
    BY <2>1
<1>3. CASE Hook(p)
  <2>1. CASE HookAcquire(p) \/ HookMiss(p) \/ HookImportFails(p)
    BY <2>1 DEF HookAcquire, HookMiss, HookImportFails
  <2>2. CASE HookPurge(p) \/ HookSweep(p)
    BY <2>2 DEF HookPurge, HookSweep, Delete, DeleteSnapshots
  <2>3. CASE HookImport(p)
    BY <2>3 DEF HookImport, PutRaw, Text
  <2>4. CASE HookInstall(p)
    BY <2>4 DEF HookInstall, PutRaw, Text
  <2>5. CASE HookTrio(p)
    <3>1. \/ Snapshot(job[p].snap) \/ Rollback(job[p].snap) \/ DeleteSnapshot(job[p].snap)
      BY <2>5 DEF HookTrio
    <3> QED
      BY <1>0, <3>1 DEF Snapshot, Rollback, DeleteSnapshot
  <2> QED
    BY <1>3, <2>1, <2>2, <2>3, <2>4, <2>5 DEF Hook
<1>4. CASE Die(p)
  BY <1>4 DEF Die
<1> QED
  BY <1>1, <1>2, <1>3, <1>4 DEF Acts

(* What a process acts for: the incarnation at hand, or the one it already *)
(* acted for, or none; a request passes its vmlist check on a live guest.  *)
LEMMA ForStep ==
  ASSUME LocalScans, TypeOK, Flow, NEW p \in Procs, Trail(p), Acts(p),
         pc'[p] \in {"read", "write"}
  PROVE  \/ cfg.alive /\ job'[p].for = gen
         \/ pc[p] = "read" /\ job'[p].for = job[p].for
<1>0. job[p] \in Job /\ job \in [Procs -> Job] /\ pc \in [Procs -> Labels]
  BY DEF TypeOK
<1>1. pc'[p] \in Waiting
  BY DEF Waiting
<1>2. CASE Api(p)
  <2>1. CASE Request(p) \/ Remove(p) \/ Acquire(p) \/ LockTimeout(p) \/ Refuse(p)
    BY <1>0, <2>1 DEF Request, Remove, Acquire, LockTimeout, Refuse, Goto, Finish
  <2>2. CASE CheckGuest(p)
    <3>1. job'[p].for = gen
      BY <1>0, <2>2 DEF CheckGuest, Job
    <3> QED
      BY <1>0, <2>2, <3>1 DEF CheckGuest, Goto
  <2>3. CASE ReadDocument(p)
    <3>1. job'[p].for = job[p].for
      BY <1>0, <2>3 DEF ReadDocument, Job
    <3> QED
      BY <2>3, <3>1 DEF ReadDocument
  <2>4. CASE WriteDocument(p) \/ PurgeDocument(p) \/ PurgeCopies(p)
    BY <1>0, <2>4 DEF WriteDocument, PurgeDocument, PurgeCopies, Goto, Finish
  <2> QED
    BY <1>2, <2>1, <2>2, <2>3, <2>4 DEF Api
<1>3. CASE Task(p) \/ Hook(p)
  BY <1>1, <1>3, TaskLabels
<1>4. CASE Die(p)
  BY <1>4, FinishMove DEF Die
<1> QED
  BY <1>2, <1>3, <1>4 DEF Acts

(* The process at a hook or at `rm' establishes what its purge relies on.  *)
LEMMA PurgingOwn ==
  ASSUME LocalScans, TypeOK, Flow, Ownership, Purges, NEW p \in Procs, Acts(p)
  PROVE  Purging(p)'
<1>0. Trail(p) /\ Purging(p) /\ pc \in [Procs -> Labels] /\ gen' \in {gen, gen + 1}
  <2>1. gen' \in {gen, gen + 1}
    BY ConfigChanges
  <2> QED
    BY <2>1 DEF Ownership, Mine, Purges, TypeOK
<1> USE DEF InHook
<1>a. ASSUME pc'[p] \notin {"sweep", "hookwait", "hook", "hooksweep"} PROVE Purging(p)'
  BY <1>a DEF Purging
<1>b. ASSUME pc'[p] = "hookwait", job'[p].hook # "import" PROVE Purging(p)'
  BY <1>b DEF Purging
<1>1. CASE Api(p)
  <2>1. CASE PurgeDocument(p)
    <3>1. doc' = Absent /\ pc'[p] = "sweep"
      BY <1>0, <2>1 DEF PurgeDocument, Delete, Goto
    <3> QED
      BY <3>1 DEF Purging
  <2>2. CASE ~PurgeDocument(p)
    <3>1. pc'[p] # "sweep"
      BY <1>0, <1>1, <2>2 DEF Api, Request, Remove, Acquire, LockTimeout, CheckGuest, Refuse,
             ReadDocument, WriteDocument, PurgeCopies, Finish, Goto
    <3> QED
      BY <1>1, <1>a, <3>1, ApiMove
  <2> QED
    BY <2>1, <2>2
<1>2. CASE Task(p)
  <2>1. CASE \/ BeginSet(p) \/ BeginCreate(p) \/ BeginDestroy(p)
             \/ BeginSnapshot(p) \/ BeginRollback(p) \/ BeginDelsnap(p)
    BY <1>a, <2>1, BeginMove DEF Begins
  <2>2. CASE BeginScan(p)
    BY <1>b, <2>2, ScanMove
  <2>3. CASE WriteConfig(p)
    <3>1. /\ job'[p].conf = job[p].conf
          /\ \/ pc'[p] = "file"
             \/ pc'[p] = "hookwait" /\ job'[p].hook = "import" /\ job[p].conf.block.there
             \/ pc'[p] = "hookwait" /\ job'[p].hook = "purge"
      BY <2>3, ConfigMove
    <3> QED
      BY <3>1 DEF Purging
  <2>4. CASE WriteConfigFile(p)
    BY <1>a, <1>b, <2>4, FileMove
  <2>5. CASE CreateConflict(p) \/ WriteScanned(p)
    BY <1>a, <2>5, FinishMove DEF CreateConflict, WriteScanned
  <2>6. CASE MarkCreated(p)
    BY <1>0, <1>a, <2>6 DEF MarkCreated, Goto
  <2>7. CASE BuildWrite(p) \/ AbortCreate(p)
    BY <1>a, <2>7, BuildMove, AbortMove
  <2>8. CASE Unlink(p)
    BY <1>b, <2>8, UnlinkMove
  <2> QED
    BY <1>2, <2>1, <2>2, <2>3, <2>4, <2>5, <2>6, <2>7, <2>8 DEF Task
<1>3. CASE Hook(p)
  <2>e. ASSUME Ends(p) PROVE Purging(p)'
    BY <1>a, <2>e DEF Ends
  <2>g. ASSUME GoesOn(p), pc[p] \in InHook PROVE Purging(p)'
    BY <1>0, <1>a, <2>g DEF GoesOn, Trail
  <2>1. CASE HookAcquire(p)
    <3>1. pc[p] = "hookwait" /\ pc'[p] = "hook" /\ job'[p] = job[p]
      BY <1>0, <2>1 DEF HookAcquire, Goto
    <3> QED
      BY <1>0, <3>1 DEF Purging
  <2>2. CASE HookPurge(p)
    <3>1. /\ pc[p] = "hook" /\ pc'[p] = "hooksweep" /\ job'[p] = job[p] /\ doc' = Absent
          /\ job[p].hook # "import"
      BY <1>0, <2>2 DEF HookPurge, Goto, Delete
    <3> QED
      BY <3>1 DEF Purging
  <2>3. CASE HookImport(p)
    <3>1. /\ pc[p] = "hook" /\ pc'[p] = "hooksweep" /\ job'[p] = job[p] /\ gen' = gen
          /\ job[p].hook = "import" /\ doc' = Text(job[p].conf.block.keys, gen)
      BY <1>0, <2>3 DEF HookImport, Goto, PutRaw, MatchesDigest, guestVars
    <3>2. doc'.gen = gen'
      BY <3>1 DEF Text
    <3> QED
      BY <1>0, <3>1, <3>2 DEF Purging
  <2>4. CASE HookMiss(p)
    BY <2>4, <2>e, <2>g, MissMove
  <2>5. CASE HookImportFails(p)
    BY <1>0, <2>5, <2>e, <2>g, ImportFailsMove
  <2>6. CASE HookSweep(p)
    BY <2>6, <2>e, <2>g, SweepMove
  <2>7. CASE HookInstall(p)
    BY <1>0, <2>7, <2>g, InstallMove
  <2>8. CASE HookTrio(p)
    BY <1>a, <2>8, FinishMove DEF HookTrio
  <2> QED
    BY <1>3, <2>1, <2>2, <2>3, <2>4, <2>5, <2>6, <2>7, <2>8 DEF Hook
<1>4. CASE Die(p)
  BY <1>4, <1>a, FinishMove DEF Die
<1> QED
  BY <1>1, <1>2, <1>3, <1>4 DEF Acts

LEMMA PurgesStep ==
  LocalScans /\ IInv /\ Ownership /\ Purges /\ [Next]_vars => Purges'
<1> SUFFICES ASSUME LocalScans, IInv, Ownership, Purges, [Next]_vars PROVE Purges'
  OBVIOUS
<1>0. TypeOK /\ Flow /\ DocumentLock
  BY DEF IInv
<1>1. CASE UNCHANGED vars
  BY <1>1 DEF Purges, Purging, InHook, vars, storeVars, guestVars
<1>2. CASE Garble
  <2>1. lock = NoProc /\ pc' = pc /\ job' = job /\ gen' = gen
    BY <1>2 DEF Garble, guestVars
  <2>2. \A p \in Procs : pc[p] \notin {"sweep", "hooksweep"}
    BY <1>0, <2>1, ProcsAssumption DEF DocumentLock, Locked
  <2> QED
    BY <2>1, <2>2 DEF Purges, Purging, InHook
<1>3. ASSUME NEW p \in Procs, Acts(p) PROVE Purges'
  <2>1. Purging(p)'
    BY <1>0, <1>3, PurgingOwn
  <2>2. ASSUME NEW q \in Procs \ {p} PROVE Purging(q)'
    <3>1. Purging(q) /\ Mine(q) /\ pc'[q] = pc[q] /\ job'[q] = job[q]
      BY <1>0, <1>3, StepShape DEF Purges, Ownership
    <3>2. pc[q] \in {"sweep", "hooksweep"} => doc' = doc
      <4>1. doc' # doc => lock = p
        BY <1>0, <1>3, StepShape DEF DocumentLock
      <4>2. pc[q] \in {"sweep", "hooksweep"} => lock = q
        BY <1>0 DEF DocumentLock, Locked
      <4> QED
        BY <4>1, <4>2
    <3>3. pc[q] = "hooksweep" /\ job[q].hook = "import" => gen' = gen
      <4> SUFFICES ASSUME pc[q] = "hooksweep", job[q].hook = "import" PROVE gen' = gen
        OBVIOUS
      <4>1. Pins(q)
        BY <3>1, ImportAlive DEF InHook
      <4> QED
        BY <1>0, <1>3, <4>1, Pinned
    <3> QED
      BY <3>1, <3>2, <3>3 DEF Purging, InHook
  <2> QED
    BY <2>1, <2>2 DEF Purges
<1> QED
  BY <1>1, <1>2, <1>3 DEF Next, Acts

(* A process in debt runs a create or a destroy.                           *)
LEMMA DebtOp ==
  ASSUME Flow, Ownership, NEW p \in Procs, Debt(p)
  PROVE  job[p].op \in {"create", "destroy"} /\ pc[p] # "idle"
<1>1. Trail(p) /\ FlowOf(p)
  BY DEF Ownership, Mine, Flow
<1> QED
  BY <1>1 DEF Debt, Trail, FlowOf, Destroying, InHook

(* The end of a purge or an import leaves everything clean.                *)
LEMMA SweepCleans ==
  ASSUME IInv, Ownership, Purges, NEW p \in Procs, HookSweep(p) \/ PurgeCopies(p)
  PROVE  Clean'
<1>0. TypeOK /\ DocumentLock /\ Purging(p) /\ Mine(p) /\ pc[p] \in {"hooksweep", "sweep"}
  BY DEF IInv, Purges, Ownership, HookSweep, PurgeCopies
<1>1. \A q \in Procs \ {p} : pc'[q] = pc[q]
  BY <1>0, StepShape DEF Acts, Api, Hook
<1>2. \A q \in Procs : pc'[q] \notin {"read", "write"}
  <2>1. \A q \in Procs \ {p} : pc[q] \notin {"read", "write"}
    BY <1>0 DEF DocumentLock, Locked
  <2>2. pc'[p] \notin {"read", "write"}
    <3>1. CASE PurgeCopies(p)
      BY <1>0, <3>1, FinishMove DEF PurgeCopies
    <3>2. CASE HookSweep(p)
      BY <1>0, <3>2, TaskLabels DEF Hook, Waiting
    <3> QED
      BY <3>1, <3>2
  <2> QED
    BY <1>1, <2>1, <2>2
<1>3. copies' = NoCopies /\ doc' = doc /\ cfg' = cfg /\ gen' = gen
  BY DEF HookSweep, PurgeCopies, DeleteSnapshots
<1>4. \A s \in Snaps : ~copies'[s].there
  BY <1>3, NoJobFields DEF NoCopies
<1>5. CASE doc = Absent
  <2>1. NoFiles'
    BY <1>2, <1>3, <1>5 DEF NoFiles
  <2>2. OwnedBy(gen)'
    BY <1>2, <1>3, <1>4, <1>5, NoJobFields DEF OwnedBy
  <2> QED
    BY <2>1, <2>2 DEF Clean
<1>6. CASE doc # Absent
  <2>1. pc[p] = "hooksweep" /\ job[p].hook = "import" /\ doc.gen = gen
    BY <1>0, <1>6 DEF Purging
  <2>2. cfg.alive
    BY <1>0, <2>1, ImportAlive DEF InHook
  <2>3. OwnedBy(gen)'
    BY <1>2, <1>3, <1>4, <2>1 DEF OwnedBy
  <2> QED
    BY <1>3, <2>2, <2>3 DEF Clean
<1> QED
  BY <1>5, <1>6

(* Which steps move the markers.                                           *)
LEMMA MarkersFrame ==
  ASSUME LocalScans, TypeOK, Flow, Ownership, NEW p \in Procs, Acts(p),
         ~PurgeCopies(p), ~HookSweep(p)
  PROVE  (created' = created /\ existing' = existing) \/ WriteConfig(p) \/ MarkCreated(p)
<1> USE DEF guestVars
<1>1. CASE Api(p)
  BY <1>1 DEF Api, Request, Remove, Acquire, LockTimeout, CheckGuest, Refuse, ReadDocument,
         WriteDocument, PurgeDocument
<1>2. CASE Task(p)
  <2>1. CASE \/ BeginSet(p) \/ BeginCreate(p) \/ BeginDestroy(p)
             \/ BeginSnapshot(p) \/ BeginRollback(p) \/ BeginDelsnap(p)
    BY <2>1, BeginMove DEF Begins
  <2>2. CASE BeginScan(p) \/ CreateConflict(p) \/ WriteConfigFile(p) \/ WriteScanned(p)
    BY <2>2 DEF BeginScan, CreateConflict, WriteConfigFile, WriteScanned
  <2>3. CASE BuildWrite(p) \/ AbortCreate(p) \/ Unlink(p)
    BY <2>3 DEF BuildWrite, AbortCreate, Unlink
  <2> QED
    BY <1>2, <2>1, <2>2, <2>3 DEF Task
<1>3. CASE Hook(p)
  <2>1. CASE HookAcquire(p) \/ HookPurge(p) \/ HookImport(p) \/ HookTrio(p) \/ HookInstall(p)
    BY <2>1, QuietHook DEF HookTrio, HookInstall
  <2>2. CASE HookMiss(p) \/ HookImportFails(p)
    BY <2>2 DEF HookMiss, HookImportFails
  <2> QED
    BY <1>3, <2>1, <2>2 DEF Hook
<1>4. CASE Die(p)
  BY <1>4 DEF Die
<1> QED
  BY <1>1, <1>2, <1>3, <1>4 DEF Acts

(* Nobody but the end of a purge relieves another of its debt.             *)
LEMMA OthersDebt ==
  ASSUME LocalScans, TypeOK, Flow, Ownership, NEW p \in Procs, Acts(p),
         ~PurgeCopies(p), ~HookSweep(p), NEW q \in Procs \ {p}, Debt(q)
  PROVE  Debt(q)'
<1>0. pc'[q] = pc[q] /\ job'[q] = job[q] /\ Mine(p) /\ Apart(p, q)
  BY StepShape DEF Ownership
<1>1. ASSUME Building(q), job[q].node \in created, job[q].node \in existing
      PROVE  job[q].node \in created' /\ job[q].node \in existing'
  <2>1. CASE created' = created /\ existing' = existing
    BY <1>1, <2>1
  <2>2. CASE MarkCreated(p)
    <3>1. Building(p)
      BY <2>2 DEF MarkCreated, Building
    <3> QED
      BY <1>0, <1>1, <3>1 DEF Apart
  <2>3. CASE WriteConfig(p)
    <3>1. /\ pc[p] = "config"
          /\ created' = created \/ created' = created \ {job[p].conf.node}
          /\ existing' = existing \/ existing' = existing \ {job[p].conf.node}
      BY <2>3, ConfigMove
    <3>2. Config(p) /\ Writing(p)
      BY <3>1 DEF Config, Writing
    <3>3. job[p].op # "scan" /\ job[p].conf.node = job[p].node
      BY <1>0, <3>2 DEF Mine, Trail, Conforms
    <3>4. job[p].node # job[q].node
      BY <1>0, <1>1, <3>2, <3>3 DEF Apart
    <3> QED
      BY <1>1, <3>1, <3>3, <3>4
  <2> QED
    BY <2>1, <2>2, <2>3, MarkersFrame
<1>2. CASE /\ job[q].allow /\ job[q].op = "create"
           /\ job[q].node \in created /\ job[q].node \in existing
           /\ \/ pc[q] \in {"build", "built"}
              \/ pc[q] = "config" /\ job[q].next # "mark"
              \/ pc[q] = "file" /\ job[q].next \in {"build", "built"}
  <2>1. Building(q)
    BY <1>2 DEF Building, Config
  <2>2. job[q].node \in created' /\ job[q].node \in existing'
    BY <1>1, <1>2, <2>1
  <2> QED
    BY <1>0, <1>2, <2>2 DEF Debt
<1>3. CASE \/ pc[q] = "unlink" \/ Destroying(q)
           \/ pc[q] \in InHook /\ job[q].after = "mark"
           \/ job[q].op = "create" /\ pc[q] \in InHook /\ job[q].after = "file"
           \/ job[q].allow /\ pc[q] = "mark"
  BY <1>0, <1>3 DEF Debt, Destroying, InHook
<1> QED
  BY <1>2, <1>3 DEF Debt

(* A process in debt stays in debt, misses its hook or ends its purge.     *)
LEMMA OwnDebt ==
  ASSUME LocalScans, TypeOK, Flow, Ownership, NEW p \in Procs, Acts(p),
         ~HookSweep(p), Debt(p)
  PROVE  missed' \/ Debt(p)'
<1>0. /\ Mine(p) /\ Trail(p) /\ FlowOf(p) /\ job[p].next \in AfterWrite
      /\ pc \in [Procs -> Labels] /\ job[p].op \in {"create", "destroy"}
  BY DebtOp DEF Ownership, Mine, Flow, TypeOK, Job
<1> USE DEF InHook
<1>1. /\ ~Api(p) /\ pc[p] \notin {"idle", "scanned"}
      /\ pc[p] \in InHook => job[p].hook \in {"purge", "destroy", "import"}
  <2>1. pc[p] \notin {"idle", "want", "check", "read", "write", "purge", "sweep", "scanned"}
    BY DEF Debt, Destroying
  <2>2. pc[p] \in InHook => job[p].hook \in {"purge", "destroy", "import"}
    BY <1>0 DEF Debt, Destroying, Trail
  <2> QED
    BY <2>1, <2>2, ApiMove DEF Away
<1>2. CASE Die(p)
  BY <1>0, <1>2 DEF Die, Tasks
<1>3. CASE Hook(p)
  <2>1. CASE HookAcquire(p) \/ HookPurge(p) \/ HookImport(p)
    <3>1. pc[p] \in InHook /\ pc'[p] \in InHook /\ job'[p] = job[p]
      BY <2>1, QuietHook
    <3> QED
      BY <3>1 DEF Debt, Destroying
  <2>2. CASE HookMiss(p) \/ HookImportFails(p)
    <3>1. CASE HookMiss(p)
      BY <1>1, <3>1, MissMove
    <3>2. CASE HookImportFails(p)
      BY <1>0, <1>1, <3>2, ImportFailsMove
    <3> QED
      BY <2>2, <3>1, <3>2
  <2>3. ~HookInstall(p) /\ ~HookTrio(p)
    BY <1>1 DEF HookInstall, HookTrio
  <2> QED
    BY <1>3, <2>1, <2>2, <2>3 DEF Hook
<1>4. CASE Task(p)
  <2>1. ~(\/ BeginSet(p) \/ BeginCreate(p) \/ BeginDestroy(p) \/ BeginSnapshot(p)
          \/ BeginRollback(p) \/ BeginDelsnap(p) \/ BeginScan(p))
    BY <1>1, BeginMove, ScanMove DEF Begins
  <2>2. CASE Unlink(p)
    BY <2>2, UnlinkMove DEF Debt, Destroying
  <2>3. CASE AbortCreate(p)
    BY <2>3, AbortMove DEF Debt
  <2>4. CASE MarkCreated(p)
    <3>1. /\ pc[p] = "mark" /\ pc'[p] = "build" /\ job'[p] = job[p]
          /\ \/ missed'
             \/ /\ created' = created \cup {job[p].node}
                /\ job[p].allow => existing' = existing \cup {job[p].node}
      BY <1>0, <2>4 DEF MarkCreated, Goto
    <3>2. job[p].allow /\ job[p].op = "create"
      BY <1>0, <3>1 DEF Debt, Destroying, FlowOf
    <3> QED
      BY <3>1, <3>2 DEF Debt
  <2> DEFINE Owing ==
        /\ job[p].allow /\ job[p].op = "create"
        /\ job[p].node \in created /\ job[p].node \in existing
  <2>5. CASE BuildWrite(p)
    <3>1. /\ pc[p] \in {"build", "built"} /\ pc'[p] = "config"
          /\ job'[p].op = job[p].op /\ job'[p].node = job[p].node
          /\ job'[p].allow = job[p].allow /\ job'[p].next \in {"build", "built", "idle"}
          /\ created' = created /\ existing' = existing
      BY <2>5, BuildMove DEF guestVars
    <3>2. Owing
      BY <3>1 DEF Debt, Destroying
    <3> QED
      BY <3>1, <3>2 DEF Debt
  <2>6. CASE WriteConfig(p)
    <3>1. /\ pc[p] = "config" /\ Kept(p) /\ job'[p].after = "file"
          /\ \/ /\ pc'[p] = "file"
                /\ TakesMarker(job[p].conf) => job[p].conf.node \notin existing
             \/ pc'[p] = "hookwait"
          /\ ~TakesMarker(job[p].conf) => created' = created /\ existing' = existing
      BY <2>6, ConfigMove
    <3>2. Owing /\ job[p].next # "mark"
      BY <3>1 DEF Debt, Destroying
    <3>3. Conforms(p)
      BY <1>0, <3>1 DEF Config, Mine
    <3>4. CASE pc'[p] = "hookwait"
      BY <3>1, <3>2, <3>4 DEF Debt, Kept
    <3>5. CASE pc'[p] = "file"
      <4>1. ~TakesMarker(job[p].conf)
        BY <3>1, <3>2, <3>3, <3>5 DEF Conforms
      <4>2. job[p].conf.locked
        BY <3>2, <3>3, <4>1 DEF Conforms, TakesMarker
      <4>3. job[p].next \in {"build", "built"}
        BY <1>0, <3>2, <3>3, <4>2 DEF Conforms, AfterWrite, FlowOf
      <4> QED
        BY <3>1, <3>2, <3>5, <4>1, <4>3 DEF Debt, Kept
    <3> QED
      BY <3>1, <3>4, <3>5
  <2>7. CASE WriteConfigFile(p)
    <3>1. pc[p] = "file"
      BY <2>7 DEF WriteConfigFile
    <3>2. Owing /\ job[p].next \in {"build", "built"}
      BY <3>1 DEF Debt, Destroying
    <3>3. /\ Kept(p) /\ pc'[p] = job[p].next
          /\ created' = created /\ existing' = existing
      BY <2>7, <3>2, FileMove
    <3> QED
      BY <3>2, <3>3 DEF Debt, Kept
  <2>8. ~CreateConflict(p)
    BY DEF CreateConflict, TakenElsewhere, Debt, Destroying
  <2>9. ~WriteScanned(p)
    BY <1>1 DEF WriteScanned
  <2> QED
    BY <1>4, <2>1, <2>2, <2>3, <2>4, <2>5, <2>6, <2>7, <2>8, <2>9 DEF Task
<1> QED
  BY <1>1, <1>2, <1>3, <1>4 DEF Acts

(* The files stay clean while the guest and its incarnation do.            *)
LEMMA CleanStays ==
  ASSUME LocalScans, TypeOK, Flow, Ownership, Purges, NEW p \in Procs, Acts(p),
         cfg'.alive = cfg.alive, gen' = gen, Clean
  PROVE  Clean'
<1>0. /\ Mine(p) /\ Trail(p) /\ Purging(p) /\ copies \in [Snaps -> File] /\ doc \in File
  BY DEF Ownership, Mine, Purges, TypeOK, StoreTypeOK
<1>1. \A q \in Procs \ {p} : pc'[q] = pc[q] /\ job'[q] = job[q]
  BY StepShape
<1>2. pc'[p] \in {"read", "write"} =>
        \/ cfg.alive /\ job'[p].for = gen
        \/ pc[p] = "read" /\ job'[p].for = job[p].for
  BY <1>0, ForStep
<1>3. pc[p] = "hook" /\ job[p].hook = "install" => cfg.alive /\ job[p].for = gen
  <2> SUFFICES ASSUME pc[p] = "hook", job[p].hook = "install"
               PROVE  cfg.alive /\ job[p].for = gen
    OBVIOUS
  <2>1. Scanning(p)
    BY <1>0 DEF Trail, Scanning, InHook
  <2>2. Writing(p) /\ ~First(p)
    BY <1>0, <2>1 DEF Writing, First, Config, Scanning, InHook, Trail
  <2> QED
    BY <1>0, <2>1, <2>2 DEF Mine, Scans
<1>4. pc[p] = "hook" /\ job[p].hook = "import" => cfg.alive
  BY <1>0, ImportAlive DEF InHook
<1>5. Absent.there = FALSE /\ \A s \in Snaps : NoCopies[s] = Absent
  BY NoJobFields DEF NoCopies
<1>6. CASE cfg.alive
  <2>1. OwnedBy(gen)
    BY <1>6 DEF Clean
  <2>2. doc'.there => doc'.gen = gen
    BY <1>0, <1>3, <1>5, <2>1, StoreStep DEF OwnedBy
  <2>3. ASSUME NEW s \in Snaps PROVE copies'[s].there => copies'[s].gen = gen
    <3>1. CASE copies' = copies \/ copies' = NoCopies
      BY <1>5, <2>1, <3>1 DEF OwnedBy
    <3>2. CASE \E t \in Snaps : doc.there /\ copies' = [copies EXCEPT ![t] = doc]
      BY <1>0, <2>1, <3>2 DEF OwnedBy
    <3>3. CASE \E t \in Snaps : copies' = [copies EXCEPT ![t] = Absent]
      BY <1>0, <1>5, <2>1, <3>3 DEF OwnedBy
    <3> QED
      BY <1>0, <3>1, <3>2, <3>3, StoreStep
  <2>4. ASSUME NEW q \in Procs, pc'[q] \in {"read", "write"} PROVE job'[q].for = gen
    <3>1. CASE q = p
      BY <1>2, <2>1, <2>4, <3>1 DEF OwnedBy
    <3>2. CASE q # p
      BY <1>1, <2>1, <2>4, <3>2 DEF OwnedBy
    <3> QED
      BY <3>1, <3>2
  <2> QED
    BY <1>6, <2>2, <2>3, <2>4 DEF Clean, OwnedBy
<1>7. CASE ~cfg.alive
  <2>1. NoFiles
    BY <1>7 DEF Clean
  <2>2. /\ pc[p] \notin {"read", "write"} /\ doc = Absent /\ copies = NoCopies
        /\ \A s \in Snaps : copies[s] = Absent
    BY <1>5, <2>1 DEF NoFiles
  <2>3. doc' = Absent
    BY <1>0, <1>3, <1>4, <1>5, <1>7, <2>2, StoreStep
  <2>4. copies' = NoCopies
    <3>1. CASE \E t \in Snaps : copies' = [copies EXCEPT ![t] = Absent]
      BY <1>0, <2>2, <3>1
    <3> QED
      BY <1>0, <1>5, <2>2, <3>1, StoreStep
  <2>5. ASSUME NEW q \in Procs PROVE pc'[q] \notin {"read", "write"}
    <3>1. CASE q = p
      BY <1>2, <1>7, <2>2, <3>1
    <3>2. CASE q # p
      BY <1>1, <2>1, <3>2 DEF NoFiles
    <3> QED
      BY <3>1, <3>2
  <2> QED
    BY <1>7, <2>3, <2>4, <2>5 DEF Clean, NoFiles
<1> QED
  BY <1>6, <1>7

(* Only the end of a purge makes up for a missed hook.                     *)
LEMMA MissedStays ==
  ASSUME NEW p \in Procs, Acts(p), ~HookSweep(p), ~PurgeCopies(p), missed PROVE missed'
<1>1. CASE Api(p)
  BY <1>1 DEF Api, Request, Remove, Acquire, LockTimeout, CheckGuest, Refuse, ReadDocument,
         WriteDocument, PurgeDocument, ghostVars
<1>2. CASE Task(p)
  BY <1>2 DEF Task, BeginSet, BeginCreate, BeginDestroy, BeginSnapshot, BeginRollback,
         BeginDelsnap, Begin, BeginScan, WriteConfig, WriteConfigFile, CreateConflict,
         MarkCreated, BuildWrite, AbortCreate, Unlink, WriteScanned, ghostVars
<1>3. CASE Hook(p)
  BY <1>3 DEF Hook, HookAcquire, HookMiss, HookPurge, HookImport, HookImportFails,
         HookInstall, HookTrio, ghostVars
<1>4. CASE Die(p)
  BY <1>4 DEF Die
<1> QED
  BY <1>1, <1>2, <1>3, <1>4 DEF Acts

LEMMA DebtsStep ==
  LocalScans /\ IInv /\ Ownership /\ Purges /\ Debts /\ [Next]_vars => Debts'
<1> SUFFICES ASSUME LocalScans, IInv, Ownership, Purges, Debts, [Next]_vars PROVE Debts'
  OBVIOUS
<1>0. TypeOK /\ Flow /\ DocumentLock
  BY DEF IInv
<1>1. CASE UNCHANGED vars
  BY <1>1 DEF Debts, Clean, OwnedBy, NoFiles, Debt, Destroying, InHook, vars, storeVars,
              guestVars, ghostVars
<1>2. CASE Garble
  <2>1. /\ doc.there /\ doc' = Garbled(doc.gen) /\ copies' = copies /\ pc' = pc /\ job' = job
        /\ cfg' = cfg /\ gen' = gen /\ created' = created /\ existing' = existing
        /\ missed' = missed
    BY <1>2 DEF Garble, guestVars
  <2>2. doc'.gen = doc.gen
    BY <2>1 DEF Garbled
  <2>3. ~NoFiles
    BY <2>1, NoJobFields DEF NoFiles
  <2>4. Clean => Clean'
    BY <2>1, <2>2, <2>3 DEF Clean, OwnedBy
  <2>5. \A p \in Procs : Debt(p) => Debt(p)'
    BY <2>1 DEF Debt, Destroying, InHook
  <2> QED
    BY <2>1, <2>4, <2>5 DEF Debts
<1>3. ASSUME NEW p \in Procs, Acts(p) PROVE Debts'
  <2>0. /\ Mine(p) /\ Trail(p)
    BY DEF Ownership, Mine
  <2>1. CASE HookSweep(p) \/ PurgeCopies(p)
    BY <2>1, SweepCleans DEF Debts
  <2>2. CASE ~HookSweep(p) /\ ~PurgeCopies(p)
    <3>1. missed => missed'
      BY <1>3, <2>2, MissedStays
    <3> SUFFICES ASSUME ~missed, ~missed' PROVE Clean' \/ \E q \in Procs : Debt(q)'
      BY <3>1 DEF Debts
    <3>2. ASSUME NEW q \in Procs, Debt(q) PROVE Debt(q)'
      <4>1. CASE q = p
        BY <1>0, <1>3, <2>2, <3>2, <4>1, OwnDebt
      <4>2. CASE q # p
        BY <1>0, <1>3, <2>2, <3>2, <4>2, OthersDebt
      <4> QED
        BY <4>1, <4>2
    <3>3. ASSUME Clean PROVE Clean' \/ Debt(p)'
      <4>1. CASE cfg'.alive = cfg.alive /\ gen' = gen
        BY <1>0, <1>3, <3>3, <4>1, CleanStays
      <4>2. CASE Unlink(p)
        BY <1>0, <4>2, UnlinkMove DEF Debt, Destroying, InHook
      <4>3. CASE WriteConfigFile(p) /\ First(p)
        <5>1. job[p].next = "mark"
          BY <4>3 DEF First
        <5>2. \/ pc'[p] = "hookwait" /\ job'[p].after = "mark"
              \/ pc'[p] = "mark" /\ job'[p].allow
          BY <1>0, <4>3, <5>1, FileMove DEF Kept
        <5> QED
          BY <5>2 DEF Debt, InHook
      <4>4. CASE WriteConfigFile(p) /\ cfg' = job[p].conf /\ gen' = gen /\ cfg.alive
        <5>1. Config(p)
          BY <4>4 DEF WriteConfigFile, Config
        <5>2. job[p].conf.alive = TRUE /\ cfg.alive = TRUE
          <6>1. job[p].conf.alive
            BY <2>0, <5>1 DEF Mine, Conforms
          <6>2. job[p].conf.alive \in BOOLEAN /\ cfg.alive \in BOOLEAN
            BY <1>0 DEF TypeOK, Job, Conf
          <6> QED
            BY <4>4, <6>1, <6>2
        <5> QED
          BY <4>1, <4>4, <5>2
      <4>5. CASE gen' = gen /\ cfg.alive /\ cfg'.alive
        <5>1. cfg.alive = TRUE /\ cfg'.alive = TRUE
          <6>1. TypeOK'
            BY <1>0, TypeStep
          <6>2. cfg'.alive \in BOOLEAN /\ cfg.alive \in BOOLEAN
            BY <1>0, <6>1 DEF TypeOK, Conf
          <6> QED
            BY <4>5, <6>2
        <5> QED
          BY <4>1, <4>5, <5>1
      <4> QED
        BY <1>0, <1>3, <4>1, <4>2, <4>3, <4>4, <4>5, ConfigChanges
    <3> QED
      BY <3>2, <3>3 DEF Debts
  <2> QED
    BY <2>1, <2>2
<1> QED
  BY <1>1, <1>2, <1>3 DEF Next, Acts

(* Everything stored is clean or owed, in every reachable state.           *)
THEOREM AlwaysDebts ==
  ASSUME LocalScans PROVE Spec => [](Purges /\ Debts)
<1>1. Init => Purges /\ Debts
  <2> SUFFICES ASSUME Init PROVE Purges /\ Debts
    OBVIOUS
  <2>1. /\ \A p \in Procs : pc[p] = "idle"
        /\ doc = Absent /\ copies = NoCopies /\ cfg = NoConf
    BY DEF Init, StoreInit
  <2>2. Clean
    BY <2>1, NoJobFields DEF Clean, NoFiles
  <2> QED
    BY <2>1, <2>2 DEF Purges, Purging, Debts, InHook
<1>2. IInv /\ Ownership /\ Purges /\ Debts /\ [Next]_vars => Purges' /\ Debts'
  BY PurgesStep, DebtsStep
<1> QED
  BY <1>1, <1>2, AlwaysIInv, AlwaysOwnership, PTL DEF Spec

(* In a settled state nobody is in debt.                                   *)
LEMMA SettledClean ==
  ASSUME Flow, Ownership, Debts, Settled, ~missed PROVE Clean
<1>1. \A p \in Procs : ~Debt(p)
  BY DebtOp DEF Settled, Running
<1> QED
  BY <1>1 DEF Debts

(* Whatever is stored for a guest whose create is over was written for     *)
(* that guest, whatever destroy hooks before it were missed.               *)
THEOREM FilesBelongToTheGuest ==
  ASSUME LocalScans PROVE Spec => []SettledGuestOwnsItsFiles
<1>1. IInv /\ Ownership /\ Debts => SettledGuestOwnsItsFiles
  <2> SUFFICES ASSUME IInv, Ownership, Debts, cfg.alive, ~missed, Settled
               PROVE  \A f \in {doc} \cup {copies[s] : s \in Snaps} : f.there => f.gen = gen
    BY DEF SettledGuestOwnsItsFiles
  <2>1. OwnedBy(gen)
    BY SettledClean DEF Clean, IInv
  <2> QED
    BY <2>1 DEF OwnedBy
<1> QED
  BY <1>1, AlwaysIInv, AlwaysOwnership, AlwaysDebts, PTL

(* A destroyed guest leaves no document and no copy: a write in flight     *)
(* when its configuration went landed before the destroy hook.             *)
THEOREM DestroyedGuestsLeaveNothing ==
  ASSUME LocalScans PROVE Spec => []DeadGuestLeavesNothing
<1>1. IInv /\ Ownership /\ Debts => DeadGuestLeavesNothing
  <2> SUFFICES ASSUME IInv, Ownership, Debts, ~cfg.alive, ~missed, Settled
               PROVE  doc = Absent /\ copies = NoCopies
    BY DEF DeadGuestLeavesNothing
  <2>1. NoFiles
    BY SettledClean DEF Clean, IInv
  <2> QED
    BY <2>1 DEF NoFiles
<1> QED
  BY <1>1, AlwaysIInv, AlwaysOwnership, AlwaysDebts, PTL

-----------------------------------------------------------------------------
(* On one node: what on_destroy removes.                                   *)

(* Nothing was written for an incarnation still to come.                   *)
Dated ==
  /\ doc.gen <= gen
  /\ \A s \in Snaps : copies[s].gen <= gen
  /\ \A p \in Procs : pc[p] \in {"read", "write"} => job[p].for <= gen

(* `rm' saw the guest gone; if one came since, the document is older.  The *)
(* destroy hook keeps the next create out with its guest lock.             *)
Spares(p) ==
  /\ pc[p] = "purge" => ~cfg.alive \/ doc.gen < gen
  /\ Destroying(p) => ~cfg.alive

Spared == \A p \in Procs : Spares(p)

LEMMA DatedStep ==
  LocalScans /\ IInv /\ Ownership /\ Dated /\ [Next]_vars => Dated'
<1> SUFFICES ASSUME LocalScans, IInv, Ownership, Dated, [Next]_vars PROVE Dated'
  OBVIOUS
<1>0. /\ TypeOK /\ Flow /\ gen \in Nat /\ doc \in File /\ copies \in [Snaps -> File]
      /\ job \in [Procs -> Job]
  BY DEF IInv, TypeOK, StoreTypeOK
<1>1. CASE UNCHANGED vars
  BY <1>1 DEF Dated, vars, storeVars, guestVars
<1>2. CASE Garble
  <2>1. doc'.gen = doc.gen
    BY <1>2 DEF Garble, Garbled
  <2> QED
    BY <1>2, <2>1 DEF Garble, Dated, guestVars
<1>3. ASSUME NEW p \in Procs, Acts(p) PROVE Dated'
  <2>0. Mine(p) /\ Trail(p) /\ \A q \in Procs \ {p} : pc'[q] = pc[q] /\ job'[q] = job[q]
    BY <1>0, <1>3, StepShape DEF Ownership, Mine
  <2>1. gen' \in {gen, gen + 1}
    BY <1>0, <1>3, ConfigChanges
  <2>2. \A n \in Nat : n <= gen => n <= gen'
    BY <1>0, <2>1
  <2>3. /\ doc.gen \in Nat /\ Absent.gen = 0 /\ \A s \in Snaps : copies[s].gen \in Nat
        /\ \A q \in Procs : job[q].for \in Nat
    BY <1>0, NoJobFields DEF File, Job
  <2>4. pc[p] = "hook" /\ job[p].hook = "install" => job[p].for = gen
    <3> SUFFICES ASSUME pc[p] = "hook", job[p].hook = "install" PROVE job[p].for = gen
      OBVIOUS
    <3>1. Scanning(p)
      BY <2>0 DEF Trail, Scanning, InHook
    <3> QED
      BY <2>0, <3>1 DEF Mine, Scans
  <2>5. doc'.gen \in Nat /\ doc'.gen <= gen
    BY <1>0, <1>3, <2>0, <2>3, <2>4, StoreStep DEF Dated
  <2>6. ASSUME NEW s \in Snaps PROVE copies'[s].gen \in Nat /\ copies'[s].gen <= gen
    <3>1. CASE copies' = copies
      BY <2>3, <3>1 DEF Dated
    <3>2. CASE copies' = NoCopies
      BY <1>0, <2>3, <3>2 DEF NoCopies
    <3>3. CASE \E t \in Snaps : doc.there /\ copies' = [copies EXCEPT ![t] = doc]
      BY <1>0, <2>3, <3>3 DEF Dated
    <3>4. CASE \E t \in Snaps : copies' = [copies EXCEPT ![t] = Absent]
      BY <1>0, <2>3, <3>4 DEF Dated
    <3> QED
      BY <1>0, <1>3, <2>0, <3>1, <3>2, <3>3, <3>4, StoreStep
  <2>7. ASSUME NEW q \in Procs, pc'[q] \in {"read", "write"} PROVE job'[q].for <= gen'
    <3>1. CASE q = p
      <4>1. job'[p].for = gen \/ (pc[p] = "read" /\ job'[p].for = job[p].for)
        BY <1>0, <1>3, <2>0, <2>7, <3>1, ForStep
      <4> QED
        BY <1>0, <2>2, <2>3, <3>1, <4>1 DEF Dated
    <3>2. CASE q # p
      BY <2>0, <2>2, <2>3, <2>7, <3>2 DEF Dated
    <3> QED
      BY <3>1, <3>2
  <2> QED
    BY <2>2, <2>5, <2>6, <2>7 DEF Dated
<1> QED
  BY <1>1, <1>2, <1>3 DEF Next, Acts

(* A destroy hook starts with the configuration gone.                      *)
LEMMA DestroyingStep ==
  ASSUME LocalScans, TypeOK, Flow, NEW p \in Procs, Trail(p), Acts(p), Destroying(p)'
  PROVE  Unlink(p) \/ (Destroying(p) /\ cfg' = cfg)
<1>1. pc'[p] \in InHook /\ job'[p].hook = "destroy"
  BY DEF Destroying
<1> USE DEF InHook, guestVars
<1>2. CASE Api(p)
  BY <1>1, <1>2, ApiMove
<1>3. CASE Task(p)
  <2>1. CASE \/ BeginSet(p) \/ BeginCreate(p) \/ BeginDestroy(p)
             \/ BeginSnapshot(p) \/ BeginRollback(p) \/ BeginDelsnap(p)
    BY <1>1, <2>1, BeginMove DEF Begins
  <2>2. CASE BeginScan(p)
    BY <1>1, <2>2, ScanMove
  <2>3. CASE WriteConfig(p)
    BY <1>1, <2>3, ConfigMove
  <2>4. CASE WriteConfigFile(p)
    BY <1>1, <2>4, FileMove
  <2>5. CASE CreateConflict(p) \/ WriteScanned(p)
    BY <1>1, <2>5, FinishMove DEF CreateConflict, WriteScanned
  <2>6. CASE MarkCreated(p)
    BY <1>1, <2>6 DEF MarkCreated, Goto, TypeOK
  <2>7. CASE BuildWrite(p) \/ AbortCreate(p)
    BY <1>1, <2>7, BuildMove, AbortMove
  <2> QED
    BY <1>3, <2>1, <2>2, <2>3, <2>4, <2>5, <2>6, <2>7 DEF Task
<1>4. CASE Hook(p)
  <2>e. ~Ends(p) /\ ~GoesOn(p)
    BY <1>1 DEF Ends, GoesOn
  <2>1. CASE HookAcquire(p) \/ HookPurge(p) \/ HookImport(p)
    BY <1>1, <2>1, QuietHook DEF Destroying
  <2>2. CASE HookMiss(p)
    BY <2>2, <2>e, MissMove
  <2>3. CASE HookImportFails(p)
    BY <2>3, <2>e, ImportFailsMove
  <2>4. CASE HookSweep(p)
    BY <2>4, <2>e, SweepMove
  <2>5. CASE HookInstall(p)
    BY <2>5, <2>e, InstallMove
  <2>6. CASE HookTrio(p)
    BY <1>1, <2>6, FinishMove DEF HookTrio
  <2> QED
    BY <1>4, <2>1, <2>2, <2>3, <2>4, <2>5, <2>6 DEF Hook
<1>5. CASE Die(p)
  BY <1>1, <1>5, FinishMove DEF Die
<1> QED
  BY <1>2, <1>3, <1>4, <1>5 DEF Acts

(* `rm' starts to purge with the guest gone.                               *)
LEMMA PurgeBegins ==
  ASSUME TypeOK, NEW p \in Procs, Trail(p), Acts(p), pc'[p] = "purge"
  PROVE  ~cfg.alive /\ cfg' = cfg
<1>0. pc \in [Procs -> Labels] /\ job[p].after # "purge"
  BY DEF TypeOK, Job, AfterHook
<1>1. CASE Api(p)
  <2>1. CheckGuest(p)
    BY <1>0, <1>1 DEF Api, Request, Remove, Acquire, LockTimeout, Refuse, ReadDocument,
           WriteDocument, PurgeDocument, PurgeCopies, Goto, Finish
  <2> QED
    BY <1>0, <2>1 DEF CheckGuest, Goto, guestVars
<1>2. CASE Task(p)
  <2>1. job[p].next # "purge"
    BY DEF TypeOK, Job, AfterWrite
  <2> QED
    BY <1>0, <1>2, <2>1 DEF Task, BeginSet, BeginCreate, BeginDestroy, BeginSnapshot, BeginRollback,
           BeginDelsnap, Begin, BeginScan, WriteConfig, WriteConfigFile, CreateConflict,
           MarkCreated, BuildWrite, AbortCreate, Unlink, WriteScanned, Goto, Finish
<1>3. CASE Hook(p)
  BY <1>0, <1>3 DEF Hook, HookAcquire, HookMiss, HookPurge, HookImport, HookImportFails,
         HookSweep, HookInstall, HookTrio, Resume, Goto, Finish
<1>4. CASE Die(p)
  BY <1>4, FinishMove DEF Die
<1> QED
  BY <1>1, <1>2, <1>3, <1>4 DEF Acts

LEMMA SparedStep ==
  OneNode /\ IInv /\ Ownership /\ Dated /\ Spared /\ [Next]_vars => Spared'
<1> SUFFICES ASSUME OneNode, IInv, Ownership, Dated, Spared, [Next]_vars PROVE Spared'
  OBVIOUS
<1>0. TypeOK /\ Flow /\ DocumentLock /\ LocalScans /\ gen \in Nat /\ doc.gen \in Nat
  BY DEF IInv, LocalScans, TypeOK, StoreTypeOK, File
<1>1. CASE UNCHANGED vars
  BY <1>1 DEF Spared, Spares, Destroying, InHook, vars, storeVars, guestVars
<1>2. CASE Garble
  <2>1. doc'.gen = doc.gen
    BY <1>2 DEF Garble, Garbled
  <2> QED
    BY <1>2, <2>1 DEF Garble, Spared, Spares, Destroying, InHook, guestVars
<1>3. ASSUME NEW p \in Procs, Acts(p) PROVE Spared'
  <2>0. Mine(p) /\ Trail(p) /\ Spares(p) /\ job[p].node \in Nodes
    BY <1>0 DEF Ownership, Mine, Spared, TypeOK, Job
  <2>1. Spares(p)'
    <3>1. Destroying(p)' => ~cfg'.alive
      <4>1. CASE Unlink(p)
        BY <1>0, <4>1, UnlinkMove, NoJobFields
      <4>2. CASE Destroying(p) /\ cfg' = cfg
        BY <2>0, <4>2 DEF Spares
      <4> QED
        BY <1>0, <1>3, <2>0, <4>1, <4>2, DestroyingStep
    <3>2. pc'[p] = "purge" => ~cfg'.alive
      BY <1>0, <1>3, <2>0, PurgeBegins
    <3> QED
      BY <3>1, <3>2 DEF Spares
  <2>2. ASSUME NEW q \in Procs \ {p} PROVE Spares(q)'
    <3>0. Mine(q) /\ Spares(q) /\ pc'[q] = pc[q] /\ job'[q] = job[q] /\ job[q].node \in Nodes
      BY <1>0, <1>3, StepShape DEF Ownership, Spared, TypeOK, Job
    <3>1. ASSUME pc[q] = "purge" PROVE ~cfg'.alive \/ doc'.gen < gen'
      <4>1. doc' = doc
        <5>1. lock = q
          BY <1>0, <3>1 DEF DocumentLock, Locked
        <5> QED
          BY <1>0, <1>3, <5>1, StepShape DEF DocumentLock
      <4>2. \/ gen' = gen /\ (cfg'.alive => cfg.alive)
            \/ gen' = gen + 1
        BY <1>0, <1>3, ConfigChanges
      <4> QED
        BY <1>0, <3>0, <3>1, <4>1, <4>2 DEF Spares, Dated
    <3>2. ASSUME Destroying(q) PROVE ~cfg'.alive
      <4>1. ~Writing(p)
        <5>1. glock[job[q].node] = q /\ job[p].node = job[q].node
          BY <2>0, <3>0, <3>2 DEF Mine, OneNode
        <5> QED
          BY <2>0, <5>1 DEF Mine
      <4>2. ~WriteConfigFile(p) /\ ~WriteScanned(p)
        BY <4>1 DEF WriteConfigFile, WriteScanned, Writing, Config, Scanning
      <4>3. ~cfg.alive
        BY <3>0, <3>2 DEF Spares
      <4> QED
        BY <1>0, <1>3, <4>2, <4>3, ConfigChanges
    <3> QED
      BY <3>0, <3>1, <3>2 DEF Spares, Destroying, InHook
  <2> QED
    BY <2>1, <2>2 DEF Spared
<1> QED
  BY <1>1, <1>2, <1>3 DEF Next, Acts

(* On one node, neither the destroy hook nor `pve-meta rm' removes the     *)
(* document of a guest that is there.                                      *)
THEOREM PurgesAreOfTheDead ==
  ASSUME OneNode PROVE Spec => []PurgeSparesTheLiving
<1>0. LocalScans
  BY DEF LocalScans
<1>1. Init => Dated /\ Spared
  <2> SUFFICES ASSUME Init PROVE Dated /\ Spared
    OBVIOUS
  <2>1. /\ \A p \in Procs : pc[p] = "idle"
        /\ doc = Absent /\ gen = 0 /\ \A s \in Snaps : copies[s] = Absent
    BY DEF Init, StoreInit, NoCopies
  <2> QED
    BY <2>1, NoJobFields DEF Dated, Spared, Spares, Destroying, InHook
<1>2. IInv /\ Ownership /\ Dated /\ Spared /\ [Next]_vars => Dated' /\ Spared'
  BY <1>0, DatedStep, SparedStep
<1>3. IInv /\ Spared => PurgeSparesTheLiving
  <2> SUFFICES ASSUME IInv, Spared, NEW p \in Procs,
                      pc[p] = "purge" \/ (pc[p] = "hook" /\ job[p].hook = "destroy"),
                      cfg.alive, doc.gen = gen
               PROVE  FALSE
    BY DEF PurgeSparesTheLiving
  <2>1. gen \in Nat
    BY DEF IInv, TypeOK
  <2> QED
    BY <2>1 DEF Spared, Spares, Destroying, InHook
<1>4. Spec => []Ownership
  BY <1>0, AlwaysOwnership
<1> QED
  BY <1>1, <1>2, <1>3, <1>4, AlwaysIInv, PTL DEF Spec

-----------------------------------------------------------------------------
(* On one node: which notes block a marker lets in.                        *)

(* A block that came with a backup.                                        *)
Genuine(b) == b.there => b.gen # 0

(* The blocks of a create or restore are its backup's; a scan writes none. *)
Restores(p) ==
  /\ Building(p) \/ First(p) => Genuine(job[p].block)
  /\ Building(p) /\ Config(p) => Genuine(job[p].conf.block)
  /\ pc[p] = "built" => Genuine(cfg.block)
  /\ pc[p] = "scanned" => ~job[p].conf.block.there

(* Any other config write unlocks; one whose hook runs took the marker;    *)
(* one that would import a block before taking it is `qm unlock' after a   *)
(* create that died.                                                       *)
Takes(p) ==
  /\ Config(p) /\ job[p].op # "create" => ~job[p].conf.locked
  /\ Config(p) /\ pc[p] \in InHook => job[p].node \notin created
  /\ pc[p] = "config" /\ ~Building(p) /\ job[p].conf.block.there /\ job[p].node \in created
       => missed

(* The marker of a locked guest is that of a create under way, or of one   *)
(* that died.                                                              *)
MarkerOwned ==
  ~missed /\ cfg.alive /\ cfg.locked /\ cfg.node \in created =>
    \E p \in Procs : Building(p) \/ pc[p] = "unlink"

Blocks == MarkerOwned /\ \A p \in Procs : Restores(p) /\ Takes(p)

(* A config write is begun by a task that takes the guest lock, or is the  *)
(* next write of a create.                                                 *)
LEMMA ConfigBegins ==
  ASSUME LocalScans, TypeOK, Flow, NEW p \in Procs, Trail(p), Acts(p), pc'[p] = "config"
  PROVE  BuildWrite(p) \/ \E n \in Nodes : Begins(p, n)
<1>1. CASE Api(p)
  BY <1>1, ApiMove
<1>2. CASE Task(p)
  <2>1. CASE \/ BeginSet(p) \/ BeginCreate(p) \/ BeginDestroy(p)
             \/ BeginSnapshot(p) \/ BeginRollback(p) \/ BeginDelsnap(p)
    BY <2>1, BeginMove
  <2>2. CASE BeginScan(p)
    BY <2>2, ScanMove
  <2>3. CASE WriteConfig(p)
    BY <2>3, ConfigMove
  <2>4. CASE WriteConfigFile(p)
    BY <2>4, FileMove
  <2>5. CASE CreateConflict(p) \/ WriteScanned(p)
    BY <2>5, FinishMove DEF CreateConflict, WriteScanned
  <2>6. CASE MarkCreated(p)
    BY <2>6 DEF MarkCreated, Goto, TypeOK
  <2>7. CASE AbortCreate(p) \/ Unlink(p)
    BY <2>7, AbortMove, UnlinkMove
  <2> QED
    BY <1>2, <2>1, <2>2, <2>3, <2>4, <2>5, <2>6, <2>7 DEF Task
<1>3. CASE Hook(p)
  <2>0. pc \in [Procs -> Labels] /\ job[p].after # "config"
    BY DEF TypeOK, Job, AfterHook
  <2> QED
    BY <1>3, <2>0 DEF Hook, HookAcquire, HookMiss, HookPurge, HookImport, HookImportFails,
           HookSweep, HookInstall, HookTrio, Resume, Goto, Finish
<1>4. CASE Die(p)
  BY <1>4, FinishMove DEF Die
<1> QED
  BY <1>1, <1>2, <1>3, <1>4 DEF Acts

LEMMA RestoresOwn ==
  ASSUME LocalScans, TypeOK, Flow, Ownership, NEW p \in Procs, Restores(p), Acts(p)
  PROVE  Restores(p)'
<1>0. Mine(p) /\ Trail(p) /\ FlowOf(p) /\ pc \in [Procs -> Labels]
  BY DEF Ownership, Mine, Flow, TypeOK
<1>g. Genuine(Absent)
  BY NoJobFields DEF Genuine
<1> USE DEF InHook
<1>a. ASSUME ~Building(p)', ~First(p)', pc'[p] \notin {"built", "scanned"} PROVE Restores(p)'
  BY <1>a DEF Restores
<1>b. ASSUME pc'[p] \in {"idle", "want", "check", "read", "write", "purge", "sweep", "unlink"}
      PROVE  Restores(p)'
  BY <1>a, <1>b DEF Building, First, Config
<1>1. CASE Api(p)
  BY <1>1, <1>b, ApiMove
<1>2. CASE Task(p)
  <2>1. CASE \/ BeginSet(p) \/ BeginCreate(p) \/ BeginDestroy(p)
             \/ BeginSnapshot(p) \/ BeginRollback(p) \/ BeginDelsnap(p)
    <3>1. PICK n \in Nodes : Begins(p, n)
      BY <2>1, BeginMove
    <3>2. ~Building(p)' /\ pc'[p] \in {"config", "unlink"}
      BY <3>1, BeginStep DEF Begins
    <3>3. First(p)' => Genuine(job'[p].block)
      BY <3>1 DEF First, Config, Begins, Genuine
    <3> QED
      BY <3>2, <3>3 DEF Restores
  <2>2. CASE BeginScan(p)
    BY <1>a, <2>2, ScanMove DEF Building, First, Config
  <2>3. CASE WriteConfig(p)
    <3>1. /\ pc[p] = "config" /\ Kept(p) /\ job'[p].conf = job[p].conf /\ job'[p].after = "file"
          /\ pc'[p] \in {"file", "hookwait"}
      BY <2>3, ConfigMove
    <3>2. /\ Building(p)' = Building(p) /\ First(p)' = First(p) /\ Config(p)
          /\ pc'[p] \notin {"built", "scanned"}
      BY <3>1 DEF Building, First, Config, Kept
    <3> QED
      BY <3>1, <3>2 DEF Restores, Kept
  <2>4. CASE WriteConfigFile(p)
    <3>1. pc[p] = "file" /\ cfg' = job[p].conf
      BY <2>4 DEF WriteConfigFile
    <3>2. Config(p)
      BY <3>1 DEF Config
    <3>3. CASE job[p].next = "idle" \/ job[p].next = "hookwait"
      <4>1. \/ pc'[p] = "idle"
            \/ pc'[p] = "hookwait" /\ job'[p].after = "idle"
        BY <2>4, <3>3, FileMove
      <4> QED
        BY <1>a, <4>1 DEF Building, First, Config
    <3>4. CASE job[p].next = "mark"
      <4>1. \/ pc'[p] = "hookwait" /\ job'[p].after = "mark" /\ Kept(p)
            \/ pc'[p] = "mark" /\ Kept(p)
        BY <2>4, <3>4, FileMove
      <4>2. First(p) /\ ~Config(p)'
        BY <3>2, <3>4, <4>1 DEF First, Config
      <4> QED
        BY <4>1, <4>2 DEF Restores, Kept
    <3>5. CASE job[p].next \in {"build", "built"}
      <4>1. Kept(p) /\ pc'[p] = job[p].next
        BY <2>4, <3>5, FileMove
      <4>2. Building(p) /\ ~Config(p)'
        BY <1>0, <3>2, <3>5, <4>1 DEF Building, Config, FlowOf
      <4> QED
        BY <3>1, <3>2, <3>5, <4>1, <4>2 DEF Restores, Kept
    <3> QED
      BY <2>4, <3>3, <3>4, <3>5, FileMove
  <2>5. CASE CreateConflict(p) \/ WriteScanned(p)
    BY <1>b, <2>5, FinishMove DEF CreateConflict, WriteScanned
  <2>6. CASE MarkCreated(p)
    <3>1. pc[p] = "mark" /\ pc'[p] = "build" /\ job'[p] = job[p]
      BY <1>0, <2>6 DEF MarkCreated, Goto
    <3> QED
      BY <3>1 DEF Restores, Building, First, Config
  <2>7. CASE BuildWrite(p)
    <3>1. /\ pc[p] \in {"build", "built"} /\ pc'[p] = "config" /\ job'[p].block = job[p].block
          /\ \/ job'[p].conf.block = Absent \/ job'[p].conf.block = job[p].block
             \/ pc[p] = "built" /\ job'[p].conf.block = cfg.block
      BY <2>7, BuildMove
    <3>2. Building(p)
      BY <3>1 DEF Building
    <3> QED
      BY <1>g, <3>1, <3>2 DEF Restores
  <2>8. CASE AbortCreate(p)
    BY <1>b, <2>8, AbortMove
  <2>9. CASE Unlink(p)
    BY <1>a, <2>9, UnlinkMove DEF Building, First, Config
  <2> QED
    BY <1>2, <2>1, <2>2, <2>3, <2>4, <2>5, <2>6, <2>7, <2>8, <2>9 DEF Task
<1>3. CASE Hook(p)
  <2>e. ASSUME Ends(p) PROVE Restores(p)'
    BY <1>b, <2>e DEF Ends
  <2>g. ASSUME GoesOn(p), pc[p] \in InHook,
               job[p].hook = "install" => job'[p].conf.block = Absent
        PROVE  Restores(p)'
    <3>1. /\ job[p].after \in {"file", "mark", "scanned"} /\ pc'[p] = job[p].after
          /\ job'[p].after = job[p].after /\ Kept(p)
          /\ job'[p].conf.block \in {job[p].conf.block, Absent}
          /\ job[p].after = "scanned" => job[p].hook = "install"
      BY <1>0, <2>g DEF GoesOn, Trail
    <3>2. /\ Building(p)' = Building(p) /\ First(p)' = First(p) /\ Config(p)' = Config(p)
          /\ pc'[p] # "built"
      BY <2>g, <3>1 DEF Building, First, Config, Kept
    <3> QED
      BY <1>g, <2>g, <3>1, <3>2, NoJobFields DEF Restores, Kept
  <2>1. CASE HookAcquire(p) \/ HookPurge(p) \/ HookImport(p)
    <3>1. pc[p] \in InHook /\ pc'[p] \in InHook /\ job'[p] = job[p]
      BY <2>1, QuietHook
    <3>2. Building(p)' = Building(p) /\ First(p)' = First(p) /\ Config(p)' = Config(p)
      BY <3>1 DEF Building, First, Config
    <3> QED
      BY <3>1, <3>2 DEF Restores
  <2>2. CASE HookMiss(p)
    BY <2>2, <2>e, <2>g, MissMove
  <2>3. CASE HookImportFails(p)
    BY <1>0, <2>3, <2>e, <2>g, ImportFailsMove
  <2>4. CASE HookSweep(p)
    BY <1>0, <2>4, <2>e, <2>g, SweepMove DEF Trail
  <2>5. CASE HookInstall(p)
    BY <1>0, <2>5, <2>g, InstallMove
  <2>6. CASE HookTrio(p)
    BY <1>b, <2>6, FinishMove DEF HookTrio
  <2> QED
    BY <1>3, <2>1, <2>2, <2>3, <2>4, <2>5, <2>6 DEF Hook
<1>4. CASE Die(p)
  BY <1>4, <1>b, FinishMove DEF Die
<1> QED
  BY <1>1, <1>2, <1>3, <1>4 DEF Acts

(* On one node nobody but a scan is about to write beside a create.        *)
LEMMA AloneOnOneNode ==
  ASSUME OneNode, TypeOK, Ownership, NEW p \in Procs, NEW q \in Procs, p # q, Writing(p)
  PROVE  /\ Building(q) => job[p].op = "scan"
         /\ ~Writing(q)
<1>0. Mine(p) /\ Mine(q) /\ Apart(p, q) /\ job[p].node = job[q].node
  BY DEF Ownership, TypeOK, Job, OneNode
<1> QED
  BY <1>0 DEF Apart, Mine

LEMMA RestoresOthers ==
  ASSUME OneNode, TypeOK, Flow, Ownership, NEW p \in Procs, Restores(p), Acts(p),
         NEW q \in Procs \ {p}, Restores(q)
  PROVE  Restores(q)'
<1>0. LocalScans /\ pc'[q] = pc[q] /\ job'[q] = job[q] /\ Trail(p)
  BY StepShape DEF LocalScans, Ownership, Mine
<1>1. ASSUME pc[q] = "built", cfg' # cfg PROVE Genuine(cfg'.block)
  <2>1. Building(q)
    BY <1>1 DEF Building
  <2>2. Writing(p) => job[p].op = "scan"
    BY <2>1, AloneOnOneNode
  <2>3. ~WriteConfigFile(p) /\ ~Unlink(p)
    BY <1>0, <2>2 DEF WriteConfigFile, Unlink, Writing, Config, Trail
  <2>4. WriteScanned(p)
    BY <1>1, <2>3, ConfigSteps
  <2> QED
    BY <2>4 DEF WriteScanned, Restores, Genuine
<1> QED
  BY <1>0, <1>1 DEF Restores, Building, First, Config, InHook

(* The end of a purge on one node leaves no marker, unless it is that of a *)
(* plain create's own hook.                                                *)
LEMMA SweepUnmarks ==
  ASSUME OneNode, TypeOK, Flow, Ownership, NEW p \in Procs, Takes(p),
         HookSweep(p) \/ PurgeCopies(p)
  PROVE  \/ created' = {}
         \/ Building(p) /\ Building(p)'
<1>0. /\ Trail(p) /\ job[p].node \in Nodes /\ created \subseteq Nodes
      /\ \A n \in Nodes : n = job[p].node
  BY DEF Ownership, Mine, TypeOK, Job, OneNode
<1>1. CASE PurgeCopies(p)
  <2>1. created' = created \ {job[p].node}
    BY <1>1 DEF PurgeCopies
  <2> QED
    BY <1>0, <2>1
<1>2. CASE HookSweep(p)
  <2>1. /\ pc[p] = "hooksweep"
        /\ created' = IF job[p].hook = "destroy" THEN created \ {job[p].node} ELSE created
        /\ (job[p].after = "idle" /\ Ends(p)) \/ GoesOn(p)
    BY <1>2, SweepMove
  <2>2. CASE job[p].hook = "destroy"
    BY <1>0, <2>1, <2>2
  <2>3. CASE job[p].hook # "destroy" /\ job[p].after = "file"
    <3>1. Config(p) /\ pc[p] \in InHook
      BY <2>1, <2>3 DEF Config, InHook
    <3>2. job[p].node \notin created
      BY <3>1 DEF Takes
    <3> QED
      BY <1>0, <2>1, <2>3, <3>2
  <2>4. CASE job[p].hook # "destroy" /\ job[p].after = "mark"
    <3>1. pc'[p] = "mark"
      BY <2>1, <2>4 DEF GoesOn, Ends
    <3> QED
      BY <2>1, <2>4, <3>1 DEF Building, InHook
  <2> QED
    BY <1>0, <2>1, <2>2, <2>3, <2>4 DEF Trail, InHook
<1> QED
  BY <1>1, <1>2

LEMMA TakesOwn ==
  ASSUME OneNode, TypeOK, Flow, Ownership, Markers, MarkerOwned, NEW p \in Procs, Takes(p), Acts(p)
  PROVE  Takes(p)'
<1>0. LocalScans /\ Mine(p) /\ Trail(p) /\ FlowOf(p)
  BY DEF LocalScans, Ownership, Mine, Flow
<1>1. ASSUME PastMarker(p)' PROVE Takes(p)'
  <2>1. CASE WriteConfig(p)
    <3>1. /\ pc[p] = "config" /\ Kept(p) /\ job'[p].conf = job[p].conf
          /\ \/ pc'[p] = "file"
             \/ /\ pc'[p] = "hookwait" /\ TakesMarker(job[p].conf)
                /\ created' = created \ {job[p].conf.node}
      BY <2>1, ConfigMove
    <3>2. Config(p) /\ job[p].conf.node = job[p].node
      BY <1>0, <3>1 DEF Config, Mine, Conforms
    <3> QED
      BY <3>1, <3>2 DEF Takes, Kept, InHook
  <2>2. CASE /\ PastMarker(p) /\ pc[p] \in InHook /\ Kept(p)
             /\ job'[p].conf.locked = job[p].conf.locked
    <3>1. Config(p) /\ pc'[p] # "config"
      BY <1>1, <2>2 DEF PastMarker
    <3>2. created' \subseteq created
      BY <1>0, <2>2, MarkerSteps DEF MarkCreated, InHook
    <3> QED
      BY <2>2, <3>1, <3>2 DEF Takes, Kept
  <2> QED
    BY <1>0, <1>1, <2>1, <2>2, PastMarkerStep
<1>2. ASSUME pc'[p] = "config" PROVE Takes(p)'
  <2>1. CASE BuildWrite(p)
    <3>1. pc[p] \in {"build", "built"} /\ job'[p].op = job[p].op
          /\ job'[p].next \in {"build", "built", "idle"}
      BY <2>1, BuildMove
    <3>2. job'[p].op = "create" /\ Building(p)'
      BY <1>0, <1>2, <3>1 DEF FlowOf, Building, Config
    <3> QED
      BY <1>2, <3>2 DEF Takes, InHook
  <2>2. ASSUME NEW n \in Nodes, Begins(p, n) PROVE Takes(p)'
    <3>1. created' = created /\ missed' = missed /\ job'[p].node = n
      BY <2>2 DEF Begins, guestVars, ghostVars
    <3>2. Editable(n) => n \notin created
      BY DEF Editable, Markers
    <3>3. ASSUME cfg.locked, cfg.alive, cfg.node = n, Running(Tasks) = {}, n \in created
          PROVE  missed
      <4> SUFFICES ASSUME NEW q \in Procs, Building(q) \/ pc[q] = "unlink" PROVE FALSE
        BY <3>3 DEF MarkerOwned
      <4>1. FlowOf(q) /\ Trail(q)
        BY DEF Ownership, Mine, Flow
      <4>2. pc[q] # "idle" /\ job[q].op \in {"create", "destroy"}
        BY <4>1 DEF Building, Config, InHook, FlowOf, Trail
      <4> QED
        BY <3>3, <4>2 DEF Running, Tasks
    <3>4. \/ /\ job'[p].op = "create"
             /\ job'[p].conf.block.there => Editable(n)
          \/ job'[p].op # "create" /\ ~job'[p].conf.locked /\ Editable(n)
          \/ /\ job'[p].op # "create" /\ ~job'[p].conf.locked
             /\ cfg.locked /\ cfg.alive /\ cfg.node = n /\ Running(Tasks) = {}
      BY <1>2, <2>2 DEF Begins
    <3> QED
      BY <1>2, <3>1, <3>2, <3>3, <3>4 DEF Takes, InHook
  <2> QED
    BY <1>0, <1>2, <2>1, <2>2, ConfigBegins
<1>3. ASSUME ~Config(p)' PROVE Takes(p)'
  BY <1>3 DEF Takes, Config
<1> QED
  BY <1>1, <1>2, <1>3 DEF PastMarker

LEMMA TakesOthers ==
  ASSUME OneNode, TypeOK, Flow, Ownership, NEW p \in Procs, Takes(p), Acts(p),
         NEW q \in Procs \ {p}, Takes(q)
  PROVE  Takes(q)'
<1>0. /\ LocalScans /\ pc'[q] = pc[q] /\ job'[q] = job[q] /\ Mine(p) /\ Mine(q)
      /\ Config(q)' = Config(q) /\ Building(q)' = Building(q)
  <2>1. pc'[q] = pc[q] /\ job'[q] = job[q]
    BY StepShape
  <2> QED
    BY <2>1 DEF LocalScans, Ownership, Config, Building, InHook
<1>1. CASE ~Config(q)
  BY <1>0, <1>1 DEF Takes, Config
<1>2. CASE Config(q)
  <2>1. Writing(q) /\ job[q].op # "scan"
    BY <1>0, <1>2 DEF Writing, Mine, Trail
  <2>2. ~Building(p)
    BY <2>1, AloneOnOneNode
  <2>3. created' \subseteq created
    BY <1>0, <2>2, MarkerSteps DEF MarkCreated, Building
  <2>4. missed => missed' \/ created' = {}
    BY <2>2, MissedStays, SweepUnmarks
  <2> QED
    BY <1>0, <2>3, <2>4 DEF Takes
<1> QED
  BY <1>1, <1>2

(* A create under way goes on, aborts, dies or ends unlocked.              *)
LEMMA BuildingStep ==
  ASSUME LocalScans, TypeOK, Flow, Ownership, NEW p \in Procs, Acts(p),
         Building(p) \/ pc[p] = "unlink"
  PROVE  Building(p)' \/ pc'[p] = "unlink" \/ missed' \/ ~cfg'.alive \/ ~cfg'.locked
<1>0. /\ Mine(p) /\ Trail(p) /\ FlowOf(p) /\ pc \in [Procs -> Labels]
      /\ job[p].op \in {"create", "destroy"}
  <2>1. Trail(p) /\ FlowOf(p)
    BY DEF Ownership, Mine, Flow
  <2>2. job[p].op \in {"create", "destroy"}
    BY <2>1 DEF Building, Config, InHook, FlowOf, Trail
  <2> QED
    BY <2>1, <2>2 DEF Ownership, TypeOK
<1> USE DEF InHook
<1>1. /\ ~Api(p) /\ pc[p] \notin {"idle", "scanned"}
      /\ pc[p] \in InHook => job[p].hook \in {"purge", "import"} /\ job[p].after \in {"mark", "file"}
  <2>1. pc[p] \notin {"idle", "want", "check", "read", "write", "purge", "sweep", "scanned"}
    BY DEF Building, Config
  <2>2. pc[p] \in InHook => job[p].hook \in {"purge", "import"} /\ job[p].after \in {"mark", "file"}
    BY <1>0 DEF Building, Config, Trail
  <2> QED
    BY <2>1, <2>2, ApiMove DEF Away
<1>2. CASE Die(p)
  BY <1>0, <1>2 DEF Die, Tasks
<1>3. CASE Hook(p)
  <2>g. ASSUME GoesOn(p), pc[p] \in InHook PROVE Building(p)'
    BY <1>1, <2>g DEF GoesOn, Kept, Building, Config
  <2>1. CASE HookAcquire(p) \/ HookPurge(p) \/ HookImport(p)
    <3>1. pc[p] \in InHook /\ pc'[p] \in InHook /\ job'[p] = job[p]
      BY <2>1, QuietHook
    <3> QED
      BY <3>1 DEF Building, Config
  <2>2. CASE HookMiss(p)
    BY <1>1, <2>2, MissMove
  <2>3. CASE HookImportFails(p)
    BY <1>0, <1>1, <2>3, ImportFailsMove
  <2>4. CASE HookSweep(p)
    BY <1>1, <2>4, <2>g, SweepMove
  <2>5. ~HookInstall(p) /\ ~HookTrio(p)
    BY <1>1 DEF HookInstall, HookTrio
  <2> QED
    BY <1>3, <2>1, <2>2, <2>3, <2>4, <2>5 DEF Hook
<1>4. CASE Task(p)
  <2>1. ~(\/ BeginSet(p) \/ BeginCreate(p) \/ BeginDestroy(p) \/ BeginSnapshot(p)
          \/ BeginRollback(p) \/ BeginDelsnap(p) \/ BeginScan(p))
    BY <1>1, BeginMove, ScanMove DEF Begins
  <2>2. CASE Unlink(p)
    BY <2>2, UnlinkMove, NoJobFields
  <2>3. CASE AbortCreate(p)
    BY <2>3, AbortMove
  <2>4. CASE MarkCreated(p)
    BY <1>0, <2>4 DEF MarkCreated, Goto, Building
  <2>5. CASE BuildWrite(p)
    <3>1. pc[p] \in {"build", "built"} /\ pc'[p] = "config" /\ job'[p].op = job[p].op
          /\ job'[p].next \in {"build", "built", "idle"}
      BY <2>5, BuildMove
    <3> QED
      BY <1>0, <3>1 DEF FlowOf, Building, Config
  <2>6. CASE WriteConfig(p)
    <3>1. pc[p] = "config" /\ Kept(p) /\ job'[p].after = "file"
          /\ pc'[p] \in {"file", "hookwait"}
      BY <2>6, ConfigMove
    <3> QED
      BY <3>1 DEF Building, Config, Kept
  <2>7. CASE WriteConfigFile(p)
    <3>1. pc[p] = "file" /\ cfg' = job[p].conf
      BY <2>7 DEF WriteConfigFile
    <3>2. Config(p) /\ job[p].op = "create" /\ job[p].next # "mark"
      BY <3>1 DEF Building, Config
    <3>3. CASE job[p].next = "idle"
      BY <1>0, <3>1, <3>2, <3>3 DEF Mine, Conforms
    <3>4. CASE job[p].next # "idle"
      <4>1. job[p].next # "hookwait"
        BY <1>0, <3>2 DEF FlowOf
      <4>2. pc'[p] \in {"build", "built"}
        BY <2>7, <3>2, <3>4, <4>1, FileMove
      <4> QED
        BY <4>2 DEF Building
    <3> QED
      BY <3>3, <3>4
  <2>8. ~CreateConflict(p) /\ ~WriteScanned(p)
    BY <1>1 DEF CreateConflict, TakenElsewhere, WriteScanned, Building, Config
  <2> QED
    BY <1>4, <2>1, <2>2, <2>3, <2>4, <2>5, <2>6, <2>7, <2>8 DEF Task
<1> QED
  BY <1>1, <1>2, <1>3, <1>4 DEF Acts

LEMMA MarkerOwnedStep ==
  ASSUME OneNode, TypeOK, Flow, Ownership, MarkerOwned, NEW p \in Procs, Takes(p), Acts(p)
  PROVE  MarkerOwned'
<1>0. /\ LocalScans /\ Mine(p) /\ Trail(p) /\ FlowOf(p) /\ pc \in [Procs -> Labels]
      /\ \A q \in Procs \ {p} : pc'[q] = pc[q] /\ job'[q] = job[q]
  BY StepShape DEF LocalScans, Ownership, Mine, Flow, TypeOK
<1> SUFFICES ASSUME ~missed', cfg'.alive, cfg'.locked, cfg'.node \in created'
             PROVE  \E q \in Procs : Building(q)' \/ pc'[q] = "unlink"
  BY DEF MarkerOwned
<1>1. CASE HookSweep(p) \/ PurgeCopies(p)
  BY <1>1, SweepUnmarks
<1>2. CASE ~HookSweep(p) /\ ~PurgeCopies(p)
  <2>1. ~missed
    BY <1>2, MissedStays
  <2>2. ASSUME NEW q \in Procs, Building(q) \/ pc[q] = "unlink"
        PROVE  Building(q)' \/ pc'[q] = "unlink"
    <3>1. CASE q = p
      BY <1>0, <2>2, <3>1, BuildingStep
    <3>2. CASE q # p
      BY <1>0, <2>2, <3>2 DEF Building, Config, InHook
    <3> QED
      BY <3>1, <3>2
  <2>3. CASE MarkCreated(p)
    BY <1>0, <2>3 DEF MarkCreated, Goto, Building
  <2>4. CASE created' \subseteq created
    <3>1. CASE cfg.alive /\ cfg.locked /\ cfg.node = cfg'.node
      BY <2>1, <2>2, <2>4, <3>1 DEF MarkerOwned
    <3>2. CASE WriteConfigFile(p)
      <4>1. pc[p] = "file" /\ cfg' = job[p].conf
        BY <3>2 DEF WriteConfigFile
      <4>2. Config(p)
        BY <4>1 DEF Config
      <4>3. job[p].op = "create"
        BY <4>1, <4>2 DEF Takes
      <4>4. CASE job[p].next = "mark"
        <5>1. pc'[p] = "mark" \/ (pc'[p] = "hookwait" /\ job'[p].after = "mark")
          BY <1>0, <3>2, <4>4, FileMove
        <5> QED
          BY <5>1 DEF Building, InHook
      <4>5. CASE job[p].next # "mark"
        BY <2>2, <4>2, <4>3, <4>5 DEF Building
      <4> QED
        BY <4>4, <4>5
    <3> QED
      BY <1>0, <3>1, <3>2, ConfigChanges
  <2> QED
    BY <1>0, <2>3, <2>4, MarkerSteps
<1> QED
  BY <1>1, <1>2

LEMMA BlocksStep ==
  OneNode /\ IInv /\ Ownership /\ Markers /\ Blocks /\ [Next]_vars => Blocks'
<1> SUFFICES ASSUME OneNode, IInv, Ownership, Markers, Blocks, [Next]_vars PROVE Blocks'
  OBVIOUS
<1>0. TypeOK /\ Flow /\ LocalScans /\ MarkerOwned /\ \A q \in Procs : Restores(q) /\ Takes(q)
  BY DEF IInv, LocalScans, Blocks
<1>1. ASSUME pc' = pc, job' = job, cfg' = cfg, created' = created, missed' = missed
      PROVE  Blocks'
  BY <1>1 DEF Blocks, MarkerOwned, Restores, Takes, Genuine, Building, First, Config, InHook
<1>2. CASE UNCHANGED vars \/ Garble
  BY <1>1, <1>2 DEF vars, Garble, guestVars, ghostVars
<1>3. ASSUME NEW p \in Procs, Acts(p) PROVE Blocks'
  <2>1. MarkerOwned'
    BY <1>0, <1>3, MarkerOwnedStep
  <2>2. Restores(p)' /\ Takes(p)'
    BY <1>0, <1>3, RestoresOwn, TakesOwn
  <2>3. \A q \in Procs \ {p} : Restores(q)' /\ Takes(q)'
    BY <1>0, <1>3, RestoresOthers, TakesOthers
  <2> QED
    BY <2>1, <2>2, <2>3 DEF Blocks
<1> QED
  BY <1>2, <1>3 DEF Next, Acts

(* On one node, a block pasted into a live guest's notes is never imported *)
(* by a config write, unless a create that died left its marker behind.    *)
THEOREM PastedBlocksAreNotImported ==
  ASSUME OneNode PROVE Spec => []PastedBlockStaysOut
<1>0. LocalScans
  BY DEF LocalScans
<1>1. Init => Markers /\ Blocks
  <2> SUFFICES ASSUME Init PROVE Markers /\ Blocks
    OBVIOUS
  <2>1. (\A p \in Procs : pc[p] = "idle") /\ created = {}
    BY DEF Init
  <2> QED
    BY <2>1 DEF Markers, PastMarker, Blocks, MarkerOwned, Restores, Takes, Building, First,
                Config, InHook
<1>2. IInv /\ Ownership /\ Markers /\ Blocks /\ [Next]_vars => Markers' /\ Blocks'
  BY <1>0, MarkersStep, BlocksStep DEF IInv
<1>3. Ownership /\ Blocks => PastedBlockStaysOut
  <2> SUFFICES ASSUME Ownership, Blocks, NEW p \in Procs, ~missed, pc[p] = "config",
                      job[p].conf.block.there, TakesMarker(job[p].conf)
               PROVE  job[p].conf.block.gen # 0
    BY DEF PastedBlockStaysOut
  <2>1. Config(p) /\ Mine(p) /\ Restores(p) /\ Takes(p)
    BY DEF Config, Ownership, Blocks
  <2>2. job[p].node \in created
    BY <2>1 DEF Mine, Conforms, TakesMarker
  <2>3. Building(p)
    BY <2>1, <2>2 DEF Takes
  <2> QED
    BY <2>1, <2>3 DEF Restores, Genuine
<1>4. Spec => []Ownership
  BY <1>0, AlwaysOwnership
<1> QED
  BY <1>1, <1>2, <1>3, <1>4, AlwaysIInv, PTL DEF Spec
=============================================================================
