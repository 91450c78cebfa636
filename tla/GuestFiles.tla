----------------------------- MODULE GuestFiles -----------------------------
(***************************************************************************)
(* pve-meta-guest-files: views of a container's document written into the  *)
(* container as files (crates/pve-meta-guest-files), for one container.    *)
(*                                                                         *)
(* The daemon, a hand-run `sync' and an operator using the crate take the  *)
(* container's flock in turn.  A sync reads the manifest in the guest,     *)
(* probes the files and the directories above them, decides, makes the     *)
(* missing directories, commits each file operation under a check that the *)
(* file itself is still what the probe saw, and writes the manifest last.  *)
(* The guest's own processes and the document's editors take no lock and   *)
(* run in between, between a check and its rename too.                     *)
(***************************************************************************)
EXTENDS Naturals

CONSTANTS
  Names,          (* entry names                                           *)
  Paths,          (* files in the guest                                    *)
  Contents,       (* file contents, told apart by their sha256             *)
  Operators,      (* writers of managed files                              *)
  NoSyncer,       (* the holder of a free flock                            *)
  Docs,           (* what the document may say, a set of Declarations      *)
  Handed,         (* what an operator may hand over, likewise              *)
  MaxEdits,       (* bound: document edits, hand-run syncs, hand-overs     *)
                  (* and PVE locks                                         *)
  MaxGuestEdits,  (* bound: writes by the guest's own processes            *)
  MaxBoots,       (* bound: starts of the container                        *)
  Meddling,       (* what the guest may make of the manifest               *)
  MaxOpFailures,  (* bound: file operations that fail                      *)
  MaxFaults       (* bound: killed pct calls, daemon restarts and polls    *)
                  (* that cannot read                                      *)

Planes == {"user"} \cup Operators

Syncers == {"daemon", "cli"} \cup Operators

(***************************************************************************)
(* What one entry asks for, resolved: a file, nothing (its view is not in  *)
(* the document), or it is refused.                                        *)
(***************************************************************************)
Asks == [what : {"absent", "refused", "file"}, path : Paths, hash : Contents,
         over : BOOLEAN]

Declarations == [kind : {"nothing", "held", "entries", "managed"},
                 ask : [Names -> Asks]]

ASSUME NamesAssumption ==
  /\ Paths # {} /\ Contents # {}
  /\ Operators \cap {"user", "daemon", "cli"} = {}
  /\ NoSyncer \notin Syncers
ASSUME DocsAssumption ==
  /\ Docs \subseteq {d \in Declarations : d.kind # "managed"}
  /\ Handed \subseteq {d \in Declarations : d.kind = "managed"}
ASSUME ManagedAssumption ==
  \A d \in Handed : \A e, f \in Names :
    d.ask[e].what = "file" /\ d.ask[f].what = "file" /\ d.ask[e].path = d.ask[f].path
      => e = f
ASSUME GuestAssumption ==
  Meddling \subseteq {"none", "bad", "huge"}
ASSUME BoundsAssumption ==
  /\ MaxEdits \in Nat /\ MaxGuestEdits \in Nat /\ MaxBoots \in Nat
  /\ MaxOpFailures \in Nat /\ MaxFaults \in Nat

SomePath == CHOOSE p \in Paths : TRUE
SomeContent == CHOOSE c \in Contents : TRUE

NoAsk == [what |-> "absent", path |-> SomePath, hash |-> SomeContent, over |-> FALSE]

Nothing == [kind |-> "nothing", ask |-> [e \in Names |-> NoAsk]]

(* A path in the guest.  What is above it: directories, a directory that   *)
(* is missing, a symlink, or something else in a directory's place.  What  *)
(* the path then leads to: nothing, a regular file with the mode and owner *)
(* asked for or not, or neither (a symlink, a device, a directory).        *)
Node == [above : {"dir", "none", "link", "other"},
         kind : {"missing", "file", "unsafe"}, hash : Contents, right : BOOLEAN]

Leaf(above, kind, c, r) == [above |-> above, kind |-> kind, hash |-> c, right |-> r]

NoFile(above) == Leaf(above, "missing", SomeContent, TRUE)

(* What the guest's processes can make of a path: mode and owner of a file *)
(* a symlink leads to are of no interest.                                  *)
GuestNodes ==
  {n \in Node : /\ n.above \in {"none", "other"} => n.kind = "missing"
                /\ n.kind # "file" => n.hash = SomeContent
                /\ n.kind # "file" \/ n.above = "link" => n.right}

(* A manifest record; its source is abstracted to the plane that wrote it. *)
Record == [there : BOOLEAN, entry : Names \cup {"none"}, hash : Contents,
           plane : Planes]

NoRecord == [there |-> FALSE, entry |-> "none", hash |-> SomeContent,
             plane |-> "user"]

Records == [Paths -> Record]

NoRecords == [p \in Paths |-> NoRecord]

(* A commit operation, with what it requires of the file when it happens.  *)
Op == [do : {"none", "place", "remove"}, hash : Contents, seen : Node]

NoOp == [do |-> "none", hash |-> SomeContent, seen |-> NoFile("dir")]

NoOps == [p \in Paths |-> NoOp]

VARIABLES
  want,      (* the guest-files section of the stored document             *)
  nodes,     (* the guest's files                                          *)
  root,      (* /etc/pve-meta can be written through                       *)
  manifest,  (* /etc/pve-meta/.guest-files                                 *)
  inode,     (* the command socket of the running container, 0: stopped    *)
  busy,      (* the container's configuration has a `lock:' line           *)
  flock,     (* holder of the container's lock under /run/lock             *)
  memo,      (* what the daemon remembers of the container's last sync     *)
  cache,     (* its `wanted': the files it read, and the digest of the     *)
             (* document they are filed under; a digest stands for the     *)
             (* section it is the digest of                                *)
  sync,      (* each syncer's run                                          *)
  ours,      (* history: the paths whose content a sync put there, and not *)
             (* where a symlink leads, while the records it had read were  *)
             (* still in the guest; a sync that is cut off gives up its    *)
             (* claim to what it was changing                              *)
  late,      (* history: the paths the guest wrote after the check of the  *)
             (* operation being done on them                               *)
  used       (* how much of each bound is used up                          *)

guestVars == <<nodes, root, manifest>>
envVars == <<want, inode, busy>>
daemonVars == <<memo, cache>>
history == <<ours, late>>
vars == <<want, nodes, root, manifest, inode, busy, flock, memo, cache, sync, ours,
          late, used>>

Sync == [pc : {"idle", "polled", "queued", "read", "probe", "dirs", "commit", "checked"},
         files : Declarations,  (* what it writes, as read before the lock *)
         force : BOOLEAN,
         inode : Nat,           (* daemon: the container as the poll saw it *)
         old : Records,         (* the manifest as read                    *)
         ops : [Paths -> Op],   (* operations left                         *)
         at : Paths,            (* the one between its check and its rename *)
         new : Records]         (* the manifest once every operation is done *)

Idle == [pc |-> "idle", files |-> Nothing, force |-> FALSE, inode |-> 0,
         old |-> NoRecords, ops |-> NoOps, at |-> SomePath, new |-> NoRecords]

NoMemo == [known |-> FALSE, digest |-> Nothing, inode |-> 0, watched |-> FALSE]

NoCache == [known |-> FALSE, digest |-> Nothing, files |-> Nothing]

Init ==
  /\ want = Nothing
  /\ \E above \in {"dir", "none"} : nodes = [p \in Paths |-> NoFile(above)]
  /\ root = TRUE
  /\ manifest = [state |-> "none", rec |-> NoRecords]
  /\ inode = 0
  /\ busy = FALSE
  /\ flock = NoSyncer
  /\ memo = NoMemo
  /\ cache = NoCache
  /\ sync = [s \in Syncers |-> Idle]
  /\ ours = {}
  /\ late = {}
  /\ used = [edits |-> 0, guest |-> 0, boots |-> 0, ops |-> 0, faults |-> 0]

Plane(s) == IF s \in Operators THEN s ELSE "user"

-----------------------------------------------------------------------------
(* plan: what one sync does with one path.                                 *)

(* Two entries on one path are both refused.                               *)
RefuseCollisions(ask) ==
  [e \in Names |->
     IF /\ ask[e].what = "file"
        /\ \E f \in Names \ {e} : ask[f].what = "file" /\ ask[f].path = ask[e].path
       THEN [NoAsk EXCEPT !.what = "refused"]
       ELSE ask[e]]

(* of_document: a map's entries judged one by one.                         *)
Resolved(d) == IF d.kind = "entries" THEN RefuseCollisions(d.ask) ELSE d.ask

HasKey(d) == d.kind # "nothing"

(* The entries that want path p: at most one.                              *)
Wanting(d, p) ==
  {e \in Names : /\ d.kind \in {"entries", "managed"}
                 /\ Resolved(d)[e].what = "file" /\ Resolved(d)[e].path = p}

Refused(d) == {e \in Names : d.kind = "entries" /\ Resolved(d)[e].what = "refused"}

(* assess: one target, judged from it and the directories above it.        *)
Assess(n) == IF n.above \in {"link", "other"} THEN "unsafe" ELSE n.kind

(* A mutant: the record's source is not looked at.                         *)
MutAnyPlane(a, r, n, force, plane) ==
  IF Assess(n) = "unsafe" THEN "refused"
  ELSE IF Assess(n) = "missing" THEN "create"
  ELSE IF n.hash = a.hash /\ n.right THEN "in sync"
  ELSE IF r.there /\ r.hash = n.hash THEN "update"
  ELSE IF a.over \/ force THEN "overwrite"
  ELSE "local edit"

(* A path an entry wants: what is there, and is it ours?                   *)
WantedAction(a, r, n, force, plane) ==
  IF (r.there /\ r.plane # plane) \/ Assess(n) = "unsafe" THEN "refused"
  ELSE IF Assess(n) = "missing" THEN "create"
  ELSE IF n.hash = a.hash /\ n.right THEN "in sync"
  ELSE IF r.there /\ r.hash = n.hash THEN "update"
  ELSE IF a.over \/ force THEN "overwrite"
  ELSE "local edit"

(* A recorded path no entry wants.  Only the user plane collects, and only *)
(* what it recorded; a missing file is forgotten by whoever notices.       *)
UnwantedAction(d, r, n, plane) ==
  IF Assess(n) = "missing" THEN "forget"
  ELSE IF plane # "user" \/ r.plane # "user" \/ r.entry \in Refused(d) THEN "kept"
  ELSE IF Assess(n) = "file" /\ n.hash = r.hash THEN "delete"
  ELSE "left"

(* One row of the plan.  A held document, or a manifest directory that     *)
(* cannot be written through, holds everything.                            *)
Action(d, old, ns, safe, force, plane, p) ==
  IF d.kind = "held" \/ ~safe THEN "kept"
  ELSE IF Wanting(d, p) # {}
    THEN WantedAction(Resolved(d)[CHOOSE e \in Wanting(d, p) : TRUE],
                      old[p], ns[p], force, plane)
  ELSE IF old[p].there THEN UnwantedAction(d, old[p], ns[p], plane)
  ELSE "nothing"

PlanOp(d, act, n, p) ==
  CASE act \in {"create", "update", "overwrite"} ->
         [do |-> "place", seen |-> n,
          hash |-> Resolved(d)[CHOOSE e \in Wanting(d, p) : TRUE].hash]
    [] act = "delete" -> [do |-> "remove", seen |-> n, hash |-> n.hash]
    [] OTHER -> NoOp

PlanRecord(d, act, old, plane, p) ==
  CASE act \in {"in sync", "create", "update", "overwrite"} ->
         LET e == CHOOSE e \in Wanting(d, p) : TRUE
         IN [there |-> TRUE, entry |-> e, hash |-> Resolved(d)[e].hash,
             plane |-> plane]
    [] act \in {"refused", "kept", "local edit"} -> old
    [] act \in {"forget", "delete", "left", "nothing"} -> NoRecord

-----------------------------------------------------------------------------
(* One sync, under the flock.                                              *)

(* What a sync cut off in its commit would have recorded, and has not.     *)
Unrecorded(s) ==
  {p \in Paths : /\ sync[s].pc \in {"dirs", "commit", "checked"}
                 /\ sync[s].new[p] # sync[s].old[p]}

(* A mutant: whoever syncs, the daemon takes it for a sync of its own.     *)
MutEveryoneRemembers(s, ok) ==
  /\ sync' = [sync EXCEPT ![s] = Idle]
  /\ flock' = IF flock = s THEN NoSyncer ELSE flock
  /\ ours' = IF ok THEN ours ELSE ours \ Unrecorded(s)
  /\ memo' = [known |-> TRUE, digest |-> sync[s].files, inode |-> sync[s].inode,
              watched |-> sync[s].new # NoRecords]

(* A sync ends; the daemon remembers how.  It learns of records from its   *)
(* own syncs only, and keeps the digest it polled even when one failed.    *)
Finish(s, ok) ==
  /\ sync' = [sync EXCEPT ![s] = Idle]
  /\ flock' = IF flock = s THEN NoSyncer ELSE flock
  /\ ours' = IF ok THEN ours ELSE ours \ Unrecorded(s)
  /\ memo' = IF s # "daemon" THEN memo
             ELSE [known |-> TRUE, digest |-> cache.digest, inode |-> sync[s].inode,
                   watched |-> IF ok THEN sync[s].new # NoRecords
                               ELSE memo.watched \/ HasKey(sync[s].files)]

(* read: the manifest in the guest.  One that does not parse is not        *)
(* trusted; one above the size cap is an error.                            *)
ReadManifest(s) ==
  /\ sync[s].pc = "read"
  /\ inode # 0
  /\ manifest.state # "huge"
  /\ sync' = [sync EXCEPT ![s].pc = "probe",
                          ![s].old = IF manifest.state = "ok" THEN manifest.rec
                                     ELSE NoRecords]
  /\ UNCHANGED <<guestVars, envVars, flock, daemonVars, history, used>>

(* probe and plan.                                                         *)
Inspect(s) ==
  /\ sync[s].pc = "probe"
  /\ inode # 0
  /\ LET j == sync[s]
         act == [p \in Paths |->
                   Action(j.files, j.old, nodes, root, j.force, Plane(s), p)]
     IN sync' = [sync EXCEPT
          ![s].pc = "dirs",
          ![s].ops = [p \in Paths |-> PlanOp(j.files, act[p], nodes[p], p)],
          ![s].new = [p \in Paths |->
                        PlanRecord(j.files, act[p], j.old[p], Plane(s), p)]]
  /\ UNCHANGED <<guestVars, envVars, flock, daemonVars, history, used>>

(* The paths whose directories the probe found missing: `d' makes them, or *)
(* ends the script if something else has come in their place.  It is the   *)
(* only look the script takes at a directory.                              *)
ToMake(s) ==
  {p \in Paths : sync[s].ops[p].do = "place" /\ sync[s].ops[p].seen.above = "none"}

MakeDirs(s) ==
  /\ sync[s].pc = "dirs"
  /\ inode # 0
  /\ \A p \in ToMake(s) : nodes[p].above \in {"none", "dir"}
  /\ nodes' = [p \in Paths |-> IF p \in ToMake(s) THEN [nodes[p] EXCEPT !.above = "dir"]
                                ELSE nodes[p]]
  /\ sync' = [sync EXCEPT ![s].pc = "commit"]
  /\ UNCHANGED <<root, manifest, envVars, flock, daemonVars, history, used>>

(* A mutant: the commit trusts the probe.                                  *)
MutTrustsProbe(op, n) == TRUE

(* The path still leads to what the probe saw: nothing, or a regular file  *)
(* of the same hash.  A file to remove may also be gone.                   *)
StillAsSeen(op, n) ==
  \/ n.kind = op.seen.kind /\ (n.kind = "file" => n.hash = op.seen.hash)
  \/ op.do = "remove" /\ n.kind = "missing"

(* The temporary file can be written beside the target.                    *)
Writable(op, n) == op.do = "place" => n.above \in {"dir", "link"}

(* The rename or the removal fails on what the guest did since the check:  *)
(* the temporary file is no longer there, or it is a directory now.        *)
Lost(op, n) == IF op.do = "place" THEN n.above # "dir" ELSE n.kind = "unsafe"

(* A mutant: the manifest is written as if every operation had been done.  *)
MutRecordAnyway(s, p) ==
  sync' = [sync EXCEPT ![s].ops[p] = NoOp, ![s].pc = "commit"]

(* An operation that is not done leaves its path's record as it was.       *)
SkipOp(s, p) ==
  sync' = [sync EXCEPT ![s].ops[p] = NoOp, ![s].new[p] = sync[s].old[p],
                       ![s].pc = "commit"]

(* The operations it may turn to: any that is left, or the one it checked. *)
AtHand(s) ==
  {p \in Paths : /\ sync[s].ops[p].do # "none"
                 /\ \/ sync[s].pc = "commit"
                    \/ sync[s].pc = "checked" /\ sync[s].at = p}

(* One operation of the commit script: the check, once the new content is  *)
(* in a temporary file, ...                                                *)
CheckOp(s, p) ==
  /\ sync[s].pc = "commit"
  /\ p \in AtHand(s)
  /\ inode # 0
  /\ Writable(sync[s].ops[p], nodes[p])
  /\ StillAsSeen(sync[s].ops[p], nodes[p])
  /\ sync' = [sync EXCEPT ![s].pc = "checked", ![s].at = p]
  /\ late' = late \ {p}
  /\ UNCHANGED <<guestVars, envVars, flock, daemonVars, ours, used>>

(* ... and the rename or the removal.  A rename onto a directory moves the *)
(* temporary file into it, and is taken for done.                          *)
ApplyOp(s, p) ==
  /\ sync[s].pc = "checked"
  /\ p \in AtHand(s)
  /\ inode # 0
  /\ LET op == sync[s].ops[p] IN
       /\ Writable(op, nodes[p])
       /\ \E n \in {IF op.do = "place" THEN Leaf(nodes[p].above, "file", op.hash, TRUE)
                    ELSE NoFile(nodes[p].above)}
                   \cup {m \in {nodes[p]} : op.do = "place" /\ m.kind = "unsafe"} :
            /\ nodes' = [nodes EXCEPT ![p] = n]
            /\ ours' = IF Assess(n) = "file" /\ manifest.rec = sync[s].old
                         THEN ours \cup {p} ELSE ours \ {p}
  /\ sync' = [sync EXCEPT ![s].ops[p] = NoOp, ![s].pc = "commit"]
  /\ UNCHANGED <<root, manifest, envVars, flock, daemonVars, late, used>>

(* The operation is not done: its file or its directory has changed.       *)
ChangedOp(s, p) ==
  /\ p \in AtHand(s)
  /\ inode # 0
  /\ LET op == sync[s].ops[p] IN
       IF sync[s].pc = "commit" THEN ~(Writable(op, nodes[p]) /\ StillAsSeen(op, nodes[p]))
       ELSE p \in late /\ Lost(op, nodes[p])
  /\ SkipOp(s, p)
  /\ UNCHANGED <<guestVars, envVars, flock, daemonVars, history, used>>

(* Writing, owning, renaming or removing failed: this operation only.      *)
FailOp(s, p) ==
  /\ p \in AtHand(s)
  /\ inode # 0
  /\ used.ops < MaxOpFailures
  /\ used' = [used EXCEPT !.ops = @ + 1]
  /\ SkipOp(s, p)
  /\ UNCHANGED <<guestVars, envVars, flock, daemonVars, history>>

(* The manifest, written last from what was done, if that changes it.  Its *)
(* directory is not looked at again: one that became a symlink since the   *)
(* probe is written through, one that is gone or no directory fails.       *)
WriteManifest(s) ==
  /\ sync[s].pc = "commit"
  /\ \A p \in Paths : sync[s].ops[p].do = "none"
  /\ inode # 0
  /\ manifest' = IF sync[s].new # sync[s].old
                   THEN [state |-> "ok", rec |-> sync[s].new] ELSE manifest
  /\ Finish(s, TRUE)
  /\ UNCHANGED <<nodes, root, envVars, cache, late, used>>

(* A pct call cannot be answered: the container stopped, the manifest is   *)
(* too large to read, a directory cannot be made, or the manifest's own    *)
(* cannot be written to.                                                   *)
GiveUp(s) ==
  /\ \/ sync[s].pc \in {"read", "probe", "dirs", "commit", "checked"} /\ inode = 0
     \/ sync[s].pc = "read" /\ manifest.state = "huge"
     \/ /\ sync[s].pc = "dirs"
        /\ \E p \in ToMake(s) : nodes[p].above \in {"link", "other"}
     \/ /\ sync[s].pc = "dirs" \/ (sync[s].pc = "commit" /\ AtHand(s) = {})
        /\ ~root /\ sync[s].new # sync[s].old
  /\ Finish(s, FALSE)
  /\ UNCHANGED <<guestVars, envVars, cache, late, used>>

(* A pct call is killed, or its caller dies: the operations done so far    *)
(* stay done and nothing is recorded.                                      *)
Killed(s) ==
  /\ sync[s].pc \in {"read", "probe", "dirs", "commit", "checked"}
  /\ used.faults < MaxFaults
  /\ used' = [used EXCEPT !.faults = @ + 1]
  /\ Finish(s, FALSE)
  /\ UNCHANGED <<guestVars, envVars, cache, late>>

-----------------------------------------------------------------------------
(* The daemon.                                                             *)

(* due: changed, restarted, or its time has come (a drift check, a retry), *)
(* for a running container that is watched.                                *)
Watched(d) == HasKey(d) \/ (memo.known /\ memo.watched)

Changed(digest, i) == ~memo.known \/ memo.digest # digest \/ memo.inode # i

(* One poll: which containers run, then the digest of the document.  What  *)
(* is filed under that digest is taken as it is; ...                       *)
Poll ==
  /\ sync["daemon"].pc = "idle"
  /\ cache' = IF cache.known /\ cache.digest = want THEN cache
              ELSE [NoCache EXCEPT !.digest = want]
  /\ sync' = [sync EXCEPT !["daemon"] = [Idle EXCEPT !.pc = "polled", !.inode = inode]]
  /\ UNCHANGED <<guestVars, envVars, flock, memo, history, used>>

(* ... otherwise the document is read once more, and its files filed under *)
(* the digest.                                                             *)
Filed == IF cache.known THEN cache ELSE [cache EXCEPT !.known = TRUE, !.files = want]

(* A mutant: no drift check, and no retry.                                 *)
MutNoDrift ==
  /\ sync["daemon"].pc = "polled"
  /\ sync["daemon"].inode # 0
  /\ Watched(Filed.files) /\ Changed(Filed.digest, sync["daemon"].inode)
  /\ cache' = Filed
  /\ sync' = [sync EXCEPT !["daemon"].pc = "queued", !["daemon"].files = Filed.files]
  /\ UNCHANGED <<guestVars, envVars, flock, memo, history, used>>

(* The container is queued if it is due.  Whether the drift time has come  *)
(* is left open.                                                           *)
QueueDue ==
  /\ sync["daemon"].pc = "polled"
  /\ sync["daemon"].inode # 0
  /\ Watched(Filed.files)
  /\ cache' = Filed
  /\ sync' = [sync EXCEPT !["daemon"].pc = "queued", !["daemon"].files = Filed.files]
  /\ UNCHANGED <<guestVars, envVars, flock, memo, history, used>>

(* A poll at which it is not due: the daemon notes whether it runs.        *)
NotDue ==
  /\ sync["daemon"].pc = "polled"
  /\ \/ sync["daemon"].inode = 0
     \/ ~Watched(Filed.files)
     \/ ~Changed(Filed.digest, sync["daemon"].inode)
  /\ cache' = Filed
  /\ memo' = IF memo.known THEN [memo EXCEPT !.inode = sync["daemon"].inode] ELSE memo
  /\ sync' = [sync EXCEPT !["daemon"] = Idle]
  /\ UNCHANGED <<guestVars, envVars, flock, history, used>>

(* A document cannot be read, this container's or another's: the poll ends *)
(* with nothing done, and what it had filed so far is dropped.             *)
PollFails ==
  /\ sync["daemon"].pc = "polled"
  /\ used.faults < MaxFaults
  /\ used' = [used EXCEPT !.faults = @ + 1]
  /\ cache' = NoCache
  /\ sync' = [sync EXCEPT !["daemon"] = Idle]
  /\ UNCHANGED <<guestVars, envVars, flock, memo, history>>

(* The queued container is locked by PVE, or another syncer has the flock: *)
(* the next poll tries again.                                              *)
SkipQueued ==
  /\ sync["daemon"].pc = "queued"
  /\ busy \/ flock # NoSyncer
  /\ sync' = [sync EXCEPT !["daemon"] = Idle]
  /\ UNCHANGED <<guestVars, envVars, flock, daemonVars, history, used>>

TakeFlock(s) ==
  /\ sync[s].pc = "queued"
  /\ s = "daemon" => ~busy
  /\ flock = NoSyncer
  /\ flock' = s
  /\ sync' = [sync EXCEPT ![s].pc = "read"]
  /\ UNCHANGED <<guestVars, envVars, daemonVars, history, used>>

(* The daemon is restarted, or the container comes back from another node. *)
RestartDaemon ==
  /\ used.faults < MaxFaults
  /\ used' = [used EXCEPT !.faults = @ + 1]
  /\ memo' = NoMemo
  /\ cache' = NoCache
  /\ sync' = [sync EXCEPT !["daemon"] = Idle]
  /\ flock' = IF flock = "daemon" THEN NoSyncer ELSE flock
  /\ ours' = ours \ Unrecorded("daemon")
  /\ UNCHANGED <<guestVars, envVars, late>>

(* `sync <vmid> [--force]': reads the document, then waits for the flock.  *)
RunSync ==
  /\ sync["cli"].pc = "idle"
  /\ inode # 0 /\ ~busy
  /\ used.edits < MaxEdits
  /\ used' = [used EXCEPT !.edits = @ + 1]
  /\ \E force \in BOOLEAN :
       sync' = [sync EXCEPT !["cli"] = [Idle EXCEPT
                  !.pc = "queued", !.files = want, !.force = force]]
  /\ UNCHANGED <<guestVars, envVars, flock, daemonVars, history>>

(* An operator hands its files over.                                       *)
HandOver(s) ==
  /\ s \in Operators
  /\ sync[s].pc = "idle"
  /\ used.edits < MaxEdits
  /\ used' = [used EXCEPT !.edits = @ + 1]
  /\ \E d \in Handed :
       sync' = [sync EXCEPT ![s] = [Idle EXCEPT !.pc = "queued", !.files = d]]
  /\ UNCHANGED <<guestVars, envVars, flock, daemonVars, history>>

-----------------------------------------------------------------------------
(* What happens around them.                                               *)

EditDocument ==
  /\ used.edits < MaxEdits
  /\ used' = [used EXCEPT !.edits = @ + 1]
  /\ want' \in Docs \ {want}
  /\ UNCHANGED <<guestVars, inode, busy, flock, daemonVars, sync, history>>

(* A process in the guest writes, removes or replaces a file or what is    *)
(* above it, ...                                                           *)
GuestWrites(p) ==
  /\ inode # 0
  /\ used.guest < MaxGuestEdits
  /\ used' = [used EXCEPT !.guest = @ + 1]
  /\ \E n \in GuestNodes \ {nodes[p]} : nodes' = [nodes EXCEPT ![p] = n]
  /\ ours' = ours \ {p}
  /\ late' = IF \E s \in Syncers : sync[s].pc = "checked" /\ sync[s].at = p
               THEN late \cup {p} ELSE late
  /\ UNCHANGED <<root, manifest, envVars, flock, daemonVars, sync>>

(* ... or the daemon's own directory or manifest, which ends its claim to  *)
(* what it wrote.                                                          *)
GuestMeddles ==
  /\ inode # 0
  /\ used.guest < MaxGuestEdits
  /\ used' = [used EXCEPT !.guest = @ + 1]
  /\ \/ root' = ~root /\ UNCHANGED <<manifest, ours>>
     \/ /\ \E st \in Meddling :
             manifest' = [state |-> st, rec |-> NoRecords]
        /\ ours' = {}
        /\ UNCHANGED root
  /\ UNCHANGED <<nodes, envVars, flock, daemonVars, sync, late>>

StartContainer ==
  /\ inode = 0
  /\ used.boots < MaxBoots
  /\ used' = [used EXCEPT !.boots = @ + 1]
  /\ inode' = used.boots + 1
  /\ UNCHANGED <<want, busy, guestVars, flock, daemonVars, sync, history>>

StopContainer ==
  /\ inode # 0
  /\ used.boots < MaxBoots
  /\ inode' = 0
  /\ UNCHANGED <<want, busy, guestVars, flock, daemonVars, sync, history, used>>

(* A backup, snapshot or migration takes and drops the `lock:' line.       *)
PveLock ==
  /\ busy' = ~busy
  /\ busy \/ used.edits < MaxEdits
  /\ used' = IF busy THEN used ELSE [used EXCEPT !.edits = @ + 1]
  /\ UNCHANGED <<want, inode, guestVars, flock, daemonVars, sync, history>>

Step(s) ==
  \/ TakeFlock(s) \/ ReadManifest(s) \/ Inspect(s) \/ MakeDirs(s)
  \/ (\E p \in Paths : CheckOp(s, p) \/ ApplyOp(s, p) \/ ChangedOp(s, p))
  \/ WriteManifest(s)

Next ==
  \/ \E s \in Syncers : \/ Step(s) \/ GiveUp(s) \/ Killed(s) \/ HandOver(s)
                        \/ \E p \in Paths : FailOp(s, p)
  \/ Poll \/ QueueDue \/ NotDue \/ PollFails \/ SkipQueued \/ RestartDaemon \/ RunSync
  \/ EditDocument \/ GuestMeddles \/ StartContainer \/ StopContainer \/ PveLock
  \/ \E p \in Paths : GuestWrites(p)

Spec == Init /\ [][Next]_vars

(* The daemon's poll loop never stops, and of the polls at which a watched *)
(* container could be due one is, once the drift or the retry time is      *)
(* over; neither does a pct call or its caller stop: a call is answered or *)
(* killed after 120 s.                                                     *)
FairSpec ==
  /\ Spec
  /\ WF_vars(Poll) /\ WF_vars(QueueDue \/ NotDue) /\ SF_vars(QueueDue)
  /\ WF_vars(SkipQueued)
  /\ \A s \in Syncers : WF_vars(Step(s) \/ GiveUp(s))

-----------------------------------------------------------------------------
(* Properties.                                                             *)

TypeOK ==
  /\ want \in {Nothing} \cup Docs
  /\ nodes \in [Paths -> Node]
  /\ root \in BOOLEAN
  /\ manifest \in [state : {"none", "ok", "bad", "huge"}, rec : Records]
  /\ inode \in 0..MaxBoots
  /\ busy \in BOOLEAN
  /\ flock \in Syncers \cup {NoSyncer}
  /\ memo \in [known : BOOLEAN, digest : {Nothing} \cup Docs, inode : 0..MaxBoots,
               watched : BOOLEAN]
  /\ cache \in [known : BOOLEAN, digest : {Nothing} \cup Docs, files : {Nothing} \cup Docs]
  /\ sync \in [Syncers -> Sync]
  /\ ours \subseteq Paths
  /\ late \subseteq Paths
  /\ used \in [edits : 0..MaxEdits, guest : 0..MaxGuestEdits, boots : 0..MaxBoots,
               ops : 0..MaxOpFailures, faults : 0..MaxFaults]

(* The step is syncer s's own, and changes the file p leads to.            *)
SyncTouches(s, p) ==
  sync'[s] # sync[s] /\ nodes'[p] # [nodes[p] EXCEPT !.above = nodes'[p].above]

(* s was told to replace whatever is at p.                                 *)
MayOverwrite(s, p) ==
  \/ sync[s].force
  \/ \E e \in Wanting(sync[s].files, p) : Resolved(sync[s].files)[e].over

(* A sync replaces a file only while its content hashes to the record it   *)
(* read, unless it was told to overwrite; it removes one only then, and    *)
(* whatever it was told (plan.rs, and the checks of the commit script).    *)
(* Only what the guest itself writes between the check of one operation    *)
(* and its rename is not protected.  Where the directories above the path  *)
(* lead is not part of it: the script does not look at them again.         *)
LocalEditsSurvive ==
  [][\A s \in Syncers, p \in Paths :
       SyncTouches(s, p) /\ nodes[p].kind # "missing" /\ p \notin late =>
         /\ nodes[p].kind = "file"
         /\ \/ sync[s].old[p].there /\ sync[s].old[p].hash = nodes[p].hash
            \/ MayOverwrite(s, p) /\ nodes'[p].kind = "file"]_vars

(* Two writers sharing one guest: no sync writes or removes a path that    *)
(* the manifest in the guest, as it is then, records for another writer    *)
(* (sources_conflict, deletion_owner, and the flock that keeps the records *)
(* a sync decides on from going stale).                                    *)
WritersStayApart ==
  [][\A s \in Syncers, p \in Paths :
       SyncTouches(s, p) /\ manifest.rec[p].there =>
         manifest.rec[p].plane = Plane(s)]_vars

(* No sync takes a file that a sync wrote, and that nobody touched since,  *)
(* for a local edit: the manifest tells the two apart across syncs of any  *)
(* writers, refused entries and failed operations.                         *)
OwnFileIsNoLocalEdit ==
  \A s \in Syncers : sync[s].pc = "probe" =>
    \A p \in ours :
      Action(sync[s].files, sync[s].old, nodes, root, sync[s].force, Plane(s), p)
        # "local edit"

(* A sync of the document as it is would change no file and drop no record.*)
Agreed ==
  \A p \in Paths :
    Action(want, manifest.rec, nodes, root, FALSE, "user", p)
      \in {"in sync", "refused", "kept", "local edit", "nothing"}

(* The files filed under the digest of the document as it is are not the   *)
(* ones it asks for: it was edited between the two reads of a poll, and    *)
(* edited back.  Nothing but another edit or a restart ends that.          *)
Misfiled == cache.known /\ cache.digest = want /\ cache.files # want

(* A container that stays up and unlocked, and that the daemon watches,    *)
(* comes to agree with its document, whatever was edited, killed or        *)
(* restarted before (tick, due, the drift check and the retry), unless the *)
(* daemon's cache has come to file other files under the document's digest *)
(* for good.                                                               *)
FilesConverge ==
  <>[](inode # 0 /\ ~busy) => <>[](Watched(want) => Agreed) \/ <>[]Misfiled

=============================================================================
