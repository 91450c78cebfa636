------------------------- MODULE GuestFiles_proofs -------------------------
(***************************************************************************)
(* Theorems about GuestFiles, for every value of its constants.            *)
(*                                                                         *)
(* The inductive invariant says who may be past the flock, that the        *)
(* records a sync decided on are still those in the guest (or gone), what  *)
(* justifies each operation left to commit, and where the record of a file *)
(* a sync wrote is to be found at each stage of the next one.              *)
(***************************************************************************)
EXTENDS GuestFiles, TLAPS

-----------------------------------------------------------------------------
(* The plan.                                                               *)

(* The constants the model fills unused fields with are of their types.    *)
LEMMA Fillers ==
  /\ SomePath \in Paths /\ SomeContent \in Contents
  /\ NoAsk \in Asks /\ Nothing \in Declarations
  /\ \A a \in {"dir", "none", "link", "other"} : NoFile(a) \in Node
  /\ \A a \in {"dir", "none", "link", "other"}, c \in Contents, r \in BOOLEAN :
       Leaf(a, "file", c, r) \in Node
  /\ NoRecord \in Record /\ NoRecords \in Records
  /\ NoOp \in Op /\ NoOps \in [Paths -> Op]
  /\ Idle \in Sync
<1>1. SomePath \in Paths /\ SomeContent \in Contents
  BY NamesAssumption DEF SomePath, SomeContent
<1>2. NoAsk \in Asks
  BY <1>1 DEF NoAsk, Asks
<1>3. Nothing \in Declarations
  BY <1>2 DEF Nothing, Declarations
<1>4. /\ \A a \in {"dir", "none", "link", "other"} : NoFile(a) \in Node
      /\ \A a \in {"dir", "none", "link", "other"}, c \in Contents, r \in BOOLEAN :
           Leaf(a, "file", c, r) \in Node
  BY <1>1 DEF NoFile, Leaf, Node
<1>5. NoRecord \in Record /\ NoRecords \in Records
  BY <1>1 DEF NoRecord, Record, NoRecords, Records, Planes
<1>6. NoOp \in Op /\ NoOps \in [Paths -> Op]
  BY <1>1, <1>4 DEF NoOp, Op, NoOps
<1>7. Idle \in Sync
  BY <1>1, <1>3, <1>5, <1>6 DEF Idle, Sync
<1> QED
  BY <1>1, <1>2, <1>3, <1>4, <1>5, <1>6, <1>7

(* of_document judges entries, it does not invent them.                    *)
LEMMA ResolvedType ==
  ASSUME NEW d \in Declarations PROVE Resolved(d) \in [Names -> Asks]
<1>1. d.ask \in [Names -> Asks]
  BY DEF Declarations
<1>2. [NoAsk EXCEPT !.what = "refused"] \in Asks
  BY Fillers DEF Asks
<1> QED
  BY <1>1, <1>2 DEF Resolved, RefuseCollisions

(* The entry that wants a path, and what it asks for.                      *)
LEMMA WantingEntry ==
  ASSUME NEW d \in Declarations, NEW p \in Paths, Wanting(d, p) # {}
  PROVE  LET e == CHOOSE e \in Wanting(d, p) : TRUE
         IN e \in Names /\ e \in Wanting(d, p) /\ Resolved(d)[e] \in Asks
BY ResolvedType DEF Wanting

(* The rows of the plan: which of them write a file, and on what evidence. *)
(* A file is created where none is; it is replaced or removed only if it   *)
(* is a regular file, on a record of the same writer whose hash it has, or *)
(* (replaced) by an entry or a caller that overwrites.                     *)
Evidence(d, r, n, force, plane, p, do) ==
  /\ r.there => r.plane = plane
  /\ n.kind # "missing" =>
       /\ n.kind = "file"
       /\ \/ r.there /\ r.hash = n.hash
          \/ /\ do = "place"
             /\ force \/ \E e \in Wanting(d, p) : Resolved(d)[e].over

(* What plan decides for a path is typed; an operation has its evidence    *)
(* and the record that goes with it; and a path without an operation keeps *)
(* the record of a file that matched it.                                   *)
LEMMA PlanSound ==
  ASSUME NEW d \in Declarations, NEW old \in Records, NEW ns \in [Paths -> Node],
         NEW safe \in BOOLEAN, NEW force \in BOOLEAN, NEW plane \in Planes,
         NEW p \in Paths,
         NEW act, act = Action(d, old, ns, safe, force, plane, p),
         NEW op, op = PlanOp(d, act, ns[p], p),
         NEW rec, rec = PlanRecord(d, act, old[p], plane, p)
  PROVE  /\ op \in Op /\ rec \in Record
         /\ op.do # "none" =>
              /\ op.seen = ns[p]
              /\ Evidence(d, old[p], ns[p], force, plane, p, op.do)
         /\ op.do = "place" => rec.there /\ rec.hash = op.hash
         /\ op.do = "none" /\ Assess(ns[p]) = "file" /\ old[p].there
              /\ old[p].hash = ns[p].hash => rec.there /\ rec.hash = ns[p].hash
<1> DEFINE n == ns[p]
           r == old[p]
           e == CHOOSE e \in Wanting(d, p) : TRUE
           a == Resolved(d)[e]
<1>0. n \in Node /\ r \in Record
  BY DEF Records
<1>1. CASE Wanting(d, p) # {} /\ d.kind # "held" /\ safe
  <2>1. e \in Names /\ e \in Wanting(d, p) /\ a \in Asks
    BY <1>1, WantingEntry
  <2>2. act = WantedAction(a, r, n, force, plane)
    BY <1>1 DEF Action
  <2> HIDE DEF e
  <2>3. CASE act \in {"create", "update", "overwrite"}
    <3>1. op = [do |-> "place", seen |-> n, hash |-> a.hash]
      BY <2>3 DEF PlanOp, e
    <3>2. rec = [there |-> TRUE, entry |-> e, hash |-> a.hash, plane |-> plane]
      BY <2>3 DEF PlanRecord, e
    <3>3. op \in Op /\ rec \in Record
      BY <2>1, <1>0, <3>1, <3>2 DEF Op, Record, Asks
    <3>4. Evidence(d, r, n, force, plane, p, "place")
      BY <2>1, <2>2, <2>3, <1>0 DEF WantedAction, Evidence, Node, Record, Assess
    <3> QED
      BY <3>1, <3>2, <3>3, <3>4
  <2>4. CASE act = "in sync"
    <3>1. op = NoOp
      BY <2>4 DEF PlanOp
    <3>2. rec = [there |-> TRUE, entry |-> e, hash |-> a.hash, plane |-> plane]
      BY <2>4 DEF PlanRecord, e
    <3>3. rec \in Record
      BY <2>1, <3>2 DEF Record, Asks
    <3>4. a.hash = n.hash
      BY <2>2, <2>4 DEF WantedAction
    <3> QED
      BY <3>1, <3>2, <3>3, <3>4, Fillers DEF NoOp
  <2>5. CASE act \in {"refused", "local edit"}
    <3>1. op = NoOp /\ rec = r
      BY <2>5 DEF PlanOp, PlanRecord
    <3> QED
      BY <3>1, <1>0, Fillers DEF NoOp
  <2> QED
    BY <2>2, <2>3, <2>4, <2>5 DEF WantedAction
<1>2. CASE ~(Wanting(d, p) # {}) /\ d.kind # "held" /\ safe /\ r.there
  <2>1. act = UnwantedAction(d, r, n, plane)
    BY <1>2 DEF Action
  <2>2. CASE act = "delete"
    <3>1. op = [do |-> "remove", seen |-> n, hash |-> n.hash] /\ rec = NoRecord
      BY <2>2 DEF PlanOp, PlanRecord
    <3>2. op \in Op
      BY <3>1, <1>0 DEF Op, Node
    <3>3. Evidence(d, r, n, force, plane, p, "remove")
      BY <2>1, <2>2, <1>2, <1>0 DEF UnwantedAction, Evidence, Assess, Node
    <3> QED
      BY <3>1, <3>2, <3>3, Fillers
  <2>3. CASE act = "kept"
    <3>1. op = NoOp /\ rec = r
      BY <2>3 DEF PlanOp, PlanRecord
    <3> QED
      BY <3>1, <1>0, Fillers DEF NoOp
  <2>4. CASE act \in {"forget", "left"}
    <3>1. op = NoOp /\ rec = NoRecord
      BY <2>4 DEF PlanOp, PlanRecord
    <3>2. ~(Assess(n) = "file" /\ r.hash = n.hash)
      BY <2>1, <2>4 DEF UnwantedAction
    <3> QED
      BY <3>1, <3>2, Fillers DEF NoOp
  <2> QED
    BY <2>1, <2>2, <2>3, <2>4 DEF UnwantedAction
<1>3. CASE d.kind = "held" \/ ~safe
  <2>1. act = "kept"
    BY <1>3 DEF Action
  <2>2. op = NoOp /\ rec = r
    BY <2>1 DEF PlanOp, PlanRecord
  <2> QED
    BY <2>2, <1>0, Fillers DEF NoOp
<1>4. CASE ~(Wanting(d, p) # {}) /\ d.kind # "held" /\ safe /\ ~r.there
  <2>1. act = "nothing"
    BY <1>4 DEF Action
  <2>2. op = NoOp /\ rec = NoRecord
    BY <2>1 DEF PlanOp, PlanRecord
  <2> QED
    BY <2>2, <1>4, Fillers DEF NoOp
<1> QED
  BY <1>1, <1>2, <1>3, <1>4

-----------------------------------------------------------------------------
(* Type correctness.                                                       *)

(* What the daemon polled is what it may remember.                         *)
DaemonOK ==
  /\ sync["daemon"].files \in {Nothing} \cup Docs
  /\ sync["daemon"].inode \in 0..MaxBoots

(* What a document may say, and what an operator may hand over, is a       *)
(* declaration.                                                            *)
LEMMA DocsTyped ==
  /\ {Nothing} \cup Docs \subseteq Declarations
  /\ Handed \subseteq Declarations
  /\ "daemon" \in Syncers /\ "cli" \in Syncers
  /\ \A s \in Syncers : Plane(s) \in Planes
  /\ Operators \subseteq Syncers
BY Fillers, DocsAssumption DEF Syncers, Plane, Planes

CacheTypes == [known : BOOLEAN, digest : {Nothing} \cup Docs, files : {Nothing} \cup Docs]

UsedTypes == [edits : 0..MaxEdits, guest : 0..MaxGuestEdits, boots : 0..MaxBoots,
              ops : 0..MaxOpFailures, faults : 0..MaxFaults]

(* Using up a bound that is not used up stays within it.                   *)
LEMMA UsedTyped ==
  ASSUME NEW u \in UsedTypes
  PROVE  /\ u.edits < MaxEdits => [u EXCEPT !.edits = @ + 1] \in UsedTypes
         /\ u.guest < MaxGuestEdits => [u EXCEPT !.guest = @ + 1] \in UsedTypes
         /\ u.boots < MaxBoots => [u EXCEPT !.boots = @ + 1] \in UsedTypes
         /\ u.ops < MaxOpFailures => [u EXCEPT !.ops = @ + 1] \in UsedTypes
         /\ u.faults < MaxFaults => [u EXCEPT !.faults = @ + 1] \in UsedTypes
BY BoundsAssumption DEF UsedTypes

(* Updates of one field of one run keep the runs typed.                    *)
LEMMA SyncUpdates ==
  ASSUME sync \in [Syncers -> Sync], NEW s \in Syncers
  PROVE  /\ [sync EXCEPT ![s] = Idle] \in [Syncers -> Sync]
         /\ \A j \in Sync : [sync EXCEPT ![s] = j] \in [Syncers -> Sync]
         /\ \A d \in Declarations, f \in BOOLEAN, i \in Nat :
              [Idle EXCEPT !.pc = "queued", !.files = d, !.force = f, !.inode = i] \in Sync
BY Fillers DEF Sync

(* The initial state is well typed.                                        *)
LEMMA InitTyped == Init => TypeOK /\ DaemonOK
<1> SUFFICES ASSUME Init PROVE TypeOK /\ DaemonOK
  OBVIOUS
<1>1. root \in BOOLEAN /\ busy \in BOOLEAN
  BY DEF Init
<1>2. memo.known \in BOOLEAN /\ memo.watched \in BOOLEAN
  BY DEF Init, NoMemo
<1>3. 0 \in 0..MaxEdits /\ 0 \in 0..MaxGuestEdits /\ 0 \in 0..MaxBoots
      /\ 0 \in 0..MaxOpFailures /\ 0 \in 0..MaxFaults
  BY BoundsAssumption
<1>4. memo \in [known : BOOLEAN, digest : {Nothing} \cup Docs, inode : 0..MaxBoots,
                watched : BOOLEAN]
  BY <1>3 DEF Init, NoMemo
<1>5. used \in [edits : 0..MaxEdits, guest : 0..MaxGuestEdits, boots : 0..MaxBoots,
                ops : 0..MaxOpFailures, faults : 0..MaxFaults]
  BY <1>3 DEF Init
<1>6. manifest \in [state : {"none", "ok", "bad", "huge"}, rec : Records]
  BY Fillers DEF Init
<1>7. sync \in [Syncers -> Sync] /\ DaemonOK
  BY Fillers, DocsTyped, <1>3 DEF Init, DaemonOK, Idle
<1>8. NoCache.known \in BOOLEAN
  BY DEF NoCache
<1>9. cache \in CacheTypes
  BY <1>8 DEF Init, NoCache, CacheTypes
<1>10. nodes \in [Paths -> Node]
  BY Fillers DEF Init
<1> QED
  BY <1>1, <1>3, <1>4, <1>5, <1>6, <1>7, <1>9, <1>10 DEF TypeOK, Init, CacheTypes

(* The end of a sync keeps every variable in its type.                     *)
LEMMA FinishTyped ==
  ASSUME TypeOK, DaemonOK, NEW s \in Syncers, NEW ok \in BOOLEAN, Finish(s, ok)
  PROVE  /\ sync' \in [Syncers -> Sync] /\ DaemonOK'
         /\ flock' \in Syncers \cup {NoSyncer}
         /\ ours' \subseteq Paths
         /\ memo' \in [known : BOOLEAN, digest : {Nothing} \cup Docs,
                        inode : 0..MaxBoots, watched : BOOLEAN]
<1>1. sync' \in [Syncers -> Sync]
  BY SyncUpdates DEF TypeOK, Finish
<1>2. DaemonOK'
  BY BoundsAssumption, DocsTyped DEF TypeOK, Finish, DaemonOK, Idle
<1>3. flock' \in Syncers \cup {NoSyncer} /\ ours' \subseteq Paths
  BY DEF TypeOK, Finish
<1>4. CASE s # "daemon"
  BY <1>1, <1>2, <1>3, <1>4 DEF TypeOK, Finish
<1>5. CASE s = "daemon"
  <2> DEFINE w == IF ok THEN sync[s].new # NoRecords
                  ELSE memo.watched \/ HasKey(sync[s].files)
  <2>1. w \in BOOLEAN
    BY DEF TypeOK, HasKey
  <2>2. memo' = [known |-> TRUE, digest |-> cache.digest, inode |-> sync[s].inode,
                 watched |-> w]
    BY <1>5 DEF Finish
  <2>3. cache.digest \in {Nothing} \cup Docs
    BY DEF TypeOK
  <2> HIDE DEF w
  <2> QED
    BY <1>1, <1>2, <1>3, <2>1, <2>2, <2>3, <1>5 DEF DaemonOK
<1> QED
  BY <1>4, <1>5

(* A step of one syncer keeps every variable in its type.                  *)
LEMMA SyncerTyped ==
  ASSUME TypeOK, DaemonOK, NEW s \in Syncers,
         Step(s) \/ GiveUp(s) \/ Killed(s) \/ HandOver(s) \/ \E p \in Paths : FailOp(s, p)
  PROVE  TypeOK' /\ DaemonOK'
<1> USE DEF guestVars, envVars, daemonVars, history
<1>0. sync[s] \in Sync /\ sync[s].old \in Records /\ sync[s].new \in Records
      /\ sync[s].ops \in [Paths -> Op] /\ sync[s].files \in Declarations
      /\ sync[s].force \in BOOLEAN /\ sync[s].at \in Paths
  BY DEF TypeOK, Sync
<1>a. ASSUME NEW j \in Sync, sync' = [sync EXCEPT ![s] = j],
             j.files = sync[s].files, j.inode = sync[s].inode
      PROVE  sync' \in [Syncers -> Sync] /\ DaemonOK'
  BY <1>a, DocsTyped DEF TypeOK, DaemonOK
<1>b. ASSUME NEW p \in Paths, SkipOp(s, p)
      PROVE  sync' \in [Syncers -> Sync] /\ DaemonOK'
  <2> DEFINE j == [sync[s] EXCEPT !.ops[p] = NoOp, !.new[p] = sync[s].old[p], !.pc = "commit"]
  <2>1. j \in Sync
    BY <1>0, Fillers DEF Sync, Records
  <2>2. sync' = [sync EXCEPT ![s] = j] /\ j.files = sync[s].files /\ j.inode = sync[s].inode
    BY <1>b, <1>0 DEF SkipOp, TypeOK, Sync
  <2> QED
    BY <2>1, <2>2, <1>a
<1>1. CASE TakeFlock(s)
  <2> DEFINE j == [sync[s] EXCEPT !.pc = "read"]
  <2>1. j \in Sync /\ j.files = sync[s].files /\ j.inode = sync[s].inode
    BY <1>0 DEF Sync
  <2>2. sync' = [sync EXCEPT ![s] = j]
    BY <1>1 DEF TakeFlock, TypeOK
  <2> HIDE DEF j
  <2>9. sync' \in [Syncers -> Sync] /\ DaemonOK'
    BY <2>1, <2>2, <1>a
  <2> QED
    BY <1>1, <2>9 DEF TakeFlock, TypeOK
<1>2. CASE ReadManifest(s)
  <2> DEFINE o == IF manifest.state = "ok" THEN manifest.rec ELSE NoRecords
             j == [sync[s] EXCEPT !.pc = "probe", !.old = o]
  <2>1. o \in Records
    BY Fillers DEF TypeOK
  <2>2. j \in Sync /\ j.files = sync[s].files /\ j.inode = sync[s].inode
    BY <1>0, <2>1 DEF Sync
  <2>3. sync' = [sync EXCEPT ![s] = j]
    BY <1>2 DEF ReadManifest, TypeOK
  <2> HIDE DEF j
  <2>9. sync' \in [Syncers -> Sync] /\ DaemonOK'
    BY <2>2, <2>3, <1>a
  <2> QED
    BY <1>2, <2>9 DEF ReadManifest, TypeOK
<1>3. CASE Inspect(s)
  <2> DEFINE act == [p \in Paths |-> Action(sync[s].files, sync[s].old, nodes, root,
                                            sync[s].force, Plane(s), p)]
             ops == [p \in Paths |-> PlanOp(sync[s].files, act[p], nodes[p], p)]
             new == [p \in Paths |-> PlanRecord(sync[s].files, act[p], sync[s].old[p],
                                                Plane(s), p)]
             j == [sync[s] EXCEPT !.pc = "dirs", !.ops = ops, !.new = new]
  <2>0. nodes \in [Paths -> Node] /\ root \in BOOLEAN /\ Plane(s) \in Planes
    BY DocsTyped DEF TypeOK
  <2>1. ASSUME NEW p \in Paths PROVE ops[p] \in Op /\ new[p] \in Record
    <3>1. /\ act[p] = Action(sync[s].files, sync[s].old, nodes, root, sync[s].force,
                             Plane(s), p)
          /\ ops[p] = PlanOp(sync[s].files, act[p], nodes[p], p)
          /\ new[p] = PlanRecord(sync[s].files, act[p], sync[s].old[p], Plane(s), p)
      OBVIOUS
    <3> HIDE DEF act, ops, new
    <3> QED
      BY <1>0, <2>0, <3>1, PlanSound
  <2>2. ops \in [Paths -> Op] /\ new \in Records
    BY <2>1 DEF Records
  <2>3. sync' = [sync EXCEPT ![s] = j]
    BY <1>3 DEF Inspect, TypeOK
  <2> HIDE DEF ops, new
  <2>4. j \in Sync /\ j.files = sync[s].files /\ j.inode = sync[s].inode
    BY <1>0, <2>2 DEF Sync
  <2> HIDE DEF j
  <2>9. sync' \in [Syncers -> Sync] /\ DaemonOK'
    BY <2>3, <2>4, <1>a
  <2>10. UNCHANGED <<guestVars, envVars, flock, daemonVars, history, used>>
    BY <1>3 DEF Inspect
  <2> QED
    BY <2>9, <2>10 DEF TypeOK
<1>4. CASE MakeDirs(s)
  <2> DEFINE j == [sync[s] EXCEPT !.pc = "commit"]
  <2>1. j \in Sync /\ j.files = sync[s].files /\ j.inode = sync[s].inode
    BY <1>0 DEF Sync
  <2>2. sync' = [sync EXCEPT ![s] = j]
    BY <1>4 DEF MakeDirs, TypeOK
  <2>3. \A p \in Paths : [nodes[p] EXCEPT !.above = "dir"] \in Node
    BY DEF TypeOK, Node
  <2>4. nodes' \in [Paths -> Node]
    BY <1>4, <2>3 DEF MakeDirs, TypeOK
  <2> HIDE DEF j
  <2>9. sync' \in [Syncers -> Sync] /\ DaemonOK'
    BY <2>1, <2>2, <1>a
  <2> QED
    BY <1>4, <2>4, <2>9 DEF MakeDirs, TypeOK
<1>5. ASSUME NEW p \in Paths, ApplyOp(s, p) PROVE TypeOK' /\ DaemonOK'
  <2> DEFINE j == [sync[s] EXCEPT !.ops[p] = NoOp, !.pc = "commit"]
  <2>1. j \in Sync
    BY <1>0, Fillers DEF Sync
  <2>2. sync' = [sync EXCEPT ![s] = j] /\ j.files = sync[s].files /\ j.inode = sync[s].inode
    BY <1>5, <1>0 DEF ApplyOp, TypeOK, Sync
  <2>3. nodes[p] \in Node /\ sync[s].ops[p].hash \in Contents
    BY <1>0 DEF TypeOK, Op
  <2>4. nodes[p].above \in {"dir", "none", "link", "other"}
    BY <2>3 DEF Node
  <2>5. Leaf(nodes[p].above, "file", sync[s].ops[p].hash, TRUE) \in Node
        /\ NoFile(nodes[p].above) \in Node
    BY <2>3, <2>4, Fillers
  <2>6. PICK n \in {IF sync[s].ops[p].do = "place"
                      THEN Leaf(nodes[p].above, "file", sync[s].ops[p].hash, TRUE)
                      ELSE NoFile(nodes[p].above)}
                   \cup {m \in {nodes[p]} : sync[s].ops[p].do = "place" /\ m.kind = "unsafe"} :
          /\ nodes' = [nodes EXCEPT ![p] = n]
          /\ ours' = IF Assess(n) = "file" /\ manifest.rec = sync[s].old
                       THEN ours \cup {p} ELSE ours \ {p}
    BY <1>5 DEF ApplyOp
  <2>7. n \in Node
    BY <2>3, <2>5
  <2>8. nodes' \in [Paths -> Node] /\ ours' \subseteq Paths
    BY <2>6, <2>7 DEF TypeOK
  <2> HIDE DEF j
  <2>9. sync' \in [Syncers -> Sync] /\ DaemonOK'
    BY <2>1, <2>2, <1>a
  <2> QED
    BY <1>5, <2>8, <2>9 DEF ApplyOp, TypeOK
<1>6. ASSUME NEW p \in Paths, CheckOp(s, p) PROVE TypeOK' /\ DaemonOK'
  <2> DEFINE j == [sync[s] EXCEPT !.pc = "checked", !.at = p]
  <2>1. j \in Sync /\ j.files = sync[s].files /\ j.inode = sync[s].inode
    BY <1>0 DEF Sync
  <2>2. sync' = [sync EXCEPT ![s] = j]
    BY <1>6 DEF CheckOp, TypeOK
  <2> HIDE DEF j
  <2>9. sync' \in [Syncers -> Sync] /\ DaemonOK'
    BY <2>1, <2>2, <1>a
  <2> QED
    BY <1>6, <2>9 DEF CheckOp, TypeOK
<1>7. ASSUME NEW p \in Paths, ChangedOp(s, p) PROVE TypeOK' /\ DaemonOK'
  BY <1>7, <1>b DEF ChangedOp, TypeOK
<1>8. ASSUME NEW p \in Paths, FailOp(s, p) PROVE TypeOK' /\ DaemonOK'
  <2>1. used' \in UsedTypes
    BY <1>8, UsedTyped DEF FailOp, TypeOK, UsedTypes
  <2> QED
    BY <1>8, <1>b, <2>1 DEF FailOp, TypeOK, UsedTypes
<1>9. CASE WriteManifest(s)
  <2>1. manifest' \in [state : {"none", "ok", "bad", "huge"}, rec : Records]
    BY <1>9, <1>0 DEF WriteManifest, TypeOK
  <2> QED
    BY <1>9, <2>1, FinishTyped DEF WriteManifest, TypeOK
<1>10. CASE GiveUp(s)
  BY <1>10, FinishTyped DEF GiveUp, TypeOK
<1>11. CASE Killed(s)
  <2>1. used' \in UsedTypes
    BY <1>11, UsedTyped DEF Killed, TypeOK, UsedTypes
  <2> QED
    BY <1>11, FinishTyped, <2>1 DEF Killed, TypeOK, UsedTypes
<1>12. CASE HandOver(s)
  <2>1. PICK d \in Handed : sync' = [sync EXCEPT ![s] = [Idle EXCEPT !.pc = "queued", !.files = d]]
    BY <1>12 DEF HandOver
  <2>2. [Idle EXCEPT !.pc = "queued", !.files = d] \in Sync
    BY Fillers, DocsTyped DEF Sync
  <2>3. sync' \in [Syncers -> Sync]
    BY <2>1, <2>2 DEF TypeOK
  <2>4. DaemonOK'
    <3>1. s # "daemon"
      BY <1>12, NamesAssumption DEF HandOver
    <3> QED
      BY <2>1, <3>1, DocsTyped DEF DaemonOK, TypeOK
  <2>5. used' \in UsedTypes
    BY <1>12, UsedTyped DEF HandOver, TypeOK, UsedTypes
  <2>6. UNCHANGED <<want, nodes, root, manifest, inode, busy, flock, memo, cache, ours, late>>
    BY <1>12 DEF HandOver
  <2> QED
    BY <2>3, <2>4, <2>5, <2>6 DEF TypeOK, UsedTypes
<1>13. CASE \E p \in Paths : CheckOp(s, p) \/ ApplyOp(s, p) \/ ChangedOp(s, p)
  <2>1. PICK p \in Paths : CheckOp(s, p) \/ ApplyOp(s, p) \/ ChangedOp(s, p)
    BY <1>13
  <2>2. CASE CheckOp(s, p)
    BY <2>2, <1>6
  <2>3. CASE ApplyOp(s, p)
    BY <2>3, <1>5
  <2>4. CASE ChangedOp(s, p)
    BY <2>4, <1>7
  <2> QED
    BY <2>1, <2>2, <2>3, <2>4
<1>14. CASE \E p \in Paths : FailOp(s, p)
  <2>1. PICK p \in Paths : FailOp(s, p)
    BY <1>14
  <2> QED
    BY <2>1, <1>8
<1>15. CASE Step(s)
  <2>1. \/ TakeFlock(s) \/ ReadManifest(s) \/ Inspect(s) \/ MakeDirs(s)
        \/ (\E p \in Paths : CheckOp(s, p) \/ ApplyOp(s, p) \/ ChangedOp(s, p))
        \/ WriteManifest(s)
    BY <1>15 DEF Step
  <2> QED
    BY <2>1, <1>1, <1>2, <1>3, <1>4, <1>9, <1>13
<1> QED
  BY <1>10, <1>11, <1>12, <1>14, <1>15

(* Every other step keeps every variable in its type.                      *)
LEMMA AroundTyped ==
  ASSUME TypeOK, DaemonOK,
         \/ Poll \/ QueueDue \/ NotDue \/ PollFails \/ SkipQueued \/ RestartDaemon
         \/ RunSync \/ EditDocument \/ GuestMeddles \/ StartContainer \/ StopContainer
         \/ PveLock \/ \E p \in Paths : GuestWrites(p)
  PROVE  TypeOK' /\ DaemonOK'
<1> USE DEF guestVars, envVars, daemonVars, history
<1>0. used \in UsedTypes
  BY DEF TypeOK, UsedTypes
<1>a. ASSUME NEW j \in Sync, j.files \in {Nothing} \cup Docs, j.inode \in 0..MaxBoots,
             sync' = [sync EXCEPT !["daemon"] = j]
      PROVE  sync' \in [Syncers -> Sync] /\ DaemonOK'
  <2>1. sync'["daemon"] = j
    BY <1>a, DocsTyped DEF TypeOK
  <2> QED
    BY <1>a, <2>1, DocsTyped DEF TypeOK, DaemonOK
<1>c. NoCache \in CacheTypes /\ Filed \in CacheTypes
      /\ [NoCache EXCEPT !.digest = want] \in CacheTypes
  <2>1. NoCache.known \in BOOLEAN
    BY DEF NoCache
  <2>2. cache \in CacheTypes /\ want \in {Nothing} \cup Docs
    BY DEF TypeOK, CacheTypes
  <2>3. NoCache \in CacheTypes /\ [NoCache EXCEPT !.digest = want] \in CacheTypes
    BY <2>1, <2>2 DEF NoCache, CacheTypes
  <2>4. [cache EXCEPT !.known = TRUE, !.files = want] \in CacheTypes
    BY <2>2 DEF CacheTypes
  <2> QED
    BY <2>2, <2>3, <2>4 DEF Filed
<1>b. ASSUME sync' = [sync EXCEPT !["daemon"] = Idle]
      PROVE  sync' \in [Syncers -> Sync] /\ DaemonOK'
  <2>1. sync' \in [Syncers -> Sync] /\ sync'["daemon"] = Idle
    BY <1>b, SyncUpdates, DocsTyped DEF TypeOK
  <2>2. Idle.files = Nothing /\ Idle.inode = 0
    BY DEF Idle
  <2> QED
    BY <2>1, <2>2, BoundsAssumption DEF DaemonOK
<1>1. CASE Poll
  <2> DEFINE j == [Idle EXCEPT !.pc = "polled", !.inode = inode]
  <2>1. inode \in Nat /\ inode \in 0..MaxBoots
    BY BoundsAssumption DEF TypeOK
  <2>2. j \in Sync /\ j.files = Nothing /\ j.inode = inode
    BY <2>1, Fillers DEF Sync, Idle
  <2>3. cache' \in CacheTypes
    BY <1>1, <1>c DEF Poll, TypeOK, CacheTypes
  <2>4. sync' = [sync EXCEPT !["daemon"] = j]
    BY <1>1 DEF Poll
  <2> HIDE DEF j
  <2>5. sync' \in [Syncers -> Sync] /\ DaemonOK'
    BY <2>1, <2>2, <2>4, <1>a
  <2> QED
    BY <1>1, <2>3, <2>5 DEF Poll, TypeOK, CacheTypes
<1>2. CASE QueueDue \/ NotDue \/ PollFails
  <2>1. cache' \in CacheTypes
    BY <1>2, <1>c DEF QueueDue, NotDue, PollFails
  <2>2. used' \in UsedTypes
    BY <1>2, <1>0, UsedTyped DEF QueueDue, NotDue, PollFails
  <2>3. memo' \in [known : BOOLEAN, digest : {Nothing} \cup Docs, inode : 0..MaxBoots,
                   watched : BOOLEAN]
    <3>1. sync["daemon"].inode \in 0..MaxBoots
      BY DEF DaemonOK
    <3> QED
      BY <1>2, <3>1 DEF QueueDue, NotDue, PollFails, TypeOK
  <2>4. CASE QueueDue
    <3> DEFINE j == [sync["daemon"] EXCEPT !.pc = "queued", !.files = Filed.files]
    <3>1. Filed.files \in {Nothing} \cup Docs
      BY <1>c DEF CacheTypes
    <3>2. sync["daemon"] \in Sync /\ Filed.files \in Declarations
      BY <3>1, DocsTyped DEF TypeOK
    <3>3. j \in Sync /\ j.files = Filed.files /\ j.inode = sync["daemon"].inode
      BY <3>2 DEF Sync
    <3>4. sync' = [sync EXCEPT !["daemon"] = j]
      BY <2>4, DocsTyped DEF QueueDue, TypeOK
    <3> HIDE DEF j
    <3>5. sync' \in [Syncers -> Sync] /\ DaemonOK'
      BY <3>1, <3>3, <3>4, <1>a DEF DaemonOK
    <3> QED
      BY <2>4, <2>1, <2>2, <2>3, <3>5 DEF QueueDue, TypeOK, CacheTypes, UsedTypes
  <2>5. CASE NotDue
    BY <2>5, <2>1, <2>2, <2>3, <1>b DEF NotDue, TypeOK, CacheTypes, UsedTypes
  <2>6. CASE PollFails
    BY <2>6, <2>1, <2>2, <2>3, <1>b DEF PollFails, TypeOK, CacheTypes, UsedTypes
  <2> QED
    BY <1>2, <2>4, <2>5, <2>6
<1>3. CASE SkipQueued
  BY <1>3, <1>b DEF SkipQueued, TypeOK
<1>4. CASE RestartDaemon
  <2>1. NoMemo \in [known : BOOLEAN, digest : {Nothing} \cup Docs, inode : 0..MaxBoots,
                    watched : BOOLEAN]
    BY BoundsAssumption DEF NoMemo
  <2>2. used' \in UsedTypes
    BY <1>4, <1>0, UsedTyped DEF RestartDaemon
  <2> QED
    BY <1>4, <1>b, <1>c, <2>1, <2>2 DEF RestartDaemon, TypeOK, UsedTypes, CacheTypes
<1>5. CASE RunSync
  <2>1. PICK force \in BOOLEAN :
          sync' = [sync EXCEPT !["cli"] = [Idle EXCEPT
                    !.pc = "queued", !.files = want, !.force = force]]
    BY <1>5 DEF RunSync
  <2>2. [Idle EXCEPT !.pc = "queued", !.files = want, !.force = force] \in Sync
    BY Fillers, DocsTyped DEF Sync, TypeOK
  <2>3. sync' \in [Syncers -> Sync]
    BY <2>1, <2>2 DEF TypeOK
  <2>4. DaemonOK'
    BY <2>1, DocsTyped DEF DaemonOK, TypeOK
  <2>5. used' \in UsedTypes
    BY <1>5, <1>0, UsedTyped DEF RunSync
  <2> QED
    BY <1>5, <2>3, <2>4, <2>5 DEF RunSync, TypeOK, UsedTypes
<1>6. CASE EditDocument
  <2>1. used' \in UsedTypes
    BY <1>6, <1>0, UsedTyped DEF EditDocument
  <2> QED
    BY <1>6, <2>1 DEF EditDocument, TypeOK, UsedTypes, DaemonOK
<1>7. CASE GuestMeddles
  <2>1. used' \in UsedTypes
    BY <1>7, <1>0, UsedTyped DEF GuestMeddles
  <2>2. root' \in BOOLEAN
    BY <1>7 DEF GuestMeddles, TypeOK
  <2>3. manifest' \in [state : {"none", "ok", "bad", "huge"}, rec : Records]
    BY <1>7, Fillers, GuestAssumption DEF GuestMeddles, TypeOK
  <2> QED
    BY <1>7, <2>1, <2>2, <2>3 DEF GuestMeddles, TypeOK, UsedTypes, DaemonOK
<1>8. CASE StartContainer
  <2>1. used' \in UsedTypes
    BY <1>8, <1>0, UsedTyped DEF StartContainer
  <2>2. inode' \in 0..MaxBoots
    BY <1>8, BoundsAssumption DEF StartContainer, TypeOK
  <2> QED
    BY <1>8, <2>1, <2>2 DEF StartContainer, TypeOK, UsedTypes, DaemonOK
<1>9. CASE StopContainer
  <2>1. inode' \in 0..MaxBoots
    BY <1>9, BoundsAssumption DEF StopContainer
  <2> QED
    BY <1>9, <2>1 DEF StopContainer, TypeOK, DaemonOK
<1>10. CASE PveLock
  <2>1. used' \in UsedTypes
    BY <1>10, <1>0, UsedTyped DEF PveLock
  <2>2. busy' \in BOOLEAN
    BY <1>10 DEF PveLock, TypeOK
  <2> QED
    BY <1>10, <2>1, <2>2 DEF PveLock, TypeOK, UsedTypes, DaemonOK
<1>11. ASSUME NEW p \in Paths, GuestWrites(p) PROVE TypeOK' /\ DaemonOK'
  <2>1. used' \in UsedTypes
    <3>1. used.guest < MaxGuestEdits /\ used' = [used EXCEPT !.guest = @ + 1]
      BY <1>11 DEF GuestWrites
    <3> QED
      BY <3>1, <1>0, UsedTyped
  <2>2. nodes' \in [Paths -> Node]
    <3>4. GuestNodes \subseteq Node
      BY DEF GuestNodes
    <3> QED
      BY <1>11, <3>4 DEF GuestWrites, TypeOK
  <2> QED
    BY <1>11, <2>1, <2>2 DEF GuestWrites, TypeOK, UsedTypes, DaemonOK
<1> QED
  BY <1>1, <1>2, <1>3, <1>4, <1>5, <1>6, <1>7, <1>8, <1>9, <1>10, <1>11

(* A step or a stutter keeps every variable in its type.                   *)
LEMMA NextTyped == TypeOK /\ DaemonOK /\ [Next]_vars => TypeOK' /\ DaemonOK'
<1> SUFFICES ASSUME TypeOK, DaemonOK, [Next]_vars PROVE TypeOK' /\ DaemonOK'
  OBVIOUS
<1>1. CASE UNCHANGED vars
  BY <1>1 DEF vars, TypeOK, DaemonOK
<1>2. CASE Next
  BY <1>2, SyncerTyped, AroundTyped DEF Next
<1> QED
  BY <1>1, <1>2

(* Every variable of GuestFiles keeps its type: the manifest in the guest, *)
(* what the daemon remembers and every run of a syncer.                    *)
THEOREM FilesTypeCorrect == Spec => []TypeOK
<1>1. Init => TypeOK /\ DaemonOK
  BY InitTyped
<1>2. TypeOK /\ DaemonOK /\ [Next]_vars => (TypeOK /\ DaemonOK)'
  BY NextTyped
<1> QED
  BY <1>1, <1>2, PTL DEF Spec

-----------------------------------------------------------------------------
(* The inductive invariant.                                                *)

UnderFlock == {"read", "probe", "dirs", "commit", "checked"}
Decided == {"probe", "dirs", "commit", "checked"}
Committing == {"dirs", "commit", "checked"}

(* A file's record: the hash it was left with.                             *)
Kept(r, n) == r.there /\ r.hash = n.hash

(* Whoever is past the flock holds it.                                     *)
FlockInv == \A s \in Syncers : sync[s].pc \in UnderFlock => flock = s

(* A manifest that does not parse has no records.  The records a sync      *)
(* decides on are still in the guest or gone, and as long as any file      *)
(* counts as written by a sync they are still there.                       *)
RecordsInv ==
  /\ manifest.state # "ok" => manifest.rec = NoRecords
  /\ \A s \in Syncers : sync[s].pc \in Decided =>
       /\ manifest.rec \in {sync[s].old, NoRecords}
       /\ ours # {} => manifest.rec = sync[s].old

(* An operation left to commit has the evidence plan found for it, and the *)
(* manifest to be written says what it will have done.  Once checked, the  *)
(* file stays as it was seen until the guest writes it.                    *)
OpInv(s, p) ==
  LET op == sync[s].ops[p] IN
    /\ op.do # "none" => Evidence(sync[s].files, sync[s].old[p], op.seen,
                                  sync[s].force, Plane(s), p, op.do)
    /\ op.do = "place" => sync[s].new[p].there /\ sync[s].new[p].hash = op.hash

OpsInv ==
  \A s \in Syncers :
    /\ sync[s].pc \in Committing => \A p \in Paths : OpInv(s, p)
    /\ sync[s].pc = "checked" =>
         /\ sync[s].ops[sync[s].at].do # "none"
         /\ sync[s].at \notin late =>
              StillAsSeen(sync[s].ops[sync[s].at], nodes[sync[s].at])

(* Where the record of a file a sync wrote is: in the manifest, and while  *)
(* a sync commits in what it will write, or in what it read for a path it  *)
(* has yet to deal with.                                                   *)
OursInv ==
  /\ \A p \in ours : Assess(nodes[p]) = "file"
  /\ (\A s \in Syncers : sync[s].pc \notin Committing) =>
       \A p \in ours : Kept(manifest.rec[p], nodes[p])
  /\ \A s \in Syncers : sync[s].pc \in Committing =>
       \A p \in ours : Kept(IF sync[s].ops[p].do = "none" THEN sync[s].new[p]
                             ELSE sync[s].old[p], nodes[p])

CoreInv == FlockInv /\ RecordsInv /\ OpsInv /\ OursInv

FilesInv == TypeOK /\ DaemonOK /\ CoreInv

-----------------------------------------------------------------------------
(* What keeps it, step by step.                                            *)

(* There is one process past the flock at a time.                          *)
LEMMA Alone ==
  ASSUME FlockInv, NEW s \in Syncers, sync[s].pc \in UnderFlock
  PROVE  flock = s /\ \A t \in Syncers : t # s => sync[t].pc \notin UnderFlock
BY DEF FlockInv

(* A run that is not committing has no operations to account for.          *)
LEMMA OthersOps ==
  ASSUME OpsInv, NEW s \in Syncers, sync'[s].pc \notin Committing,
         \A t \in Syncers : t # s => sync'[t] = sync[t],
         UNCHANGED <<nodes, late>>
  PROVE  OpsInv'
<1> SUFFICES ASSUME NEW t \in Syncers
             PROVE  /\ sync'[t].pc \in Committing => \A p \in Paths : OpInv(t, p)'
                    /\ sync'[t].pc = "checked" =>
                         /\ sync'[t].ops[sync'[t].at].do # "none"
                         /\ sync'[t].at \notin late' =>
                              StillAsSeen(sync'[t].ops[sync'[t].at], nodes'[sync'[t].at])
  BY DEF OpsInv
<1>1. CASE t = s
  BY <1>1 DEF Committing
<1>2. CASE t # s
  BY <1>2 DEF OpsInv, OpInv
<1> QED
  BY <1>1, <1>2

(* Steps that leave the guest, the runs and the flock alone.               *)
LEMMA SameCore ==
  ASSUME CoreInv, UNCHANGED <<nodes, manifest, flock, sync, ours, late>>
  PROVE  CoreInv'
BY DEF CoreInv, FlockInv, RecordsInv, OpsInv, OpInv, OursInv

(* A run that is not past the flock becomes another such run.              *)
LEMMA OutsideCore ==
  ASSUME TypeOK, CoreInv, NEW s \in Syncers, NEW j \in Sync,
         sync[s].pc \notin UnderFlock, j.pc \notin UnderFlock,
         sync' = [sync EXCEPT ![s] = j],
         UNCHANGED <<nodes, manifest, flock, ours, late>>
  PROVE  CoreInv'
<1>1. sync'[s] = j /\ \A t \in Syncers : t # s => sync'[t] = sync[t]
  BY DEF TypeOK
<1>2. FlockInv'
  BY <1>1 DEF CoreInv, FlockInv
<1>3. RecordsInv'
  BY <1>1 DEF CoreInv, RecordsInv, UnderFlock, Decided
<1>4. OpsInv'
  BY <1>1, OthersOps DEF CoreInv, UnderFlock, Committing
<1>5. OursInv'
  BY <1>1 DEF CoreInv, OursInv, UnderFlock, Committing
<1> QED
  BY <1>2, <1>3, <1>4, <1>5 DEF CoreInv

(* Taking the flock, and reading the manifest under it.                    *)
LEMMA TakeFlockCore ==
  ASSUME TypeOK, CoreInv, NEW s \in Syncers, TakeFlock(s)
  PROVE  CoreInv'
<1>1. /\ sync'[s] = [sync[s] EXCEPT !.pc = "read"]
      /\ \A t \in Syncers : t # s => sync'[t] = sync[t]
      /\ sync[s].pc = "queued" /\ flock = NoSyncer /\ flock' = s
      /\ UNCHANGED <<nodes, manifest, ours, late>>
  BY DEF TakeFlock, TypeOK, guestVars, history
<1>1a. sync'[s].pc = "read"
  BY <1>1 DEF TypeOK, Sync
<1>2. \A t \in Syncers : sync[t].pc \notin UnderFlock
  BY <1>1, NamesAssumption DEF CoreInv, FlockInv
<1>3. FlockInv'
  BY <1>1, <1>2 DEF FlockInv
<1>4. RecordsInv'
  BY <1>1, <1>1a DEF CoreInv, RecordsInv, Decided
<1>5. OpsInv'
  BY <1>1, <1>1a, OthersOps DEF CoreInv, Committing
<1>6. OursInv'
  BY <1>1, <1>1a, <1>2 DEF CoreInv, OursInv, UnderFlock, Committing
<1> QED
  BY <1>3, <1>4, <1>5, <1>6 DEF CoreInv

LEMMA ReadManifestCore ==
  ASSUME TypeOK, CoreInv, NEW s \in Syncers, ReadManifest(s)
  PROVE  CoreInv'
<1>1. /\ sync'[s] = [sync[s] EXCEPT !.pc = "probe",
                        !.old = IF manifest.state = "ok" THEN manifest.rec ELSE NoRecords]
      /\ \A t \in Syncers : t # s => sync'[t] = sync[t]
      /\ sync[s].pc = "read"
      /\ UNCHANGED <<nodes, manifest, ours, late, flock>>
  BY DEF ReadManifest, TypeOK, guestVars, history
<1>2. sync'[s].pc = "probe" /\ sync'[s].old = manifest.rec
  BY <1>1 DEF TypeOK, Sync, CoreInv, RecordsInv
<1>3. flock = s /\ \A t \in Syncers : t # s => sync[t].pc \notin UnderFlock
  BY <1>1, Alone DEF CoreInv, UnderFlock
<1>4. FlockInv'
  BY <1>1, <1>3 DEF FlockInv
<1>5. RecordsInv'
  BY <1>1, <1>2, <1>3 DEF CoreInv, RecordsInv, Decided, UnderFlock
<1>6. OpsInv'
  BY <1>1, <1>2, OthersOps DEF CoreInv, Committing
<1>7. OursInv'
  <2>1. \A t \in Syncers : sync[t].pc \notin Committing /\ sync'[t].pc \notin Committing
    BY <1>1, <1>2, <1>3 DEF Committing, UnderFlock
  <2> QED
    BY <2>1, <1>1 DEF CoreInv, OursInv
<1> QED
  BY <1>4, <1>5, <1>6, <1>7 DEF CoreInv

(* The plan: every operation starts with its evidence, and a path without  *)
(* one keeps the record of a file a sync wrote.                            *)
LEMMA InspectCore ==
  ASSUME TypeOK, CoreInv, NEW s \in Syncers, Inspect(s)
  PROVE  CoreInv'
<1> DEFINE j == sync[s]
           act == [p \in Paths |->
                     Action(j.files, j.old, nodes, root, j.force, Plane(s), p)]
           ops == [p \in Paths |-> PlanOp(j.files, act[p], nodes[p], p)]
           new == [p \in Paths |-> PlanRecord(j.files, act[p], j.old[p], Plane(s), p)]
<1>0. j \in Sync /\ j.files \in Declarations /\ j.old \in Records /\ j.force \in BOOLEAN
  BY DEF TypeOK, Sync
<1>1. /\ sync'[s] = [j EXCEPT !.pc = "dirs", !.ops = ops, !.new = new]
      /\ \A t \in Syncers : t # s => sync'[t] = sync[t]
      /\ j.pc = "probe"
      /\ UNCHANGED <<nodes, manifest, ours, late, flock>>
  BY DEF Inspect, TypeOK, guestVars, history
<1>2. \A p \in Paths :
        /\ ops[p].do # "none" =>
             Evidence(j.files, j.old[p], ops[p].seen, j.force, Plane(s), p, ops[p].do)
        /\ ops[p].do = "place" => new[p].there /\ new[p].hash = ops[p].hash
        /\ ops[p].do = "none" /\ Assess(nodes[p]) = "file" /\ Kept(j.old[p], nodes[p])
             => Kept(new[p], nodes[p])
  <2> SUFFICES ASSUME NEW p \in Paths
               PROVE  /\ ops[p].do # "none" =>
                           Evidence(j.files, j.old[p], ops[p].seen, j.force, Plane(s), p, ops[p].do)
                      /\ ops[p].do = "place" => new[p].there /\ new[p].hash = ops[p].hash
                      /\ ops[p].do = "none" /\ Assess(nodes[p]) = "file" /\ Kept(j.old[p], nodes[p])
                           => Kept(new[p], nodes[p])
    OBVIOUS
  <2>1. /\ act[p] = Action(j.files, j.old, nodes, root, j.force, Plane(s), p)
        /\ ops[p] = PlanOp(j.files, act[p], nodes[p], p)
        /\ new[p] = PlanRecord(j.files, act[p], j.old[p], Plane(s), p)
    OBVIOUS
  <2>2. nodes \in [Paths -> Node] /\ root \in BOOLEAN /\ Plane(s) \in Planes
    BY DocsTyped DEF TypeOK
  <2> HIDE DEF j, act, ops, new
  <2>3. /\ ops[p].do # "none" =>
             /\ ops[p].seen = nodes[p]
             /\ Evidence(j.files, j.old[p], nodes[p], j.force, Plane(s), p, ops[p].do)
        /\ ops[p].do = "place" => new[p].there /\ new[p].hash = ops[p].hash
        /\ ops[p].do = "none" /\ Assess(nodes[p]) = "file" /\ j.old[p].there
             /\ j.old[p].hash = nodes[p].hash => new[p].there /\ new[p].hash = nodes[p].hash
    BY <1>0, <2>1, <2>2, PlanSound
  <2> QED
    BY <2>3 DEF Kept
<1> HIDE DEF ops, new
<1>3. /\ sync'[s].pc = "dirs" /\ sync'[s].ops = ops /\ sync'[s].new = new
      /\ sync'[s].old = j.old /\ sync'[s].files = j.files /\ sync'[s].force = j.force
  BY <1>0, <1>1 DEF Sync
<1>4. flock = s /\ \A t \in Syncers : t # s => sync[t].pc \notin UnderFlock
  BY <1>1, Alone DEF CoreInv, UnderFlock
<1> HIDE DEF j
<1>5. FlockInv'
  BY <1>1, <1>4 DEF FlockInv
<1>6. RecordsInv'
  BY <1>1, <1>3, <1>4 DEF CoreInv, RecordsInv, Decided, UnderFlock, j
<1>7. OpsInv'
  <2>1. \A p \in Paths : OpInv(s, p)'
    BY <1>2, <1>3 DEF OpInv
  <2> QED
    BY <2>1, <1>1, <1>3, <1>4 DEF OpsInv, Committing, UnderFlock
<1>8. OursInv'
  <2>1. \A p \in ours : Kept(j.old[p], nodes[p]) /\ Assess(nodes[p]) = "file"
    <3>1. \A t \in Syncers : sync[t].pc \notin Committing
      BY <1>1, <1>4 DEF Committing, UnderFlock, j
    <3>2. ours # {} => manifest.rec = j.old
      BY <1>1 DEF CoreInv, RecordsInv, Decided, j
    <3> QED
      BY <3>1, <3>2 DEF CoreInv, OursInv
  <2>2. \A p \in ours : Kept(IF ops[p].do = "none" THEN new[p] ELSE j.old[p], nodes[p])
    BY <2>1, <1>2 DEF TypeOK
  <2>3. \A t \in Syncers : t # s => sync'[t].pc \notin Committing
    BY <1>1, <1>4 DEF Committing, UnderFlock
  <2> QED
    BY <2>1, <2>2, <2>3, <1>1, <1>3 DEF OursInv, Committing
<1> QED
  BY <1>5, <1>6, <1>7, <1>8 DEF CoreInv

(* Making the missing directories changes no file.                         *)
LEMMA MakeDirsCore ==
  ASSUME TypeOK, CoreInv, NEW s \in Syncers, MakeDirs(s)
  PROVE  CoreInv'
<1> DEFINE j == sync[s]
<1>0. j \in Sync
  BY DEF TypeOK
<1>1. /\ sync'[s] = [j EXCEPT !.pc = "commit"]
      /\ \A t \in Syncers : t # s => sync'[t] = sync[t]
      /\ j.pc = "dirs"
      /\ UNCHANGED <<manifest, ours, late, flock>>
  BY DEF MakeDirs, TypeOK, history
<1>2. /\ sync'[s].pc = "commit" /\ sync'[s].ops = j.ops
      /\ sync'[s].new = j.new /\ sync'[s].old = j.old
      /\ sync'[s].files = j.files /\ sync'[s].force = j.force
  BY <1>0, <1>1 DEF Sync
<1>3. \A t \in Syncers : t # s => sync[t].pc \notin UnderFlock
  BY <1>1, Alone DEF CoreInv, UnderFlock
<1>4. FlockInv'
  BY <1>1, <1>2 DEF CoreInv, FlockInv, UnderFlock
<1>5. RecordsInv'
  BY <1>1, <1>2 DEF CoreInv, RecordsInv, Decided
<1>6. OpsInv'
  <2>1. \A q \in Paths : OpInv(s, q)'
    BY <1>1, <1>2 DEF CoreInv, OpsInv, OpInv, Committing
  <2> QED
    BY <2>1, <1>1, <1>2, <1>3 DEF OpsInv, Committing, UnderFlock
<1>7. OursInv'
  <2>1. \A q \in ours : /\ Assess(nodes[q]) = "file"
                        /\ Kept(IF j.ops[q].do = "none" THEN j.new[q] ELSE j.old[q], nodes[q])
    BY <1>1 DEF CoreInv, OursInv, Committing
  <2>2. \A q \in Paths : /\ nodes'[q].hash = nodes[q].hash
                         /\ Assess(nodes[q]) = "file" => Assess(nodes'[q]) = "file"
    BY DEF MakeDirs, TypeOK, Node, Assess
  <2>3. \A q \in ours : /\ Assess(nodes'[q]) = "file"
                        /\ Kept(IF sync'[s].ops[q].do = "none" THEN sync'[s].new[q]
                                ELSE sync'[s].old[q], nodes'[q])
    BY <2>1, <2>2, <1>2 DEF Kept, TypeOK
  <2>4. \A t \in Syncers : t # s => sync'[t].pc \notin Committing
    BY <1>1, <1>3 DEF Committing, UnderFlock
  <2>5. sync'[s].pc = "commit" /\ ours' = ours
    BY <1>1, <1>2
  <2> HIDE DEF j
  <2> QED
    BY <2>3, <2>4, <2>5 DEF OursInv, Committing
<1> QED
  BY <1>4, <1>5, <1>6, <1>7 DEF CoreInv

(* An operation is picked and found as it was seen.                        *)
LEMMA CheckOpCore ==
  ASSUME TypeOK, CoreInv, NEW s \in Syncers, NEW p \in Paths, CheckOp(s, p)
  PROVE  CoreInv'
<1> DEFINE j == sync[s]
<1>0. j \in Sync
  BY DEF TypeOK
<1>1. /\ sync'[s] = [j EXCEPT !.pc = "checked", !.at = p]
      /\ \A t \in Syncers : t # s => sync'[t] = sync[t]
      /\ j.pc = "commit" /\ j.ops[p].do # "none" /\ StillAsSeen(j.ops[p], nodes[p])
      /\ UNCHANGED <<nodes, manifest, ours, flock>>
  BY DEF CheckOp, AtHand, TypeOK, guestVars
<1>2. /\ sync'[s].pc = "checked" /\ sync'[s].at = p /\ sync'[s].ops = j.ops
      /\ sync'[s].new = j.new /\ sync'[s].old = j.old
      /\ sync'[s].files = j.files /\ sync'[s].force = j.force
  BY <1>0, <1>1 DEF Sync
<1>3. \A t \in Syncers : t # s => sync[t].pc \notin UnderFlock
  BY <1>1, Alone DEF CoreInv, UnderFlock
<1>4. FlockInv'
  BY <1>1, <1>2 DEF CoreInv, FlockInv, UnderFlock
<1>5. RecordsInv'
  BY <1>1, <1>2 DEF CoreInv, RecordsInv, Decided
<1>6. OpsInv'
  <2>1. \A q \in Paths : OpInv(s, q)'
    BY <1>1, <1>2 DEF CoreInv, OpsInv, OpInv, Committing
  <2> QED
    BY <2>1, <1>1, <1>2, <1>3 DEF OpsInv, Committing, UnderFlock
<1>7. OursInv'
  <2>1. \A q \in ours : /\ Assess(nodes[q]) = "file"
                        /\ Kept(IF j.ops[q].do = "none" THEN j.new[q] ELSE j.old[q], nodes[q])
    BY <1>1 DEF CoreInv, OursInv, Committing
  <2>2. \A t \in Syncers : t # s => sync'[t].pc \notin Committing
    BY <1>1, <1>3 DEF Committing, UnderFlock
  <2>3. \A q \in ours : Kept(IF sync'[s].ops[q].do = "none" THEN sync'[s].new[q]
                             ELSE sync'[s].old[q], nodes[q])
    BY <2>1, <1>2
  <2>4. sync'[s].pc = "checked" /\ UNCHANGED <<nodes, manifest, ours>>
    BY <1>1, <1>2
  <2> HIDE DEF j
  <2> QED
    BY <2>1, <2>2, <2>3, <2>4 DEF OursInv, Committing
<1> QED
  BY <1>4, <1>5, <1>6, <1>7 DEF CoreInv

(* An operation is done: the file is what the manifest will say, or gone.  *)
LEMMA ApplyOpCore ==
  ASSUME TypeOK, CoreInv, NEW s \in Syncers, NEW p \in Paths, ApplyOp(s, p)
  PROVE  CoreInv'
<1> DEFINE j == sync[s]
<1>0. j \in Sync /\ j.ops \in [Paths -> Op] /\ j.new \in Records
  BY DEF TypeOK, Sync
<1>a. j.pc = "checked" /\ j.ops[p].do # "none" /\ UNCHANGED <<manifest, flock, late>>
  BY DEF ApplyOp, AtHand
<1>b. PICK n : /\ nodes' = [nodes EXCEPT ![p] = n]
               /\ ours' = (IF Assess(n) = "file" /\ manifest.rec = j.old
                            THEN ours \cup {p} ELSE ours \ {p})
               /\ Assess(n) = "file" => j.ops[p].do = "place" /\ n.hash = j.ops[p].hash
  <2>1. PICK n \in {IF j.ops[p].do = "place" THEN Leaf(nodes[p].above, "file", j.ops[p].hash, TRUE)
                    ELSE NoFile(nodes[p].above)}
                   \cup {m \in {nodes[p]} : j.ops[p].do = "place" /\ m.kind = "unsafe"} :
            /\ nodes' = [nodes EXCEPT ![p] = n]
            /\ ours' = IF Assess(n) = "file" /\ manifest.rec = j.old
                         THEN ours \cup {p} ELSE ours \ {p}
    BY DEF ApplyOp
  <2>2. Assess(n) = "file" => j.ops[p].do = "place" /\ n.hash = j.ops[p].hash
    BY DEF Assess, Leaf, NoFile
  <2> QED
    BY <2>1, <2>2
<1>1. /\ sync'[s] = [j EXCEPT !.ops[p] = NoOp, !.pc = "commit"]
      /\ \A t \in Syncers : t # s => sync'[t] = sync[t]
  BY DEF ApplyOp, TypeOK
<1>2. /\ sync'[s].pc = "commit" /\ sync'[s].ops = [j.ops EXCEPT ![p] = NoOp]
      /\ sync'[s].new = j.new /\ sync'[s].old = j.old
      /\ sync'[s].files = j.files /\ sync'[s].force = j.force
  BY <1>0, <1>1 DEF Sync
<1>2a. sync'[s].ops[p].do = "none" /\ \A q \in Paths : q # p => sync'[s].ops[q] = j.ops[q]
  BY <1>0, <1>2 DEF NoOp
<1>3. flock = s /\ \A t \in Syncers : t # s => sync[t].pc \notin UnderFlock
  BY <1>a, Alone DEF CoreInv, UnderFlock
<1>4. \A q \in Paths : OpInv(s, q)
  BY <1>a DEF CoreInv, OpsInv, Committing
<1>5. FlockInv'
  BY <1>a, <1>1, <1>3 DEF FlockInv
<1>6. RecordsInv'
  <2>1. manifest.rec \in {j.old, NoRecords} /\ (ours # {} => manifest.rec = j.old)
    BY <1>a DEF CoreInv, RecordsInv, Decided
  <2>2. ours' # {} => manifest.rec = j.old
    BY <2>1, <1>b
  <2> QED
    BY <2>1, <2>2, <1>a, <1>1, <1>2, <1>3 DEF CoreInv, RecordsInv, Decided, UnderFlock
<1>7. OpsInv'
  <2>1. ASSUME NEW q \in Paths PROVE OpInv(s, q)'
    <3>1. CASE q = p
      BY <3>1, <1>2a DEF OpInv
    <3>2. CASE q # p
      BY <3>2, <1>2, <1>2a, <1>4 DEF OpInv
    <3> QED
      BY <3>1, <3>2
  <2> QED
    BY <2>1, <1>1, <1>2, <1>3 DEF OpsInv, Committing, UnderFlock
<1>8. OursInv'
  <2>1. \A q \in ours : /\ Assess(nodes[q]) = "file"
                        /\ Kept(IF j.ops[q].do = "none" THEN j.new[q] ELSE j.old[q], nodes[q])
    BY <1>a DEF CoreInv, OursInv, Committing
  <2>2. \A q \in Paths : q # p => nodes'[q] = nodes[q] /\ (q \in ours' => q \in ours)
    BY <1>b DEF TypeOK
  <2>3. p \in ours' => Assess(nodes'[p]) = "file" /\ Kept(j.new[p], nodes'[p])
    <3>1. nodes'[p] = n
      BY <1>b DEF TypeOK
    <3>2. p \in ours' => Assess(n) = "file"
      BY <1>b
    <3>3. j.ops[p].do = "place" => j.new[p].there /\ j.new[p].hash = j.ops[p].hash
      BY <1>4 DEF OpInv
    <3> QED
      BY <1>b, <3>1, <3>2, <3>3 DEF Kept
  <2>4. ours' \subseteq Paths
    BY <1>b DEF TypeOK
  <2>5. \A q \in ours' : /\ Assess(nodes'[q]) = "file"
                         /\ Kept(IF sync'[s].ops[q].do = "none" THEN sync'[s].new[q]
                                 ELSE sync'[s].old[q], nodes'[q])
    <3> SUFFICES ASSUME NEW q \in ours'
                 PROVE  /\ Assess(nodes'[q]) = "file"
                        /\ Kept(IF sync'[s].ops[q].do = "none" THEN sync'[s].new[q]
                                ELSE sync'[s].old[q], nodes'[q])
      OBVIOUS
    <3>1. CASE q = p
      BY <3>1, <2>3, <1>2, <1>2a
    <3>2. CASE q # p
      BY <3>2, <2>1, <2>2, <2>4, <1>2, <1>2a
    <3> QED
      BY <3>1, <3>2
  <2>6. sync'[s].pc = "commit" /\ \A t \in Syncers : t # s => sync'[t].pc \notin Committing
    BY <1>1, <1>2, <1>3 DEF Committing, UnderFlock
  <2> HIDE DEF j
  <2> QED
    BY <2>5, <2>6 DEF OursInv, Committing
<1> QED
  BY <1>5, <1>6, <1>7, <1>8 DEF CoreInv

(* An operation that is not done leaves the record as it was read.         *)
LEMMA SkipOpCore ==
  ASSUME TypeOK, CoreInv, NEW s \in Syncers, NEW p \in Paths,
         p \in AtHand(s), SkipOp(s, p), UNCHANGED <<nodes, manifest, flock, ours, late>>
  PROVE  CoreInv'
<1> DEFINE j == sync[s]
<1>0. j \in Sync /\ j.ops \in [Paths -> Op] /\ j.new \in [Paths -> Record]
  BY DEF TypeOK, Sync, Records
<1>a. j.pc \in {"commit", "checked"} /\ j.ops[p].do # "none"
  BY DEF AtHand
<1>1. /\ sync'[s] = [j EXCEPT !.ops[p] = NoOp, !.new[p] = j.old[p], !.pc = "commit"]
      /\ \A t \in Syncers : t # s => sync'[t] = sync[t]
  BY DEF SkipOp, TypeOK
<1>2. /\ sync'[s].pc = "commit" /\ sync'[s].ops = [j.ops EXCEPT ![p] = NoOp]
      /\ sync'[s].new = [j.new EXCEPT ![p] = j.old[p]] /\ sync'[s].old = j.old
      /\ sync'[s].files = j.files /\ sync'[s].force = j.force
  BY <1>0, <1>1 DEF Sync
<1>2a. /\ sync'[s].ops[p].do = "none" /\ sync'[s].new[p] = j.old[p]
       /\ \A q \in Paths : q # p => /\ sync'[s].ops[q] = j.ops[q]
                                    /\ sync'[s].new[q] = j.new[q]
  BY <1>0, <1>2 DEF NoOp
<1>3. flock = s /\ \A t \in Syncers : t # s => sync[t].pc \notin UnderFlock
  BY <1>a, Alone DEF CoreInv, UnderFlock
<1>4. FlockInv'
  BY <1>1, <1>3 DEF FlockInv
<1>5. RecordsInv'
  BY <1>a, <1>1, <1>2, <1>3 DEF CoreInv, RecordsInv, Decided, UnderFlock
<1>6. OpsInv'
  <2>1. ASSUME NEW q \in Paths PROVE OpInv(s, q)'
    <3>0. OpInv(s, q)
      BY <1>a DEF CoreInv, OpsInv, Committing
    <3>1. CASE q = p
      BY <3>1, <1>2a DEF OpInv
    <3>2. CASE q # p
      BY <3>0, <3>2, <1>2, <1>2a DEF OpInv
    <3> QED
      BY <3>1, <3>2
  <2> QED
    BY <2>1, <1>1, <1>2, <1>3 DEF OpsInv, Committing, UnderFlock
<1>7. OursInv'
  <2>1. \A q \in ours : /\ Assess(nodes[q]) = "file"
                        /\ Kept(IF j.ops[q].do = "none" THEN j.new[q] ELSE j.old[q], nodes[q])
    BY <1>a DEF CoreInv, OursInv, Committing
  <2>0. ours \subseteq Paths /\ sync'[s].old = j.old
    BY <1>2 DEF TypeOK
  <2> HIDE DEF j
  <2>2. ASSUME NEW q \in ours
        PROVE  Kept(IF sync'[s].ops[q].do = "none" THEN sync'[s].new[q]
                    ELSE sync'[s].old[q], nodes[q])
    <3>1. CASE q = p
      BY <3>1, <2>1, <1>2a, <1>a
    <3>2. CASE q # p
      BY <3>2, <2>0, <2>1, <1>2a
    <3> QED
      BY <3>1, <3>2
  <2>3. \A t \in Syncers : t # s => sync'[t].pc \notin Committing
    BY <1>1, <1>3 DEF Committing, UnderFlock
  <2>4. sync'[s].pc = "commit"
    BY <1>2
  <2> QED
    BY <2>1, <2>2, <2>3, <2>4 DEF OursInv, Committing
<1> QED
  BY <1>4, <1>5, <1>6, <1>7 DEF CoreInv

(* A run that ends at once, with the guest as it is: what it had placed    *)
(* and not recorded is no longer counted as written by a sync.             *)
LEMMA CutOffCore ==
  ASSUME TypeOK, CoreInv, NEW s \in Syncers,
         sync' = [sync EXCEPT ![s] = Idle],
         flock' = IF flock = s THEN NoSyncer ELSE flock,
         ours' = ours \ Unrecorded(s),
         UNCHANGED <<nodes, manifest, late>>
  PROVE  CoreInv'
<1>1. sync'[s].pc = "idle" /\ \A t \in Syncers : t # s => sync'[t] = sync[t]
  BY DEF TypeOK, Idle
<1>2. FlockInv'
  BY <1>1 DEF CoreInv, FlockInv, UnderFlock
<1>3. RecordsInv'
  BY <1>1 DEF CoreInv, RecordsInv, Decided
<1>4. OpsInv'
  BY <1>1, OthersOps DEF CoreInv, Committing
<1>5. OursInv'
  <2>1. CASE sync[s].pc \in Committing
    <3>1. \A t \in Syncers : sync'[t].pc \notin Committing
      BY <2>1, <1>1, Alone DEF CoreInv, UnderFlock, Committing
    <3>2. \A p \in ours' : /\ p \in ours /\ p \in Paths /\ sync[s].new[p] = sync[s].old[p]
                           /\ manifest.rec = sync[s].old
      BY <2>1 DEF TypeOK, Unrecorded, Committing, CoreInv, RecordsInv, Decided
    <3>3. \A p \in ours' : Kept(manifest.rec[p], nodes[p]) /\ Assess(nodes[p]) = "file"
      BY <2>1, <3>2 DEF CoreInv, OursInv
    <3> QED
      BY <3>1, <3>3 DEF OursInv
  <2>2. CASE sync[s].pc \notin Committing
    <3>1. ours' = ours
      BY <2>2 DEF Unrecorded, Committing
    <3>2. \A t \in Syncers : sync'[t].pc \in Committing => t # s /\ sync[t].pc \in Committing
      BY <1>1 DEF Committing
    <3>3. (\A t \in Syncers : sync'[t].pc \notin Committing)
            => \A t \in Syncers : sync[t].pc \notin Committing
      BY <2>2, <1>1
    <3> QED
      BY <3>1, <3>2, <3>3, <1>1 DEF CoreInv, OursInv
  <2> QED
    BY <2>1, <2>2
<1> QED
  BY <1>2, <1>3, <1>4, <1>5 DEF CoreInv

(* The manifest is written last, and says where every file a sync wrote    *)
(* came from.                                                              *)
LEMMA WriteManifestCore ==
  ASSUME TypeOK, CoreInv, NEW s \in Syncers, WriteManifest(s)
  PROVE  CoreInv'
<1>1. /\ sync'[s].pc = "idle" /\ \A t \in Syncers : t # s => sync'[t] = sync[t]
      /\ sync[s].pc = "commit" /\ \A p \in Paths : sync[s].ops[p].do = "none"
      /\ flock' = (IF flock = s THEN NoSyncer ELSE flock)
      /\ ours' = ours /\ nodes' = nodes /\ late' = late
  BY DEF WriteManifest, Finish, TypeOK, Idle
<1>2. flock = s /\ \A t \in Syncers : t # s => sync[t].pc \notin UnderFlock
  BY <1>1, Alone DEF CoreInv, UnderFlock
<1>3. \A t \in Syncers : sync'[t].pc \notin UnderFlock
  BY <1>1, <1>2 DEF UnderFlock
<1>4. manifest' = IF sync[s].new # sync[s].old
                   THEN [state |-> "ok", rec |-> sync[s].new] ELSE manifest
  BY DEF WriteManifest
<1>5. FlockInv'
  BY <1>3 DEF FlockInv
<1>6. RecordsInv'
  BY <1>3, <1>4 DEF CoreInv, RecordsInv, UnderFlock, Decided
<1>7. OpsInv'
  BY <1>3, <1>1, OthersOps DEF CoreInv, Committing
<1>8. OursInv'
  <2>1. ours # {} => manifest.rec = sync[s].old
    BY <1>1 DEF CoreInv, RecordsInv, Decided
  <2>2. \A p \in ours : Assess(nodes[p]) = "file" /\ Kept(sync[s].new[p], nodes[p])
    BY <1>1 DEF CoreInv, OursInv, Committing, TypeOK
  <2>3. \A p \in ours : Kept(manifest'.rec[p], nodes[p])
    BY <1>4, <2>1, <2>2
  <2> QED
    BY <1>1, <1>3, <2>2, <2>3 DEF OursInv, Committing, UnderFlock
<1> QED
  BY <1>5, <1>6, <1>7, <1>8 DEF CoreInv

(* The guest's own processes end the claim to what they touch.             *)
LEMMA GuestCore ==
  ASSUME TypeOK, CoreInv, GuestMeddles \/ \E p \in Paths : GuestWrites(p)
  PROVE  CoreInv'
<1>1. ASSUME NEW p \in Paths, GuestWrites(p) PROVE CoreInv'
  <2>1. /\ UNCHANGED <<manifest, flock, sync>> /\ ours' = ours \ {p}
        /\ \A q \in Paths : q # p => nodes'[q] = nodes[q]
        /\ late' = IF \E s \in Syncers : sync[s].pc = "checked" /\ sync[s].at = p
                     THEN late \cup {p} ELSE late
    BY <1>1 DEF GuestWrites, TypeOK
  <2>2. FlockInv' /\ RecordsInv'
    BY <2>1 DEF CoreInv, FlockInv, RecordsInv
  <2>3. OpsInv'
    <3> SUFFICES ASSUME NEW t \in Syncers
                 PROVE  /\ sync[t].pc \in Committing => \A q \in Paths : OpInv(t, q)'
                        /\ sync[t].pc = "checked" =>
                             /\ sync[t].ops[sync[t].at].do # "none"
                             /\ sync[t].at \notin late' =>
                                  StillAsSeen(sync[t].ops[sync[t].at], nodes'[sync[t].at])
      BY <2>1 DEF OpsInv
    <3>1. sync[t].pc \in Committing => \A q \in Paths : OpInv(t, q)'
      BY <2>1 DEF CoreInv, OpsInv, OpInv
    <3>2. sync[t].at \in Paths
      BY DEF TypeOK, Sync
    <3>3. sync[t].pc = "checked" /\ sync[t].at = p => p \in late'
      BY <2>1
    <3>4. sync[t].at \notin late' => sync[t].at \notin late
      BY <2>1
    <3>5. sync[t].at # p => nodes'[sync[t].at] = nodes[sync[t].at]
      BY <2>1, <3>2
    <3> QED
      BY <3>1, <3>3, <3>4, <3>5 DEF CoreInv, OpsInv
  <2>4. OursInv'
    <3>1. \A q \in ours' : q \in ours /\ nodes'[q] = nodes[q]
      BY <2>1 DEF TypeOK
    <3> QED
      BY <2>1, <3>1 DEF CoreInv, OursInv
  <2> QED
    BY <2>2, <2>3, <2>4 DEF CoreInv
<1>2. CASE GuestMeddles
  <2>1. /\ UNCHANGED <<nodes, flock, sync, late>>
        /\ \/ UNCHANGED <<manifest, ours>>
           \/ manifest'.rec = NoRecords /\ ours' = {}
    BY <1>2 DEF GuestMeddles
  <2>2. FlockInv' /\ OpsInv'
    BY <2>1 DEF CoreInv, FlockInv, OpsInv, OpInv
  <2>3. RecordsInv' /\ OursInv'
    BY <2>1 DEF CoreInv, RecordsInv, OursInv
  <2> QED
    BY <2>2, <2>3 DEF CoreInv
<1> QED
  BY <1>1, <1>2

(* A step or a stutter keeps the invariant.                                *)
LEMMA NextCore == FilesInv /\ [Next]_vars => FilesInv'
<1> SUFFICES ASSUME TypeOK, DaemonOK, CoreInv, [Next]_vars PROVE CoreInv'
  BY NextTyped DEF FilesInv
<1> USE DEF guestVars, envVars, daemonVars, history
<1>1. ASSUME NEW s \in Syncers, Step(s) PROVE CoreInv'
  <2>1. ASSUME NEW p \in Paths, ChangedOp(s, p) PROVE CoreInv'
    BY <2>1, SkipOpCore DEF ChangedOp
  <2> QED
    BY <1>1, <2>1, TakeFlockCore, ReadManifestCore, InspectCore, MakeDirsCore, CheckOpCore,
       ApplyOpCore, WriteManifestCore DEF Step
<1>2. ASSUME NEW s \in Syncers, GiveUp(s) \/ Killed(s) PROVE CoreInv'
  BY <1>2, CutOffCore DEF GiveUp, Killed, Finish
<1>3. ASSUME NEW s \in Syncers, NEW p \in Paths, FailOp(s, p) PROVE CoreInv'
  BY <1>3, SkipOpCore DEF FailOp
<1>4. ASSUME NEW s \in Syncers, HandOver(s) PROVE CoreInv'
  <2>1. PICK d \in Handed : sync' = [sync EXCEPT ![s] = [Idle EXCEPT !.pc = "queued", !.files = d]]
    BY <1>4 DEF HandOver
  <2>2. /\ [Idle EXCEPT !.pc = "queued", !.files = d] \in Sync
        /\ [Idle EXCEPT !.pc = "queued", !.files = d].pc = "queued"
    BY Fillers, DocsTyped DEF Sync
  <2> QED
    BY <1>4, <2>1, <2>2, OutsideCore DEF HandOver, UnderFlock
<1>5. CASE Poll \/ QueueDue \/ NotDue \/ PollFails
  <2>1. PICK j \in Sync : sync' = [sync EXCEPT !["daemon"] = j] /\ j.pc \notin UnderFlock
    <3>1. sync'["daemon"] \in Sync
      BY NextTyped, DocsTyped DEF TypeOK
    <3>2. sync' = [sync EXCEPT !["daemon"] = sync'["daemon"]]
      BY <1>5, DocsTyped DEF Poll, QueueDue, NotDue, PollFails, TypeOK
    <3>3. sync'["daemon"].pc \in {"polled", "queued", "idle"}
      <4>1. Idle.pc = "idle" /\ [Idle EXCEPT !.pc = "polled", !.inode = inode].pc = "polled"
        BY DEF Idle
      <4>2. sync["daemon"] \in Sync
        BY DocsTyped DEF TypeOK
      <4>3. CASE QueueDue
        BY <4>3, <4>2, DocsTyped DEF QueueDue, TypeOK, Sync
      <4> QED
        BY <1>5, <4>1, <4>3, DocsTyped DEF Poll, NotDue, PollFails, TypeOK
    <3> QED
      BY <3>1, <3>2, <3>3 DEF UnderFlock
  <2>2. UNCHANGED <<nodes, manifest, flock, ours, late>> /\ sync["daemon"].pc \notin UnderFlock
    BY <1>5 DEF Poll, QueueDue, NotDue, PollFails, UnderFlock
  <2> QED
    BY <2>1, <2>2, DocsTyped, OutsideCore
<1>6. CASE RunSync
  <2>1. PICK force \in BOOLEAN :
          sync' = [sync EXCEPT !["cli"] = [Idle EXCEPT
                    !.pc = "queued", !.files = want, !.force = force]]
    BY <1>6 DEF RunSync
  <2>2. /\ [Idle EXCEPT !.pc = "queued", !.files = want, !.force = force] \in Sync
        /\ [Idle EXCEPT !.pc = "queued", !.files = want, !.force = force].pc = "queued"
    BY Fillers, DocsTyped DEF Sync, TypeOK
  <2> QED
    BY <1>6, <2>1, <2>2, DocsTyped, OutsideCore DEF RunSync, UnderFlock
<1>7. CASE SkipQueued
  BY <1>7, OutsideCore, Fillers, DocsTyped DEF SkipQueued, UnderFlock, Idle
<1>8. CASE RestartDaemon
  BY <1>8, CutOffCore, DocsTyped DEF RestartDaemon
<1>9. CASE EditDocument \/ StartContainer \/ StopContainer \/ PveLock \/ UNCHANGED vars
  BY <1>9, SameCore DEF EditDocument, StartContainer, StopContainer, PveLock, vars
<1> QED
  BY <1>1, <1>2, <1>3, <1>4, <1>5, <1>6, <1>7, <1>8, <1>9, GuestCore DEF Next

(* It holds when the daemon starts on an untouched container.              *)
LEMMA InitCore == Init => FilesInv
<1> SUFFICES ASSUME Init PROVE CoreInv
  BY InitTyped DEF FilesInv
<1>1. \A s \in Syncers : sync[s].pc = "idle"
  BY DEF Init, Idle
<1> QED
  BY <1>1 DEF Init, CoreInv, FlockInv, RecordsInv, OpsInv, OursInv, UnderFlock, Decided, Committing

(* The invariant holds throughout.                                         *)
LEMMA Invariance == Spec => []FilesInv
<1> QED
  BY InitCore, NextCore, PTL DEF Spec

-----------------------------------------------------------------------------
(* The theorems.                                                           *)

(* A sync changes a file in the second step of a commit operation and      *)
(* nowhere else, and the operation still has its evidence.                 *)
LEMMA TouchesAreOps ==
  ASSUME FilesInv, [Next]_vars, NEW s \in Syncers, NEW p \in Paths, SyncTouches(s, p)
  PROVE  /\ sync[s].pc = "checked" /\ sync[s].at = p /\ sync[s].ops[p].do # "none"
         /\ ApplyOp(s, p)
<1> USE DEF guestVars, envVars, daemonVars, history
<1>0. nodes \in [Paths -> Node] /\ nodes' \in [Paths -> Node] /\ sync \in [Syncers -> Sync]
  BY NextTyped DEF FilesInv, TypeOK
<1>1. /\ sync'[s] # sync[s]
      /\ nodes'[p] # [nodes[p] EXCEPT !.above = nodes'[p].above]
  BY DEF SyncTouches
<1>2. nodes' # nodes
  BY <1>0, <1>1 DEF Node
<1>3. PICK t \in Syncers : MakeDirs(t) \/ \E q \in Paths : ApplyOp(t, q)
  <2>1. ASSUME NEW t \in Syncers, Step(t)
        PROVE  nodes' = nodes \/ MakeDirs(t) \/ \E q \in Paths : ApplyOp(t, q)
    BY <2>1 DEF Step, TakeFlock, ReadManifest, Inspect, CheckOp, ChangedOp, WriteManifest
  <2>2. ASSUME NEW t \in Syncers,
               GiveUp(t) \/ Killed(t) \/ HandOver(t) \/ \E q \in Paths : FailOp(t, q)
        PROVE  nodes' = nodes
    BY <2>2 DEF GiveUp, Killed, HandOver, FailOp
  <2>3. ASSUME \/ Poll \/ QueueDue \/ NotDue \/ PollFails \/ SkipQueued \/ RestartDaemon
               \/ RunSync \/ EditDocument \/ GuestMeddles \/ StartContainer
               \/ StopContainer \/ PveLock \/ UNCHANGED vars
        PROVE  nodes' = nodes
    BY <2>3 DEF Poll, QueueDue, NotDue, PollFails, SkipQueued, RestartDaemon, RunSync,
       EditDocument, GuestMeddles, StartContainer, StopContainer, PveLock, vars
  <2>4. ASSUME NEW q \in Paths, GuestWrites(q) PROVE sync' = sync
    BY <2>4 DEF GuestWrites
  <2> QED
    BY <1>1, <1>2, <2>1, <2>2, <2>3, <2>4 DEF Next
<1>4. ~MakeDirs(t)
  <2> SUFFICES ASSUME MakeDirs(t) PROVE FALSE
    OBVIOUS
  <2>1. nodes'[p] \in {nodes[p], [nodes[p] EXCEPT !.above = "dir"]}
    BY DEF MakeDirs
  <2> QED
    BY <1>0, <1>1, <2>1 DEF Node
<1>5. PICK q \in Paths : ApplyOp(t, q)
  BY <1>3, <1>4
<1>6. t = s
  BY <1>0, <1>1, <1>5 DEF ApplyOp
<1>7. q = p
  <2>1. q # p => nodes'[p] = nodes[p]
    BY <1>0, <1>5 DEF ApplyOp
  <2> QED
    BY <1>0, <1>1, <2>1 DEF Node
<1>8. sync[s].pc = "checked" /\ p \in AtHand(s)
  BY <1>5, <1>6, <1>7 DEF ApplyOp
<1> QED
  BY <1>5, <1>6, <1>7, <1>8 DEF AtHand

(* WritersStayApart for every set of operators, documents and faults, and  *)
(* whether or not the guest writes between a check and its rename: the     *)
(* record of a path a sync touches is its own writer's.                    *)
THEOREM Apart == Spec => WritersStayApart
<1>1. FilesInv /\ [Next]_vars =>
        [\A s \in Syncers, p \in Paths :
           SyncTouches(s, p) /\ manifest.rec[p].there =>
             manifest.rec[p].plane = Plane(s)]_vars
  <2> SUFFICES ASSUME FilesInv, [Next]_vars, NEW s \in Syncers, NEW p \in Paths,
                      SyncTouches(s, p), manifest.rec[p].there
               PROVE  manifest.rec[p].plane = Plane(s)
    OBVIOUS
  <2>1. sync[s].pc \in Committing /\ sync[s].ops[p].do # "none"
    BY TouchesAreOps DEF Committing
  <2>2. sync[s].old[p].there => sync[s].old[p].plane = Plane(s)
    BY <2>1 DEF FilesInv, CoreInv, OpsInv, OpInv, Evidence
  <2>3. manifest.rec \in {sync[s].old, NoRecords}
    BY <2>1 DEF FilesInv, CoreInv, RecordsInv, Committing, Decided
  <2> QED
    BY <2>2, <2>3 DEF NoRecords, NoRecord
<1> QED
  BY <1>1, Invariance, PTL DEF Spec, WritersStayApart

(* LocalEditsSurvive for every value of the constants, with the guest, the *)
(* document's editors and the other syncers running between any two steps  *)
(* of a sync: what a sync replaces or removes is what its plan had         *)
(* evidence for, unless the guest wrote it after that operation's check.   *)
THEOREM EditsSurvive == Spec => LocalEditsSurvive
<1>1. FilesInv /\ [Next]_vars =>
        [\A s \in Syncers, p \in Paths :
           SyncTouches(s, p) /\ nodes[p].kind # "missing" /\ p \notin late =>
             /\ nodes[p].kind = "file"
             /\ \/ sync[s].old[p].there /\ sync[s].old[p].hash = nodes[p].hash
                \/ MayOverwrite(s, p) /\ nodes'[p].kind = "file"]_vars
  <2> SUFFICES ASSUME FilesInv, [Next]_vars, NEW s \in Syncers, NEW p \in Paths,
                      SyncTouches(s, p), nodes[p].kind # "missing", p \notin late
               PROVE  /\ nodes[p].kind = "file"
                      /\ \/ sync[s].old[p].there /\ sync[s].old[p].hash = nodes[p].hash
                         \/ MayOverwrite(s, p) /\ nodes'[p].kind = "file"
    OBVIOUS
  <2> DEFINE op == sync[s].ops[p]
  <2>0. sync[s].pc = "checked" /\ sync[s].at = p /\ op.do # "none" /\ ApplyOp(s, p)
    BY TouchesAreOps
  <2>1. sync[s].pc \in Committing /\ StillAsSeen(op, nodes[p])
    BY <2>0 DEF FilesInv, CoreInv, OpsInv, Committing
  <2>2. Evidence(sync[s].files, sync[s].old[p], op.seen, sync[s].force, Plane(s), p, op.do)
    BY <2>0, <2>1 DEF FilesInv, CoreInv, OpsInv, OpInv
  <2>3. nodes[p].kind = op.seen.kind /\ (nodes[p].kind = "file" => nodes[p].hash = op.seen.hash)
    BY <2>1 DEF StillAsSeen
  <2>a. nodes[p].kind = "file"
    BY <2>2, <2>3 DEF Evidence
  <2>4. op.do = "place" => nodes'[p].kind = "file"
    BY <2>0, <2>a DEF ApplyOp, Leaf, FilesInv, TypeOK
  <2> HIDE DEF op
  <2> QED
    BY <2>2, <2>3, <2>4 DEF Evidence, MayOverwrite
<1> QED
  BY <1>1, Invariance, PTL DEF Spec, LocalEditsSurvive

(* OwnFileIsNoLocalEdit for every value of the constants: the record of a  *)
(* file a sync wrote is the one the next sync reads.                       *)
THEOREM OwnFiles == Spec => []OwnFileIsNoLocalEdit
<1>1. FilesInv => OwnFileIsNoLocalEdit
  <2> SUFFICES ASSUME FilesInv, NEW s \in Syncers, sync[s].pc = "probe", NEW p \in ours
               PROVE  Action(sync[s].files, sync[s].old, nodes, root, sync[s].force, Plane(s), p)
                        # "local edit"
    BY DEF OwnFileIsNoLocalEdit
  <2>1. manifest.rec = sync[s].old
    BY DEF FilesInv, CoreInv, RecordsInv, Decided
  <2>2. \A t \in Syncers : sync[t].pc \notin Committing
    BY Alone DEF FilesInv, CoreInv, UnderFlock, Committing
  <2>3. sync[s].old[p].there /\ sync[s].old[p].hash = nodes[p].hash
    BY <2>1, <2>2 DEF FilesInv, CoreInv, OursInv, Kept
  <2> QED
    BY <2>3 DEF Action, WantedAction, UnwantedAction
<1> QED
  BY <1>1, Invariance, PTL
=============================================================================
