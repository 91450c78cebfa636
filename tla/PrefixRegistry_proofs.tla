----------------------- MODULE PrefixRegistry_proofs -----------------------
(***************************************************************************)
(* Theorems about PrefixRegistry, for every set of prefixes, files and     *)
(* requests and for every schema dialect, lint and judgement of a write.   *)
(*                                                                         *)
(* The invariant has four parts: the files (FilesInv), what the edit in    *)
(* flight knows of them (EditInv), the guest (GuestInv), and what ties a   *)
(* load under way to the files (LoadInv).                                  *)
(***************************************************************************)
EXTENDS PrefixRegistry, TLAPS

(* Both directories hold files, packaged ones of their package.            *)
FilesInv ==
  /\ DOMAIN packaged = ToSet(Names) /\ DOMAIN cluster = ToSet(Names)
  /\ \A n \in ToSet(Names) : packaged[n] \in Packaged[n] /\ FileOK(cluster[n])

(* The edit in flight: what it named governs until the read and is what it *)
(* read, unless the file changed in between; once put_raw has checked,     *)
(* what it writes loads, and what it named governs unless the file changed *)
(* since.                                                                  *)
EditFields == {"stage", "req", "read", "raced", "named"}
EditInv ==
  edit # Idle =>
    /\ DOMAIN edit = EditFields /\ edit.stage \in {"checked", "planned", "writing"}
    /\ edit.req \in Edits /\ FileOK(edit.read)
    /\ edit.stage = "writing" => CheckRegistryShape(edit) /\ edit.req.act # "delete"
    /\ edit.req.cas =>
         /\ edit.stage = "checked" /\ "read" \notin edit.raced
              => EffectiveFile(edit.req.name) = edit.named
         /\ edit.stage # "checked" /\ "read" \notin edit.raced => edit.read = edit.named
         /\ edit.stage = "writing" /\ "put" \notin edit.raced
              => EffectiveFile(edit.req.name) = edit.named

(* The guest: what is stored is what was there at the start or is clean.   *)
GuestInv ==
  /\ doc \in Documents \/ LintOf(doc) = {}
  /\ tags \subseteq Tags /\ node \in Nodes /\ changes \in 0..MaxChanges

(* The fields of a PUT while it loads, and once it is answered.            *)
LoadFields == {"stage", "req", "tags", "node", "todo", "shape", "quiet"}
AnswerFields == {"stage", "req", "shape", "quiet", "was", "refused", "touched"}

(* A PUT in flight has the fields of its stage.                            *)
PutOK ==
  \/ put = Idle
  \/ put.stage = "loading" /\ DOMAIN put = LoadFields
  \/ put.stage = "answered" /\ DOMAIN put = AnswerFields

(* What the names a load has not come to yet declare, as the files are     *)
(* now.                                                                    *)
ToLoad == UNION {Reaching(n, EffectiveFile(n), tags, node) : n \in put.todo}

(* A PUT during which no file, tag or node changed is judged by the shape  *)
(* the guest has, though the load takes no lock and reads file by file: a  *)
(* refusal leaves the document, and what is stored without force answers   *)
(* for nothing under that shape.                                           *)
JudgedByTheFilesAsTheyAre ==
  put.stage = "answered" /\ put.quiet /\ put.req.act # "remove" =>
    /\ put.shape = ShapeNow
    /\ put.refused # {} => doc = put.was
    /\ put.refused = {} /\ ~put.req.force
         => doc = put.was \/ Answerable(ShapeNow, put.was, doc, put.touched) = {}

(* While the registry and the guest stay as they are, what is loaded and   *)
(* what is still to load make up the guest's shape; names without a file   *)
(* when the load began declare nothing.                                    *)
LoadInv ==
  /\ PutOK
  /\ put.stage = "loading" /\ put.quiet
       => put.tags = tags /\ put.node = node /\ put.shape \cup ToLoad = ShapeNow
  /\ JudgedByTheFilesAsTheyAre

(* The inductive invariant.                                                *)
RegistryInv == FilesInv /\ EditInv /\ GuestInv /\ LoadInv

-----------------------------------------------------------------------------
(* The invariant holds                                                     *)

(* Where there is no request the stage is idle.                            *)
LEMMA IdleStage == Idle.stage = "idle"
BY DEF Idle

(* It implies the type invariant.                                          *)
LEMMA TypeFollows == RegistryInv => TypeOK
BY IdleStage DEF RegistryInv, FilesInv, EditInv, GuestInv, LoadInv, PutOK, TypeOK

(* What an edit makes of a file is a file.                                 *)
LEMMA PlannedIsAFile ==
  ASSUME NEW f, FileOK(f), NEW req \in Edits
  PROVE  FileOK(Text(Planned(Content(f), req)))
<1> DEFINE c == Content(f)
<1>1. DOMAIN c = DOMAIN Blank
  BY DEF FileOK, Content, None, Garbled
<1>2. CASE req.act = "replace"
  BY <1>2, EditsAssumption DEF Planned
<1>3. CASE req.act = "set"
  <2>1. Planned(c, req) = [c EXCEPT ![req.field] = req.value]
    BY <1>3 DEF Planned
  <2> QED
    BY <1>1, <2>1 DEF FileOK, Text
<1>4. CASE req.act = "unset"
  <2>1. Planned(c, req) = [c EXCEPT ![req.field] = Blank[req.field]]
    BY <1>4 DEF Planned
  <2> QED
    BY <1>1, <2>1 DEF FileOK, Text
<1>5. CASE req.act \notin {"replace", "set", "unset"}
  <2>1. Planned(c, req) = Blank
    BY <1>5 DEF Planned
  <2> QED
    BY <2>1 DEF FileOK, Text
<1> QED
  BY <1>2, <1>3, <1>4, <1>5

(* A missing file declares nothing.                                        *)
LEMMA NoFileDeclaresNothing ==
  ASSUME NEW n, NEW have, NEW at
  PROVE  Reaching(n, None, have, at) = {}
BY DEF Reaching, ParsePrefix, None

(* The invariant holds at the start.                                       *)
LEMMA InitInv == Init => RegistryInv
<1> SUFFICES ASSUME Init PROVE RegistryInv
  OBVIOUS
<1>1. FilesInv /\ EditInv
  BY DEF Init, FilesInv, EditInv, FileOK
<1>2. GuestInv
  BY MaxChangesAssumption DEF Init, GuestInv
<1>3. LoadInv
  BY IdleStage DEF Init, LoadInv, PutOK, JudgedByTheFilesAsTheyAre
<1> QED
  BY <1>1, <1>2, <1>3 DEF RegistryInv

(* A change of the registry or the guest ends the quiet of a load, and     *)
(* none happens under an answer.                                           *)
LEMMA DisturbKeepsLoad ==
  ASSUME LoadInv, Disturb
  PROVE  LoadInv'
<1>1. CASE put = Idle
  <2>1. put' = Idle
    BY <1>1 DEF Disturb
  <2> QED
    BY <2>1, IdleStage DEF LoadInv, PutOK, JudgedByTheFilesAsTheyAre
<1>2. CASE put # Idle
  <2>1. put.stage = "loading" /\ DOMAIN put = LoadFields
    BY <1>2 DEF LoadInv, PutOK, Disturb
  <2>2. put' = [put EXCEPT !.quiet = FALSE]
    BY <1>2 DEF Disturb
  <2>3. put'.stage = "loading" /\ DOMAIN put' = LoadFields /\ put'.quiet = FALSE
    BY <2>1, <2>2 DEF LoadFields
  <2> QED
    BY <2>3 DEF LoadInv, PutOK, JudgedByTheFilesAsTheyAre
<1> QED
  BY <1>1, <1>2

(* Where files, guest and PUT stay, so does what ties them.                *)
LEMMA SameFilesKeepLoad ==
  ASSUME LoadInv, UNCHANGED <<packaged, cluster, doc, tags, node, put>>
  PROVE  LoadInv'
<1>1. \A n : EffectiveFile(n)' = EffectiveFile(n)
  BY DEF EffectiveFile
<1>2. ShapeNow' = ShapeNow
  BY <1>1 DEF ShapeNow
<1>3. ToLoad' = ToLoad
  BY <1>1 DEF ToLoad
<1> QED
  BY <1>2, <1>3 DEF LoadInv, PutOK, JudgedByTheFilesAsTheyAre

(* A step that leaves the files and the edit leaves what ties the two.     *)
LEMMA SameFilesKeepEdit ==
  ASSUME EditInv, UNCHANGED <<packaged, cluster, edit>>
  PROVE  EditInv'
<1>1. \A n : EffectiveFile(n)' = EffectiveFile(n)
  BY DEF EffectiveFile
<1> QED
  BY <1>1 DEF EditInv, CheckRegistryShape

(* What governs a name is a file.                                          *)
LEMMA EffectiveIsAFile ==
  ASSUME FilesInv, NEW n \in ToSet(Names)
  PROVE  FileOK(EffectiveFile(n))
BY FilesAssumption DEF FilesInv, EffectiveFile

(* The first check of an edit keeps the invariant, ...                     *)
LEMMA EditBeginKeeps ==
  ASSUME RegistryInv, NEW req \in Edits, EditBegin(req)
  PROVE  RegistryInv'
<1>1. UNCHANGED <<packaged, cluster, doc, tags, node, put>> /\ changes' \in 0..MaxChanges
  BY MaxChangesAssumption DEF EditBegin, guest, RegistryInv, GuestInv
<1>2. /\ DOMAIN edit' = EditFields /\ edit'.stage = "checked" /\ edit'.req = req
      /\ edit'.read = None /\ (req.cas => edit'.named = EffectiveFile(req.name))
  BY DEF EditBegin, EditFields
<1>3. EffectiveFile(req.name)' = EffectiveFile(req.name)
  BY <1>1, EditsAssumption DEF EffectiveFile
<1>4. EditInv'
  BY <1>2, <1>3 DEF EditInv, FileOK
<1> QED
  BY <1>1, <1>4, SameFilesKeepLoad DEF RegistryInv, FilesInv, GuestInv

(* ... so does its read, ...                                               *)
LEMMA EditReadKeeps ==
  ASSUME RegistryInv, EditRead
  PROVE  RegistryInv'
<1> DEFINE f == EffectiveFile(edit.req.name)
<1>1. UNCHANGED <<packaged, cluster, doc, tags, node, put, changes>> /\ edit # Idle
  BY IdleStage DEF EditRead, guest
<1>2. edit.req \in Edits /\ DOMAIN edit = EditFields /\ edit.stage = "checked"
  BY <1>1 DEF RegistryInv, EditInv, EditRead
<1>3. FileOK(f)
  BY <1>2, EffectiveIsAFile, EditsAssumption DEF RegistryInv
<1>4. edit' = [edit EXCEPT !.stage = "planned", !.read = f]
  BY DEF EditRead
<1> HIDE DEF f
<1>5. /\ DOMAIN edit' = EditFields /\ edit'.stage = "planned" /\ edit'.read = f
      /\ edit'.req = edit.req /\ edit'.raced = edit.raced /\ edit'.named = edit.named
  BY <1>2, <1>4 DEF EditFields
<1>6. edit.req.cas /\ "read" \notin edit.raced => f = edit.named
  BY <1>1, <1>2 DEF RegistryInv, EditInv, f
<1>7. EditInv'
  BY <1>2, <1>3, <1>5, <1>6 DEF EditInv
<1> QED
  BY <1>1, <1>7, SameFilesKeepLoad DEF RegistryInv, FilesInv, GuestInv

(* ... and the check of put_raw.                                           *)
LEMMA EditPutKeeps ==
  ASSUME RegistryInv, EditPut
  PROVE  RegistryInv'
<1>1. UNCHANGED <<packaged, cluster, doc, tags, node, put, changes>> /\ edit # Idle
  BY IdleStage DEF EditPut, guest
<1>2. /\ DOMAIN edit = EditFields /\ edit.stage = "planned" /\ edit.req \in Edits
      /\ FileOK(edit.read)
      /\ (edit.req.cas /\ "read" \notin edit.raced => edit.read = edit.named)
  BY <1>1 DEF RegistryInv, EditInv, EditPut
<1>3. edit' = [edit EXCEPT !.stage = "writing"]
  BY DEF EditPut
<1>4. /\ DOMAIN edit' = EditFields /\ edit'.stage = "writing" /\ edit'.read = edit.read
      /\ edit'.req = edit.req /\ edit'.raced = edit.raced /\ edit'.named = edit.named
  BY <1>2, <1>3 DEF EditFields
<1>5. /\ CheckRegistryShape(edit) /\ edit.req.act # "delete"
      /\ edit.req.cas => EffectiveFile(edit.req.name) = edit.named
  BY DEF EditPut, MayWrite, CheckDigest
<1>6. CheckRegistryShape(edit)'
  BY <1>4, <1>5 DEF CheckRegistryShape
<1>7. EffectiveFile(edit.req.name)' = EffectiveFile(edit.req.name)
  BY <1>1, <1>4 DEF EffectiveFile
<1>8. EditInv'
  BY <1>2, <1>4, <1>5, <1>6, <1>7 DEF EditInv
<1> QED
  BY <1>1, <1>8, SameFilesKeepLoad DEF RegistryInv, FilesInv, GuestInv

(* So does the end of an edit: written, removed or refused.                *)
LEMMA EditEndKeeps ==
  ASSUME RegistryInv, EditWrite \/ EditRemove \/ EditAnswer
  PROVE  RegistryInv'
<1>1. edit # Idle /\ edit' = Idle /\ UNCHANGED <<packaged, doc, tags, node, changes>>
  BY IdleStage DEF EditWrite, EditRemove, EditAnswer, guest
<1>a. EditInv'
  BY <1>1 DEF EditInv
<1>2. CASE EditWrite
  <2>1. FileOK(Text(Planned(Content(edit.read), edit.req)))
    BY <1>1, PlannedIsAFile DEF RegistryInv, EditInv
  <2>2. DOMAIN cluster' = ToSet(Names) /\ \A n \in ToSet(Names) : FileOK(cluster'[n])
    BY <1>2, <2>1 DEF EditWrite, RegistryInv, FilesInv
  <2>3. Disturb
    BY <1>2 DEF EditWrite
  <2> QED
    BY <1>1, <1>a, <2>2, <2>3, DisturbKeepsLoad DEF RegistryInv, FilesInv, GuestInv
<1>3. CASE EditRemove
  <2>1. FileOK(None)
    BY DEF FileOK
  <2>2. DOMAIN cluster' = ToSet(Names) /\ \A n \in ToSet(Names) : FileOK(cluster'[n])
    BY <1>3, <2>1 DEF EditRemove, RegistryInv, FilesInv
  <2>3. Disturb
    BY <1>3 DEF EditRemove
  <2> QED
    BY <1>1, <1>a, <2>2, <2>3, DisturbKeepsLoad DEF RegistryInv, FilesInv, GuestInv
<1>4. CASE EditAnswer
  <2>1. UNCHANGED <<cluster, put>>
    BY <1>4 DEF EditAnswer, guest
  <2> QED
    BY <1>1, <1>a, <2>1, SameFilesKeepLoad DEF RegistryInv, FilesInv, GuestInv
<1> QED
  BY <1>2, <1>3, <1>4

(* A change of one name's file either is of another name than the edit's,  *)
(* or comes before put_raw's check, or is remembered.                      *)
LEMMA RaceKeepsEdit ==
  ASSUME EditInv, NEW n, Race(n),
         \A m \in ToSet(Names) : m # n => EffectiveFile(m)' = EffectiveFile(m)
  PROVE  EditInv'
<1>1. CASE edit = Idle
  BY <1>1 DEF Race, EditInv
<1>2. CASE edit # Idle /\ edit.req.name # n
  <2>1. edit' = edit
    BY <1>2 DEF Race
  <2> QED
    BY <1>2, <2>1, EditsAssumption DEF EditInv, CheckRegistryShape
<1>3. CASE edit # Idle /\ edit.stage = "planned"
  <2>1. edit' = edit
    BY <1>3 DEF Race
  <2> QED
    BY <1>3, <2>1 DEF EditInv
<1>4. CASE edit # Idle /\ edit.req.name = n /\ edit.stage # "planned"
  <2>1. DOMAIN edit = EditFields
    BY <1>4 DEF EditInv
  <2>2. PICK r \in {"read", "put"} :
          /\ r = (IF edit.stage = "checked" THEN "read" ELSE "put")
          /\ edit' = [edit EXCEPT !.raced = @ \cup {r}]
    BY <1>4 DEF Race
  <2>3. /\ DOMAIN edit' = EditFields /\ edit'.stage = edit.stage /\ edit'.read = edit.read
        /\ edit'.req = edit.req /\ edit'.named = edit.named /\ edit'.raced = edit.raced \cup {r}
    BY <2>1, <2>2 DEF EditFields
  <2>4. CheckRegistryShape(edit)' = CheckRegistryShape(edit)
    BY <2>3 DEF CheckRegistryShape
  <2> QED
    BY <1>4, <2>2, <2>3, <2>4 DEF EditInv
<1> QED
  BY <1>1, <1>2, <1>3, <1>4

(* So do upgrades, hand edits, new tags and migrations.                    *)
LEMMA AroundKeeps ==
  ASSUME RegistryInv, (\E n \in ToSet(Names) : Upgrade(n) \/ HandEdit(n)) \/ Retag \/ Migrate
  PROVE  RegistryInv'
<1>1. Change
  BY DEF Upgrade, HandEdit, Retag, Migrate
<1>2. LoadInv' /\ UNCHANGED doc /\ changes' \in 0..MaxChanges
  BY <1>1, DisturbKeepsLoad, MaxChangesAssumption DEF Change, RegistryInv, GuestInv
<1>3. tags' \subseteq Tags /\ node' \in Nodes
  BY DEF Upgrade, HandEdit, Retag, Migrate, RegistryInv, GuestInv
<1>4. FilesInv'
  <2>1. CASE \E n \in ToSet(Names) : Upgrade(n)
    BY <1>2, <2>1 DEF Upgrade, RegistryInv, FilesInv
  <2>2. CASE \E n \in ToSet(Names) : HandEdit(n)
    BY <1>2, <2>2, FilesAssumption DEF HandEdit, RegistryInv, FilesInv
  <2>3. CASE Retag \/ Migrate
    BY <1>2, <2>3 DEF Retag, Migrate, RegistryInv, FilesInv
  <2> QED
    BY <2>1, <2>2, <2>3
<1>5. EditInv'
  <2>1. CASE \E n \in ToSet(Names) : Upgrade(n) \/ HandEdit(n)
    <3>1. PICK n \in ToSet(Names) : Upgrade(n) \/ HandEdit(n)
      BY <2>1
    <3>2. Race(n)
      BY <3>1 DEF Upgrade, HandEdit
    <3>3. \A m \in ToSet(Names) : m # n => EffectiveFile(m)' = EffectiveFile(m)
      BY <3>1 DEF Upgrade, HandEdit, EffectiveFile, RegistryInv, FilesInv
    <3> QED
      BY <3>2, <3>3, RaceKeepsEdit DEF RegistryInv
  <2>2. CASE Retag \/ Migrate
    BY <2>2, SameFilesKeepEdit DEF Retag, Migrate, RegistryInv
  <2> QED
    BY <2>1, <2>2
<1> QED
  BY <1>2, <1>3, <1>4, <1>5 DEF RegistryInv, GuestInv

(* A step of the PUT leaves the files and the shape.                       *)
LEMMA SameRegistry ==
  ASSUME UNCHANGED <<registry, tags, node>>
  PROVE  /\ \A n : EffectiveFile(n)' = EffectiveFile(n)
         /\ ShapeNow' = ShapeNow
         /\ FilesInv /\ EditInv => FilesInv' /\ EditInv'
<1>1. \A n : EffectiveFile(n)' = EffectiveFile(n)
  BY DEF EffectiveFile, registry
<1>2. EditInv => EditInv'
  BY SameFilesKeepEdit DEF registry
<1> QED
  BY <1>1, <1>2 DEF ShapeNow, FilesInv, registry

(* The listing of the names: what has no file declares nothing.            *)
LEMMA PutBeginKeeps ==
  ASSUME RegistryInv, NEW req \in Requests, PutBegin(req)
  PROVE  RegistryInv'
<1>1. UNCHANGED <<registry, tags, node, doc, changes>>
  BY DEF PutBegin
<1>2. /\ put'.stage = "loading" /\ DOMAIN put' = LoadFields /\ put'.shape = {}
      /\ put'.tags = tags /\ put'.node = node
      /\ put'.todo = {n \in ToSet(Names) : EffectiveFile(n) # None}
  BY DEF PutBegin, LoadFields
<1>3. ToLoad' = ShapeNow
  <2>1. \A n \in ToSet(Names) : n \notin put'.todo => Reaching(n, EffectiveFile(n), tags, node) = {}
    BY <1>2, NoFileDeclaresNothing
  <2>2. ToLoad' = UNION {Reaching(n, EffectiveFile(n), tags, node) : n \in put'.todo}
    BY <1>1, SameRegistry DEF ToLoad
  <2> QED
    BY <1>2, <2>1, <2>2 DEF ShapeNow
<1>4. LoadInv'
  BY <1>1, <1>2, <1>3, SameRegistry DEF LoadInv, PutOK, JudgedByTheFilesAsTheyAre
<1> QED
  BY <1>1, <1>4, SameRegistry DEF RegistryInv, GuestInv

(* Each file read moves what it declares from what is to load to what is   *)
(* loaded.                                                                 *)
LEMMA LoadPrefixKeeps == RegistryInv /\ LoadPrefix => RegistryInv'
<1> SUFFICES ASSUME RegistryInv, LoadPrefix PROVE RegistryInv'
  OBVIOUS
<1>1. UNCHANGED <<registry, tags, node, doc, changes>> /\ put.stage = "loading"
  BY DEF LoadPrefix
<1>2. PICK n \in put.todo :
        put' = [put EXCEPT !.todo = @ \ {n},
                  !.shape = @ \cup Reaching(n, EffectiveFile(n), put.tags, put.node)]
  BY DEF LoadPrefix
<1>3. DOMAIN put = LoadFields
  BY <1>1, IdleStage DEF RegistryInv, LoadInv, PutOK
<1>4. /\ put'.stage = "loading" /\ DOMAIN put' = LoadFields /\ put'.quiet = put.quiet
      /\ put'.tags = put.tags /\ put'.node = put.node /\ put'.todo = put.todo \ {n}
      /\ put'.shape = put.shape \cup Reaching(n, EffectiveFile(n), put.tags, put.node)
  BY <1>1, <1>2, <1>3 DEF LoadFields
<1>5. ASSUME put.quiet
      PROVE  put'.tags = tags /\ put'.node = node /\ put'.shape \cup ToLoad' = ShapeNow
  <2>1. put.tags = tags /\ put.node = node /\ put.shape \cup ToLoad = ShapeNow
    BY <1>1, <1>5 DEF RegistryInv, LoadInv
  <2>2. ToLoad' = UNION {Reaching(m, EffectiveFile(m), tags, node) : m \in put.todo \ {n}}
    BY <1>1, <1>4, SameRegistry DEF ToLoad
  <2>3. ToLoad = ToLoad' \cup Reaching(n, EffectiveFile(n), tags, node)
    BY <2>2 DEF ToLoad
  <2> QED
    BY <1>4, <2>1, <2>3
<1>6. LoadInv'
  BY <1>1, <1>4, <1>5, SameRegistry DEF LoadInv, PutOK, JudgedByTheFilesAsTheyAre
<1> QED
  BY <1>1, <1>6, SameRegistry DEF RegistryInv, GuestInv

(* A plan that is still one after the lint is clean.                       *)
LEMMA LintedIsClean ==
  ASSUME NEW plan
  PROVE  Linted(plan).ok => LintOf(Linted(plan).doc) = {}
BY DEF Linted

(* An answer judged by the shape that is, by check_enforced, keeps the     *)
(* invariant.                                                              *)
LEMMA AnsweredKeeps ==
  ASSUME RegistryInv, NEW req, NEW shape, NEW quiet, NEW plan, NEW refused,
         Answered(req, shape, quiet, plan, refused),
         plan.ok => LintOf(plan.doc) = {},
         quiet /\ req.act # "remove" =>
           /\ shape = ShapeNow
           /\ refused = CheckEnforced(shape, req, plan)
  PROVE  RegistryInv'
<1>1. UNCHANGED <<registry, tags, node, changes>>
  BY DEF Answered
<1>2. /\ put'.stage = "answered" /\ DOMAIN put' = AnswerFields
      /\ put'.req = req /\ put'.shape = shape /\ put'.quiet = quiet /\ put'.was = doc
      /\ put'.refused = refused /\ put'.touched = plan.touched
  BY DEF Answered, AnswerFields
<1>3. doc' = IF plan.ok /\ refused = {} THEN plan.doc ELSE doc
  BY DEF Answered
<1>4. GuestInv'
  BY <1>1, <1>3 DEF RegistryInv, GuestInv
<1>5. ASSUME quiet, req.act # "remove"
      PROVE  /\ shape = ShapeNow
             /\ refused # {} => doc' = doc
             /\ refused = {} /\ ~req.force
                  => doc' = doc \/ Answerable(ShapeNow, doc, doc', plan.touched) = {}
  BY <1>3, <1>5 DEF CheckEnforced
<1>6. JudgedByTheFilesAsTheyAre'
  <2>1. ShapeNow' = ShapeNow
    BY <1>1, SameRegistry
  <2> QED
    BY <1>2, <1>5, <2>1 DEF JudgedByTheFilesAsTheyAre
<1>7. LoadInv'
  BY <1>2, <1>6 DEF LoadInv, PutOK
<1> QED
  BY <1>1, <1>4, <1>7, SameRegistry DEF RegistryInv

(* A PUT's answer is one: nothing is left to load.                         *)
LEMMA PutDocumentKeeps == RegistryInv /\ PutDocument => RegistryInv'
<1> SUFFICES ASSUME RegistryInv, PutDocument PROVE RegistryInv'
  OBVIOUS
<1>1. put.quiet => put.shape = ShapeNow
  <2>1. put.stage = "loading" /\ ToLoad = {}
    BY DEF PutDocument, ToLoad
  <2> QED
    BY <2>1 DEF RegistryInv, LoadInv
<1> QED
  BY <1>1, AnsweredKeeps, LintedIsClean DEF PutDocument, Decide

(* A DELETE is not judged and keeps it too.                                *)
LEMMA DeleteDocumentKeeps ==
  ASSUME RegistryInv, NEW req \in Requests, DeleteDocument(req)
  PROVE  RegistryInv'
BY AnsweredKeeps, LintedIsClean DEF DeleteDocument

(* So does the return of the answer.                                       *)
LEMMA ReturnKeeps == RegistryInv /\ Return => RegistryInv'
<1> SUFFICES ASSUME RegistryInv, Return PROVE RegistryInv'
  OBVIOUS
<1>1. UNCHANGED <<registry, tags, node, doc, changes>> /\ put' = Idle
  BY DEF Return
<1>2. LoadInv'
  BY <1>1, IdleStage DEF LoadInv, PutOK, JudgedByTheFilesAsTheyAre
<1> QED
  BY <1>1, <1>2, SameRegistry DEF RegistryInv, GuestInv

(* RegistryInv is an invariant of PrefixRegistry.                          *)
LEMMA RegistryInvInductive == Spec => []RegistryInv
<1>1. RegistryInv /\ [Next]_vars => RegistryInv'
  <2> SUFFICES ASSUME RegistryInv, [Next]_vars PROVE RegistryInv'
    OBVIOUS
  <2>1. CASE UNCHANGED vars
    BY <2>1, SameFilesKeepLoad, SameFilesKeepEdit DEF vars, RegistryInv, FilesInv, GuestInv
  <2>2. CASE Next
    BY <2>2, EditBeginKeeps, EditReadKeeps, EditPutKeeps, EditEndKeeps, PutBeginKeeps, LoadPrefixKeeps, PutDocumentKeeps,
       DeleteDocumentKeeps, ReturnKeeps, AroundKeeps DEF Next
  <2> QED
    BY <2>1, <2>2
<1> QED
  BY <1>1, InitInv, PTL DEF Spec

(* The registry's files, the edit, the guest and the PUT keep their types, *)
(* and the guest's document is clean unless no write has replaced it:      *)
(* whatever plan_write makes, the lint of the plan stands before the       *)
(* store.                                                                  *)
THEOREM RegistryTypes == Spec => []TypeOK
BY RegistryInvInductive, TypeFollows, PTL

(* A PUT during which the registry and the guest stay as they are is       *)
(* judged by the shape the guest then has: load_dirs, reading file by file *)
(* under no lock, misses no declaration and adds none.  For every set of   *)
(* prefixes, files, tags and nodes and whatever a schema says.             *)
THEOREM PutsAreJudgedAsItIs == Spec => []JudgedByTheFilesAsTheyAre
<1>1. RegistryInv => JudgedByTheFilesAsTheyAre
  BY DEF RegistryInv, LoadInv
<1> QED
  BY <1>1, RegistryInvInductive, PTL

-----------------------------------------------------------------------------
(* Edits                                                                   *)

(* Only the steps of an edit move it on.                                   *)
LEMMA EditSteps ==
  ASSUME RegistryInv, [Next]_vars, edit'.stage # edit.stage
  PROVE  \/ \E req \in Edits : EditBegin(req)
         \/ EditRead \/ EditPut \/ EditWrite \/ EditRemove \/ EditAnswer
<1>1. Next
  BY DEF vars
<1>2. ~\E n \in ToSet(Names) : Upgrade(n) \/ HandEdit(n)
  <2> SUFFICES ASSUME NEW n, Race(n) PROVE edit'.stage = edit.stage
    BY DEF Upgrade, HandEdit
  <2>1. edit # Idle => DOMAIN edit = EditFields
    BY DEF RegistryInv, EditInv
  <2> QED
    BY <2>1 DEF Race, EditFields
<1> QED
  BY <1>1, <1>2 DEF Next, PutBegin, LoadPrefix, PutDocument, Decide, Answered, DeleteDocument,
         Return, Retag, Migrate, registry

(* What ends an edit with a digest wrote nothing, or the edit of the file  *)
(* it names.                                                               *)
LEMMA WrittenIsTheEdit ==
  ASSUME RegistryInv, [Next]_vars,
         edit # Idle, edit' = Idle, edit.req.cas, cluster' # cluster, edit.req.act # "delete",
         NEW n, n = edit.req.name
  PROVE  /\ "put" \notin edit.raced => EffectiveFile(n) = edit.named
         /\ edit.raced = {} => cluster'[n] = Text(Planned(Content(EffectiveFile(n)), edit.req))
<1>1. n \in DOMAIN cluster /\ edit.stage # "idle"
  BY EditsAssumption DEF RegistryInv, FilesInv, EditInv
<1>2. EditWrite
  <2>1. edit'.stage # edit.stage
    BY <1>1, IdleStage
  <2> QED
    BY <2>1, EditSteps, IdleStage
       DEF EditBegin, EditRead, EditPut, EditRemove, MayRemove, EditAnswer
<1>3. edit.stage = "writing" /\ cluster'[n] = Text(Planned(Content(edit.read), edit.req))
  BY <1>1, <1>2 DEF EditWrite
<1> QED
  BY <1>3 DEF RegistryInv, EditInv

(* An edit that names a digest is an atomic edit of the file it names,     *)
(* whatever upgrades and editors do between its read and the check of      *)
(* put_raw; a change after that check is written over, and one between     *)
(* check_precondition and the read can be planned on if it is undone.      *)
THEOREM DigestMakesItAtomic == Spec => NamedDigestIsAtomic
<1>1. RegistryInv /\ [Next]_vars
        => [edit # Idle /\ edit' = Idle /\ edit.req.cas /\ cluster' # cluster
                /\ edit.req.act # "delete"
              => LET n == edit.req.name
                 IN /\ "put" \notin edit.raced => EffectiveFile(n) = edit.named
                    /\ edit.raced = {} =>
                         cluster'[n] = Text(Planned(Content(EffectiveFile(n)), edit.req))
           ]_vars
  BY WrittenIsTheEdit
<1> QED
  BY <1>1, RegistryInvInductive, PTL DEF Spec, NamedDigestIsAtomic

(* Packages ship files that load.                                          *)
PackagesLoad ==
  \A n \in ToSet(Names) : \A f \in Packaged[n] : f = None \/ ParsePrefix(f)

(* A step of an edit leaves a prefix that loads loading, or gone.          *)
LEMMA StillLoads ==
  ASSUME PackagesLoad, RegistryInv, [Next]_vars, edit'.stage # edit.stage,
         NEW n \in ToSet(Names), ParsePrefix(EffectiveFile(n))
  PROVE  ParsePrefix(EffectiveFile(n)') \/ EffectiveFile(n)' = None
<1>1. CASE (\E req \in Edits : EditBegin(req)) \/ EditRead \/ EditPut \/ EditAnswer
  <2>1. EffectiveFile(n)' = EffectiveFile(n)
    BY <1>1 DEF EditBegin, EditRead, EditPut, EditAnswer, EffectiveFile
  <2> QED
    BY <2>1
<1>2. CASE EditWrite
  <2> DEFINE new == Text(Planned(Content(edit.read), edit.req))
  <2>1. ParsePrefix(new)
    <3>1. edit # Idle /\ edit.stage = "writing"
      BY <1>2, IdleStage DEF EditWrite
    <3> QED
      BY <3>1 DEF RegistryInv, EditInv, CheckRegistryShape
  <2>2. new # None
    BY DEF Text, None
  <2>3. cluster' = [cluster EXCEPT ![edit.req.name] = new] /\ packaged' = packaged
    BY <1>2 DEF EditWrite
  <2>4. n \in DOMAIN cluster
    BY DEF RegistryInv, FilesInv
  <2> HIDE DEF new
  <2>5. CASE n = edit.req.name
    <3>1. EffectiveFile(n)' = new
      BY <2>2, <2>3, <2>4, <2>5 DEF EffectiveFile
    <3> QED
      BY <2>1, <3>1
  <2>6. CASE n # edit.req.name
    <3>1. EffectiveFile(n)' = EffectiveFile(n)
      BY <2>3, <2>4, <2>6 DEF EffectiveFile
    <3> QED
      BY <3>1
  <2> QED
    BY <2>5, <2>6
<1>3. CASE EditRemove
  <2>1. cluster' = [cluster EXCEPT ![edit.req.name] = None] /\ packaged' = packaged
    BY <1>3 DEF EditRemove
  <2>2. n \in DOMAIN cluster /\ packaged[n] \in Packaged[n]
    BY DEF RegistryInv, FilesInv
  <2>3. CASE n = edit.req.name
    <3>1. EffectiveFile(n)' = packaged[n]
      BY <2>1, <2>2, <2>3 DEF EffectiveFile
    <3> QED
      BY <2>2, <3>1 DEF PackagesLoad
  <2>4. CASE n # edit.req.name
    <3>1. EffectiveFile(n)' = EffectiveFile(n)
      BY <2>1, <2>2, <2>4 DEF EffectiveFile
    <3> QED
      BY <3>1
  <2> QED
    BY <2>3, <2>4
<1> QED
  BY <1>1, <1>2, <1>3, EditSteps

(* No edit through the API makes a prefix that loads stop loading          *)
(* (check_registry_shape), if the files packages ship load: a cluster file *)
(* that is removed uncovers one of those.                                  *)
THEOREM EditsLeaveALoadingPrefix == ASSUME PackagesLoad PROVE Spec => EditsKeepItLoading
<1>1. RegistryInv /\ [Next]_vars
        => [edit'.stage # edit.stage
              => \A n \in ToSet(Names) :
                   ParsePrefix(EffectiveFile(n))
                     => ParsePrefix(EffectiveFile(n)') \/ EffectiveFile(n)' = None
           ]_vars
  BY StillLoads
<1> QED
  BY <1>1, RegistryInvInductive, PTL DEF Spec, EditsKeepItLoading
=============================================================================
