---------------------------- MODULE DocumentViews ----------------------------
(***************************************************************************)
(* One document under reads and writes through views: get_document,        *)
(* put_document and delete_document of api.rs, on the trees of             *)
(* DocumentTree.  Who may write, the digest and the lock are MetaLifecycle's*)
(* part, enforced schemas SchemaGate's.                                    *)
(***************************************************************************)
EXTENDS DocumentTree

CONSTANTS
  Views,        \* the paths requests name
  Payloads,     \* subtrees a replace carries
  Patches,      \* merge patches
  HandWritten   \* what an administrator's editor may leave in the file

VARIABLES
  file,         \* Missing, Garbled, or the document's tree
  last          \* the last write: its request, the file it met, its answer

vars == <<file, last>>

Garbled == <<"garbled">>
NoWrite == [req |-> [act |-> "none"], met |-> Missing, answer |-> [ok |-> FALSE]]

Requests ==
  [act : {"replace"}, view : Views, value : Payloads, comments : BOOLEAN]
    \cup [act : {"merge"}, view : Views, value : Patches, comments : {FALSE}]
    \cup [act : {"remove"}, view : Views, value : {Null}, comments : {FALSE}]

(* read_stored: what cannot be recovered reads as the empty document.      *)
Stored(f) == IF f \in {Missing, Garbled} THEN EmptyMap ELSE f

-----------------------------------------------------------------------------
(* Requests                                                                *)

(* get_document: notes are left out of the whole document before the view  *)
(* is taken; an absent view reads as the empty document.                   *)
GetDocument(f, view, comments) ==
  LET base == IF comments THEN Stored(f) ELSE StripComments(Stored(f))
      v == Descend(base, view)
  IN IF f = Garbled \/ ~ParsesAsPath(view) THEN Blocked
     ELSE IF v = Missing THEN EmptyMap ELSE v

(* check_repairable: only a root replace or DELETE meets a garbled file.   *)
CheckRepairable(f, req) == f = Garbled => req.view = <<>> /\ req.act # "merge"

(* parse_view, parse_patch, check_repairable and the lint of the plan: the *)
(* 400s of a write.                                                        *)
Accepted(f, req, plan) ==
  /\ ParsesAsPath(req.view)
  /\ req.act = "merge" => IsMap(req.value)
  /\ CheckRepairable(f, req)
  /\ plan.ok
  /\ Lint(plan.doc) = {}

(* put_document and delete_document: a root DELETE unlinks the file, and a *)
(* view's DELETE that touches nothing leaves it as it is.                  *)
FileLeft(f, req, plan) ==
  IF req.act # "remove" THEN plan.doc
  ELSE IF req.view = <<>> THEN Missing
  ELSE IF plan.touched = {} THEN f ELSE plan.doc

Judge(f, req, plan) ==
  IF Accepted(f, req, plan)
  THEN [ok |-> TRUE, file |-> FileLeft(f, req, plan), doc |-> plan.doc,
        touched |-> plan.touched]
  ELSE [ok |-> FALSE, file |-> f, doc |-> Stored(f), touched |-> {}]

Answer(f, req) == Judge(f, req, PlanWrite(Stored(f), req))

Write(req) ==
  /\ last = NoWrite
  /\ last' = [req |-> req, met |-> file, answer |-> Answer(file, req)]
  /\ file' = last'.answer.file

PutDocument == \E req \in {r \in Requests : r.act # "remove"} : Write(req)
DeleteDocument == \E req \in {r \in Requests : r.act = "remove"} : Write(req)

(* The answer goes to the client, and the next request may come.           *)
Return == last # NoWrite /\ last' = NoWrite /\ UNCHANGED file

(* An administrator's editor saves the file.                               *)
HandEdit == last = NoWrite /\ file' \in HandWritten /\ UNCHANGED last

Init == file = Missing /\ last = NoWrite
Next == PutDocument \/ DeleteDocument \/ Return \/ HandEdit
Spec == Init /\ [][Next]_vars

-----------------------------------------------------------------------------
(* Reference definitions the laws below compare with                       *)

(* The leaves of a value with their paths: all that is no map, and the     *)
(* empty maps.                                                             *)
RECURSIVE Leaves(_, _)
Leaves(v, p) ==
  IF IsMap(v) /\ v # EmptyMap
  THEN UNION {Leaves(e[2], Append(p, e[1])) : e \in ToSet(v[2])}
  ELSE {<<p, v>>}
ValueAt(doc, p) == LET v == Descend(doc, p) IN IF v = Blocked THEN Missing ELSE v

(* The data of a document: its leaves, notes and empty maps aside.         *)
DataOf(doc) == {l \in Leaves(doc, <<>>) : ~NamesComment(l[1]) /\ ~IsMap(l[2])}

(* The maps on the way to a path.                                          *)
RECURSIVE MapPaths(_, _)
MapPaths(v, p) ==
  IF IsMap(v) THEN {p} \cup UNION {MapPaths(e[2], Append(p, e[1])) : e \in ToSet(v[2])}
  ELSE {}

(* MergePatch as RFC 7386 writes it down.                                  *)
RECURSIVE RfcMerge(_, _)
RfcMerge(target, patch) ==
  IF ~IsMap(patch) THEN patch
  ELSE FoldLeft(LAMBDA m, e :
         IF e[2] = Null THEN ShiftRemove(m, e[1])
         ELSE Insert(m, e[1],
                RfcMerge(IF e[1] \in KeysOf(m) THEN At(m, e[1]) ELSE Missing, e[2])),
         IF IsMap(target) THEN target ELSE EmptyMap, patch[2])

(* A patch without its delete markers.                                     *)
RECURSIVE PatchContent(_)
PatchContent(v) ==
  IF ~IsMap(v) THEN v
  ELSE FoldLeft(LAMBDA m, e : IF e[2] = Null THEN m ELSE Insert(m, e[1], PatchContent(e[2])),
                EmptyMap, v[2])

(* Every note in the value is about a sibling or its map, none is inside a *)
(* list.                                                                   *)
RECURSIVE Anchored(_)
Anchored(v) ==
  CASE IsMap(v) -> \A k \in KeysOf(v) :
         IF IsCommentKey(k) THEN k = BareNote \/ SubjectOf(k) \in KeysOf(v)
                            ELSE Anchored(At(v, k))
    [] OTHER -> StripComments(v) = v

(* The request itself says what becomes of path q.                         *)
Names(req, q) ==
  /\ IsPrefix(req.view, q)
  /\ \/ req.act = "remove"
     \/ Descend(req.value, SubSeq(q, Len(req.view) + 1, Len(q))) \notin {Missing, Blocked}

-----------------------------------------------------------------------------
(* Properties                                                              *)

RECURSIVE KeysAreUnique(_)
KeysAreUnique(v) ==
  CASE IsMap(v) -> /\ Cardinality(KeysOf(v)) = Len(v[2])
                   /\ \A k \in KeysOf(v) : KeysAreUnique(At(v, k))
    [] IsArray(v) -> \A i \in DOMAIN v[2] : KeysAreUnique(v[2][i])
    [] OTHER -> TRUE

(* The file is missing, garbled, or a map in which no key stands twice:    *)
(* whatever notes are put back and keys spliced in.                        *)
TypeOK == file \in {Missing, Garbled} \/ (IsMap(file) /\ KeysAreUnique(file))

(* The last write, if it was of this kind.                                 *)
Accept(acts) == last.req.act \in acts /\ last.answer.ok

(* `touched' is what an accepted write did: empty exactly when the value   *)
(* is the same, every path in it changed and is gone exactly when reported *)
(* as deleted, and every leaf that changed is at, above or below one of    *)
(* its paths (the enforcement gate relies on that: shape.rs `introduced'). *)
TellsTheWrite(old, new, touched) ==
  /\ (touched = {}) <=> Same(old, new)
  /\ \A t \in touched :
       /\ ~Same(ValueAt(old, t.path), ValueAt(new, t.path))
       /\ t.op = "delete" <=> ValueAt(new, t.path) = Missing
  /\ \A l \in SymDiff(Leaves(old, <<>>), Leaves(new, <<>>)) :
       \/ \E t \in touched : Related(t.path, l[1])
       \/ Same(ValueAt(old, l[1]), ValueAt(new, l[1]))
TouchedTellsTheWrite ==
  Accept({"replace", "merge", "remove"})
    => TellsTheWrite(Stored(last.met), last.answer.doc, last.answer.touched)

(* A note goes when its key goes and stays while its key stays, in every   *)
(* map that is there before and after, unless the request says otherwise:  *)
(* it names the note, or replaces its map with `comments' set.             *)
NoteFollows(req, p, k, was, is) ==
  LET note == NoteOf(k)
  IN \/ note \notin KeysOf(was)
     \/ Names(req, Append(p, note))
     \/ req.comments /\ IsPrefix(req.view, p)
     \/ {k, note} \cap KeysOf(is) = {}
     \/ {k, note} \subseteq KeysOf(is) /\ At(is, note) = At(was, note)
NotesFollow(req, old, new) ==
  \A p \in MapPaths(old, <<>>) \cap MapPaths(new, <<>>) :
    \A k \in KeysOf(ValueAt(old, p)) :
      NoteFollows(req, p, k, ValueAt(old, p), ValueAt(new, p))
NotesFollowTheirKeys ==
  Accept({"replace", "merge", "remove"})
    => NotesFollow(last.req, Stored(last.met), last.answer.doc)

(* A read that left the notes out, written back through the same view, is  *)
(* the same document in the same order, so that nothing is rewritten       *)
(* (view.rs keep_comments), if every note there is about something and     *)
(* none is inside a list.                                                  *)
WriteBack(view) ==
  Answer(file, [act |-> "replace", view |-> view, comments |-> FALSE,
                value |-> GetDocument(file, view, FALSE)])
Untouched(a) == a.ok /\ a.doc = Stored(file) /\ a.touched = {}
Noted(v) == v # Missing /\ Anchored(v)
StrippedReadWritesBack ==
  last # NoWrite \/ Lint(Stored(file)) # {} \/ file = Garbled
    \/ \A view \in Views : NamesComment(view) \/ ~Noted(ValueAt(Stored(file), view))
                            \/ Untouched(WriteBack(view))

(* A replace stores its payload: read back with notes it is the payload    *)
(* itself when the request carried them, and what it kept of the stored    *)
(* notes never changes the data or its order.                              *)
Stores(req, back) ==
  IF req.comments THEN back = req.value
                  ELSE StripComments(back) = StripComments(req.value)
ReplaceStoresThePayload ==
  Accept({"replace"}) => Stores(last.req, GetDocument(file, last.req.view, TRUE))

(* An accepted merge leaves the data RFC 7386 says it should, notes and    *)
(* empty containers aside.                                                 *)
RfcResult(old, req) == Splice(old, req.view, RfcMerge(Descend(old, req.view), req.value))
MergeIsRfc7386 ==
  Accept({"merge"})
    => DataOf(last.answer.doc) = DataOf(RfcResult(Stored(last.met), last.req))

(* The nulls of a patch only ever delete: a patch whose content lints      *)
(* clean is never refused on a clean document for a null it spliced in.    *)
Mergeable(req, doc) ==
  /\ Lint(doc) = {} /\ IsMap(req.value) /\ Lint(PatchContent(req.value)) = {}
  /\ ParsesAsPath(req.view) /\ ~NamesComment(req.view)
  /\ Descend(doc, req.view) # Blocked
NullsOnlyDelete ==
  /\ last.req.act = "merge" /\ last.met # Garbled
  /\ Mergeable(last.req, Stored(last.met))
  => last.answer.ok

(* A merge sent again, its first answer lost, finds nothing left to do.    *)
NothingToDo(a) == a.ok /\ a.touched = {}
MergeTwiceIsOnce == Accept({"merge"}) => NothingToDo(Answer(file, last.req))
=============================================================================
