---------------------------- MODULE DocumentTree ----------------------------
(***************************************************************************)
(* Documents as trees and the pure functions on them: views, merge         *)
(* patches, the structural diff, notes and the lint (view.rs, patch.rs,    *)
(* model.rs and path.rs of crates/pve-meta-core/src).                      *)
(*                                                                         *)
(* Every recursive definition walks down a finite tree.  Only TLC's runs   *)
(* use this module.                                                        *)
(***************************************************************************)
EXTENDS DocumentPaths, TLC

CONSTANT BadNames     \* names outside the charset of a key

(* Equality of values: the order of a map is not part of its value.        *)
RECURSIVE Same(_, _)
Same(v, w) ==
  /\ v[1] = w[1]
  /\ CASE IsMap(v) -> /\ KeysOf(v) = KeysOf(w)
                      /\ \A k \in KeysOf(v) : Same(At(v, k), At(w, k))
       [] IsArray(v) -> /\ Len(v[2]) = Len(w[2])
                        /\ \A i \in DOMAIN v[2] : Same(v[2][i], w[2][i])
       [] OTHER -> v = w

-----------------------------------------------------------------------------
(* Keys and paths                                                          *)

IsCommentKey(k) == k[2] > 0
SubjectOf(k) == <<k[1], k[2] - 1>>
BareNote == <<"", 1>>
IsValidSegment(k) == k # <<"", 0>> /\ k[1] \notin BadNames
IndexKey(i) == <<ToString(i - 1), 0>>

(* A request's path is parsed: every segment has to be a key.              *)
ParsesAsPath(p) == \A i \in DOMAIN p : IsValidSegment(p[i])
NamesComment(p) == \E i \in DOMAIN p : IsCommentKey(p[i])

(* get_path: lists are addressed by index, and nothing is an error.        *)
RECURSIVE GetPath(_, _)
GetPath(v, p) ==
  IF p = <<>> THEN v
  ELSE LET items == IF IsMap(v) THEN {e[2] : e \in {x \in ToSet(v[2]) : x[1] = p[1]}}
                    ELSE IF IsArray(v)
                    THEN {v[2][i] : i \in {j \in DOMAIN v[2] : IndexKey(j) = p[1]}}
                    ELSE {}
       IN IF items = {} THEN Missing
                        ELSE GetPath(CHOOSE x \in items : TRUE, Tail(p))

-----------------------------------------------------------------------------
(* The diff and the merge patch                                            *)

(* diff_at: a map on both sides is compared key by key, all else whole.    *)
RECURSIVE DiffAt(_, _, _)
DiffAt(old, new, p) ==
  IF IsMap(old) /\ IsMap(new)
  THEN UNION {IF k \notin KeysOf(old) THEN {Touch(Append(p, k), "set")}
              ELSE IF IsMap(At(old, k)) /\ IsMap(At(new, k))
              THEN DiffAt(At(old, k), At(new, k), Append(p, k))
              ELSE IF ~Same(At(old, k), At(new, k)) THEN {Touch(Append(p, k), "set")}
              ELSE {} : k \in KeysOf(new)}
       \cup {Touch(Append(p, k), "delete") : k \in KeysOf(old) \ KeysOf(new)}
  ELSE IF Same(old, new) THEN {} ELSE {Touch(p, "set")}

(* A bug the laws have to catch: the note outlives its key.                *)
MutDeletesKeyOnly(k, patch) == {k}

(* A patch's null deletes a key, and its note unless the patch names the   *)
(* note itself.                                                            *)
DeletesWithNote(k, patch) == {k} \cup ({NoteOf(k)} \ KeysOf(patch))

(* What a nested patch did to the key k: applied to the map that is there, *)
(* or to a scratch map, which is then stored if it replaces something or   *)
(* was written to.                                                         *)
Recursed(acc, k, sub) == Done(Insert(acc.doc, k, sub.doc), acc.touched \cup sub.touched)
Scratched(acc, k, child, sub) ==
  IF k \in KeysOf(acc.doc) \/ sub.touched # {}
  THEN Done(Insert(acc.doc, k, sub.doc), acc.touched \cup {Touch(child, "set")})
  ELSE acc
Deleted(acc, p, gone) ==
  Done(FoldSet(LAMBDA k, m : ShiftRemove(m, k), acc.doc, gone),
       acc.touched \cup {Touch(Append(p, k), "delete") : k \in gone})

(* One entry k: v of a merge patch applied to a map.                       *)
RECURSIVE ApplyObj(_, _, _)

(* Bugs the laws have to catch: a map is stored as the patch has it, nulls *)
(* and all; a value that is there already counts as set again.             *)
MutVerbatim(acc, k, v, patch, p) ==
  IF v = Null THEN Deleted(acc, p, DeletesWithNote(k, patch) \cap KeysOf(acc.doc))
  ELSE Done(Insert(acc.doc, k, v), acc.touched \cup {Touch(Append(p, k), "set")})
MutSetsAgain(acc, k, v, patch, p) ==
  IF v # Null /\ ~IsMap(v)
  THEN Done(Insert(acc.doc, k, v), acc.touched \cup {Touch(Append(p, k), "set")})
  ELSE Deleted(acc, p, DeletesWithNote(k, patch) \cap KeysOf(acc.doc))

ApplyEntry(acc, k, v, patch, p) ==
  LET mapThere == k \in KeysOf(acc.doc) /\ IsMap(At(acc.doc, k))
  IN IF v = Null THEN Deleted(acc, p, DeletesWithNote(k, patch) \cap KeysOf(acc.doc))
     ELSE IF IsMap(v) /\ mapThere
     THEN Recursed(acc, k, ApplyObj(At(acc.doc, k), v, Append(p, k)))
     ELSE IF IsMap(v) /\ v # EmptyMap
     THEN Scratched(acc, k, Append(p, k), ApplyObj(EmptyMap, v, Append(p, k)))
     ELSE IF k \in KeysOf(acc.doc) /\ Same(At(acc.doc, k), v) THEN acc
     ELSE Done(Insert(acc.doc, k, v), acc.touched \cup {Touch(Append(p, k), "set")})

ApplyObj(doc, patch, p) ==
  FoldLeft(LAMBDA acc, e : ApplyEntry(acc, e[1], e[2], patch, p), Done(doc, {}), patch[2])

-----------------------------------------------------------------------------
(* Writes through a view                                                   *)

(* replace: the subtree at p, and how it differs from what was there.      *)
Replace(doc, p, v) ==
  Replaced(doc, p, v, Descend(doc, p), DiffAt(OrEmpty(Descend(doc, p)), v, p))

(* merge: a patch of the map at p, or of an empty one.                     *)
MergeAt(doc, p, old, patch) ==
  Merged(doc, p, old, ApplyObj(IF IsMap(old) THEN old ELSE EmptyMap, patch, p))
Merge(doc, p, patch) == MergeAt(doc, p, Descend(doc, p), patch)

(* remove: what is reported of the subtree at p, and the whole of it.      *)
RemovedOwn(p, old, below) ==
  IF old = Missing THEN {} ELSE IF below = {} THEN {Touch(p, "delete")} ELSE below
RemoveOwn(doc, p, old) ==
  Removed(doc, p, Descend(doc, Front(p)),
          RemovedOwn(p, old, IF IsMap(old) THEN DiffAt(old, EmptyMap, p) ELSE {}))
RemoveView(doc, p) ==
  IF p = <<>> THEN Done(EmptyMap, DiffAt(doc, EmptyMap, p)) ELSE RemoveOwn(doc, p, Descend(doc, p))

-----------------------------------------------------------------------------
(* Notes                                                                   *)

(* strip_comments: what a read answers that did not ask for notes.         *)
RECURSIVE StripComments(_)
StripComments(v) ==
  CASE IsMap(v) -> FoldLeft(LAMBDA out, e : Insert(out, e[1], StripComments(e[2])),
                            EmptyMap, SelectSeq(v[2], LAMBDA e : ~IsCommentKey(e[1])))
    [] IsArray(v) -> <<"array", [i \in DOMAIN v[2] |-> StripComments(v[2][i])]>>
    [] OTHER -> v

(* A bug the laws have to catch: a note the payload brings itself is put   *)
(* back a second time.                                                     *)
MutPutsBackTwice(k, old, out) ==
  IsCommentKey(k) /\ (k = BareNote \/ SubjectOf(k) \in KeysOf(old) \cap KeysOf(out))

(* One stored entry of keep_comments: a note that is still about something *)
(* goes behind the nearest key that stood before it and is still there.    *)
StillAbout(k, old, out) ==
  /\ IsCommentKey(k) /\ k \notin KeysOf(out)
  /\ k = BareNote \/ SubjectOf(k) \in KeysOf(old) \cap KeysOf(out)

(* A bug the laws have to catch: a kept note is put first.                 *)
MutPlaceFirst(i, old, out) == 1

PlaceOf(i, old, out) ==
  LET before == {j \in 1..(i - 1) : old[2][j][1] \in KeysOf(out)}
  IN IF before = {} THEN 1 ELSE Position(out, old[2][Max(before)][1]) + 1

KeepNote(old, out, i) ==
  IF StillAbout(old[2][i][1], old, out)
  THEN Map(InsertAt(out[2], PlaceOf(i, old, out), old[2][i]))
  ELSE out

(* keep_comments: the stored notes put back into a payload written without *)
(* them, in every map both sides have; lists are left alone.               *)
RECURSIVE KeepComments(_, _)
KeepBelow(old, k, v) ==
  IF k \in KeysOf(old) THEN KeepComments(At(old, k), v) ELSE v
KeepComments(old, new) ==
  IF ~(IsMap(old) /\ IsMap(new)) THEN new
  ELSE FoldLeft(LAMBDA out, i : KeepNote(old, out, i),
                FoldLeft(LAMBDA out, e : Insert(out, e[1], KeepBelow(old, e[1], e[2])),
                         EmptyMap, new[2]),
                [i \in DOMAIN old[2] |-> i])

-----------------------------------------------------------------------------
(* The one lint: the paths it finds something at                           *)

RECURSIVE Walk(_, _)
Walk(v, p) ==
  CASE v = Null -> {p}
    [] IsArray(v) -> UNION {Walk(v[2][i], Append(p, IndexKey(i))) : i \in DOMAIN v[2]}
    [] IsMap(v) -> {Append(p, k) : k \in {x \in KeysOf(v) :
                        \/ ~IsValidSegment(x)
                        \/ IsCommentKey(x) /\ At(v, x)[1] # "str"}}
                   \cup UNION {Walk(At(v, k), Append(p, k)) : k \in KeysOf(v)}
    [] OTHER -> {}
Lint(doc) == Walk(doc, <<>>) \cup (IF IsMap(doc) THEN {} ELSE {<<>>})

-----------------------------------------------------------------------------
(* The plan of a write: a request [act, view, value, comments] on a copy   *)

(* A bug the laws have to catch: stored notes are put back into a payload  *)
(* that carries its own.                                                   *)
MutAlwaysKeeps(doc, req) ==
  LET old == Descend(doc, req.view)
  IN IF old \in {Missing, Blocked} THEN req.value ELSE KeepComments(old, req.value)

(* A replace that did not ask for notes keeps those of what it keeps.      *)
PayloadToStore(doc, req) ==
  LET old == Descend(doc, req.view)
  IN IF req.comments \/ old \in {Missing, Blocked} THEN req.value
     ELSE KeepComments(old, req.value)

(* plan_write: the mutation on a copy.                                     *)
PlanWrite(doc, req) ==
  CASE req.act = "replace" -> Replace(doc, req.view, PayloadToStore(doc, req))
    [] req.act = "merge" -> Merge(doc, req.view, req.value)
    [] req.act = "remove" -> RemoveView(doc, req.view)
=============================================================================
