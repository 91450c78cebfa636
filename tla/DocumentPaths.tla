--------------------------- MODULE DocumentPaths ---------------------------
(***************************************************************************)
(* Documents as ordered maps, and the walk of a view through them          *)
(* (descend, descend_creating of crates/pve-meta-core/src/view.rs).        *)
(*                                                                         *)
(* A value is a tagged tuple: <<"map", entries>> with its entries          *)
(* <<key, value>> in the order of the file, <<"array", items>>,            *)
(* <<"str", s>>, <<"num", n>>, <<"bool", b>> or <<"null">>.                *)
(* A key is <<name, d>>: the name followed by d times the suffix "__", so  *)
(* that <<"a", 0>> is a, <<"a", 1>> its note a__ and <<"", 1>> the bare    *)
(* __.                                                                     *)
(***************************************************************************)
EXTENDS Integers, SequencesExt

Map(entries) == <<"map", entries>>
EmptyMap == Map(<<>>)
Null == <<"null">>
Missing == <<"missing">>      \* Ok(None): nothing is there
Blocked == <<"blocked">>      \* Err: the path runs through a list or scalar

IsMap(v) == v[1] = "map"
IsArray(v) == v[1] = "array"
KeysOf(m) == {m[2][i][1] : i \in DOMAIN m[2]}
Places(m, k) == {i \in DOMAIN m[2] : m[2][i][1] = k}
Position(m, k) == CHOOSE i \in Places(m, k) : TRUE
At(m, k) == m[2][Position(m, k)][2]

(* insert keeps the place of a key that is there, a new one comes last.    *)
Insert(m, k, v) ==
  IF k \in KeysOf(m) THEN Map([m[2] EXCEPT ![Position(m, k)] = <<k, v>>])
                     ELSE Map(Append(m[2], <<k, v>>))

(* shift_remove keeps the order of the others.                             *)
ShiftRemove(m, k) == IF k \in KeysOf(m) THEN Map(RemoveAt(m[2], Position(m, k))) ELSE m

(* The key of the note about what is at k.                                 *)
NoteOf(k) == <<k[1], k[2] + 1>>

-----------------------------------------------------------------------------
(* The walk along a path                                                   *)

(* Two paths one of which is above the other.                              *)
Related(p, q) == IsPrefix(p, q) \/ IsPrefix(q, p)

(* One segment: through maps only, and where nothing is it ends.           *)
Child(v, k) ==
  IF v \in {Missing, Blocked} THEN v
  ELSE IF ~IsMap(v) THEN Blocked
  ELSE IF k \notin KeysOf(v) THEN Missing ELSE At(v, k)

(* descend and descend_mut: `cur' after each of the path's segments.       *)
Cur(v, p) ==
  LET cur[i \in 0..Len(p)] == IF i = 0 THEN v ELSE Child(cur[i - 1], p[i]) IN cur
Descend(v, p) == Cur(v, p)[Len(p)]

(* descend_creating and the insert after it: the value at p is v, the maps *)
(* above it are made where they are missing.  Made(doc, p, v)[i] is what   *)
(* is then i segments above the end of the path.                           *)
OrEmpty(v) == IF v = Missing THEN EmptyMap ELSE v
Made(doc, p, v) ==
  LET made[i \in 0..Len(p)] ==
        IF i = 0 THEN v
        ELSE Insert(OrEmpty(Cur(doc, p)[Len(p) - i]), p[Len(p) - i + 1], made[i - 1])
  IN made
Splice(doc, p, v) == Made(doc, p, v)[Len(p)]

-----------------------------------------------------------------------------
(* What an operation answers: the document after it and the paths touched  *)

Touch(p, op) == [path |-> p, op |-> op]
Done(doc, touched) == [ok |-> TRUE, doc |-> doc, touched |-> touched]
Refusal(doc) == [ok |-> FALSE, doc |-> doc, touched |-> {}]

(* A bug the laws have to catch: an empty map made goes unreported.        *)
MutReplaceVacuous(doc, p, v, old, below) ==
  IF old = Blocked THEN Refusal(doc) ELSE Done(Splice(doc, p, v), below)

(* replace: the subtree at p, wholesale; an empty map made where nothing   *)
(* was is a change too.                                                    *)
Replaced(doc, p, v, old, below) ==
  IF old = Blocked THEN Refusal(doc)
  ELSE Done(Splice(doc, p, v),
            IF old = Missing /\ below = {} THEN {Touch(p, "set")} ELSE below)

(* A bug the laws have to catch: a scalar survives a patch of deletes.     *)
MutMergeKeepsScalar(doc, p, old, sub) ==
  IF old = Blocked THEN Refusal(doc)
  ELSE IF sub.touched # {} THEN Done(Splice(doc, p, sub.doc), sub.touched)
  ELSE Done(doc, {})

(* merge: nothing is made unless the patch writes something, and a value   *)
(* that is no map is merged over as if it were {}, a change in itself.     *)
Merged(doc, p, old, sub) ==
  LET overScalar == old # Missing /\ ~IsMap(old)
  IN IF old = Blocked THEN Refusal(doc)
     ELSE IF sub.touched # {} THEN Done(Splice(doc, p, sub.doc), sub.touched)
     ELSE IF overScalar THEN Done(Splice(doc, p, sub.doc), {Touch(p, "set")})
     ELSE Done(doc, {})

(* remove: the key p ends in goes from the map above it, and the note      *)
(* about it goes with it.                                                  *)
Removed(doc, p, parent, own) ==
  LET note == NoteOf(Last(p))
  IN IF parent = Missing THEN Done(doc, {})
     ELSE IF ~IsMap(parent) THEN Refusal(doc)
     ELSE Done(Splice(doc, Front(p), ShiftRemove(ShiftRemove(parent, note), Last(p))),
               own \cup (IF note \in KeysOf(parent) THEN {Touch(Append(Front(p), note), "delete")}
                         ELSE {}))
=============================================================================
