----------------------------- MODULE SchemaGate -----------------------------
(***************************************************************************)
(* PrefixRegistry with the schemas of Shape and the trees of DocumentTree: *)
(* what the findings of a guest's document are, and which of them a write  *)
(* is refused for.                                                         *)
(***************************************************************************)
EXTENDS Shape, PrefixRegistry

Paths(touched) == {t.path : t \in touched}

(* The part of check_enforced that looks at the schemas.                   *)
AnswerableFindings(shape, stored, planned, touched) ==
  Introduced(EnforcedFindings(shape, stored), EnforcedFindings(shape, planned), Paths(touched))

-----------------------------------------------------------------------------
(* Reference definitions the properties compare with                       *)

(* Every path of a document, through maps and lists.                       *)
RECURSIVE PathsOf(_, _)
PathsOf(v, p) ==
  {p} \cup
    CASE IsMap(v) -> UNION {PathsOf(e[2], Append(p, e[1])) : e \in ToSet(v[2])}
      [] IsArray(v) -> UNION {PathsOf(v[2][i], Append(p, IndexKey(i))) : i \in DOMAIN v[2]}
      [] OTHER -> {}

(* The schema node for path p below d's prefix, lists included.            *)
RECURSIVE Step(_, _)
Step(nodes, p) ==
  IF p = <<>> \/ nodes = {} THEN nodes
  ELSE Step(UNION {(IF p[1] \in DOMAIN n.properties THEN {n.properties[p[1]]} ELSE {})
                     \cup (IF p[1][1] \in {"0", "1"} THEN ToSet(n.items) ELSE {}) : n \in nodes},
            Tail(p))
Describing(d, p) == Step(ToSet(d.schema), BelowPrefix(d, p))
Misses(d, v, p) == \E n \in Describing(d, p) : CheckValue(n, GetPath(v, p)) # "fits"

(* The settings of `enforce' on the way to p, the file's first.            *)
SettingsTo(d, p) ==
  {q \in {SubSeq(p, 1, i) : i \in Len(d.prefix)..Len(p)} :
     \E n \in Describing(d, q) : n.enforce # "unset"}
IsEnforced(d, p) ==
  IF SettingsTo(d, p) = {} THEN d.enforce
  ELSE \E q \in SettingsTo(d, p) :
         /\ \A r \in SettingsTo(d, p) : Len(r) <= Len(q)
         /\ \E n \in Describing(d, q) : n.enforce = "on"

(* What is wrong with a document, path by path: the value misses its       *)
(* schema, and nothing between it and its prefix does.                     *)
WrongAt(shape, v) ==
  {p \in PathsOf(v, <<>>) : \E d \in Governing(shape, p) :
     /\ Misses(d, v, p)
     /\ \A i \in Len(d.prefix)..(Len(p) - 1) : ~Misses(d, v, SubSeq(p, 1, i))}
EnforcedWrongAt(shape, v) ==
  {p \in WrongAt(shape, v) : \E d \in Governing(shape, p) : IsEnforced(d, p)}

-----------------------------------------------------------------------------
(* Properties                                                              *)

(* The walk of `findings' and the lookup of `schema_at' agree: the paths   *)
(* reported are those whose governing schema the value misses, and the     *)
(* write gate sees those whose nearest `enforce' says so.                  *)
Quiescent == put = Idle /\ edit = Idle
AreWhatIsWrong(shape, findings) ==
  /\ Paths(findings) = WrongAt(shape, doc)
  /\ Paths({f \in findings : f.enforced}) = EnforcedWrongAt(shape, doc)
FindingsAreWhatIsWrong == Quiescent => AreWhatIsWrong(ShapeNow, Findings(ShapeNow, doc))

(* What the editor offers from `schema_index' is what `schema_at' says at  *)
(* that path, and nothing schema_at knows is left out.                     *)
Indexed(shape, index) ==
  /\ \A e \in index : SchemaAt(shape, e.path) = {<<e.schema>>}
  /\ \A e \in index : \A k \in DOMAIN e.schema.properties :
       SchemaAt(shape, Append(e.path, k)) # {} => Append(e.path, k) \in Paths(index)
  /\ \A d \in shape : d.schema # <<>> => d.prefix \in Paths(index)
IndexIsSchemaAt == Quiescent => Indexed(ShapeNow, SchemaIndex(ShapeNow))

(* A write is refused for its own changes only: every finding it is        *)
(* refused for is at, above or below a path the write changed, whatever    *)
(* was wrong in the document before.                                       *)
RefusedForOwnChanges ==
  put.stage = "answered"
    => \A f \in put.refused : \E t \in put.touched : Related(t.path, f.path)

(* A PUT without force, judged by the registry as it still is, and any     *)
(* DELETE: nothing is wrong under an enforcing prefix that was not before, *)
(* and nothing a PUT changed is.                                           *)
NothingEnforcedGetsWorse(old, new) ==
  /\ new \subseteq old
  /\ put.req.act = "remove" \/ \A p \in new : \A t \in put.touched : ~Related(t.path, p)
UnforcedWritesKeepTheSchema ==
  put.stage = "answered" /\ put.quiet /\ ~put.req.force
    => put.refused # {} \/ NothingEnforcedGetsWorse(EnforcedWrongAt(ShapeNow, put.was),
                                                   EnforcedWrongAt(ShapeNow, doc))
=============================================================================
