------------------------------- MODULE Shape -------------------------------
(***************************************************************************)
(* The shape of a document: which declared prefix governs a path, what its *)
(* schema finds wrong there, and which findings a write is answerable for  *)
(* (crates/pve-meta-core/src/shape.rs and the schema dialect of            *)
(* registry.rs).                                                           *)
(*                                                                         *)
(* A schema node is a record of type Node below; what a node leaves out is *)
(* "none", the empty sequence or "unset".  A shape is a set of declared    *)
(* prefixes [prefix, schema, enforce, hidden].                             *)
(***************************************************************************)
EXTENDS DocumentTree

Node == [type |-> "none", enum |-> <<>>, minimum |-> <<>>, maximum |-> <<>>,
         items |-> <<>>, properties |-> <<>>, enforce |-> "unset", hidden |-> "unset"]

SchemaTypes == {"string", "integer", "number", "boolean", "object", "array"}
Flags == {"unset", "on", "off"}

(* as_flag: a boolean, or 1 and 0 as the wire spells it.                   *)
AsFlag(v) ==
  CASE v[1] = "bool" -> {v[2]}
    [] v = <<"num", 1>> -> {TRUE}
    [] v = <<"num", 0>> -> {FALSE}
    [] OTHER -> {}

TypeMatches(type, v) ==
  CASE type = "string" -> v[1] = "str"
    [] type \in {"integer", "number"} -> v[1] = "num"
    [] type = "boolean" -> AsFlag(v) # {}
    [] type = "object" -> IsMap(v)
    [] type = "array" -> IsArray(v)
    [] OTHER -> TRUE

(* check_schema_dialect: a schema whose keywords would not do what they    *)
(* say does not load.                                                      *)
Numeric(node) == node.type \in {"none", "integer", "number"}
EnumMeansSomething(node, members) ==
  /\ members # {}
  /\ \A m \in members : m[1] \in {"str", "num", "bool"} /\ TypeMatches(node.type, m)
RECURSIVE CheckSchemaDialect(_)
CheckSchemaDialect(node) ==
  /\ node.type \in SchemaTypes \cup {"none"}
  /\ {node.enforce, node.hidden} \subseteq Flags
  /\ \A i \in DOMAIN node.enum : EnumMeansSomething(node, node.enum[i])
  /\ node.minimum \o node.maximum # <<>> => Numeric(node)
  /\ \A i \in DOMAIN node.minimum, j \in DOMAIN node.maximum :
       node.minimum[i] <= node.maximum[j]
  /\ \A i \in DOMAIN node.items :
       node.type \in {"none", "array"} /\ CheckSchemaDialect(node.items[i])
  /\ \A k \in DOMAIN node.properties :
       /\ node.type \in {"none", "object"}
       /\ IsValidSegment(k) /\ CheckSchemaDialect(node.properties[k])

-----------------------------------------------------------------------------
(* What a schema node says about one value                                 *)

(* Under `type: boolean' a member and a value are compared as booleans.    *)
EnumAdmits(type, member, v) ==
  IF type = "boolean" THEN AsFlag(v) # {} /\ AsFlag(member) = AsFlag(v)
                      ELSE Same(member, v)

(* check_value: the first of type, enum and range the value misses.        *)
CheckValue(node, v) ==
  IF node.type # "none" /\ ~TypeMatches(node.type, v) THEN "type"
  ELSE IF \E i \in DOMAIN node.enum : \A m \in node.enum[i] : ~EnumAdmits(node.type, m, v) THEN "enum"
  ELSE IF v[1] = "num" /\ \E i \in DOMAIN node.minimum : v[2] < node.minimum[i] THEN "minimum"
  ELSE IF v[1] = "num" /\ \E i \in DOMAIN node.maximum : v[2] > node.maximum[i] THEN "maximum"
  ELSE "fits"

(* flag: an explicit setting wins, otherwise it is inherited.              *)
Flag(setting, inherited) == IF setting = "unset" THEN inherited ELSE setting = "on"

-----------------------------------------------------------------------------
(* Which prefix governs                                                    *)

(* A bug the laws have to catch: the least specific prefix governs.        *)
MutLeastSpecific(d, e) == Len(d.prefix) <= Len(e.prefix)

(* by_specificity, of prefixes that contain one path: the longer first.    *)
BySpecificity(d, e) == Len(d.prefix) >= Len(e.prefix)

(* governing: the most specific prefix that contains the path, if any.     *)
Containing(shape, p) == {d \in shape : IsPrefix(d.prefix, p)}
Governing(shape, p) ==
  {d \in Containing(shape, p) : \A e \in Containing(shape, p) : BySpecificity(d, e)}
Governs(shape, d, p) == Governing(shape, p) = {d}

(* schema_at: the governing schema's node for the path.                    *)
RECURSIVE NodeBelow(_, _)
NodeBelow(node, p) ==
  IF p = <<>> THEN <<node>>
  ELSE IF p[1] \in DOMAIN node.properties THEN NodeBelow(node.properties[p[1]], Tail(p))
  ELSE <<>>
BelowPrefix(d, p) == SubSeq(p, Len(d.prefix) + 1, Len(p))
OwnSchemaAt(d, p) == IF d.schema = <<>> THEN <<>> ELSE NodeBelow(d.schema[1], BelowPrefix(d, p))
SchemaAt(shape, p) == UNION {{OwnSchemaAt(d, p)} : d \in Governing(shape, p)} \ {<<>>}

(* schema_index: every path a schema describes, pruned where another       *)
(* prefix governs.                                                         *)
RECURSIVE Collect(_, _, _, _, _)
Collect(shape, d, node, p, hidden) ==
  IF ~Governs(shape, d, p) THEN {}
  ELSE {[path |-> p, schema |-> node, hidden |-> Flag(node.hidden, hidden)]}
         \cup UNION {Collect(shape, d, node.properties[k], Append(p, k),
                             Flag(node.hidden, hidden)) : k \in DOMAIN node.properties}
SchemaIndex(shape) ==
  UNION {Collect(shape, d, d.schema[1], d.prefix, d.hidden) :
           d \in {x \in shape : x.schema # <<>>}}

-----------------------------------------------------------------------------
(* Findings                                                                *)

Finding(p, msg, enforced) == [path |-> p, msg |-> msg, enforced |-> enforced]

(* A bug the laws have to catch: the parent's schema is consulted below a  *)
(* more specific prefix too.                                               *)
MutAlsoShadowed(shape, d, p) == IsPrefix(d.prefix, p)

(* walk leaves a key to the more specific prefix that owns it.             *)
Owns(shape, d, p) == Governs(shape, d, p)

(* walk: a value of the wrong kind ends the descent; a list's members are  *)
(* checked by `items', a map's by `properties'.                            *)
RECURSIVE WalkSchema(_, _, _, _, _, _)
WalkBelow(shape, d, node, v, p, enforce) ==
  IF node.items # <<>> /\ IsArray(v)
  THEN UNION {WalkSchema(shape, d, node.items[1], v[2][i], Append(p, IndexKey(i)), enforce) :
                i \in DOMAIN v[2]}
  ELSE IF ~IsMap(v) THEN {}
  ELSE UNION {WalkSchema(shape, d, node.properties[k], At(v, k), Append(p, k), enforce) :
                k \in {x \in KeysOf(v) \cap DOMAIN node.properties :
                         Owns(shape, d, Append(p, x))}}
WalkSchema(shape, d, node, v, p, inherited) ==
  IF CheckValue(node, v) # "fits"
  THEN {Finding(p, CheckValue(node, v), Flag(node.enforce, inherited))}
  ELSE WalkBelow(shape, d, node, v, p, Flag(node.enforce, inherited))

FindingsOf(shape, d, v) ==
  IF v = Missing THEN {} ELSE WalkSchema(shape, d, d.schema[1], v, d.prefix, d.enforce)
Findings(shape, doc) ==
  UNION {FindingsOf(shape, d, GetPath(doc, d.prefix)) : d \in {x \in shape : x.schema # <<>>}}
EnforcedFindings(shape, doc) == {f \in Findings(shape, doc) : f.enforced}

(* Bugs the laws have to catch: a wrong value may be replaced by another   *)
(* wrong one; what is wrong anywhere is answered for.                      *)
MutOnlyNew(before, after, changed) == after \ before
MutAllFindings(before, after, changed) == after

(* introduced: the findings a write is answerable for, new ones and any on *)
(* a path it changed, in either direction.                                 *)
Introduced(before, after, changed) ==
  {f \in after : f \notin before \/ \E c \in changed : Related(c, f.path)}
=============================================================================
