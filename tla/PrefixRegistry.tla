--------------------------- MODULE PrefixRegistry ---------------------------
(***************************************************************************)
(* The prefix registry and the schema gate: packaged and cluster prefix    *)
(* files, their edits through the API, the load that decides which of them *)
(* reach a guest (registry.rs), and a guest's PUT that is judged by what   *)
(* was loaded (api.rs effective_prefixes, put_document, check_enforced).   *)
(*                                                                         *)
(* A registry edit holds the lock of its file and a PUT that of the guest  *)
(* (Meta.pm _locked); the load takes no lock and reads file by file, and   *)
(* package upgrades and an administrator's editor take none either.        *)
(*                                                                         *)
(* What a schema says is a parameter here, the operators among the         *)
(* CONSTANTS; SchemaGate has Shape's and DocumentTree's in their place.    *)
(***************************************************************************)
EXTENDS Integers, SequencesExt

CONSTANTS
  LoadsAs(_),          \* a schema node is in the dialect that loads
  Plan(_, _),          \* what a request makes of a document
  LintOf(_),           \* what the lint finds in a document
  Answerable(_, _, _, _)  \* shape, stored, planned, touched: what a write answers for

CONSTANTS
  Names,        \* the prefixes files may declare, in the order of their names
  Tags, Nodes,
  BadNodes,     \* keys of `nodes' that are no node names
  Packaged,     \* the files a package may ship: name -> set of files
  HandWritten,  \* what an administrator's editor may leave
  Edits,        \* registry requests
  Requests,     \* writes of the guest's document
  Documents,    \* the guest's document at the start
  MaxChanges    \* bound on changes of the registry and of the guest

VARIABLES
  packaged, cluster,   \* name -> file, in the two directories
  edit,                \* the registry request in flight, with the file it read
  doc, tags, node,     \* the guest
  put,                 \* the guest's PUT in flight
  changes              \* how many changes there were, up to MaxChanges

vars == <<packaged, cluster, edit, doc, tags, node, put, changes>>
guest == <<doc, tags, node, put>>
registry == <<packaged, cluster, edit>>

-----------------------------------------------------------------------------
(* Prefix files                                                            *)

(* A file is none, garbled (no YAML map) or a text; the digest of a file   *)
(* is the file.  The fields of a text are those of RawPrefixDef; one that  *)
(* is left out has its value in Blank, and a flag that is neither true nor *)
(* false is "bad".                                                         *)
None == <<"none">>
Garbled == <<"garbled">>
Text(c) == <<"text", c>>
Blank == [selector |-> <<"missing">>, enforce |-> "unset", hidden |-> "unset",
          schema |-> <<>>, nodes |-> <<>>]
Content(f) == IF f[1] = "text" THEN f[2] ELSE Blank
FileOK(f) == f \in {None, Garbled} \/ (f[1] = "text" /\ DOMAIN f[2] = DOMAIN Blank)

ASSUME FilesAssumption ==
  \A f \in HandWritten \cup UNION {Packaged[n] : n \in ToSet(Names)} : FileOK(f)
ASSUME EditsAssumption ==
  \A req \in Edits : /\ req.name \in ToSet(Names)
                     /\ req.act = "replace" => FileOK(Text(req.value))
ASSUME MaxChangesAssumption == MaxChanges \in Nat

(* parse_selector: exactly one of all and tag.                             *)
ParseSelector(sel) == sel[1] \in {"all", "tag"}

SchemaLoads(schema) == \A i \in DOMAIN schema : LoadsAs(schema[i])
FieldsLoad(o) == "bad" \notin {o.enforce, o.hidden} /\ SchemaLoads(o.schema)

(* parse_prefix.                                                           *)
ParsePrefix(f) ==
  /\ f[1] = "text"
  /\ ParseSelector(f[2].selector) /\ FieldsLoad(f[2])
  /\ DOMAIN f[2].nodes \cap BadNodes = {}
  /\ \A n \in DOMAIN f[2].nodes : FieldsLoad(f[2].nodes[n])

(* effective_file: the cluster's file, garbled or not, hides the           *)
(* packaged one.                                                           *)
EffectiveFile(name) == IF cluster[name] # None THEN cluster[name] ELSE packaged[name]

(* Selector::matches.                                                      *)
Matches(sel, have) == sel[1] = "all" \/ sel[2] \in have

(* resolve_for_node: what the node's entry sets replaces the file's field. *)
Over(setting, field, blank) == IF setting = blank THEN field ELSE setting
ResolveForNode(c, n) ==
  IF n \notin DOMAIN c.nodes THEN c
  ELSE [c EXCEPT !.schema = Over(c.nodes[n].schema, @, <<>>),
                 !.enforce = Over(c.nodes[n].enforce, @, "unset"),
                 !.hidden = Over(c.nodes[n].hidden, @, "unset")]
Declared(name, c) ==
  [prefix |-> name, schema |-> c.schema,
   enforce |-> c.enforce = "on", hidden |-> c.hidden = "on"]

(* One turn of load_dirs and prefixes_for_guest: a file that does not load *)
(* or does not select the guest declares nothing.                          *)
Reaching(name, f, have, n) ==
  IF ParsePrefix(f) /\ Matches(f[2].selector, have)
  THEN {Declared(name, ResolveForNode(f[2], n))} ELSE {}

-----------------------------------------------------------------------------
(* Requests that edit a prefix file                                        *)

Idle == [stage |-> "idle"]

(* The document a request leaves: `set' and `unset' are writes of a view.  *)
Planned(c, req) ==
  CASE req.act = "replace" -> req.value
    [] req.act = "set" -> [c EXCEPT ![req.field] = req.value]
    [] req.act = "unset" -> [c EXCEPT ![req.field] = Blank[req.field]]
    [] OTHER -> Blank

(* check_precondition: a request that names a digest goes on only if it is *)
(* that of the effective file, which `named' remembers.  `raced' is        *)
(* history: the reads after which an upgrade or a hand edit of the file    *)
(* went unseen, the "read" of the document and the digest of the "put".    *)
EditBegin(req) ==
  /\ edit = Idle /\ changes < MaxChanges /\ put.stage # "answered"
  /\ edit' = [stage |-> "checked", req |-> req, read |-> None, raced |-> {},
              named |-> IF req.cas THEN EffectiveFile(req.name) ELSE None]
  /\ changes' = changes + 1
  /\ UNCHANGED <<packaged, cluster, guest>>

(* check_repairable: what is garbled is only repaired as a whole.          *)
CheckRepairable(f, req) == f = Garbled => req.act \in {"replace", "delete"}

(* read_stored, which looks at the effective file anew.                    *)
EditRead ==
  /\ edit.stage = "checked" /\ put.stage # "answered"
  /\ CheckRepairable(EffectiveFile(edit.req.name), edit.req)
  /\ edit' = [edit EXCEPT !.stage = "planned", !.read = EffectiveFile(edit.req.name)]
  /\ UNCHANGED <<packaged, cluster, guest, changes>>

(* A write that changes nothing writes nothing.                            *)
Unchanged(e) == e.read[1] = "text" /\ Planned(Content(e.read), e.req) = Content(e.read)

(* A bug the properties have to catch: the write trusts the digest checked *)
(* before the read.                                                        *)
MutChecksNoMore(e) == TRUE

(* put_raw looks at the digest of the effective file again.                *)
CheckDigest(e) == e.req.cas => EffectiveFile(e.req.name) = e.named

(* A bug the properties have to catch: a partial delete is not parsed.     *)
MutPartialUnchecked(e) == e.req.act = "unset" \/ ParsePrefix(Text(Planned(Content(e.read), e.req)))

CheckRegistryShape(e) == ParsePrefix(Text(Planned(Content(e.read), e.req)))

(* A view DELETE of a missing document has nothing to write.               *)
MayWrite(e) ==
  /\ e.req.act # "delete" /\ ~Unchanged(e)
  /\ e.req.act = "unset" => e.read # None
  /\ CheckRegistryShape(e) /\ CheckDigest(e)

(* has_own_file: only a cluster file can be removed.                       *)
MayRemove(e) == e.req.act = "delete" /\ cluster[e.req.name] # None

(* put_raw up to its digest check, ...                                     *)
EditPut ==
  /\ edit.stage = "planned" /\ put.stage # "answered" /\ MayWrite(edit)
  /\ edit' = [edit EXCEPT !.stage = "writing"]
  /\ UNCHANGED <<packaged, cluster, guest, changes>>

(* The registry or the guest changes under the PUT in flight; an answer is *)
(* looked at before anything else happens.                                 *)
Disturb == put.stage # "answered" /\ put' = IF put = Idle THEN put ELSE [put EXCEPT !.quiet = FALSE]

(* ... and its rename over whatever is there by then.                      *)
EditWrite ==
  /\ edit.stage = "writing"
  /\ cluster' = [cluster EXCEPT ![edit.req.name] = Text(Planned(Content(edit.read), edit.req))]
  /\ edit' = Idle /\ Disturb
  /\ UNCHANGED <<packaged, doc, tags, node, changes>>

EditRemove ==
  /\ edit.stage = "planned" /\ MayRemove(edit)
  /\ cluster' = [cluster EXCEPT ![edit.req.name] = None]
  /\ edit' = Idle /\ Disturb
  /\ UNCHANGED <<packaged, doc, tags, node, changes>>

(* A 400, 404 or 409, or nothing to do.                                    *)
EditAnswer ==
  /\ put.stage # "answered"
  /\ \/ /\ edit.stage = "checked"
        /\ ~CheckRepairable(EffectiveFile(edit.req.name), edit.req)
     \/ edit.stage = "planned" /\ ~MayWrite(edit) /\ ~MayRemove(edit)
  /\ edit' = Idle
  /\ UNCHANGED <<packaged, cluster, guest, changes>>

-----------------------------------------------------------------------------
(* A PUT of the guest's document                                           *)

(* _guest_acl reads tags and node, and load_dirs lists the names that have *)
(* a file; `shape' is what is loaded of them so far.  `quiet' remembers    *)
(* that the registry and the guest stayed as they were since.              *)
PutBegin(req) ==
  /\ put = Idle /\ req.act # "remove"
  /\ put' = [stage |-> "loading", req |-> req, tags |-> tags, node |-> node,
             todo |-> {n \in ToSet(Names) : EffectiveFile(n) # None},
             shape |-> {}, quiet |-> TRUE]
  /\ UNCHANGED <<registry, doc, tags, node, changes>>

(* The effective file of the next name, by now; one that is gone declares  *)
(* nothing.                                                                *)
Place(n) == CHOOSE i \in DOMAIN Names : Names[i] = n
LoadPrefix ==
  /\ put.stage = "loading"
  /\ \E n \in put.todo :
       /\ \A m \in put.todo : Place(n) <= Place(m)
       /\ put' = [put EXCEPT !.todo = @ \ {n},
                    !.shape = @ \cup Reaching(n, EffectiveFile(n), put.tags, put.node)]
  /\ UNCHANGED <<registry, doc, tags, node, changes>>

(* check_enforced: what an unforced write is refused for.                  *)
CheckEnforced(shape, req, plan) ==
  IF req.force \/ ~plan.ok THEN {} ELSE Answerable(shape, doc, plan.doc, plan.touched)

(* A bug the properties have to catch: the plan is not linted.             *)
MutUnlinted(plan) == plan

Linted(plan) ==
  IF plan.ok /\ LintOf(plan.doc) = {} THEN plan ELSE [ok |-> FALSE, doc |-> doc, touched |-> {}]

Answered(req, shape, quiet, plan, refused) ==
  /\ put' = [stage |-> "answered", req |-> req, shape |-> shape, quiet |-> quiet,
             was |-> doc, refused |-> refused, touched |-> plan.touched]
  /\ doc' = IF plan.ok /\ refused = {} THEN plan.doc ELSE doc
  /\ UNCHANGED <<registry, tags, node, changes>>

Decide(plan) ==
  Answered(put.req, put.shape, put.quiet, plan, CheckEnforced(put.shape, put.req, plan))
PutDocument ==
  /\ put.stage = "loading" /\ put.todo = {}
  /\ Decide(Linted(Plan(doc, put.req)))

(* delete_document loads no prefixes and looks at no schema.               *)
DeleteDocument(req) ==
  /\ put = Idle /\ req.act = "remove"
  /\ Answered(req, {}, TRUE, Linted(Plan(doc, req)), {})

Return == put.stage = "answered" /\ put' = Idle /\ UNCHANGED <<registry, doc, tags, node, changes>>

-----------------------------------------------------------------------------
(* What happens around them                                                *)

Change ==
  /\ changes < MaxChanges /\ changes' = changes + 1
  /\ Disturb /\ UNCHANGED doc

(* The file of n changes, and an edit of it may not see that it did.       *)
Race(n) ==
  edit' = IF edit = Idle THEN edit
          ELSE IF edit.req.name # n \/ edit.stage = "planned" THEN edit
          ELSE [edit EXCEPT !.raced = @ \cup {IF edit.stage = "checked" THEN "read" ELSE "put"}]

(* A package is installed, upgraded or removed.                            *)
Upgrade(n) ==
  /\ Change /\ Race(n)
  /\ \E f \in Packaged[n] \ {packaged[n]} : packaged' = [packaged EXCEPT ![n] = f]
  /\ UNCHANGED <<cluster, tags, node>>

(* An administrator's editor saves or removes a cluster file.              *)
HandEdit(n) ==
  /\ Change /\ Race(n)
  /\ \E f \in HandWritten \ {cluster[n]} : cluster' = [cluster EXCEPT ![n] = f]
  /\ UNCHANGED <<packaged, tags, node>>

Retag == Change /\ tags' \in SUBSET Tags \ {tags} /\ UNCHANGED <<packaged, cluster, edit, node>>
Migrate == Change /\ node' \in Nodes \ {node} /\ UNCHANGED <<packaged, cluster, edit, tags>>

Init ==
  /\ packaged \in {f \in [ToSet(Names) -> UNION {Packaged[n] : n \in ToSet(Names)}] :
                     \A n \in ToSet(Names) : f[n] \in Packaged[n]}
  /\ cluster = [n \in ToSet(Names) |-> None]
  /\ doc \in Documents /\ tags = {} /\ node \in Nodes
  /\ edit = Idle /\ put = Idle /\ changes = 0

Next ==
  \/ \E req \in Edits : EditBegin(req)
  \/ EditRead \/ EditPut \/ EditWrite \/ EditRemove \/ EditAnswer
  \/ \E req \in Requests : PutBegin(req)
  \/ LoadPrefix \/ PutDocument
  \/ \E req \in Requests : DeleteDocument(req)
  \/ Return
  \/ \E n \in ToSet(Names) : Upgrade(n) \/ HandEdit(n)
  \/ Retag \/ Migrate

Spec == Init /\ [][Next]_vars

-----------------------------------------------------------------------------
(* Properties                                                              *)

TypeOK ==
  /\ DOMAIN packaged = ToSet(Names) /\ DOMAIN cluster = ToSet(Names)
  /\ \A n \in ToSet(Names) : packaged[n] \in Packaged[n] /\ FileOK(cluster[n])
  /\ (doc \in Documents \/ LintOf(doc) = {}) /\ tags \subseteq Tags /\ node \in Nodes
  /\ edit.stage \in {"idle", "checked", "planned", "writing"}
  /\ put.stage \in {"idle", "loading", "answered"}
  /\ changes \in 0..MaxChanges

(* An edit that names a digest writes over the file it names and no other, *)
(* and what it writes is its edit of that file, packaged or cluster: an    *)
(* upgrade or a hand edit between its read and put_raw's check is never    *)
(* written over.  The two windows the digest leaves open are named: a      *)
(* change after put_raw's check, and one between check_precondition and    *)
(* the read (which put_raw sees, unless it is undone before).              *)
NamedDigestIsAtomic ==
  [][edit # Idle /\ edit' = Idle /\ edit.req.cas /\ cluster' # cluster /\ edit.req.act # "delete"
       => LET n == edit.req.name
          IN /\ "put" \notin edit.raced => EffectiveFile(n) = edit.named
             /\ edit.raced = {} =>
                  cluster'[n] = Text(Planned(Content(EffectiveFile(n)), edit.req))
    ]_vars

(* No edit through the API makes a prefix that loads stop loading: it is   *)
(* gone for good or still read by load_dirs, also after a view is removed  *)
(* or a packaged file comes back.                                          *)
EditsKeepItLoading ==
  [][edit'.stage # edit.stage
       => \A n \in ToSet(Names) :
            ParsePrefix(EffectiveFile(n)) => ParsePrefix(EffectiveFile(n)') \/ EffectiveFile(n)' = None
    ]_vars

(* The shape of the guest as the files are now.                            *)
ShapeNow == UNION {Reaching(n, EffectiveFile(n), tags, node) : n \in ToSet(Names)}
=============================================================================
