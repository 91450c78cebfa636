------------------------------ MODULE MetaEdit ------------------------------
(***************************************************************************)
(* What one API or CLI write asks of a document, and what the document     *)
(* becomes (crates/pve-meta-core/src/api.rs).                              *)
(***************************************************************************)
EXTENDS MetaStore

(* PUT replaces or merges, DELETE removes a view or the whole document.    *)
Requests == [act : {"replace", "merge", "remove"}, keys : SUBSET Keys]
              \cup [act : {"delete"}, keys : {{}}]

(* The digest a request names, if it names one.                            *)
Preconditions == {{}} \cup {{d} : d \in Digests}

(* put_document's and delete_document's plan on a copy of what was read.   *)
Plan(req, f) ==
  CASE req.act = "replace" -> req.keys
    [] req.act = "merge" -> f.keys \cup req.keys
    [] req.act = "remove" -> f.keys \ req.keys
    [] req.act = "delete" -> {}

(* check_repairable: an unrecoverable document is replaced or removed      *)
(* whole, never edited.                                                    *)
Repairable(req, f) == f.ok \/ req.act \in {"replace", "delete"}

(* "A write that changes nothing rewrites nothing": a PUT needs the bytes  *)
(* to be there and the same, a view's DELETE only that nothing is touched. *)
Unchanged(req, plan, f) ==
  /\ req.act # "delete"
  /\ plan = f.keys
  /\ req.act = "remove" \/ (f.there /\ f.ok)
=============================================================================
