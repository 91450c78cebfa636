----------------------------- MODULE MetaStore -----------------------------
(***************************************************************************)
(* The files pve-meta keeps for one guest under /etc/pve/meta, and what    *)
(* each operation of MetaStore (crates/pve-meta-core/src/store.rs) does to *)
(* them.  A document's text is abstracted to whether it parses and to the  *)
(* set of top-level keys it holds; two files have the same digest exactly  *)
(* when they have the same text.                                           *)
(*                                                                         *)
(* Each operation is one step: write_atomic renames a finished temporary   *)
(* file over its target, so no reader sees half a document.  The callers'  *)
(* locks, which these operations do not take, are in MetaLifecycle.        *)
(***************************************************************************)
EXTENDS Naturals

CONSTANTS
  Keys,     (* top-level keys a document may hold                          *)
  Snaps     (* snapshot names                                              *)

VARIABLES
  doc,      (* <vmid>.yaml                                                 *)
  copies    (* <vmid>.<snapshot>.yaml, one per snapshot name               *)

storeVars == <<doc, copies>>

(***************************************************************************)
(* A file: is it there, does it parse, its keys.  `gen' is a history       *)
(* field no operation reads: the incarnation of the guest it was written   *)
(* for, 0 when it was written for none.                                    *)
(***************************************************************************)
File == [there : BOOLEAN, ok : BOOLEAN, keys : SUBSET Keys, gen : Nat]

Absent == [there |-> FALSE, ok |-> TRUE, keys |-> {}, gen |-> 0]

Text(K, g) == [there |-> TRUE, ok |-> TRUE, keys |-> K, gen |-> g]

(* A file that cannot be read back: read_stored serves it as an empty      *)
(* document and flags it unrecoverable.                                    *)
Garbled(g) == [there |-> TRUE, ok |-> FALSE, keys |-> {}, gen |-> g]

(* The content identity a reader is given and a writer may name; the       *)
(* missing document's is the empty string.                                 *)
Digest(f) == [there |-> f.there, ok |-> f.ok, keys |-> f.keys]

Digests == {Digest(f) : f \in {Absent, Garbled(0)} \cup
                               {Text(K, 0) : K \in SUBSET Keys}}

(* check_digest: `pre' is empty (no precondition) or the one digest named. *)
MatchesDigest(f, pre) == \A d \in pre : d = Digest(f)

NoCopies == [s \in Snaps |-> Absent]

StoreTypeOK ==
  /\ doc \in File
  /\ copies \in [Snaps -> File]

StoreInit ==
  /\ doc = Absent
  /\ copies = NoCopies

-----------------------------------------------------------------------------
(* put_raw: refuses on a digest that no longer matches, else replaces the  *)
(* file whole.                                                             *)
PutRaw(K, g, pre) ==
  /\ doc' = IF MatchesDigest(doc, pre) THEN Text(K, g) ELSE doc
  /\ UNCHANGED copies

(* delete: the current document only, and no error when it is gone.        *)
Delete ==
  /\ doc' = Absent
  /\ UNCHANGED copies

(* snapshot: a guest without a document gets no copy, and a copy of that   *)
(* name that is already there stays.                                       *)
Snapshot(s) ==
  /\ copies' = IF doc.there THEN [copies EXCEPT ![s] = doc] ELSE copies
  /\ UNCHANGED doc

(* rollback: the copy over the document; without a copy the document goes. *)
Rollback(s) ==
  /\ doc' = IF copies[s].there THEN copies[s] ELSE Absent
  /\ UNCHANGED copies

(* Mutant of DeleteSnapshot: the copy outlives its snapshot.               *)
MutKeepCopy(s) == s \in Snaps /\ UNCHANGED storeVars

DeleteSnapshot(s) ==
  /\ copies' = [copies EXCEPT ![s] = Absent]
  /\ UNCHANGED doc

(* The second half of purge, and of a restoring import: every copy.        *)
DeleteSnapshots ==
  /\ copies' = NoCopies
  /\ UNCHANGED doc
=============================================================================
