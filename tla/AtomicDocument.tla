--------------------------- MODULE AtomicDocument ---------------------------
(***************************************************************************)
(* What the document API promises its clients, with no locks, no processes *)
(* and no steps in between: a request that is answered took effect as one  *)
(* edit of the document as it was at that moment, under the digest it      *)
(* named, or had no effect at all.                                         *)
(*                                                                         *)
(* Everything else that happens to the files (lifecycle hooks, `rm',       *)
(* restores, hand edits) happens between requests, never inside one.       *)
(***************************************************************************)
EXTENDS MetaEdit

CONSTANT
  Clients   (* who sends requests                                          *)

VARIABLE
  pending   (* each client's request, until it is answered: a set of at    *)
            (* most one                                                    *)

Init ==
  /\ StoreInit
  /\ pending = [c \in Clients |-> {}]

Invoke(c) ==
  /\ pending[c] = {}
  /\ \E r \in Requests, d \in Preconditions :
       pending' = [pending EXCEPT ![c] = {[req |-> r, pre |-> d]}]
  /\ UNCHANGED storeVars

Answer(c) ==
  /\ pending[c] # {}
  /\ pending' = [pending EXCEPT ![c] = {}]

(* An error, or a plan that changes nothing.                               *)
Reject(c) ==
  /\ Answer(c)
  /\ UNCHANGED storeVars

(* The document becomes some file with these keys, whoever it is for.      *)
Becomes(K) ==
  /\ doc' \in File
  /\ Digest(doc') = Digest(Text(K, 0))

Edit(c) ==
  /\ Answer(c)
  /\ \E r \in pending[c] :
       /\ MatchesDigest(doc, r.pre)
       /\ Repairable(r.req, doc)
       /\ IF r.req.act = "delete" THEN doc' = Absent
          ELSE Becomes(Plan(r.req, doc))
  /\ UNCHANGED copies

(* The hooks, rm, scan-notes and an administrator with an editor.          *)
Lifecycle ==
  /\ \/ Delete
     \/ DeleteSnapshots
     \/ \E s \in Snaps : Snapshot(s) \/ Rollback(s) \/ DeleteSnapshot(s)
     \/ (\E K \in SUBSET Keys : Becomes(K)) /\ UNCHANGED copies
     \/ doc' = Garbled(doc.gen) /\ UNCHANGED copies
  /\ UNCHANGED pending

Next ==
  \/ \E c \in Clients : Invoke(c) \/ Reject(c) \/ Edit(c)
  \/ Lifecycle

Spec == Init /\ [][Next]_<<storeVars, pending>>
=============================================================================
