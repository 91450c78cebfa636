---------------------------- MODULE MCGuestFiles ----------------------------
(***************************************************************************)
(* GuestFiles for TLC: two entries, two files, two contents and the        *)
(* documents over them that make the plan take every turn.                 *)
(***************************************************************************)
EXTENDS GuestFiles

MCNames == {"swap", "agent"}
MCPaths == {"/srv/swap", "/opt/agent"}
MCContents == {"A", "B"}
MCOperators == {"compose"}

OneFile == {"/srv/swap"}
OneName == {"swap"}
NoOperators == {}
AnyState == {"none", "bad", "huge"}
Unparsable == {"bad"}

Swap(c, over) ==
  [what |-> "file", path |-> "/srv/swap", hash |-> c, over |-> over]
Agent(c) == [what |-> "file", path |-> "/opt/agent", hash |-> c, over |-> FALSE]
BadEntry == [NoAsk EXCEPT !.what = "refused"]

Entries(f) == [kind |-> "entries", ask |-> [e \in Names |-> f[e]]]

SwapOnly(c, over) ==
  [kind |-> "entries", ask |-> [e \in Names |-> IF e = "swap" THEN Swap(c, over) ELSE NoAsk]]
Held == [Nothing EXCEPT !.kind = "held"]

(* One entry, whose content changes or which is dropped.                   *)
OneEntryDocs == {Nothing, SwapOnly("A", FALSE), SwapOnly("B", FALSE)}

(* Two entries: on files of their own, on one file, one of them no longer  *)
(* valid, and a document that holds everything.                            *)
TwoEntryDocs ==
  {Entries([swap |-> Swap("A", FALSE), agent |-> Agent("A")]),
   Entries([swap |-> Swap("A", TRUE), agent |-> Agent("B")]),
   Entries([swap |-> Swap("A", FALSE), agent |-> Swap("B", FALSE)]),
   Entries([swap |-> BadEntry, agent |-> Agent("A")]),
   Held, Nothing}

NoHandOver == {}
HandSwap ==
  {[kind |-> "managed", ask |-> [e \in Names |-> IF e = "swap" THEN Swap(c, over) ELSE NoAsk]] :
     c \in Contents, over \in BOOLEAN}
=============================================================================
