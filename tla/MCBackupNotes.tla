--------------------------- MODULE MCBackupNotes ---------------------------
(* BackupNotes for TLC: notes of up to three lines of any kind, whole and  *)
(* mangled blocks among them, documents that are good, not clean, garbled  *)
(* and too large.                                                          *)
EXTENDS BackupNotes

x == <<"yaml", "x">>
y == <<"yaml", "y">>
Words == <<"text", "t">>
Mention == <<"text", "mention">>
Old == <<Header("v1"), Open, y, Close, End>>

Pieces ==
  {<<Words>>, <<Mention>>, <<Header("v1")>>, <<Header("v2")>>, <<Header("?")>>, <<Open>>, <<Close>>,
   <<End>>, Old, <<Header("v2"), Open, y, Close, End>>, <<Header("v1"), Open, y, Words, Close, End>>}
MCUserNotes ==
  {<<>>} \cup Pieces \cup {p \o q : p \in Pieces, q \in Pieces}
    \cup {p \o Old \o q : p \in Pieces, q \in Pieces}

MCDocuments == {<<x>>, <<<<"yaml", "bad">>>>, <<x, Words>>, <<x, y, x>>}
=============================================================================
