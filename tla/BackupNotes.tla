----------------------------- MODULE BackupNotes -----------------------------
(***************************************************************************)
(* How a document travels through a backup: the block in the notes         *)
(* (crates/pve-meta-core/src/backup.rs), appended by the patched vzdump,   *)
(* read back by write_config after a restore and by scan-notes at install. *)
(*                                                                         *)
(* Notes are a sequence of lines, and a line is what the parser tells      *)
(* apart: a header <<"head", version>>, the fences <<"open">> and          *)
(* <<"close">>, <<"end">>, <<"blank">>, a line <<"yaml", x>> of a document *)
(* or other text <<"text", x>>.  Locks, markers and snapshot copies are    *)
(* MetaLifecycle's part.                                                   *)
(***************************************************************************)
EXTENDS Integers, SequencesExt, FiniteSetsExt

CONSTANTS
  UserNotes,    \* what an administrator writes into the notes
  Documents,    \* what is stored for a guest, by the API or by hand
  MaxYaml,      \* lines above which a document is not carried
  MaxLines,     \* bound on the length of notes that are backed up
  MaxEdits      \* bound on lines taken out of the notes by hand

VARIABLES
  notes,        \* the notes in the guest's configuration
  doc,          \* the guest's document: its lines, or NoDocument
  archive,      \* the last backup: its notes, the document and if it is in them
  last,         \* the last import: who, the notes it met and what it did
  edits

vars == <<notes, doc, archive, last, edits>>

NoDocument == <<>>
NoArchive == [taken |-> FALSE]
NoImport == [by |-> "none"]

Header(version) == <<"head", version>>
Open == <<"open">>
Close == <<"close">>
End == <<"end">>
Blank == <<"blank">>

(* The lines there are: those of a block and what people write.            *)
Line == {Header("v1"), Open, Close, End, Blank}
          \cup UNION {ToSet(n) : n \in UserNotes \cup Documents}

ASSUME LinesAssumption == UserNotes \cup Documents \subseteq Seq(Line)
ASSUME MaxYamlAssumption == MaxYaml \in Nat

(* What the store makes of a text: `Parses' is parse_raw, `Lints' the rest *)
(* of format::parse.  A line <<"yaml", "bad">> has a key the lint refuses. *)
Parses(lines) == lines # <<>> /\ \A i \in DOMAIN lines : lines[i][1] = "yaml"
Lints(lines) == Parses(lines) /\ <<"yaml", "bad">> \notin ToSet(lines)

-----------------------------------------------------------------------------
(* Finding and removing blocks                                             *)

(* last_header: the last header with an end line after it, 0 if none.      *)
LastHeader(n) ==
  Max({0} \cup {i \in DOMAIN n : n[i][1] = "head" /\ \E j \in i..Len(n) : n[j] = End})

(* find: nothing, a malformed block, or where the block is.                *)
Nothing == [kind |-> "nothing"]
Malformed == [kind |-> "malformed"]
Block(n, start, end) ==
  IF n[end - 1] = Close /\ end - 1 > start + 1
  THEN [kind |-> "block", start |-> start, end |-> end, yaml |-> SubSeq(n, start + 2, end - 2)]
  ELSE Malformed
FindAt(n, start) ==
  IF n[start] = Header("v1") /\ n[start + 1] = Open
  THEN Block(n, start, Min({j \in (start + 2)..Len(n) : n[j] = End})) ELSE Malformed
Find(n) == IF LastHeader(n) = 0 THEN Nothing ELSE FindAt(n, LastHeader(n))

(* The lines that are not blank, and what is left of them without the      *)
(* blank ones in front or at the end.                                      *)
Written(n) == {i \in DOMAIN n : n[i] # Blank}
TrimStart(n) == SubSeq(n, Min(Written(n) \cup {Len(n) + 1}), Len(n))
TrimEnd(n) == SubSeq(n, 1, Max(Written(n) \cup {0}))

(* A bug the properties have to catch: what follows the block goes too.    *)
MutStripsTheRest(n, f) == TrimEnd(SubSeq(n, 1, f.start - 1))

(* strip: the block goes, and the blank lines around it.                   *)
Strip(n, f) ==
  TrimEnd(TrimEnd(SubSeq(n, 1, f.start - 1)) \o TrimStart(SubSeq(n, f.end + 1, Len(n))))

(* A bug the properties have to catch: only the imported block goes.       *)
MutStripsOne(n) == n

(* strip_all: one block after the other, until none or a malformed one is  *)
(* last.  Each round takes lines away, so Len(n) rounds are enough for the *)
(* loop; those after its end change nothing.                               *)
StripOne(n) == IF Find(n).kind = "block" THEN Strip(n, Find(n)) ELSE n
Rounds(n) ==
  LET after[k \in Nat] == IF k = 0 THEN n ELSE StripOne(after[k - 1]) IN after
StripAll(n) == Rounds(n)[Len(n)]

-----------------------------------------------------------------------------
(* Backup and import                                                       *)

(* export and render: a document that does not parse or is too large is    *)
(* not carried.  Lines have no line ends here: that a document comes back  *)
(* ending in one newline, whatever it ended in, is not seen.               *)
Carried(d) == Parses(d) /\ Len(d) <= MaxYaml
Render(d) == <<Header("v1"), Open>> \o d \o <<Close, End>>

(* A bug the properties have to catch: the block comes before the notes.   *)
MutPrepends(n, d) == IF ~Carried(d) THEN n ELSE Render(d) \o n

(* assemble: the block comes after the notes and a blank line.             *)
Assemble(n, d) ==
  IF ~Carried(d) THEN n ELSE (IF n = <<>> THEN <<>> ELSE Append(n, Blank)) \o Render(d)

Backup ==
  /\ Len(notes) <= MaxLines
  /\ archive' = [taken |-> TRUE, notes |-> Assemble(notes, doc), doc |-> doc]
  /\ last' = NoImport
  /\ UNCHANGED <<notes, doc, edits>>

(* import: the notes it hands back, the document it leaves and what it     *)
(* did.  An error leaves both.                                             *)
Result(n, d, did) == [notes |-> n, doc |-> d, did |-> did]
ImportFound(n, d, keep, f) ==
  IF f.kind = "nothing" THEN Result(n, d, "none")
  ELSE IF f.kind = "malformed" THEN Result(n, d, "error")
  ELSE IF keep THEN Result(StripAll(Strip(n, f)), d, "stripped")
  ELSE IF ~Lints(f.yaml) THEN Result(n, d, "error")
  ELSE Result(StripAll(Strip(n, f)), f.yaml, "imported")
Import(n, d, mode) == ImportFound(n, d, mode = "install" /\ d # NoDocument, Find(n))

(* The text `[pve-meta v' is somewhere in the notes.                       *)
Mentions(n) == \E i \in DOMAIN n : n[i][1] = "head" \/ n[i] = <<"text", "mention">>

(* write_config of a restore with its marker: what carries the mark is     *)
(* imported; else the document of the guest restored over goes.            *)
Restored(n, d) == IF Mentions(n) THEN Import(n, d, "restore") ELSE Result(n, NoDocument, "cleared")

Take(by, met, r) ==
  /\ notes' = r.notes /\ doc' = r.doc
  /\ last' = [by |-> by, met |-> met, did |-> r.did]
  /\ UNCHANGED <<archive, edits>>

(* A restore over the guest, and one at a vmid that create has cleared.    *)
Restore == archive.taken /\ Take("restore", archive.notes, Restored(archive.notes, doc))
RestoreNew == archive.taken /\ Take("restore", archive.notes, Restored(archive.notes, NoDocument))

(* A restore where pve-meta is not installed.                              *)
RestoreElsewhere ==
  archive.taken /\ Take("elsewhere", archive.notes, Result(archive.notes, NoDocument, "none"))

ScanNotes == Mentions(notes) /\ Take("scan", notes, Import(notes, doc, "install"))

(* The administrator takes a line out of the notes, or stores a document.  *)
EditNotes ==
  /\ edits < MaxEdits /\ edits' = edits + 1
  /\ \E i \in DOMAIN notes : notes' = RemoveAt(notes, i)
  /\ last' = NoImport /\ UNCHANGED <<doc, archive>>
StoreDocument ==
  /\ doc' \in Documents \cup {NoDocument} /\ last' = NoImport
  /\ UNCHANGED <<notes, archive, edits>>

Init ==
  /\ notes \in UserNotes /\ doc = NoDocument
  /\ archive = NoArchive /\ last = NoImport /\ edits = 0
Next ==
  \/ Backup \/ Restore \/ RestoreNew \/ RestoreElsewhere \/ ScanNotes
  \/ EditNotes \/ StoreDocument
Spec == Init /\ [][Next]_vars

-----------------------------------------------------------------------------
(* Reference definitions                                                   *)

(* A well-formed block is at i..j: a header, its fences, no other header   *)
(* or end line between them.                                               *)
BlockAt(n, i, j) ==
  /\ j >= i + 3 /\ n[i] = Header("v1") /\ n[i + 1] = Open
  /\ n[j - 1] = Close /\ n[j] = End
  /\ \A k \in (i + 1)..(j - 1) : n[k][1] # "head" /\ n[k] # End
InBlock(n, k) == \E i \in 1..k, j \in k..Len(n) : BlockAt(n, i, j)

(* The lines outside every block, blank ones aside, numbered in their      *)
(* order.                                                                  *)
Kept(n) == {k \in DOMAIN n : n[k] # Blank /\ ~InBlock(n, k)}
Numbered(s, k) == Cardinality({j \in s : j <= k})
Outside(n) == {<<Numbered(Kept(n), k), n[k]>> : k \in Kept(n)}

-----------------------------------------------------------------------------
(* Properties                                                              *)

Imports == {"imported", "stripped"}

(* A document the backup carries comes back by a restore, byte for byte,   *)
(* whatever older, truncated or foreign blocks the notes hold; and after a *)
(* restore of notes without the mark there is no document.                 *)
CarriedDocumentComesBack ==
  last.by = "restore"
    => /\ Carried(archive.doc) /\ Lints(archive.doc) => doc = archive.doc
       /\ ~Mentions(archive.notes) => doc = NoDocument

(* An import takes nothing out of the notes but blocks: all other text,    *)
(* lone header lines included, is there afterwards, in its order.  A       *)
(* header and an end line left of a block that was taken apart by hand are *)
(* a block again once what is between them is gone.                        *)
TakenApart(n) ==
  \E i, j \in DOMAIN n : i < j /\ n[i][1] = "head" /\ n[j] = End
                          /\ ~InBlock(n, i) /\ ~InBlock(n, j)
UserTextStays ==
  last.by \in {"restore", "scan"} /\ ~TakenApart(last.met) => Outside(notes) = Outside(last.met)

(* Once a block was imported or stripped nothing is left that a later scan *)
(* would import: the guest's document stays deleted when it is deleted.    *)
NoBlockLeftToImport ==
  last.by \in {"restore", "scan"} /\ last.did \in Imports => Find(notes).kind # "block"

=============================================================================
