--------------------------- MODULE DocumentEditor ---------------------------
(* The browser's editor of one document (60-doc.js, 61-text-card.js and    *)
(* 62-tree-panel.js): rows edited in modal windows, the whole document as  *)
(* a text buffer, the digest every write carries, and the reads and writes *)
(* under way to a server other writers use as well.  A digest is the text  *)
(* it is of.                                                               *)
EXTENDS Naturals

CONSTANTS
  Keys,         (* the document's top-level keys                           *)
  Values,       (* their values, not being set among them                  *)
  Unset,        (* the value of a key that is not set                      *)
  Garbled,      (* a text that does not parse                              *)
  Missing,      (* no document: it reads as the empty one, and its digest  *)
                (* is the empty string                                     *)
  None,         (* no buffer, no editor, no write                          *)
  Patient,      (* TRUE: the user touches nothing while a read is under way *)
                (* or an error masks the panel                             *)
  MaxChanges,   (* how often others write the document                     *)
  MaxFailures   (* how many reads fail, and loads of the text editor       *)

Documents == [Keys -> Values]
Texts == Documents \cup {Garbled, Missing}
Empty == [k \in Keys |-> Unset]

DataOf(text) == IF text \in {Garbled, Missing} THEN Empty ELSE text
TextOf(text) == IF text = Missing THEN Empty ELSE text

(* An editor's window, a read under way and a write under way.             *)
Windows == [on : SUBSET Keys, openedOn : Documents, saw : Documents,
            shown : Documents, member : Keys \cup {None}]
Reads == [why : {"load", "enter", "editor", "refresh", "around", "reread"},
          of : Texts \cup {None}, got : Texts \cup {None}]
Writes ==
  {w \in [as : {"edit", "text"}, on : SUBSET Keys, value : Texts, digest : Texts,
          met : Texts, force : BOOLEAN, answer : {None, "ok", "409", "422", "error"},
          member : Keys \cup {None}] : w.as = "edit" => w.value \in Documents}

ASSUME UnsetAssumption == Unset \in Values
ASSUME GarbledAssumption == {Garbled, Missing} \cap Documents = {} /\ Garbled # Missing
ASSUME PatientAssumption == Patient \in BOOLEAN
ASSUME NoneAssumption == None \notin Texts \cup Windows \cup Writes
ASSUME BoundsAssumption == MaxChanges \in Nat /\ MaxFailures \in Nat

VARIABLES
  doc,       (* the server's text                                          *)
  mode,      (* tree or text                                               *)
  state,     (* docState: the digest for the next write, the parsed data   *)
  rows,      (* the data the tree was built from                           *)
  broken,    (* docParseError: Text is the only view                       *)
  masked,    (* an error covers the panel's body                           *)
  text,      (* textOriginal and the buffer of the Text card               *)
  editor,    (* the open window: its keys, openedOn, what the user saw in  *)
             (* it first and has been shown of it since                    *)
  owed,      (* reloadPending                                              *)
  reads,     (* reads under way, answered or not                           *)
  write,     (* the write under way                                        *)
  monaco,    (* the text editor's scripts have been loaded                 *)
  apart,     (* history: Text could not be entered, which left rows that   *)
             (* may be older than the digest, and no load came since       *)
  changes, failures

vars == <<doc, mode, state, rows, broken, masked, text, editor, owed, reads,
          write, monaco, apart, changes, failures>>
panelVars == <<mode, state, rows, broken, masked, text, editor, owed>>
aside == <<monaco, apart, changes, failures>>

-----------------------------------------------------------------------------
(* Reads                                                                   *)

(* A read and what it is for: load the tree, enter Text, refresh the Text  *)
(* card after a write or Revert of the buffer `of', or re-read around the  *)
(* work a conflict met.                                                    *)
Sent(why, of) == [why |-> why, of |-> of, got |-> None]
Ask(why) == reads' = reads \cup {Sent(why, None)}

(* reload, with no editor open: in Text there is none.                     *)
Reload(m) ==
  IF m = "text" THEN UNCHANGED <<owed, reads, broken>>
  ELSE owed' = FALSE /\ broken' = FALSE /\ Ask("load")

(* The server answers a read with the text of that moment.                 *)
Serve(r) ==
  /\ r.got = None
  /\ reads' = (reads \ {r}) \cup {[r EXCEPT !.got = doc]}
  /\ UNCHANGED <<doc, panelVars, write, aside>>

Arrives(r, why) == r.why = why /\ r.got # None

(* loadDocument: digest, data and rows; a text that does not parse opens   *)
(* the Text card.                                                          *)
LoadArrives(r) ==
  /\ Arrives(r, "load")
  /\ state' = [digest |-> r.got, data |-> DataOf(r.got)]
  /\ rows' = DataOf(r.got)
  /\ masked' = FALSE /\ apart' = FALSE
  /\ IF r.got = Garbled
       THEN /\ broken' = TRUE /\ mode' = "text"
            /\ reads' = (reads \ {r}) \cup {Sent("enter", None)}
       ELSE reads' = reads \ {r} /\ UNCHANGED <<broken, mode>>
  /\ UNCHANGED <<doc, text, editor, owed, write, monaco, changes, failures>>

(* setDigest: an empty digest, of a missing document, is not taken.        *)
SetDigest(got) == [state EXCEPT !.digest = IF got = Missing THEN @ ELSE got]

(* enterTextMode: the digest and the original, whatever the mode is by     *)
(* now, and the text editor is loaded; ...                                 *)
EnterArrives(r) ==
  /\ Arrives(r, "enter")
  /\ state' = SetDigest(r.got)
  /\ text' = [text EXCEPT !.original = TextOf(r.got)]
  /\ reads' = (reads \ {r}) \cup {[r EXCEPT !.why = "editor"]}
  /\ UNCHANGED <<doc, mode, rows, broken, masked, editor, owed, write, aside>>

(* ... showTextEditor: the buffer, in Text only.                           *)
EditorShows(r) ==
  /\ Arrives(r, "editor")
  /\ text' = IF mode = "text" THEN [text EXCEPT !.buffer = text.original] ELSE text
  /\ masked' = (masked /\ mode # "text")
  /\ monaco' = TRUE
  /\ reads' = reads \ {r}
  /\ UNCHANGED <<doc, mode, state, rows, broken, editor, owed, write, apart, changes, failures>>

(* Monaco.load rejects, which it cannot once it has resolved: the tree     *)
(* again, with the digest of the read just made.                           *)
EditorFails(r) ==
  /\ Arrives(r, "editor") /\ ~monaco
  /\ failures < MaxFailures /\ failures' = failures + 1
  /\ mode' = "tree"
  /\ masked' = FALSE /\ apart' = TRUE
  /\ reads' = reads \ {r}
  /\ UNCHANGED <<doc, state, rows, broken, text, editor, owed, write, monaco, changes>>

(* A bug the properties have to catch: the re-read replaces the buffer.    *)
MutReplacesBuffer(r, keep) == [original |-> TextOf(r.got), buffer |-> TextOf(r.got)]

(* refreshText: around the buffer or into it.                              *)
Refreshed(r, keep) ==
  [original |-> TextOf(r.got),
   buffer |-> IF keep \/ text.buffer = None THEN text.buffer ELSE TextOf(r.got)]
RefreshArrives(r) ==
  /\ Arrives(r, "refresh") \/ Arrives(r, "around")
  /\ state' = SetDigest(r.got)
  /\ text' = Refreshed(r, r.why = "around")
  /\ broken' = (broken /\ r.got = Garbled)
  /\ reads' = reads \ {r}
  /\ UNCHANGED <<doc, mode, rows, masked, editor, owed, write, aside>>

(* A bug the properties have to catch: the digest alone is refreshed.      *)
MutDigestAlone(e, data) == e

(* conflictInEditor: the user is told that the value is the one the editor *)
(* opened on, what it is now, or that the document no longer parses.       *)
Told(e, data) ==
  IF e = None THEN e
  ELSE [e EXCEPT !.shown = IF \A k \in e.on : e.openedOn[k] = data[k] THEN e.saw ELSE data]
RereadArrives(r) ==
  /\ Arrives(r, "reread")
  /\ state' = [digest |-> r.got, data |-> DataOf(r.got)]
  /\ owed' = TRUE
  /\ editor' = Told(editor, DataOf(r.got))
  /\ reads' = reads \ {r}
  /\ UNCHANGED <<doc, mode, rows, broken, masked, text, write, aside>>

(* A read fails: an error masks the panel, except that Text which cannot   *)
(* be entered falls back to the tree, and takes a mask off that was there. *)
ReadFails(r) ==
  /\ r.got = None
  /\ failures < MaxFailures /\ failures' = failures + 1
  /\ reads' = reads \ {r}
  /\ mode' = IF r.why = "enter" THEN "tree" ELSE mode
  /\ masked' = (r.why # "enter")
  /\ apart' = (apart \/ (r.why = "enter" /\ masked))
  /\ UNCHANGED <<doc, state, rows, broken, text, editor, owed, write, monaco, changes>>

-----------------------------------------------------------------------------
(* Writes                                                                  *)

(* A write of the keys `on' with the digest held now.  `met' is what the   *)
(* user has seen of what it replaces.                                      *)
Write(as, on, value, digest, met, force) ==
  write' = [as |-> as, on |-> on, value |-> value, digest |-> digest,
            met |-> met, force |-> force, answer |-> None,
            member |-> IF editor = None THEN None ELSE editor.member]

(* applyText: nothing to write in a buffer without changes.                *)
ApplyText(force) ==
  /\ text.buffer \notin {None, text.original}
  /\ Write("text", Keys, text.buffer, state.digest, text.original, force)

(* What the server makes of it; a view DELETE of a missing document writes *)
(* nothing.                                                                *)
Applied(w) ==
  LET new == [k \in Keys |-> IF k \in w.on THEN w.value[k] ELSE DataOf(doc)[k]]
  IN IF w.as = "text" THEN w.value
     ELSE IF doc = Missing /\ w.on # Keys /\ new = Empty THEN Missing ELSE new

(* check_repairable: an edit below the root needs a document that parses.  *)
Repairs(w) == doc = Garbled => w.on = Keys

Answer(status) == write' = [write EXCEPT !.answer = status]

(* The server: 409 on another digest, 422 where a schema is enforced,      *)
(* another error, or done.                                                 *)
Awaited == write # None /\ write.answer = None
Matches == write.digest = doc
ServerWrites ==
  /\ Awaited /\ Matches /\ Repairs(write) /\ write.value # Garbled
  /\ doc' = Applied(write) /\ Answer("ok")
  /\ UNCHANGED <<panelVars, reads, aside>>
ServerConflicts ==
  /\ Awaited /\ ~Matches /\ Answer("409")
  /\ UNCHANGED <<doc, panelVars, reads, aside>>
ServerRefuses ==
  /\ Awaited /\ Matches
  /\ \/ Answer("error")
     \/ Repairs(write) /\ ~write.force /\ Answer("422")
  /\ UNCHANGED <<doc, panelVars, reads, aside>>

(* A bug the properties have to catch: a reload that came due while the    *)
(* editor was open is forgotten.                                           *)
MutForgetsReload(due) == editor' = None /\ owed' = FALSE /\ UNCHANGED <<reads, broken>>

(* An editor goes, and editorClosed pays what is due.                      *)
Close(due) ==
  /\ editor' = None
  /\ IF due THEN Reload(mode) ELSE UNCHANGED <<owed, reads, broken>>

(* submit's success: the reload, owed under an editor until the answer     *)
(* closes that editor; the Text card is refreshed instead.                 *)
WriteDone ==
  /\ write # None /\ write.answer = "ok" /\ write' = None
  /\ IF write.as = "text"
       THEN /\ reads' = reads \cup {Sent("refresh", write.value)}
            /\ UNCHANGED <<editor, owed, broken>>
       ELSE IF editor # None THEN Close(TRUE)
       ELSE Reload(mode) /\ UNCHANGED editor
  /\ UNCHANGED <<doc, mode, state, rows, masked, text, aside>>

(* conflict: around the buffer, around the editor, or the tree again.      *)
WriteConflicts ==
  /\ write # None /\ write.answer = "409" /\ write' = None
  /\ IF mode = "text" THEN Ask("around") /\ UNCHANGED <<owed, broken>>
     ELSE IF editor # None THEN Ask("reread") /\ UNCHANGED <<owed, broken>>
     ELSE Reload(mode)
  /\ UNCHANGED <<doc, mode, state, rows, masked, text, editor, aside>>

(* Any other error is shown, and Cancel of "Save anyway" does no more.     *)
WriteFails ==
  /\ write # None /\ write.answer \in {"error", "422"} /\ write' = None
  /\ UNCHANGED <<doc, panelVars, reads, aside>>

(* "Save anyway": the edit, or the buffer, once more with the digest held  *)
(* by now.                                                                 *)
SaveAnyway ==
  /\ write # None /\ write.answer = "422"
  /\ IF write.as = "text" THEN ApplyText(TRUE)
     ELSE Write("edit", write.on, write.value, state.digest,
                IF editor = None THEN write.met ELSE editor.shown, TRUE)
  /\ UNCHANGED <<doc, panelVars, reads, aside>>

-----------------------------------------------------------------------------
(* The user                                                                *)

(* A write under way masks the whole panel, an error only its body: the    *)
(* bars and the open editor stay in reach.                                 *)
Free == write = None /\ (Patient => reads = {})
Bare == Patient => ~masked
InTree == Free /\ mode = "tree" /\ editor = None
InText == Free /\ mode = "text" /\ text.buffer # None

PressReload ==
  /\ InTree
  /\ Reload(mode)
  /\ UNCHANGED <<doc, mode, state, rows, masked, text, editor, write, aside>>

Window(on, saw, member) ==
  [on |-> on, openedOn |-> state.data, saw |-> saw, shown |-> saw, member |-> member]

(* openEditor on a row, on one member of the document read as a list, and  *)
(* openTextWindow on the whole document: the first two show the row, the   *)
(* last the data the panel holds.                                          *)
OpenEditor ==
  /\ InTree /\ Bare
  /\ \/ \E k \in Keys : editor' = Window({k}, rows, None)
     \/ \E k \in Keys : rows[k] # Unset /\ editor' = Window(Keys, rows, k)
     \/ editor' = Window(Keys, state.data, None)
  /\ UNCHANGED <<doc, mode, state, rows, broken, masked, text, owed, reads, write, aside>>

(* OK.                                                                     *)
SendEdit ==
  /\ Free /\ editor # None /\ editor.member = None
  /\ \E v \in Documents : Write("edit", editor.on, v, state.digest, editor.shown, FALSE)
  /\ UNCHANGED <<doc, panelVars, reads, aside>>

(* A bug the properties have to catch: the index alone finds the member.   *)
MutIndexAlone(k) == state.data[k] # Unset

(* The member is still the one its row showed.                             *)
StillThere(k) == state.data[k] = editor.saw[k]

(* writeListMember: the whole list as the panel holds it now, one member   *)
(* replaced; nothing if that member has changed.                           *)
WriteListMember ==
  /\ Free /\ editor # None /\ editor.member # None /\ StillThere(editor.member)
  /\ \E v \in Values \ {Unset} :
       Write("edit", Keys, [state.data EXCEPT ![editor.member] = v], state.digest,
             editor.shown, FALSE)
  /\ UNCHANGED <<doc, panelVars, reads, aside>>

(* Cancel.                                                                 *)
CancelEditor ==
  /\ Patient => Free
  /\ editor # None
  /\ Close(owed)
  /\ UNCHANGED <<doc, mode, state, rows, masked, text, write, aside>>

(* Remove, on a row.                                                       *)
RemoveRow ==
  /\ InTree /\ Bare
  /\ \E k \in Keys : rows[k] # Unset /\ Write("edit", {k}, Empty, state.digest, rows, FALSE)
  /\ UNCHANGED <<doc, panelVars, reads, aside>>

EnterText ==
  /\ InTree
  /\ mode' = "text" /\ Ask("enter")
  /\ UNCHANGED <<doc, state, rows, broken, masked, text, editor, owed, write, aside>>

(* finishLeavingTextMode, the user having agreed to lose what is typed.    *)
LeaveText ==
  /\ Free /\ mode = "text" /\ ~broken
  /\ mode' = "tree"
  /\ text' = [text EXCEPT !.buffer = None]
  /\ Reload("tree")
  /\ UNCHANGED <<doc, state, rows, masked, editor, write, aside>>

Type ==
  /\ InText /\ Bare
  /\ \E t \in Documents : text' = [text EXCEPT !.buffer = t]
  /\ UNCHANGED <<doc, mode, state, rows, broken, masked, editor, owed, reads, write, aside>>

PressApply ==
  /\ InText /\ ApplyText(FALSE)
  /\ UNCHANGED <<doc, panelVars, reads, aside>>

(* discardText.                                                            *)
Revert ==
  /\ InText
  /\ reads' = reads \cup {Sent("refresh", text.buffer)}
  /\ UNCHANGED <<doc, panelVars, write, aside>>

(* Someone else writes the document, by the API or by hand.                *)
OtherWriter ==
  /\ changes < MaxChanges /\ changes' = changes + 1
  /\ doc' \in Texts \ {doc}
  /\ UNCHANGED <<panelVars, reads, write, monaco, apart, failures>>

-----------------------------------------------------------------------------
(* The panel has been rendered and has loaded the document once.           *)
Init ==
  /\ doc \in Documents \cup {Missing}
  /\ mode = "tree"
  /\ state = [digest |-> doc, data |-> DataOf(doc)] /\ rows = DataOf(doc)
  /\ broken = FALSE /\ masked = FALSE /\ owed = FALSE
  /\ text = [original |-> Empty, buffer |-> None]
  /\ editor = None /\ reads = {} /\ write = None
  /\ monaco = FALSE /\ apart = FALSE /\ changes = 0 /\ failures = 0

Next ==
  \/ \E r \in reads : Serve(r)
  \/ \E r \in reads : LoadArrives(r)
  \/ \E r \in reads : EnterArrives(r)
  \/ \E r \in reads : EditorShows(r)
  \/ \E r \in reads : EditorFails(r)
  \/ \E r \in reads : RefreshArrives(r)
  \/ \E r \in reads : RereadArrives(r)
  \/ \E r \in reads : ReadFails(r)
  \/ ServerWrites \/ ServerConflicts \/ ServerRefuses
  \/ WriteDone \/ WriteConflicts \/ WriteFails \/ SaveAnyway
  \/ PressReload \/ OpenEditor \/ SendEdit \/ WriteListMember \/ CancelEditor \/ RemoveRow
  \/ EnterText \/ LeaveText \/ Type \/ PressApply \/ Revert \/ OtherWriter

Spec == Init /\ [][Next]_vars

-----------------------------------------------------------------------------
(* Properties                                                              *)

(* Every variable keeps its type; the data and the rows are those of a     *)
(* document that parses, whatever text the server sent.                    *)
TypeOK ==
  /\ doc \in Texts
  /\ mode \in {"tree", "text"}
  /\ state \in [digest : Texts, data : Documents]
  /\ rows \in Documents
  /\ broken \in BOOLEAN /\ masked \in BOOLEAN /\ owed \in BOOLEAN
  /\ text \in [original : Texts, buffer : Texts \cup {None}]
  /\ editor \in Windows \cup {None}
  /\ reads \subseteq Reads
  /\ write \in Writes \cup {None}
  /\ monaco \in BOOLEAN /\ apart \in BOOLEAN
  /\ changes \in 0..MaxChanges /\ failures \in 0..MaxFailures

(* No lost update: a write the server is about to take replaces only what  *)
(* its user was shown, by the rows, the editor, the buffer's original or   *)
(* the message of a conflict.  The code leaves two gaps, both named: an    *)
(* edit of the tree between a failed entry into Text and the next load     *)
(* (`apart'), and a buffer shown empty because the document was missing,   *)
(* under a digest that was then kept.                                      *)
NoLostUpdate ==
  Awaited /\ Matches =>
    IF write.as = "text" THEN write.met \in {TextOf(doc), Empty}
    ELSE apart \/ \A k \in write.on : write.met[k] = DataOf(doc)[k]

(* Whenever the tree is at rest its rows are those of the text whose       *)
(* digest the next write carries: a write that landed, a conflict met      *)
(* under an editor, or a visit to Text, has reached them; only after a     *)
(* failed entry into Text, until the next load, they need not be.          *)
AtRest == mode = "tree" /\ reads = {} /\ ~masked /\ editor = None /\ write = None
RowsMatchTheDigest == AtRest => (apart \/ rows = DataOf(state.digest)) /\ ~owed

(* A write of one list member, which sends the whole list, replaces the    *)
(* member its row showed and no other: not the one that stands at that     *)
(* index by now, nor what somebody else did to the rest.  As above, not    *)
(* between a failed entry into Text and the next load.                     *)
MemberEditsSpareTheRest ==
  Awaited /\ Matches /\ write.member # None /\ editor # None /\ ~apart =>
    \A k \in Keys :
      DataOf(doc)[k] = IF k = write.member THEN editor.saw[k] ELSE write.value[k]

(* What was typed in the Text card is replaced only by a refresh that the  *)
(* write of that very text, or Revert of it, has asked for: no failed      *)
(* write and no conflict takes it away.                                    *)
UnwrittenTextIsKept ==
  [][\A r \in reads \ reads' :
       text.buffer # None /\ text'.buffer # text.buffer
         => r.why = "refresh" /\ r.of = text.buffer]_vars
=============================================================================
