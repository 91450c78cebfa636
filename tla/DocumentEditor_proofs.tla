----------------------- MODULE DocumentEditor_proofs -----------------------
(***************************************************************************)
(* Theorems about DocumentEditor for a user who waits until loading is     *)
(* over (Patient), for every set of keys and values and every number of    *)
(* changes by others and of failures.                                      *)
(*                                                                         *)
(* The inductive invariant has three parts: what may be under way in which *)
(* mode (ModeInv), what ties the buffer to the digest (TextInv), and what  *)
(* ties the rows, the open editor and the write to it (TreeInv), but for   *)
(* the time between a failed entry into Text and the next load.            *)
(***************************************************************************)
EXTENDS DocumentEditor, TLAPS

(* At most one read is under way, none under a write, and each in the mode *)
(* that asked for it; editors open in the tree only.                       *)
ModeInv ==
  /\ \A r, q \in reads : r = q
  /\ \A r \in reads :
       /\ r.why = "load" => mode = "tree" /\ editor = None
       /\ r.why = "reread" => mode = "tree" /\ editor # None
       /\ r.why \in {"enter", "editor", "refresh", "around"} => mode = "text"
  /\ editor # None => mode = "tree"
  /\ write # None => /\ reads = {}
                     /\ mode = IF write.as = "text" THEN "text" ELSE "tree"

(* There is a buffer in Text only.  Outside the read that enters Text, its *)
(* original is the text whose digest the next write carries, or that of a  *)
(* missing document, and a refresh is of the buffer as it still is.  A     *)
(* write carries the digest held.                                          *)
TextInv ==
  /\ mode = "tree" => text.buffer = None
  /\ \A r \in reads : /\ r.why \in {"enter", "editor"} => text.buffer = None
                      /\ r.why = "refresh" => r.of = text.buffer
  /\ mode = "text" /\ (\A r \in reads : r.why # "enter")
       => text.original \in {TextOf(state.digest), Empty}
  /\ write # None => write.digest = state.digest
  /\ write # None /\ write.as = "text" =>
       write.value = text.buffer /\ write.met \in {TextOf(write.digest), Empty}

(* The rows and the data are those of the digest.                          *)
InStep == rows = DataOf(state.digest) /\ state.data = DataOf(state.digest)

(* In the tree, unless an error masks it, a reload is owed or under way or *)
(* Text could not be entered, rows and data are those of the digest; an    *)
(* open editor shows, of the keys it writes, what that digest is of; so    *)
(* does a write.  A reload is owed under an editor only.                   *)
TreeInv ==
  /\ owed => editor # None
  /\ mode = "tree" /\ ~masked /\ ~owed /\ ~apart /\ (\A r \in reads : r.why # "load")
       => InStep
  /\ (\E r \in reads : r.why = "enter") /\ ~masked /\ ~apart => InStep
  /\ editor # None /\ ~apart =>
                      /\ state.data = DataOf(state.digest)
                      /\ editor.saw = editor.openedOn
                      /\ \A k \in editor.on : editor.shown[k] = state.data[k]
                      /\ editor.member # None => editor.on = Keys
  /\ write # None /\ write.as = "edit" /\ ~apart =>
       \A k \in write.on : write.met[k] = DataOf(write.digest)[k]
  /\ write # None /\ editor # None /\ ~apart =>
       /\ write.on = editor.on /\ write.member = editor.member
       /\ write.member # None =>
            \A k \in Keys : DataOf(write.digest)[k] =
              IF k = write.member THEN editor.saw[k] ELSE write.value[k]

-----------------------------------------------------------------------------
(* Type correctness.                                                       *)

(* What a text is read as is a document.                                   *)
LEMMA Reading ==
  /\ Empty \in Documents /\ Documents \subseteq Texts /\ {Garbled, Missing} \subseteq Texts
  /\ \A t \in Texts : DataOf(t) \in Documents /\ TextOf(t) \in Texts
BY UnsetAssumption DEF Empty, Documents, Texts, DataOf, TextOf

(* The panel is left as it is, but for reads, an editor that goes and a    *)
(* reload that is paid or owed.                                            *)
LEMMA ReloadTyped ==
  ASSUME TypeOK, NEW m, Reload(m)
  PROVE  reads' \subseteq Reads /\ owed' \in BOOLEAN /\ broken' \in BOOLEAN
<1>1. Sent("load", None) \in Reads
  BY DEF Sent, Reads
<1> QED
  BY <1>1 DEF TypeOK, Reload, Ask

LEMMA CloseTyped ==
  ASSUME TypeOK, NEW due, Close(due)
  PROVE  /\ editor' \in Windows \cup {None}
         /\ reads' \subseteq Reads /\ owed' \in BOOLEAN /\ broken' \in BOOLEAN
<1>1. CASE Reload(mode)
  BY <1>1, ReloadTyped DEF Close
<1>2. CASE UNCHANGED <<owed, reads, broken>>
  BY <1>2 DEF Close, TypeOK
<1> QED
  BY <1>1, <1>2 DEF Close

(* What a write puts under way is a write.                                 *)
LEMMA WriteTyped ==
  ASSUME TypeOK, NEW as \in {"edit", "text"}, NEW on \in SUBSET Keys, NEW value \in Texts,
         as = "edit" => value \in Documents, NEW digest \in Texts, NEW met \in Texts, NEW force \in BOOLEAN,
         Write(as, on, value, digest, met, force)
  PROVE  write' \in Writes
<1>1. (IF editor = None THEN None ELSE editor.member) \in Keys \cup {None}
  BY DEF TypeOK, Windows
<1> QED
  BY <1>1 DEF Write, Writes

(* The arrival or failure of a read keeps every variable in its type.      *)
LEMMA ReadTyped ==
  ASSUME TypeOK, NEW r \in reads,
         \/ Serve(r) \/ LoadArrives(r) \/ EnterArrives(r) \/ EditorShows(r) \/ EditorFails(r)
         \/ RefreshArrives(r) \/ RereadArrives(r) \/ ReadFails(r)
  PROVE  TypeOK'
<1> USE DEF panelVars, aside
<1>0. r \in Reads /\ (r.got # None => /\ r.got \in Texts /\ TextOf(r.got) \in Texts
                                      /\ DataOf(r.got) \in Documents)
  BY Reading DEF TypeOK, Reads
<1>1. CASE Serve(r)
  <2>1. [r EXCEPT !.got = doc] \in Reads
    BY <1>0 DEF Reads, TypeOK
  <2> QED
    BY <1>1, <2>1 DEF Serve, TypeOK
<1>2. CASE LoadArrives(r)
  <2>1. Sent("enter", None) \in Reads
    BY DEF Sent, Reads
  <2>2. /\ reads' \subseteq Reads /\ mode' \in {"tree", "text"}
        /\ broken' \in BOOLEAN /\ masked' \in BOOLEAN
    BY <1>2, <2>1 DEF LoadArrives, TypeOK
  <2>3. state' \in [digest : Texts, data : Documents] /\ rows' \in Documents
    BY <1>2, <1>0 DEF LoadArrives, Arrives
  <2> QED
    BY <1>2, <2>2, <2>3 DEF LoadArrives, TypeOK
<1>3. CASE EnterArrives(r)
  <2>1. [r EXCEPT !.why = "editor"] \in Reads
    BY <1>0 DEF Reads
  <2>2. state' \in [digest : Texts, data : Documents]
    BY <1>3, <1>0 DEF EnterArrives, Arrives, SetDigest, TypeOK
  <2>3. text' \in [original : Texts, buffer : Texts \cup {None}]
    BY <1>3, <1>0 DEF EnterArrives, Arrives, TypeOK
  <2> QED
    BY <1>3, <2>1, <2>2, <2>3 DEF EnterArrives, TypeOK
<1>7. CASE EditorShows(r)
  <2>1. masked' \in BOOLEAN /\ text' \in [original : Texts, buffer : Texts \cup {None}]
    BY <1>7 DEF EditorShows, TypeOK
  <2> QED
    BY <1>7, <2>1 DEF EditorShows, TypeOK
<1>8. CASE EditorFails(r)
  <2>1. failures' \in 0..MaxFailures
    BY <1>8, BoundsAssumption DEF EditorFails, TypeOK
  <2> QED
    BY <1>8, <2>1 DEF EditorFails, TypeOK
<1>4. CASE RefreshArrives(r)
  <2>1. broken' \in BOOLEAN
    BY <1>4 DEF RefreshArrives
  <2>2. state' \in [digest : Texts, data : Documents]
    BY <1>4, <1>0 DEF RefreshArrives, Arrives, SetDigest, TypeOK
  <2>3. text' \in [original : Texts, buffer : Texts \cup {None}]
    BY <1>4, <1>0 DEF RefreshArrives, Refreshed, Arrives, TypeOK
  <2> QED
    BY <1>4, <2>1, <2>2, <2>3 DEF RefreshArrives, TypeOK
<1>5. CASE RereadArrives(r)
  <2>1. state' \in [digest : Texts, data : Documents]
    BY <1>5, <1>0 DEF RereadArrives, Arrives
  <2>2. editor' \in Windows \cup {None}
    BY <1>5, <1>0 DEF RereadArrives, Arrives, Told, TypeOK, Windows
  <2> QED
    BY <1>5, <2>1, <2>2 DEF RereadArrives, TypeOK
<1>6. CASE ReadFails(r)
  <2>1. masked' \in BOOLEAN /\ mode' \in {"tree", "text"} /\ apart' \in BOOLEAN
    BY <1>6 DEF ReadFails, TypeOK
  <2>2. failures' \in 0..MaxFailures
    BY <1>6, BoundsAssumption DEF ReadFails, TypeOK
  <2> QED
    BY <1>6, <2>1, <2>2 DEF ReadFails, TypeOK
<1> QED
  BY <1>1, <1>2, <1>3, <1>4, <1>5, <1>6, <1>7, <1>8

(* A write's answer, and what the panel does with it, keeps every variable *)
(* in its type.                                                            *)
LEMMA AnswerTyped ==
  ASSUME TypeOK,
         \/ ServerWrites \/ ServerConflicts \/ ServerRefuses
         \/ WriteDone \/ WriteConflicts \/ WriteFails \/ SaveAnyway
  PROVE  TypeOK'
<1> USE DEF panelVars, aside
<1>a. ASSUME write # None, NEW a \in {"ok", "409", "422", "error"}, Answer(a)
      PROVE  write' \in Writes
  BY <1>a DEF Answer, TypeOK, Writes
<1>b. \A why \in {"load", "enter", "editor", "refresh", "around", "reread"}, of \in Texts \cup {None} :
        Sent(why, of) \in Reads
  BY DEF Sent, Reads
<1>1. CASE ServerWrites
  <2>1. write \in Writes /\ write.value # Garbled
    BY <1>1 DEF ServerWrites, Awaited, TypeOK
  <2>2. /\ write.value \in Texts /\ DataOf(doc) \in Documents
        /\ write.as # "text" => write.value \in Documents
    BY <2>1, Reading DEF Writes, TypeOK
  <2>3. Applied(write) \in Texts
    BY <2>2, Reading DEF Applied, Documents, Texts
  <2> QED
    BY <1>1, <1>a, <2>3 DEF ServerWrites, Awaited, TypeOK
<1>2. CASE ServerConflicts
  BY <1>2, <1>a DEF ServerConflicts, Awaited, TypeOK
<1>3. CASE ServerRefuses
  BY <1>3, <1>a DEF ServerRefuses, Awaited, TypeOK
<1>4. CASE WriteDone
  <2>1. CASE write.as = "text"
    <3>1. Sent("refresh", write.value) \in Reads
      BY <1>4, <1>b DEF WriteDone, TypeOK, Writes
    <3> QED
      BY <1>4, <2>1, <3>1 DEF WriteDone, TypeOK
  <2>2. CASE write.as # "text" /\ editor # None
    BY <1>4, <2>2, CloseTyped DEF WriteDone, TypeOK
  <2>3. CASE write.as # "text" /\ editor = None
    BY <1>4, <2>3, ReloadTyped DEF WriteDone, TypeOK
  <2> QED
    BY <2>1, <2>2, <2>3
<1>5. CASE WriteConflicts
  <2>1. reads' \subseteq Reads /\ owed' \in BOOLEAN /\ broken' \in BOOLEAN
    <3>1. CASE Reload(mode)
      BY <3>1, ReloadTyped
    <3>2. CASE (Ask("around") \/ Ask("reread")) /\ UNCHANGED <<owed, broken>>
      BY <3>2, <1>b DEF Ask, TypeOK
    <3> QED
      BY <1>5, <3>1, <3>2 DEF WriteConflicts
  <2> QED
    BY <1>5, <2>1 DEF WriteConflicts, TypeOK
<1>6. CASE WriteFails
  BY <1>6 DEF WriteFails, TypeOK
<1>7. CASE SaveAnyway
  <2>1. write' \in Writes
    <3>1. CASE write.as = "text"
      <4>1. ApplyText(TRUE)
        BY <1>7, <3>1 DEF SaveAnyway
      <4> QED
        BY <4>1, WriteTyped DEF ApplyText, TypeOK
    <3>2. CASE write.as # "text"
      <4> DEFINE met == IF editor = None THEN write.met ELSE editor.shown
      <4>1. Write("edit", write.on, write.value, state.digest, met, TRUE)
        BY <1>7, <3>2 DEF SaveAnyway
      <4>2. write \in Writes /\ met \in Texts
        BY <1>7, Reading DEF SaveAnyway, TypeOK, Writes, Windows
      <4>3. /\ write.on \in SUBSET Keys /\ write.value \in Texts
            /\ write.value \in Documents /\ state.digest \in Texts
        BY <3>2, <4>2 DEF TypeOK, Writes
      <4> HIDE DEF met
      <4> QED
        BY <4>1, <4>2, <4>3, WriteTyped
    <3> QED
      BY <3>1, <3>2
  <2> QED
    BY <1>7, <2>1 DEF SaveAnyway, TypeOK
<1> QED
  BY <1>1, <1>2, <1>3, <1>4, <1>5, <1>6, <1>7

(* What the user and the other writers do keeps every variable in its      *)
(* type.                                                                   *)
LEMMA UserTyped ==
  ASSUME TypeOK,
         \/ PressReload \/ OpenEditor \/ SendEdit \/ WriteListMember \/ CancelEditor
         \/ RemoveRow \/ EnterText \/ LeaveText \/ Type \/ PressApply \/ Revert \/ OtherWriter
  PROVE  TypeOK'
<1> USE DEF panelVars, aside
<1>b. \A why \in {"load", "enter", "editor", "refresh", "around", "reread"}, of \in Texts \cup {None} :
        Sent(why, of) \in Reads
  BY DEF Sent, Reads
<1>1. CASE PressReload
  BY <1>1, ReloadTyped DEF PressReload, TypeOK
<1>2. CASE OpenEditor
  <2>1. \A on \in SUBSET Keys, saw \in Documents, m \in Keys \cup {None} :
          Window(on, saw, m) \in Windows
    BY DEF Window, Windows, TypeOK
  <2>2. CASE \E k \in Keys : editor' = Window({k}, rows, None)
    <3>1. PICK k \in Keys : editor' = Window({k}, rows, None)
      BY <2>2
    <3>2. {k} \in SUBSET Keys /\ rows \in Documents
      BY DEF TypeOK
    <3> QED
      BY <1>2, <2>1, <3>1, <3>2 DEF OpenEditor, TypeOK
  <2>3. CASE \E k \in Keys : editor' = Window(Keys, rows, k)
    <3>1. PICK k \in Keys : editor' = Window(Keys, rows, k)
      BY <2>3
    <3>2. Keys \in SUBSET Keys /\ rows \in Documents
      BY DEF TypeOK
    <3> QED
      BY <1>2, <2>1, <3>1, <3>2 DEF OpenEditor, TypeOK
  <2>4. CASE editor' = Window(Keys, state.data, None)
    <3>1. Keys \in SUBSET Keys /\ state.data \in Documents
      BY DEF TypeOK
    <3> QED
      BY <1>2, <2>1, <2>4, <3>1 DEF OpenEditor, TypeOK
  <2> QED
    BY <1>2, <2>2, <2>3, <2>4 DEF OpenEditor
<1>3. CASE SendEdit
  <2>1. editor.on \in SUBSET Keys /\ editor.shown \in Texts
    BY <1>3, Reading DEF SendEdit, TypeOK, Windows
  <2>2. write' \in Writes
    BY <1>3, <2>1, Reading, WriteTyped DEF SendEdit, TypeOK
  <2> QED
    BY <1>3, <2>2 DEF SendEdit, TypeOK
<1>4. CASE WriteListMember
  <2>1. editor.shown \in Texts
    BY <1>4, Reading DEF WriteListMember, TypeOK, Windows
  <2>2. \A v \in Values : /\ [state.data EXCEPT ![editor.member] = v] \in Texts
                           /\ [state.data EXCEPT ![editor.member] = v] \in Documents
    BY Reading DEF TypeOK, Documents
  <2>3. write' \in Writes
    BY <1>4, <2>1, <2>2, WriteTyped DEF WriteListMember, TypeOK
  <2> QED
    BY <1>4, <2>3 DEF WriteListMember, TypeOK
<1>5. CASE CancelEditor
  BY <1>5, CloseTyped DEF CancelEditor, TypeOK
<1>6. CASE RemoveRow
  <2>1. write' \in Writes
    BY <1>6, Reading, WriteTyped DEF RemoveRow, TypeOK
  <2> QED
    BY <1>6, <2>1 DEF RemoveRow, TypeOK
<1>7. CASE EnterText
  BY <1>7, <1>b DEF EnterText, Ask, TypeOK
<1>8. CASE LeaveText
  <2>1. text' \in [original : Texts, buffer : Texts \cup {None}]
    BY <1>8 DEF LeaveText, TypeOK
  <2> QED
    BY <1>8, <2>1, ReloadTyped DEF LeaveText, TypeOK
<1>9. CASE Type
  <2>1. text' \in [original : Texts, buffer : Texts \cup {None}]
    BY <1>9, Reading DEF Type, TypeOK
  <2> QED
    BY <1>9, <2>1 DEF Type, TypeOK
<1>10. CASE PressApply
  <2>1. write' \in Writes
    BY <1>10, WriteTyped DEF PressApply, ApplyText, TypeOK
  <2> QED
    BY <1>10, <2>1 DEF PressApply, TypeOK
<1>11. CASE Revert
  <2>1. Sent("refresh", text.buffer) \in Reads
    BY <1>b DEF TypeOK
  <2> QED
    BY <1>11, <2>1 DEF Revert, TypeOK
<1>12. CASE OtherWriter
  <2>1. changes' \in 0..MaxChanges
    BY <1>12, BoundsAssumption DEF OtherWriter, TypeOK
  <2> QED
    BY <1>12, <2>1 DEF OtherWriter, TypeOK
<1> QED
  BY <1>1, <1>2, <1>3, <1>4, <1>5, <1>6, <1>7, <1>8, <1>9, <1>10, <1>11, <1>12

(* The first state, and every step or stutter, is well typed.              *)
LEMMA InitTyped == Init => TypeOK
<1> SUFFICES ASSUME Init PROVE TypeOK
  OBVIOUS
<1>1. state \in [digest : Texts, data : Documents] /\ rows \in Documents /\ doc \in Texts
  BY Reading DEF Init
<1>2. text \in [original : Texts, buffer : Texts \cup {None}]
  BY Reading DEF Init
<1>3. changes \in 0..MaxChanges /\ failures \in 0..MaxFailures
  BY BoundsAssumption DEF Init
<1>4. /\ mode \in {"tree", "text"}
      /\ broken \in BOOLEAN /\ masked \in BOOLEAN /\ owed \in BOOLEAN
      /\ editor \in Windows \cup {None} /\ write \in Writes \cup {None}
      /\ reads \subseteq Reads /\ monaco \in BOOLEAN /\ apart \in BOOLEAN
  BY DEF Init
<1> QED
  BY <1>1, <1>2, <1>3, <1>4 DEF TypeOK

LEMMA NextTyped == TypeOK /\ [Next]_vars => TypeOK'
<1> SUFFICES ASSUME TypeOK, [Next]_vars PROVE TypeOK'
  OBVIOUS
<1>1. CASE UNCHANGED vars
  BY <1>1 DEF vars, TypeOK
<1>2. CASE Next
  BY <1>2, ReadTyped, AnswerTyped, UserTyped DEF Next
<1> QED
  BY <1>1, <1>2

(* Every variable of the panel keeps its type, however impatient the user  *)
(* is: what does not parse never becomes data or rows.                     *)
THEOREM EditorTypeCorrect == Spec => []TypeOK
<1> QED
  BY InitTyped, NextTyped, PTL DEF Spec

-----------------------------------------------------------------------------
(* One thing at a time, and the text.                                      *)

Base == TypeOK /\ ModeInv /\ TextInv

(* A read under way is the only one, and nothing is being written.         *)
LEMMA Alone ==
  ASSUME ModeInv, NEW r \in reads
  PROVE  reads = {r} /\ reads \ {r} = {} /\ write = None
BY DEF ModeInv

(* The panel has asked for one read, or for none.                          *)
LEMMA Asking ==
  \A why, of : Sent(why, of).why = why /\ Sent(why, of).of = of /\ Sent(why, of).got = None
BY DEF Sent

(* A reload of the tree with nothing under way.                            *)
LEMMA Reloading ==
  ASSUME reads = {}, Reload("tree")
  PROVE  reads' = {Sent("load", None)} /\ owed' = FALSE
BY DEF Reload, Ask

(* A digest taken is the one of the text that came with it, unless the     *)
(* document was missing, which reads as the empty text.                    *)
LEMMA Taken ==
  ASSUME TypeOK, NEW got, state' = SetDigest(got)
  PROVE  TextOf(got) \in {TextOf(state'.digest), Empty}
BY DEF SetDigest, TextOf, TypeOK

(* A read that arrives or fails leaves nothing under way, but for the read *)
(* that enters Text and the loading of its editor.                         *)
LEMMA ReadBase ==
  ASSUME Base, NEW r \in reads,
         \/ Serve(r) \/ LoadArrives(r) \/ EnterArrives(r) \/ EditorShows(r) \/ EditorFails(r)
         \/ RefreshArrives(r) \/ RereadArrives(r) \/ ReadFails(r)
  PROVE  ModeInv' /\ TextInv'
<1> USE DEF panelVars, aside
<1>0. reads = {r} /\ reads \ {r} = {} /\ write = None
  BY Alone DEF Base
<1>1. CASE Serve(r)
  <2> DEFINE q == [r EXCEPT !.got = doc]
  <2>1. reads' = {q}
    BY <1>0, <1>1 DEF Serve
  <2>2. q.why = r.why /\ q.of = r.of
    BY DEF Base, TypeOK, Reads
  <2> HIDE DEF q
  <2>3. ModeInv'
    BY <1>0, <1>1, <2>1, <2>2 DEF Serve, Base, ModeInv
  <2>4. TextInv'
    BY <1>0, <1>1, <2>1, <2>2 DEF Serve, Base, TextInv
  <2> QED
    BY <2>3, <2>4
<1>2. CASE LoadArrives(r)
  <2>1. mode = "tree" /\ editor = None /\ text.buffer = None
    BY <1>2 DEF LoadArrives, Arrives, Base, ModeInv, TextInv
  <2>2. CASE r.got = Garbled
    <3>1. reads' = {Sent("enter", None)} /\ mode' = "text"
      BY <1>0, <1>2, <2>2 DEF LoadArrives
    <3> QED
      BY <1>0, <1>2, <2>1, <3>1, Asking DEF LoadArrives, ModeInv, TextInv
  <2>3. CASE r.got # Garbled
    BY <1>0, <1>2, <2>1, <2>3 DEF LoadArrives, ModeInv, TextInv
  <2> QED
    BY <2>2, <2>3
<1>3. CASE EnterArrives(r)
  <2>1. mode = "text" /\ editor = None
    BY <1>3 DEF EnterArrives, Arrives, Base, ModeInv
  <2> DEFINE q == [r EXCEPT !.why = "editor"]
  <2>2. reads' = {q} /\ write' = None /\ mode' = "text" /\ editor' = None
    BY <1>0, <1>3, <2>1 DEF EnterArrives
  <2>3. q.why = "editor"
    BY DEF Base, TypeOK, Reads
  <2> HIDE DEF q
  <2>4. text'.original \in {TextOf(state'.digest), Empty} /\ text'.buffer = text.buffer
    BY <1>3, Taken DEF EnterArrives, Base, TypeOK
  <2>5. text.buffer = None
    BY <1>3 DEF EnterArrives, Arrives, Base, TextInv
  <2> QED
    BY <2>2, <2>3, <2>4, <2>5 DEF ModeInv, TextInv
<1>7. CASE EditorShows(r)
  <2>1. mode = "text" /\ editor = None
    BY <1>7 DEF EditorShows, Arrives, Base, ModeInv
  <2>2. /\ reads' = {} /\ write' = None /\ mode' = "text" /\ editor' = None
        /\ state' = state /\ text'.original = text.original
    BY <1>0, <1>7, <2>1 DEF EditorShows, Base, TypeOK
  <2>3. text.original \in {TextOf(state.digest), Empty}
    BY <1>0, <1>7, <2>1 DEF EditorShows, Arrives, Base, TextInv
  <2> QED
    BY <2>2, <2>3 DEF ModeInv, TextInv
<1>8. CASE EditorFails(r)
  <2>1. mode = "text" /\ editor = None /\ text.buffer = None
    BY <1>8 DEF EditorFails, Arrives, Base, ModeInv, TextInv
  <2>2. reads' = {} /\ write' = None /\ mode' = "tree" /\ editor' = None /\ text' = text
    BY <1>0, <1>8, <2>1 DEF EditorFails
  <2> QED
    BY <2>1, <2>2 DEF ModeInv, TextInv
<1>4. CASE RefreshArrives(r)
  <2>1. mode = "text" /\ editor = None
    BY <1>4 DEF RefreshArrives, Arrives, Base, ModeInv
  <2>2. reads' = {} /\ write' = None /\ mode' = "text" /\ editor' = None
    BY <1>0, <1>4, <2>1 DEF RefreshArrives
  <2>3. text'.original \in {TextOf(state'.digest), Empty}
    BY <1>4, Taken DEF RefreshArrives, Refreshed, Base, TypeOK
  <2> QED
    BY <2>2, <2>3 DEF ModeInv, TextInv
<1>5. CASE RereadArrives(r)
  <2>1. mode = "tree" /\ text.buffer = None
    BY <1>5 DEF RereadArrives, Arrives, Base, ModeInv, TextInv
  <2>2. reads' = {} /\ write' = None /\ mode' = "tree" /\ text' = text
    BY <1>0, <1>5, <2>1 DEF RereadArrives
  <2> QED
    BY <2>1, <2>2 DEF ModeInv, TextInv
<1>6. CASE ReadFails(r)
  <2>1. reads' = {} /\ write' = None /\ text' = text /\ state' = state /\ editor' = editor
    BY <1>0, <1>6 DEF ReadFails
  <2>2. CASE r.why = "enter"
    <3>1. mode' = "tree" /\ text.buffer = None
      BY <1>6, <2>2 DEF ReadFails, Base, TextInv
    <3> QED
      BY <2>1, <3>1 DEF ModeInv, TextInv
  <2>3. CASE r.why # "enter"
    <3>1. mode' = mode
      BY <1>6, <2>3 DEF ReadFails
    <3>2. mode = "text" => text.original \in {TextOf(state.digest), Empty}
      BY <1>0, <2>3 DEF Base, TextInv
    <3> QED
      BY <2>1, <3>1, <3>2 DEF Base, ModeInv, TextInv
  <2> QED
    BY <2>2, <2>3
<1> QED
  BY <1>1, <1>2, <1>3, <1>4, <1>5, <1>6, <1>7, <1>8

(* A write goes on or comes back.                                          *)
LEMMA AnswerBase ==
  ASSUME Base,
         \/ ServerWrites \/ ServerConflicts \/ ServerRefuses
         \/ WriteDone \/ WriteConflicts \/ WriteFails \/ SaveAnyway
  PROVE  ModeInv' /\ TextInv'
<1> USE DEF panelVars, aside
<1>0. /\ write # None /\ write \in Writes /\ reads = {}
      /\ mode = IF write.as = "text" THEN "text" ELSE "tree"
  BY DEF ServerWrites, ServerConflicts, ServerRefuses, Awaited, WriteDone, WriteConflicts,
         WriteFails, SaveAnyway, Base, TypeOK, ModeInv
<1>a. ASSUME NEW a, Answer(a), UNCHANGED <<panelVars, reads, aside>>
      PROVE  ModeInv' /\ TextInv'
  <2>1. /\ write' # None => write # None
        /\ write'.as = write.as /\ write'.digest = write.digest
        /\ write'.value = write.value /\ write'.met = write.met
    BY <1>0, <1>a DEF Answer, Writes
  <2>2. ModeInv'
    BY <1>0, <1>a, <2>1 DEF Base, ModeInv
  <2>3. TextInv'
    BY <1>0, <1>a, <2>1 DEF Base, TextInv
  <2> QED
    BY <2>2, <2>3
<1>1. CASE ServerWrites \/ ServerConflicts \/ ServerRefuses
  BY <1>1, <1>a DEF ServerWrites, ServerConflicts, ServerRefuses
<1>2. CASE WriteDone
  <2>1. CASE write.as = "text"
    <3>1. /\ reads' = {Sent("refresh", text.buffer)} /\ write' = None
          /\ mode = "text" /\ mode' = "text" /\ text' = text /\ state' = state
      BY <1>0, <1>2, <2>1 DEF WriteDone, Base, TextInv
    <3>2. /\ editor = None /\ editor' = None
          /\ text.original \in {TextOf(state.digest), Empty}
      BY <1>0, <1>2, <2>1, <3>1 DEF WriteDone, Base, ModeInv, TextInv
    <3> QED
      BY <3>1, <3>2, Asking DEF ModeInv, TextInv
  <2>2. CASE write.as # "text"
    <3>1. mode = "tree" /\ mode' = "tree" /\ text' = text /\ write' = None
      BY <1>0, <1>2, <2>2 DEF WriteDone
    <3>2. Reload("tree") /\ editor' = None
      BY <1>2, <2>2, <3>1 DEF WriteDone, Close
    <3>3. reads' = {Sent("load", None)}
      BY <1>0, <3>2, Reloading
    <3> QED
      BY <3>1, <3>2, <3>3, Asking DEF Base, ModeInv, TextInv
  <2> QED
    BY <2>1, <2>2
<1>3. CASE WriteConflicts
  <2>1. /\ write' = None /\ mode' = mode /\ text' = text /\ state' = state
        /\ editor' = editor
    BY <1>3 DEF WriteConflicts
  <2>2. CASE mode = "text"
    <3>1. reads' = {Sent("around", None)}
      BY <1>0, <1>3, <2>2 DEF WriteConflicts, Ask
    <3> QED
      BY <1>0, <2>1, <2>2, <3>1, Asking DEF Base, ModeInv, TextInv
  <2>3. CASE mode = "tree" /\ editor # None
    <3>1. reads' = {Sent("reread", None)}
      BY <1>0, <1>3, <2>3 DEF WriteConflicts, Ask
    <3> QED
      BY <1>0, <2>1, <2>3, <3>1, Asking DEF Base, ModeInv, TextInv
  <2>4. CASE mode = "tree" /\ editor = None
    <3>1. reads' = {Sent("load", None)}
      BY <1>0, <1>3, <2>4, Reloading DEF WriteConflicts
    <3> QED
      BY <1>0, <2>1, <2>4, <3>1, Asking DEF Base, ModeInv, TextInv
  <2> QED
    BY <1>0, <2>2, <2>3, <2>4
<1>4. CASE WriteFails
  BY <1>0, <1>4 DEF WriteFails, Base, ModeInv, TextInv
<1>5. CASE SaveAnyway
  <2>1. /\ reads' = reads /\ mode' = mode /\ text' = text /\ state' = state
        /\ editor' = editor
    BY <1>5 DEF SaveAnyway
  <2>2. write'.as = write.as /\ write'.digest = state.digest
    BY <1>0, <1>5 DEF SaveAnyway, ApplyText, Write, Writes
  <2>3. write.as = "text" => write'.value = text.buffer /\ write'.met = text.original
    BY <1>0, <1>5 DEF SaveAnyway, ApplyText, Write, Base, TextInv
  <2> QED
    BY <1>0, <2>1, <2>2, <2>3 DEF Base, ModeInv, TextInv
<1> QED
  BY <1>1, <1>2, <1>3, <1>4, <1>5

(* A patient user acts on a panel that is neither reading nor writing.     *)
LEMMA UserBase ==
  ASSUME Patient, Base,
         \/ PressReload \/ OpenEditor \/ SendEdit \/ WriteListMember \/ CancelEditor
         \/ RemoveRow \/ EnterText \/ LeaveText \/ Type \/ PressApply \/ Revert \/ OtherWriter
  PROVE  ModeInv' /\ TextInv'
<1> USE DEF panelVars, aside
<1>t. reads = {} /\ mode = "text" => text.original \in {TextOf(state.digest), Empty}
  BY DEF Base, TextInv
<1>1. CASE PressReload
  <2>1. reads = {} /\ write = None /\ mode = "tree" /\ editor = None /\ text.buffer = None
    BY <1>1 DEF PressReload, InTree, Free, Base, TextInv
  <2>2. reads' = {Sent("load", None)}
    BY <1>1, <2>1, Reloading DEF PressReload
  <2> QED
    BY <1>1, <2>1, <2>2, Asking DEF PressReload, ModeInv, TextInv
<1>2. CASE OpenEditor
  <2>1. /\ reads' = {} /\ write' = None /\ mode' = "tree" /\ text' = text
        /\ text.buffer = None
    BY <1>2 DEF OpenEditor, InTree, Free, Base, TextInv
  <2> QED
    BY <2>1 DEF ModeInv, TextInv
<1>3. CASE SendEdit \/ WriteListMember
  <2>1. /\ write'.as = "edit" /\ write'.digest = state.digest
        /\ reads = {} /\ reads' = {} /\ editor # None /\ UNCHANGED panelVars
    BY <1>3 DEF SendEdit, WriteListMember, Write, Free
  <2>2. mode = "tree" /\ text.buffer = None
    BY <2>1 DEF Base, ModeInv, TextInv
  <2> QED
    BY <2>1, <2>2 DEF ModeInv, TextInv
<1>4. CASE CancelEditor
  <2>1. /\ reads = {} /\ write' = None /\ editor # None /\ editor' = None
        /\ mode' = mode /\ text' = text
    BY <1>4 DEF CancelEditor, Free, Close
  <2>2. mode = "tree" /\ text.buffer = None
    BY <2>1 DEF Base, ModeInv, TextInv
  <2>3. reads' = {} \/ reads' = {Sent("load", None)}
    BY <1>4, <2>1, <2>2, Reloading DEF CancelEditor, Close
  <2> QED
    BY <2>1, <2>2, <2>3, Asking DEF ModeInv, TextInv
<1>5. CASE RemoveRow
  <2>1. /\ write'.as = "edit" /\ write'.digest = state.digest
        /\ reads' = {} /\ editor' = None /\ mode = "tree" /\ UNCHANGED panelVars
    BY <1>5 DEF RemoveRow, InTree, Write, Free
  <2>2. text.buffer = None
    BY <2>1 DEF Base, TextInv
  <2> QED
    BY <2>1, <2>2 DEF ModeInv, TextInv
<1>6. CASE EnterText
  <2>1. /\ reads' = {Sent("enter", None)} /\ write' = None /\ editor' = None
        /\ mode' = "text" /\ text' = text /\ mode = "tree"
    BY <1>6 DEF EnterText, InTree, Free, Ask
  <2>2. text.buffer = None
    BY <2>1 DEF Base, TextInv
  <2> QED
    BY <2>1, <2>2, Asking DEF ModeInv, TextInv
<1>7. CASE LeaveText
  <2>1. reads = {} /\ write' = None /\ mode = "text" /\ mode' = "tree" /\ editor' = editor
    BY <1>7 DEF LeaveText, Free
  <2>2. editor' = None /\ text'.buffer = None
    BY <1>7, <2>1 DEF LeaveText, Base, ModeInv, TypeOK
  <2>3. reads' = {Sent("load", None)}
    BY <1>7, <2>1, Reloading DEF LeaveText
  <2> QED
    BY <2>1, <2>2, <2>3, Asking DEF ModeInv, TextInv
<1>8. CASE Type
  <2>1. /\ reads = {} /\ reads' = {} /\ write' = None /\ mode = "text" /\ mode' = "text"
        /\ editor' = editor /\ state' = state
    BY <1>8 DEF Type, InText, Free
  <2>2. text'.original = text.original /\ editor = None
    BY <1>8, <2>1 DEF Type, Base, TypeOK, ModeInv
  <2> QED
    BY <1>t, <2>1, <2>2 DEF ModeInv, TextInv
<1>9. CASE PressApply
  <2>1. /\ reads = {} /\ reads' = {} /\ mode = "text" /\ UNCHANGED panelVars
        /\ write'.as = "text" /\ write'.digest = state.digest
        /\ write'.value = text.buffer /\ write'.met = text.original
    BY <1>9 DEF PressApply, InText, Free, ApplyText, Write
  <2>2. editor = None
    BY <2>1 DEF Base, ModeInv
  <2> QED
    BY <1>t, <2>1, <2>2 DEF ModeInv, TextInv
<1>10. CASE Revert
  <2>1. /\ reads = {} /\ reads' = {Sent("refresh", text.buffer)} /\ mode = "text"
        /\ write' = None /\ UNCHANGED panelVars
    BY <1>10 DEF Revert, InText, Free
  <2>2. editor = None
    BY <2>1 DEF Base, ModeInv
  <2> QED
    BY <1>t, <2>1, <2>2, Asking DEF ModeInv, TextInv
<1>11. CASE OtherWriter
  BY <1>11 DEF OtherWriter, Base, ModeInv, TextInv
<1> QED
  BY <1>1, <1>2, <1>3, <1>4, <1>5, <1>6, <1>7, <1>8, <1>9, <1>10, <1>11

LEMMA InitBase == Init => Base
<1> SUFFICES ASSUME Init PROVE Base
  OBVIOUS
<1>1. reads = {} /\ write = None /\ mode = "tree" /\ editor = None /\ text.buffer = None
  BY DEF Init
<1> QED
  BY <1>1, InitTyped DEF Base, ModeInv, TextInv

LEMMA NextBase ==
  ASSUME Patient
  PROVE  Base /\ [Next]_vars => Base'
<1> SUFFICES ASSUME Base, [Next]_vars PROVE ModeInv' /\ TextInv'
  BY NextTyped DEF Base
<1>1. CASE UNCHANGED vars
  BY <1>1 DEF vars, Base, ModeInv, TextInv
<1>2. CASE Next
  BY <1>2, ReadBase, AnswerBase, UserBase DEF Next
<1> QED
  BY <1>1, <1>2

(* The buffer changes under the arrival of a read only where that read     *)
(* was asked for by the write, or by Revert, of the buffer as it is: no    *)
(* other kind of read finds a buffer that it would replace.                *)
LEMMA KeepsText ==
  ASSUME Patient, Base, [Next]_vars, NEW r \in reads \ reads',
         text.buffer # None, text'.buffer # text.buffer
  PROVE  r.why = "refresh" /\ r.of = text.buffer
<1>0. reads = {r} /\ write = None
  BY Alone DEF Base
<1>1. PICK q \in reads : \/ Serve(q) \/ LoadArrives(q) \/ EnterArrives(q) \/ EditorShows(q)
                       \/ EditorFails(q) \/ RefreshArrives(q) \/ RereadArrives(q) \/ ReadFails(q)
  <2>1. ~ UNCHANGED vars /\ ~ OtherWriter
    BY DEF vars, OtherWriter
  <2>2. ~ (ServerWrites \/ ServerConflicts \/ ServerRefuses
           \/ WriteDone \/ WriteConflicts \/ WriteFails \/ SaveAnyway)
    BY <1>0 DEF ServerWrites, ServerConflicts, ServerRefuses, Awaited, WriteDone,
                WriteConflicts, WriteFails, SaveAnyway
  <2>3. ~ (PressReload \/ OpenEditor \/ SendEdit \/ WriteListMember \/ CancelEditor
           \/ RemoveRow \/ EnterText \/ LeaveText \/ Type \/ PressApply \/ Revert)
    BY <1>0 DEF PressReload, OpenEditor, SendEdit, WriteListMember, CancelEditor, RemoveRow,
                EnterText, LeaveText, Type, PressApply, Revert, InTree, InText, Free
  <2> QED
    BY <2>1, <2>2, <2>3 DEF Next
<1>2. q = r
  BY <1>0
<1>3. ~ Serve(r) /\ ~ LoadArrives(r) /\ ~ RereadArrives(r) /\ ~ ReadFails(r)
      /\ ~ EditorFails(r)
  BY DEF Serve, LoadArrives, RereadArrives, ReadFails, EditorFails, panelVars
<1>4. ~ EnterArrives(r) /\ ~ EditorShows(r)
  BY DEF EnterArrives, EditorShows, Arrives, Base, TextInv
<1>5. RefreshArrives(r)
  BY <1>1, <1>2, <1>3, <1>4
<1>6. r.why # "around"
  BY <1>5 DEF RefreshArrives, Refreshed
<1> QED
  BY <1>5, <1>6 DEF RefreshArrives, Arrives, Base, TextInv

(* What a patient user typed in the Text card is replaced only by a        *)
(* refresh that the write of that very text, or Revert of it, asked for,   *)
(* for any number of conflicts and failed reads.                           *)
THEOREM TypedTextStays ==
  ASSUME Patient
  PROVE  Spec => UnwrittenTextIsKept
<1>1. Base /\ [Next]_vars =>
        [\A r \in reads \ reads' :
           text.buffer # None /\ text'.buffer # text.buffer
             => r.why = "refresh" /\ r.of = text.buffer]_vars
  BY KeepsText
<1> QED
  BY <1>1, InitBase, NextBase, PTL DEF Spec, UnwrittenTextIsKept

-----------------------------------------------------------------------------
(* The rows, the editor and the write.                                     *)

(* The arrival of a read brings rows, data and editor to its digest; one   *)
(* that fails leaves them there.                                           *)
LEMMA ReadTree ==
  ASSUME Base, TreeInv, NEW r \in reads,
         \/ Serve(r) \/ LoadArrives(r) \/ EnterArrives(r) \/ EditorShows(r) \/ EditorFails(r)
         \/ RefreshArrives(r) \/ RereadArrives(r) \/ ReadFails(r)
  PROVE  TreeInv'
<1> USE DEF panelVars, aside
<1>0. reads = {r} /\ reads \ {r} = {} /\ write = None
  BY Alone DEF Base
<1>o. owed => editor # None
  BY DEF TreeInv
<1>1. CASE Serve(r)
  <2> DEFINE q == [r EXCEPT !.got = doc]
  <2>1. reads' = {q}
    BY <1>0, <1>1 DEF Serve
  <2>2. q.why = r.why
    BY DEF Base, TypeOK, Reads
  <2> HIDE DEF q
  <2> QED
    BY <1>0, <1>1, <2>1, <2>2 DEF Serve, TreeInv, InStep
<1>2. CASE LoadArrives(r)
  <2>1. editor' = None /\ ~owed' /\ write' = None
    BY <1>0, <1>o, <1>2 DEF LoadArrives, Arrives, Base, ModeInv
  <2>2. InStep'
    BY <1>2 DEF LoadArrives, InStep
  <2> QED
    BY <2>1, <2>2 DEF TreeInv
<1>3. CASE EnterArrives(r)
  <2> DEFINE q == [r EXCEPT !.why = "editor"]
  <2>1. mode' = "text" /\ editor' = None /\ ~owed' /\ write' = None /\ reads' = {q}
    BY <1>0, <1>o, <1>3 DEF EnterArrives, Arrives, Base, ModeInv
  <2>2. q.why = "editor"
    BY DEF Base, TypeOK, Reads
  <2> HIDE DEF q
  <2> QED
    BY <2>1, <2>2 DEF TreeInv
<1>7. CASE EditorShows(r)
  <2>1. mode' = "text" /\ editor' = None /\ ~owed' /\ write' = None /\ reads' = {}
    BY <1>0, <1>o, <1>7 DEF EditorShows, Arrives, Base, ModeInv
  <2> QED
    BY <2>1 DEF TreeInv
<1>8. CASE EditorFails(r)
  <2>1. apart' /\ editor' = None /\ ~owed' /\ write' = None /\ reads' = {}
    BY <1>0, <1>o, <1>8 DEF EditorFails, Arrives, Base, ModeInv
  <2> QED
    BY <2>1 DEF TreeInv
<1>4. CASE RefreshArrives(r)
  <2>1. mode' = "text" /\ editor' = None /\ ~owed' /\ write' = None /\ reads' = {}
    BY <1>0, <1>o, <1>4 DEF RefreshArrives, Arrives, Base, ModeInv
  <2> QED
    BY <2>1 DEF TreeInv
<1>5. CASE RereadArrives(r)
  <2> DEFINE data == DataOf(r.got)
  <2>1. editor # None /\ editor \in Windows
    BY <1>5 DEF RereadArrives, Arrives, Base, ModeInv, TypeOK
  <2>2. data \in Documents
    BY <1>5, Reading DEF RereadArrives, Arrives, Base, TypeOK, Reads
  <2>3. /\ state'.data = data /\ state'.digest = r.got /\ owed' = TRUE /\ reads' = {}
        /\ write' = None /\ apart' = apart
    BY <1>0, <1>5 DEF RereadArrives
  <2>4. editor' = [editor EXCEPT
          !.shown = IF \A k \in editor.on : editor.openedOn[k] = data[k] THEN editor.saw ELSE data]
    BY <1>5, <2>1 DEF RereadArrives, Told
  <2>5. state'.data = DataOf(state'.digest)
    BY <2>3 DEF data
  <2> HIDE DEF data
  <2>6. /\ editor' \in Windows /\ editor'.on = editor.on /\ editor'.member = editor.member
        /\ editor'.saw = editor.saw /\ editor'.openedOn = editor.openedOn
    BY <2>1, <2>2, <2>4 DEF Windows
  <2>7. editor' # None
    BY <2>6, NoneAssumption
  <2>8. ASSUME ~apart
        PROVE  /\ editor.saw = editor.openedOn
               /\ \A k \in editor.on : editor'.shown[k] = data[k]
               /\ editor.member # None => editor.on = Keys
    <3>1. editor.saw = editor.openedOn /\ (editor.member # None => editor.on = Keys)
      BY <2>1, <2>8 DEF TreeInv
    <3> QED
      BY <2>1, <2>4, <3>1 DEF Windows
  <2> QED
    BY <2>3, <2>5, <2>6, <2>7, <2>8 DEF TreeInv
<1>6. CASE ReadFails(r)
  <2>1. reads' = {} /\ write' = None /\ UNCHANGED <<state, rows, editor, owed>>
    BY <1>0, <1>6 DEF ReadFails
  <2>2. InStep' = InStep
    BY <2>1 DEF InStep
  <2>3. ~apart' => ~apart
    BY <1>6 DEF ReadFails
  <2>4. editor' # None /\ ~apart' =>
          /\ state'.data = DataOf(state'.digest)
          /\ editor'.saw = editor'.openedOn
          /\ \A k \in editor'.on : editor'.shown[k] = state'.data[k]
          /\ editor'.member # None => editor'.on = Keys
    BY <2>1, <2>3 DEF TreeInv
  <2>5. ~masked' /\ ~apart' => InStep'
    <3>1. ~masked' /\ ~apart' => r.why = "enter" /\ ~masked /\ ~apart
      BY <1>6 DEF ReadFails
    <3> QED
      BY <1>0, <2>2, <3>1 DEF TreeInv
  <2> QED
    BY <1>o, <2>1, <2>4, <2>5 DEF TreeInv
<1> QED
  BY <1>1, <1>2, <1>3, <1>4, <1>5, <1>6, <1>7, <1>8

(* Between a write and its answer neither the digest nor the editor moves. *)
LEMMA AnswerTree ==
  ASSUME Base, TreeInv,
         \/ ServerWrites \/ ServerConflicts \/ ServerRefuses
         \/ WriteDone \/ WriteConflicts \/ WriteFails \/ SaveAnyway
  PROVE  TreeInv'
<1> USE DEF panelVars, aside
<1>0. /\ write # None /\ write \in Writes /\ reads = {}
      /\ mode = IF write.as = "text" THEN "text" ELSE "tree"
  BY DEF ServerWrites, ServerConflicts, ServerRefuses, Awaited, WriteDone, WriteConflicts,
         WriteFails, SaveAnyway, Base, TypeOK, ModeInv
<1>o. owed => editor # None
  BY DEF TreeInv
<1>t. write.as = "text" => editor = None
  BY <1>0 DEF Base, ModeInv
<1>a. ASSUME NEW a, Answer(a), UNCHANGED <<panelVars, reads, aside>>
      PROVE  TreeInv'
  <2>1. /\ write'.as = write.as /\ write'.digest = write.digest /\ write'.on = write.on
        /\ write'.value = write.value /\ write'.met = write.met /\ write'.member = write.member
    BY <1>0, <1>a DEF Answer, Writes
  <2>2. InStep' = InStep
    BY <1>a DEF InStep
  <2> QED
    BY <1>0, <1>a, <2>1, <2>2 DEF TreeInv
<1>1. CASE ServerWrites \/ ServerConflicts \/ ServerRefuses
  BY <1>1, <1>a DEF ServerWrites, ServerConflicts, ServerRefuses
<1>2. CASE WriteDone
  <2>1. CASE write.as = "text"
    <3>1. /\ reads' = {Sent("refresh", write.value)} /\ write' = None /\ mode' = "text"
          /\ editor' = None /\ ~owed'
      BY <1>0, <1>o, <1>t, <1>2, <2>1 DEF WriteDone
    <3> QED
      BY <3>1, Asking DEF TreeInv
  <2>2. CASE write.as # "text"
    <3>1. write' = None /\ mode = "tree"
      BY <1>0, <1>2, <2>2 DEF WriteDone
    <3>2. Reload("tree") /\ editor' = None
      BY <1>2, <2>2, <3>1 DEF WriteDone, Close
    <3>3. reads' = {Sent("load", None)} /\ owed' = FALSE
      BY <1>0, <3>2, Reloading
    <3> QED
      BY <3>1, <3>2, <3>3, Asking DEF TreeInv
  <2> QED
    BY <2>1, <2>2
<1>3. CASE WriteConflicts
  <2>1. /\ write' = None
        /\ UNCHANGED <<mode, state, rows, masked, editor, apart>>
    BY <1>3 DEF WriteConflicts
  <2>2. CASE mode = "text"
    <3>1. reads' = {Sent("around", None)} /\ owed' = owed
      BY <1>0, <1>3, <2>2 DEF WriteConflicts, Ask
    <3>2. editor = None
      BY <2>2 DEF Base, ModeInv
    <3> QED
      BY <1>o, <2>1, <2>2, <3>1, <3>2, Asking DEF TreeInv
  <2>3. CASE mode = "tree" /\ editor # None
    <3>1. reads' = {Sent("reread", None)} /\ owed' = owed
      BY <1>0, <1>3, <2>3 DEF WriteConflicts, Ask
    <3>2. InStep' = InStep
      BY <2>1 DEF InStep
    <3> QED
      BY <1>0, <2>1, <2>3, <3>1, <3>2, Asking DEF TreeInv
  <2>4. CASE mode = "tree" /\ editor = None
    <3>1. reads' = {Sent("load", None)} /\ owed' = FALSE
      BY <1>0, <1>3, <2>4, Reloading DEF WriteConflicts
    <3> QED
      BY <2>1, <2>4, <3>1, Asking DEF TreeInv
  <2> QED
    BY <1>0, <2>2, <2>3, <2>4
<1>4. CASE WriteFails
  <2>1. write' = None /\ reads' = {} /\ UNCHANGED panelVars /\ UNCHANGED apart
    BY <1>0, <1>4 DEF WriteFails
  <2>2. InStep' = InStep
    BY <2>1 DEF InStep
  <2> QED
    BY <1>0, <2>1, <2>2 DEF TreeInv
<1>5. CASE SaveAnyway
  <2>1. reads' = reads /\ UNCHANGED panelVars /\ UNCHANGED apart
    BY <1>5 DEF SaveAnyway
  <2>2. InStep' = InStep
    BY <2>1 DEF InStep
  <2>3. write.digest = state.digest
    BY <1>0 DEF Base, TextInv
  <2>4. CASE write.as = "text"
    <3>1. write'.as = "text"
      BY <1>5, <2>4 DEF SaveAnyway, ApplyText, Write
    <3> QED
      BY <1>0, <1>t, <2>1, <2>2, <2>4, <3>1 DEF TreeInv
  <2>5. CASE write.as # "text"
    <3>0. write.as = "edit"
      BY <1>0, <2>5 DEF Writes
    <3>1. /\ write'.as = "edit" /\ write'.on = write.on /\ write'.value = write.value
          /\ write'.digest = write.digest
          /\ write'.met = (IF editor = None THEN write.met ELSE editor.shown)
          /\ write'.member = (IF editor = None THEN None ELSE editor.member)
      BY <1>5, <2>3, <2>5 DEF SaveAnyway, Write
    <3>2. ~apart => \A k \in write.on : write'.met[k] = DataOf(write.digest)[k]
      BY <1>0, <2>3, <3>0, <3>1 DEF TreeInv
    <3>3. editor # None /\ ~apart => write'.member = write.member
      BY <1>0, <3>1 DEF TreeInv
    <3> QED
      BY <1>0, <2>1, <2>2, <3>1, <3>2, <3>3 DEF TreeInv
  <2> QED
    BY <2>4, <2>5
<1> QED
  BY <1>1, <1>2, <1>3, <1>4, <1>5

(* A patient user opens editors and removes rows of the digest held.       *)
LEMMA UserTree ==
  ASSUME Patient, Base, TreeInv,
         \/ PressReload \/ OpenEditor \/ SendEdit \/ WriteListMember \/ CancelEditor
         \/ RemoveRow \/ EnterText \/ LeaveText \/ Type \/ PressApply \/ Revert \/ OtherWriter
  PROVE  TreeInv'
<1> USE DEF panelVars, aside
<1>o. owed => editor # None
  BY DEF TreeInv
<1>t. mode = "text" => editor = None
  BY DEF Base, ModeInv
<1>r. mode = "tree" /\ ~masked /\ ~owed /\ ~apart /\ reads = {} => InStep
  BY DEF TreeInv
<1>1. CASE PressReload
  <2>1. /\ reads = {} /\ mode = "tree" /\ editor' = None /\ write' = None
    BY <1>1 DEF PressReload, InTree, Free
  <2>2. reads' = {Sent("load", None)} /\ owed' = FALSE
    BY <1>1, <2>1, Reloading DEF PressReload
  <2> QED
    BY <2>1, <2>2, Asking DEF TreeInv
<1>2. CASE OpenEditor
  <2>1. /\ reads = {} /\ write = None /\ mode = "tree" /\ ~masked /\ ~owed
        /\ UNCHANGED <<mode, state, rows, masked, owed, reads, write, apart>>
    BY <1>o, <1>2 DEF OpenEditor, InTree, Bare, Free
  <2>2. ~apart => InStep
    BY <1>r, <2>1
  <2>3. InStep' = InStep
    BY <2>1 DEF InStep
  <2>4. PICK on \in SUBSET Keys, m \in Keys \cup {None}, saw \in {rows, state.data} :
          editor' = Window(on, saw, m) /\ (m # None => on = Keys)
    <3>1. CASE \E k \in Keys : editor' = Window({k}, rows, None)
      <4>1. PICK k \in Keys : editor' = Window({k}, rows, None)
        BY <3>1
      <4>2. {k} \in SUBSET Keys
        OBVIOUS
      <4> QED
        BY <4>1, <4>2
    <3>2. CASE \E k \in Keys : editor' = Window(Keys, rows, k)
      BY <3>2
    <3>3. CASE editor' = Window(Keys, state.data, None)
      BY <3>3
    <3> QED
      BY <1>2, <3>1, <3>2, <3>3 DEF OpenEditor
  <2>5. /\ editor'.on = on /\ editor'.member = m /\ editor'.saw = saw
        /\ editor'.shown = saw /\ editor'.openedOn = state.data
    BY <2>4 DEF Window
  <2>6. ~apart => saw = state.data /\ state.data = DataOf(state.digest)
    BY <2>2 DEF InStep
  <2> QED
    BY <2>1, <2>2, <2>3, <2>4, <2>5, <2>6 DEF TreeInv
<1>3. CASE SendEdit \/ WriteListMember
  <2>1. /\ reads = {} /\ write = None /\ editor # None /\ editor \in Windows
        /\ UNCHANGED panelVars /\ UNCHANGED <<reads, apart>>
    BY <1>3 DEF SendEdit, WriteListMember, Free, Base, TypeOK
  <2>2. ~apart => /\ state.data = DataOf(state.digest)
                  /\ \A k \in editor.on : editor.shown[k] = state.data[k]
                  /\ editor.member # None => editor.on = Keys
    BY <2>1 DEF TreeInv
  <2>3. /\ write'.digest = state.digest
        /\ write'.member = editor.member /\ write'.met = editor.shown
    BY <1>3, <2>1 DEF SendEdit, WriteListMember, Write
  <2>6. ~apart => write'.on = editor.on
    BY <1>3, <2>1, <2>2 DEF SendEdit, WriteListMember, Write
  <2>4. ASSUME editor.member # None, NEW k \in Keys
        PROVE  state.data[k] = IF k = editor.member THEN editor.saw[k] ELSE write'.value[k]
    <3>1. WriteListMember
      BY <1>3, <2>4 DEF SendEdit
    <3>2. PICK v \in Values \ {Unset} :
            Write("edit", Keys, [state.data EXCEPT ![editor.member] = v], state.digest,
                  editor.shown, FALSE)
      BY <3>1 DEF WriteListMember
    <3>3. state.data \in [Keys -> Values]
      BY DEF Base, TypeOK, Documents
    <3> QED
      BY <3>1, <3>2, <3>3 DEF WriteListMember, Write, StillThere
  <2>5. InStep' = InStep
    BY <2>1 DEF InStep
  <2> QED
    BY <1>o, <2>1, <2>2, <2>3, <2>4, <2>5, <2>6 DEF TreeInv
<1>4. CASE CancelEditor
  <2>1. /\ reads = {} /\ write' = None /\ editor' = None /\ mode = "tree"
        /\ UNCHANGED <<mode, state, rows, masked, apart>>
    BY <1>4 DEF CancelEditor, Free, Close, Base, ModeInv
  <2>2. InStep' = InStep
    BY <2>1 DEF InStep
  <2>3. CASE owed
    <3>1. reads' = {Sent("load", None)} /\ owed' = FALSE
      BY <1>4, <2>1, <2>3, Reloading DEF CancelEditor, Close
    <3> QED
      BY <2>1, <3>1, Asking DEF TreeInv
  <2>4. CASE ~owed
    <3>1. reads' = {} /\ ~owed'
      BY <1>4, <2>1, <2>4 DEF CancelEditor, Close
    <3> QED
      BY <1>r, <2>1, <2>2, <2>4, <3>1 DEF TreeInv
  <2> QED
    BY <2>3, <2>4
<1>5. CASE RemoveRow
  <2>1. /\ reads = {} /\ mode = "tree" /\ ~masked /\ editor = None
        /\ UNCHANGED panelVars /\ UNCHANGED <<reads, apart>>
    BY <1>5 DEF RemoveRow, InTree, Bare, Free
  <2>2. ~owed /\ (~apart => InStep /\ InStep')
    BY <1>o, <1>r, <2>1 DEF InStep
  <2>3. write'.met = rows /\ write'.digest = state.digest
    BY <1>5 DEF RemoveRow, Write
  <2> QED
    BY <2>1, <2>2, <2>3 DEF TreeInv, InStep
<1>6. CASE EnterText
  <2>1. /\ reads = {} /\ write' = None /\ mode = "tree" /\ mode' = "text" /\ editor = None
        /\ reads' = {Sent("enter", None)}
        /\ UNCHANGED <<state, rows, masked, editor, owed, apart>>
    BY <1>6 DEF EnterText, InTree, Free, Ask
  <2>2. ~masked /\ ~apart => InStep'
    BY <1>o, <1>r, <2>1 DEF InStep
  <2> QED
    BY <1>o, <2>1, <2>2 DEF TreeInv
<1>7. CASE LeaveText
  <2>1. reads = {} /\ write' = None /\ editor' = None
    BY <1>t, <1>7 DEF LeaveText, Free
  <2>2. reads' = {Sent("load", None)} /\ owed' = FALSE
    BY <1>7, <2>1, Reloading DEF LeaveText
  <2> QED
    BY <2>1, <2>2, Asking DEF TreeInv
<1>8. CASE Type \/ PressApply \/ Revert
  <2>1. /\ reads = {} /\ write = None /\ mode = "text" /\ editor = None
        /\ UNCHANGED <<mode, editor, owed, apart>>
    <3>1. InText /\ UNCHANGED <<mode, editor, owed, apart>>
      <4>1. CASE Type
        BY <4>1 DEF Type
      <4>2. CASE PressApply
        BY <4>2 DEF PressApply
      <4>3. CASE Revert
        BY <4>3 DEF Revert
      <4> QED
        BY <1>8, <4>1, <4>2, <4>3
    <3> QED
      BY <1>t, <3>1 DEF InText, Free
  <2>2. /\ reads' = {} \/ reads' = {Sent("refresh", text.buffer)}
        /\ write' = None \/ write'.as = "text"
    <3>1. CASE Type
      BY <2>1, <3>1 DEF Type
    <3>2. CASE PressApply
      BY <2>1, <3>2 DEF PressApply, ApplyText, Write
    <3>3. CASE Revert
      BY <2>1, <3>3 DEF Revert
    <3> QED
      BY <1>8, <3>1, <3>2, <3>3
  <2>3. \A r \in reads' : r.why # "enter"
    BY <2>2, Asking
  <2> QED
    BY <1>o, <2>1, <2>2, <2>3 DEF TreeInv
<1>9. CASE OtherWriter
  BY <1>9 DEF OtherWriter, TreeInv, InStep
<1> QED
  BY <1>1, <1>2, <1>3, <1>4, <1>5, <1>6, <1>7, <1>8, <1>9

(* The inductive invariant of a patient user's panel.                      *)
EditorInv == Base /\ TreeInv

LEMMA InitEditor == Init => EditorInv
<1> SUFFICES ASSUME Init PROVE TreeInv
  BY InitBase DEF EditorInv
<1>1. /\ reads = {} /\ write = None /\ editor = None /\ ~owed /\ ~masked
      /\ state.digest = doc /\ state.data = DataOf(doc) /\ rows = DataOf(doc)
  BY DEF Init
<1> QED
  BY <1>1 DEF TreeInv, InStep

LEMMA NextEditor ==
  ASSUME Patient
  PROVE  EditorInv /\ [Next]_vars => EditorInv'
<1> SUFFICES ASSUME EditorInv, [Next]_vars PROVE TreeInv'
  BY NextBase DEF EditorInv
<1>1. CASE UNCHANGED vars
  BY <1>1 DEF vars, EditorInv, TreeInv, InStep
<1>2. CASE Next
  BY <1>2, ReadTree, AnswerTree, UserTree DEF Next, EditorInv
<1> QED
  BY <1>1, <1>2

(* A write the server is about to take replaces only what its user was     *)
(* shown, however conflicts, "Save anyway", reloads, failures and others'  *)
(* writes interleave; in the tree, but for the time between a failed entry *)
(* into Text and the next load.                                            *)
THEOREM EditorLosesNoUpdate ==
  ASSUME Patient
  PROVE  Spec => []NoLostUpdate
<1>1. EditorInv => NoLostUpdate
  <2> SUFFICES ASSUME EditorInv, Awaited, Matches PROVE NoLostUpdate
    BY DEF NoLostUpdate
  <2>1. write # None /\ write \in Writes /\ write.digest = doc
    BY DEF Awaited, Matches, EditorInv, Base, TypeOK
  <2>2. CASE write.as = "text"
    BY <2>1, <2>2 DEF EditorInv, Base, TextInv, NoLostUpdate
  <2>3. CASE write.as = "edit"
    BY <2>1, <2>3 DEF EditorInv, TreeInv, NoLostUpdate
  <2> QED
    BY <2>1, <2>2, <2>3 DEF Writes
<1> QED
  BY <1>1, InitEditor, NextEditor, PTL DEF Spec

(* A tree at rest owes no reload, and shows the text whose digest the next *)
(* write carries unless Text could not be entered and no load came since.  *)
THEOREM RestingTreeIsCurrent ==
  ASSUME Patient
  PROVE  Spec => []RowsMatchTheDigest
<1>1. EditorInv => RowsMatchTheDigest
  BY DEF EditorInv, TreeInv, InStep, RowsMatchTheDigest, AtRest
<1> QED
  BY <1>1, InitEditor, NextEditor, PTL DEF Spec

(* A write of one list member leaves every other member as the server has  *)
(* it, and replaces the one its row showed, but for the time between a     *)
(* failed entry into Text and the next load.                               *)
THEOREM MemberWriteIsLocal ==
  ASSUME Patient
  PROVE  Spec => []MemberEditsSpareTheRest
<1>1. EditorInv => MemberEditsSpareTheRest
  BY DEF EditorInv, TreeInv, MemberEditsSpareTheRest, Awaited, Matches
<1> QED
  BY <1>1, InitEditor, NextEditor, PTL DEF Spec
=============================================================================
