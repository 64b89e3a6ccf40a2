--------------------------- MODULE PortraitsProofs ---------------------------
(***************************************************************************)
(* The picture that is shown has its row and its file, and a picture that  *)
(* is not shown has no row, for any number of overlapping requests.        *)
(*                                                                         *)
(* The proof rests on the lock of the owner's row: of the requests that    *)
(* have written it one at most has handlers running, and until it commits  *)
(* no other changes the rows or the files it counts on.                    *)
(***************************************************************************)
EXTENDS Portraits, TLAPS

(* The transactions with the owner's row locked.                           *)
OneWrites ==
  \A w, x \in Editors :
    editor[w].at = "events" /\ editor[x].at = "events" => w = x

(* What the handlers of a request that are through have done.              *)
HandlersOf(e) ==
  /\ e.at # "events" => e.doing = {} /\ e.done = {}
  /\ e.at = "events" =>
       /\ e.doing \cup e.done \subseteq PictureEvents(e.copy, e.to)
       /\ "add" \in PictureEvents(e.copy, e.to) \ e.doing =>
            "add" \in e.done /\ e.to \in pictureFiles
       /\ "remove" \in PictureEvents(e.copy, e.to) \ e.doing =>
            "remove" \in e.done \/ e.copy \notin pictureRows

(* Only the request that has the lock removes anything.                    *)
PortraitsInv ==
  /\ PortraitsTypeOK
  /\ OneWrites
  /\ \A w \in Editors : HandlersOf(editor[w])
  /\ PortraitHasFile
  /\ OldPortraitIsRemoved
-----------------------------------------------------------------------------
LEMMA NoEditType ==
  /\ NoEdit \in Editor
  /\ NoEdit.at = "idle" /\ NoEdit.doing = {} /\ NoEdit.done = {}
  BY DEF NoEdit, Editor, Paths

LEMMA RemovedBy ==
  \A p : p \in BeingRemoved <=>
    \E w \in Editors : "remove" \in editor[w].done /\ p = editor[w].copy
  BY DEF BeingRemoved, Removed

LEMMA EventsAre ==
  \A copy, to : PictureEvents(copy, to) \subseteq {"remove", "add"}
  BY DEF PictureEvents

LEMMA InitPortraits == PortraitsInit => PortraitsInv
  <1> SUFFICES ASSUME PortraitsInit PROVE PortraitsInv
    OBVIOUS
  <1>1. \A w \in Editors : editor[w] = NoEdit
    BY DEF PortraitsInit
  <1>2. PortraitsTypeOK
    BY NoEditType DEF PortraitsInit, PortraitsTypeOK, Paths
  <1>3. OneWrites /\ \A w \in Editors : HandlersOf(editor[w])
    BY <1>1, NoEditType DEF OneWrites, HandlersOf
  <1>4. PortraitHasFile /\ OldPortraitIsRemoved
    BY NoPictureAssumption DEF PortraitsInit, PortraitHasFile, OldPortraitIsRemoved
  <1> QED BY <1>2, <1>3, <1>4 DEF PortraitsInv

(* A request that is not in its transaction moves to where it has not      *)
(* begun one.                                                              *)
LEMMA OutsideKeeps ==
  ASSUME PortraitsInv, NEW w \in Editors, NEW e \in Editor,
         editor[w].at # "events", e.at # "events", e.doing = {}, e.done = {},
         editor' = [editor EXCEPT ![w] = e],
         UNCHANGED <<owner, pictureRows, pictureFiles, unowned>>
  PROVE  PortraitsInv'
  <1>1. \A x \in Editors : editor'[x] = IF x = w THEN e ELSE editor[x]
    BY DEF PortraitsInv, PortraitsTypeOK
  <1>2. PortraitsTypeOK'
    BY DEF PortraitsInv, PortraitsTypeOK
  <1>3. OneWrites'
    BY <1>1 DEF PortraitsInv, OneWrites
  <1>4. (\A x \in Editors : HandlersOf(editor[x]))'
    BY <1>1 DEF PortraitsInv, HandlersOf
  <1>5. BeingRemoved' = BeingRemoved
    <2>1. editor[w].done = {}
      BY DEF PortraitsInv, HandlersOf
    <2> QED BY <1>1, <2>1 DEF BeingRemoved, Removed
  <1>6. PortraitHasFile' /\ OldPortraitIsRemoved'
    BY <1>5 DEF PortraitsInv, PortraitHasFile, OldPortraitIsRemoved
  <1> QED BY <1>2, <1>3, <1>4, <1>6 DEF PortraitsInv

LEMMA EditReadKeeps ==
  ASSUME PortraitsInv, NEW w \in Editors, NEW to \in Paths, EditRead(w, to)
  PROVE  PortraitsInv'
  <1>1. PICK e : e = [NoEdit EXCEPT !.at = "write", !.copy = owner, !.to = to]
    OBVIOUS
  <1>2. owner \in Paths \cup {"absent"}
    BY DEF PortraitsInv, PortraitsTypeOK
  <1>3. e \in Editor /\ e.at = "write" /\ e.doing = {} /\ e.done = {}
    BY <1>1, <1>2 DEF NoEdit, Editor
  <1> QED BY <1>1, <1>3, NoEditType, OutsideKeeps DEF EditRead

LEMMA CreateOwnerKeeps ==
  ASSUME PortraitsInv, NEW w \in Editors, NEW to \in Paths, CreateOwner(w, to)
  PROVE  PortraitsInv'
  <1>1. PICK e : e = [NoEdit EXCEPT !.at = "write", !.copy = "absent", !.to = to]
    OBVIOUS
  <1>2. e \in Editor /\ e.at = "write" /\ e.doing = {} /\ e.done = {}
    BY <1>1 DEF NoEdit, Editor
  <1> QED BY <1>1, <1>2, NoEditType, OutsideKeeps DEF CreateOwner

(* The request takes the lock nobody has.                                  *)
LEMMA WriteOwnerKeeps ==
  ASSUME PortraitsInv, NEW w \in Editors, WriteOwner(w)
  PROVE  PortraitsInv'
  <1>1. PICK doing : doing = PictureEvents(editor[w].copy, editor[w].to)
    OBVIOUS
  <1>2. PICK e : e = [[editor[w] EXCEPT !.at = "events"] EXCEPT !.doing = doing]
    OBVIOUS
  <1>3. editor[w] \in Editor /\ editor[w].done = {} /\ editor[w].doing = {}
    BY DEF PortraitsInv, PortraitsTypeOK, HandlersOf, WriteOwner
  <1>4. doing \subseteq {"remove", "add"}
    BY <1>1, EventsAre
  <1>5. /\ e \in Editor /\ e.at = "events" /\ e.doing = doing /\ e.done = {}
        /\ e.copy = editor[w].copy /\ e.to = editor[w].to
    BY <1>2, <1>3, <1>4 DEF Editor
  <1>6. editor' = [editor EXCEPT ![w] = e]
    BY <1>1, <1>2 DEF WriteOwner, PortraitsInv, PortraitsTypeOK
  <1>7. UNCHANGED <<owner, pictureRows, pictureFiles, unowned>>
    BY DEF WriteOwner
  <1>8. \A x \in Editors : editor'[x] = IF x = w THEN e ELSE editor[x]
    BY <1>6 DEF PortraitsInv, PortraitsTypeOK
  <1>9. PortraitsTypeOK'
    BY <1>5, <1>6, <1>7 DEF PortraitsInv, PortraitsTypeOK
  <1>10. OneWrites'
    BY <1>8 DEF PortraitsInv, OneWrites, WriteOwner, OwnerUnlocked
  <1>11. HandlersOf(e)'
    BY <1>1, <1>5 DEF HandlersOf
  <1>12. ASSUME NEW x \in Editors PROVE HandlersOf(editor[x])'
    <2>1. CASE x = w
      <3>1. editor'[x] = e
        BY <1>8, <2>1
      <3> QED BY <1>11, <3>1
    <2>2. CASE x # w
      BY <1>7, <1>8, <2>2 DEF PortraitsInv, HandlersOf
    <2> QED BY <2>1, <2>2
  <1>13. BeingRemoved' = BeingRemoved
    BY <1>3, <1>5, <1>8 DEF BeingRemoved, Removed
  <1>14. PortraitHasFile' /\ OldPortraitIsRemoved'
    BY <1>7, <1>13 DEF PortraitsInv, PortraitHasFile, OldPortraitIsRemoved
  <1> QED BY <1>9, <1>10, <1>12, <1>14 DEF PortraitsInv
-----------------------------------------------------------------------------
(* While w has the lock, nothing but what its handlers have removed is     *)
(* being removed, and the others have removed and added nothing.           *)
LEMMA OnlyOne ==
  ASSUME PortraitsInv, NEW w \in Editors, editor[w].at = "events"
  PROVE  /\ BeingRemoved = Removed(w)
         /\ \A x \in Editors \ {w} :
              editor[x].at # "events" /\ editor[x].doing = {} /\ editor[x].done = {}
  <1>1. \A x \in Editors \ {w} :
          editor[x].at # "events" /\ editor[x].doing = {} /\ editor[x].done = {}
    BY DEF PortraitsInv, OneWrites, HandlersOf
  <1> QED BY <1>1 DEF BeingRemoved, Removed

(* A handler of w is through.                                              *)
LEMMA ThroughKeeps ==
  ASSUME PortraitsInv, NEW w \in Editors, NEW e \in Editor,
         editor[w].at = "events", e.at = "events",
         e.copy = editor[w].copy, e.to = editor[w].to,
         editor' = [editor EXCEPT ![w] = e], HandlersOf(e)',
         pictureFiles' \subseteq Pictures,
         pictureFiles \subseteq pictureFiles' \cup
           (IF "remove" \in e.done THEN {e.copy} ELSE {}),
         editor[w].done \subseteq e.done,
         UNCHANGED <<owner, pictureRows, unowned>>
  PROVE  PortraitsInv'
  <1>1. \A x \in Editors : editor'[x] = IF x = w THEN e ELSE editor[x]
    BY DEF PortraitsInv, PortraitsTypeOK
  <1>2. PortraitsTypeOK'
    BY DEF PortraitsInv, PortraitsTypeOK
  <1>3. OneWrites'
    BY <1>1 DEF PortraitsInv, OneWrites
  <1>4. ASSUME NEW x \in Editors PROVE HandlersOf(editor[x])'
    <2>1. CASE x = w
      <3>1. editor'[x] = e
        BY <1>1, <2>1
      <3> QED BY <3>1
    <2>2. CASE x # w
      <3>1. editor'[x] = editor[x] /\ editor[x].at # "events"
        BY <1>1, <2>2, OnlyOne
      <3> QED BY <3>1 DEF PortraitsInv, HandlersOf
    <2> QED BY <2>1, <2>2
  <1>5. BeingRemoved \subseteq BeingRemoved'
    BY <1>1 DEF BeingRemoved, Removed
  <1>6. "remove" \in e.done => e.copy \in BeingRemoved'
    BY <1>1 DEF BeingRemoved, Removed
  <1>7. PortraitHasFile'
    BY <1>5, <1>6 DEF PortraitsInv, PortraitHasFile
  <1>8. OldPortraitIsRemoved'
    BY DEF PortraitsInv, OldPortraitIsRemoved
  <1> QED BY <1>2, <1>3, <1>4, <1>7, <1>8 DEF PortraitsInv

LEMMA RemovePictureKeeps ==
  ASSUME PortraitsInv, NEW w \in Editors, RemovePicture(w)
  PROVE  PortraitsInv'
  <1>1. PICK old : old = editor[w]
    OBVIOUS
  <1>2. /\ old \in Editor /\ HandlersOf(old) /\ "remove" \in old.doing
    BY <1>1 DEF PortraitsInv, PortraitsTypeOK, RemovePicture
  <1>3. old.at = "events"
    BY <1>2 DEF HandlersOf
  <1>4. "remove" \in PictureEvents(old.copy, old.to)
    BY <1>2, <1>3 DEF HandlersOf
  <1>5. old.copy # old.to
    BY <1>4 DEF PictureEvents
  <1>6. CASE old.copy \in pictureRows
    <2>1. PICK e : e = [old EXCEPT !.doing = old.doing \ {"remove"},
                                  !.done = old.done \cup {"remove"}]
      OBVIOUS
    <2>2. /\ e \in Editor /\ e.at = "events" /\ e.copy = old.copy /\ e.to = old.to
          /\ e.doing = old.doing \ {"remove"} /\ e.done = old.done \cup {"remove"}
      BY <1>2, <1>3, <2>1 DEF Editor
    <2>3. /\ pictureFiles' = pictureFiles \ {old.copy}
          /\ editor' = [editor EXCEPT ![w] = e]
          /\ UNCHANGED <<owner, pictureRows, unowned>>
      BY <1>1, <1>6, <2>1 DEF RemovePicture, Through, PortraitsInv, PortraitsTypeOK
    <2>4. HandlersOf(e)'
      BY <1>2, <1>3, <1>4, <1>5, <2>2, <2>3 DEF HandlersOf
    <2> QED BY <1>1, <1>3, <2>2, <2>3, <2>4, ThroughKeeps
            DEF PortraitsInv, PortraitsTypeOK
  <1>7. CASE old.copy \notin pictureRows
    <2>1. PICK e : e = [old EXCEPT !.doing = old.doing \ {"remove"}]
      OBVIOUS
    <2>2. /\ e \in Editor /\ e.at = "events" /\ e.copy = old.copy /\ e.to = old.to
          /\ e.doing = old.doing \ {"remove"} /\ e.done = old.done
      BY <1>2, <1>3, <2>1 DEF Editor
    <2>3. /\ editor' = [editor EXCEPT ![w] = e]
          /\ UNCHANGED <<owner, pictureRows, pictureFiles, unowned>>
      BY <1>1, <1>7, <2>1 DEF RemovePicture
    <2>4. HandlersOf(e)'
      BY <1>2, <1>3, <1>4, <1>7, <2>2, <2>3 DEF HandlersOf
    <2> QED BY <1>1, <1>3, <2>2, <2>3, <2>4, ThroughKeeps
            DEF PortraitsInv, PortraitsTypeOK
  <1> QED BY <1>6, <1>7

LEMMA AddPictureKeeps ==
  ASSUME PortraitsInv, NEW w \in Editors, AddPicture(w)
  PROVE  PortraitsInv'
  <1>1. PICK old : old = editor[w]
    OBVIOUS
  <1>2. /\ old \in Editor /\ HandlersOf(old) /\ "add" \in old.doing
    BY <1>1 DEF PortraitsInv, PortraitsTypeOK, AddPicture
  <1>3. old.at = "events"
    BY <1>2 DEF HandlersOf
  <1>4. "add" \in PictureEvents(old.copy, old.to)
    BY <1>2, <1>3 DEF HandlersOf
  <1>5. old.to \in Pictures
    BY <1>4 DEF PictureEvents
  <1>6. PICK e : e = [old EXCEPT !.doing = old.doing \ {"add"},
                                !.done = old.done \cup {"add"}]
    OBVIOUS
  <1>7. /\ e \in Editor /\ e.at = "events" /\ e.copy = old.copy /\ e.to = old.to
        /\ e.doing = old.doing \ {"add"} /\ e.done = old.done \cup {"add"}
    BY <1>2, <1>3, <1>6 DEF Editor
  <1>8. /\ pictureFiles' = pictureFiles \cup {old.to}
        /\ editor' = [editor EXCEPT ![w] = e]
        /\ UNCHANGED <<owner, pictureRows, unowned>>
    BY <1>1, <1>6 DEF AddPicture, Through, PortraitsInv, PortraitsTypeOK
  <1>9. HandlersOf(e)'
    BY <1>2, <1>3, <1>4, <1>7, <1>8 DEF HandlersOf
  <1> QED BY <1>1, <1>3, <1>5, <1>7, <1>8, <1>9, ThroughKeeps
          DEF PortraitsInv, PortraitsTypeOK
-----------------------------------------------------------------------------
(* The request that had the lock is through, or a request without it.      *)
LEMMA EditEnds ==
  ASSUME PortraitsInv, NEW w \in Editors, editor' = [editor EXCEPT ![w] = NoEdit],
         \/ editor[w].at = "events"
         \/ UNCHANGED <<pictureRows, pictureFiles>>
  PROVE  /\ editor' \in [Editors -> Editor]
         /\ OneWrites'
         /\ (\A x \in Editors : HandlersOf(editor[x]))'
         /\ BeingRemoved \subseteq BeingRemoved' \cup Removed(w)
         /\ editor[w].at = "events" => BeingRemoved' = {}
  <1>1. \A x \in Editors : editor'[x] = IF x = w THEN NoEdit ELSE editor[x]
    BY DEF PortraitsInv, PortraitsTypeOK
  <1>2. OneWrites'
    BY <1>1, NoEditType DEF PortraitsInv, OneWrites
  <1>3. ASSUME NEW x \in Editors PROVE HandlersOf(editor[x])'
    <2>1. CASE x = w
      BY <1>1, <2>1, NoEditType DEF HandlersOf
    <2>2. CASE x # w /\ editor[w].at = "events"
      <3>1. editor'[x] = editor[x] /\ editor[x].at # "events"
        BY <1>1, <2>2, OnlyOne
      <3> QED BY <3>1 DEF PortraitsInv, HandlersOf
    <2>3. CASE x # w /\ UNCHANGED <<pictureRows, pictureFiles>>
      BY <1>1, <2>3 DEF PortraitsInv, HandlersOf
    <2> QED BY <2>1, <2>2, <2>3
  <1>4. BeingRemoved \subseteq BeingRemoved' \cup Removed(w)
    BY <1>1 DEF BeingRemoved, Removed
  <1>5. editor[w].at = "events" => BeingRemoved' = {}
    BY <1>1, NoEditType, OnlyOne DEF BeingRemoved, Removed
  <1>6. editor' \in [Editors -> Editor]
    BY NoEditType DEF PortraitsInv, PortraitsTypeOK
  <1> QED BY <1>2, <1>3, <1>4, <1>5, <1>6

(* The path, the row that is removed and the row that is added are seen    *)
(* together; what another request wrote in between is in the history.      *)
LEMMA CommitOwnerKeeps ==
  ASSUME PortraitsInv, NEW w \in Editors, CommitOwner(w)
  PROVE  PortraitsInv'
  <1>1. PICK e : e = editor[w]
    OBVIOUS
  <1>2. /\ e \in Editor /\ HandlersOf(e) /\ e.at = "events" /\ e.doing = {}
    BY <1>1 DEF PortraitsInv, PortraitsTypeOK, CommitOwner
  <1>3. /\ owner' = e.to
        /\ pictureRows' = (pictureRows \ Removed(w)) \cup Added(w)
        /\ unowned' = Overwrites(w)
        /\ editor' = [editor EXCEPT ![w] = NoEdit]
        /\ pictureFiles' = pictureFiles
    BY <1>1 DEF CommitOwner
  <1>4. /\ editor' \in [Editors -> Editor]
        /\ OneWrites'
        /\ (\A x \in Editors : HandlersOf(editor[x]))'
        /\ BeingRemoved' = {}
    BY <1>1, <1>2, <1>3, EditEnds
  <1>5. /\ Removed(w) = IF "remove" \in e.done THEN {e.copy} ELSE {}
        /\ Added(w) = IF "add" \in e.done THEN {e.to} ELSE {}
    BY <1>1 DEF Removed, Added
  <1>6. /\ e.done \subseteq PictureEvents(e.copy, e.to)
        /\ e.to \in Pictures \ {e.copy} => "add" \in e.done /\ e.to \in pictureFiles
        /\ e.copy \in Pictures \ {e.to} => "remove" \in e.done \/ e.copy \notin pictureRows
    BY <1>2 DEF HandlersOf, PictureEvents
  <1>7. /\ "add" \in e.done => e.to \in Pictures
        /\ "remove" \in e.done => e.copy \in Pictures /\ e.copy # e.to
    BY <1>6 DEF PictureEvents
  <1>8. /\ unowned'.kept = unowned.kept \cup ({owner} \cap (Pictures \ {e.copy}))
        /\ unowned'.broken = unowned.broken \cup
             IF owner # e.copy /\ e.to = e.copy THEN {e.to} \cap Pictures ELSE {}
    BY <1>1, <1>3 DEF Overwrites
  <1>9. PortraitsTypeOK'
    <2>1. unowned' \in [kept : SUBSET Pictures, broken : SUBSET Pictures]
      BY <1>3 DEF Overwrites, PortraitsInv, PortraitsTypeOK
    <2>2. owner' \in Paths \cup {"absent"}
      BY <1>2, <1>3 DEF Editor
    <2>3. pictureRows' \subseteq Pictures
      BY <1>3, <1>5, <1>7 DEF PortraitsInv, PortraitsTypeOK
    <2> QED BY <1>3, <1>4, <2>1, <2>2, <2>3 DEF PortraitsInv, PortraitsTypeOK
  <1>10. OldPortraitIsRemoved'
    <2> SUFFICES ASSUME NEW p \in pictureRows', p # owner' PROVE p \in unowned'.kept
      BY DEF OldPortraitIsRemoved
    <2>1. p \in pictureRows /\ p \notin Removed(w)
      BY <1>3, <1>5
    <2>2. p = owner \/ p \in unowned.kept
      BY <2>1 DEF PortraitsInv, OldPortraitIsRemoved
    <2>3. p \in Pictures
      BY <2>1 DEF PortraitsInv, PortraitsTypeOK
    <2>4. p # e.copy
      BY <1>3, <1>5, <1>6, <2>1, <2>3
    <2> QED BY <1>8, <2>2, <2>3, <2>4
  <1>11. PortraitHasFile'
    <2> SUFFICES ASSUME owner' \in Pictures, owner' \notin unowned'.broken
                 PROVE  owner' \in pictureRows' /\ owner' \in pictureFiles'
      BY DEF PortraitHasFile
    <2>1. CASE e.to # e.copy
      BY <1>3, <1>5, <1>6, <2>1
    <2>2. CASE e.to = e.copy
      <3>1. e.done = {}
        BY <1>6, <2>2 DEF PictureEvents
      <3>2. owner = e.copy /\ owner \notin unowned.broken
        BY <1>3, <1>8, <2>2
      <3>3. BeingRemoved = {}
        BY <1>1, <1>2, <1>5, <3>1, OnlyOne
      <3>4. owner \in pictureRows /\ owner \in pictureFiles
        BY <1>3, <2>2, <3>2, <3>3 DEF PortraitsInv, PortraitHasFile
      <3> QED BY <1>3, <1>5, <2>2, <3>1, <3>2, <3>4
    <2> QED BY <2>1, <2>2
  <1> QED BY <1>4, <1>9, <1>10, <1>11 DEF PortraitsInv

(* What S3 has deleted for a transaction that is rolled back is in the     *)
(* history.                                                                *)
LEMMA FailEditKeeps ==
  ASSUME PortraitsInv, NEW w \in Editors, FailEdit(w)
  PROVE  PortraitsInv'
  <1>1. PICK e : e = editor[w]
    OBVIOUS
  <1>2. e \in Editor /\ HandlersOf(e)
    BY <1>1 DEF PortraitsInv, PortraitsTypeOK
  <1>3. PICK late \in SUBSET e.doing, deleted \in SUBSET {e.copy} :
          /\ "remove" \in e.done => deleted = {e.copy}
          /\ "remove" \notin e.done /\ "remove" \notin late => deleted = {}
          /\ pictureFiles' = (pictureFiles \ deleted) \cup
               IF "add" \in late THEN {e.to} ELSE {}
          /\ unowned' = [unowned EXCEPT !.broken = @ \cup deleted]
    <2>1. PICK late \in SUBSET e.doing :
            LET removing == "remove" \in e.done \cup
                  (IF e.copy \in pictureRows THEN late ELSE {})
                deleted == IF removing THEN {e.copy} ELSE {}
            IN  /\ pictureFiles' = (pictureFiles \ deleted) \cup
                     IF "add" \in late THEN {e.to} ELSE {}
                /\ unowned' = [unowned EXCEPT !.broken = @ \cup deleted]
      BY <1>1 DEF FailEdit
    <2> DEFINE deleted == IF "remove" \in e.done \cup
                               (IF e.copy \in pictureRows THEN late ELSE {})
                          THEN {e.copy} ELSE {}
    <2>2. /\ deleted \in SUBSET {e.copy}
          /\ "remove" \in e.done => deleted = {e.copy}
          /\ "remove" \notin e.done /\ "remove" \notin late => deleted = {}
      OBVIOUS
    <2>3. /\ pictureFiles' = (pictureFiles \ deleted) \cup
               IF "add" \in late THEN {e.to} ELSE {}
          /\ unowned' = [unowned EXCEPT !.broken = @ \cup deleted]
      BY <2>1
    <2> HIDE DEF deleted
    <2> QED BY <2>2, <2>3
  <1>4. /\ editor' = [editor EXCEPT ![w] = NoEdit]
        /\ UNCHANGED <<owner, pictureRows>>
    BY DEF FailEdit
  <1>5. e.at # "events" => deleted = {} /\ late = {}
    BY <1>2, <1>3 DEF HandlersOf
  <1>6. /\ "remove" \in e.done \cup late => e.copy \in Pictures
        /\ "add" \in late => e.to \in Pictures
    BY <1>2, <1>3 DEF HandlersOf, PictureEvents
  <1>7. deleted \subseteq Pictures
    BY <1>3, <1>6
  <1>8. /\ editor' \in [Editors -> Editor]
        /\ OneWrites'
        /\ (\A x \in Editors : HandlersOf(editor[x]))'
        /\ BeingRemoved \subseteq BeingRemoved' \cup Removed(w)
    <2>1. editor[w].at = "events" \/ UNCHANGED <<pictureRows, pictureFiles>>
      BY <1>1, <1>3, <1>4, <1>5
    <2> QED BY <1>4, <2>1, EditEnds
  <1>9. /\ unowned' \in [kept : SUBSET Pictures, broken : SUBSET Pictures]
        /\ unowned'.kept = unowned.kept
        /\ unowned'.broken = unowned.broken \cup deleted
    BY <1>3, <1>7 DEF PortraitsInv, PortraitsTypeOK
  <1>10. pictureFiles' \subseteq Pictures
    BY <1>3, <1>6 DEF PortraitsInv, PortraitsTypeOK
  <1>11. PortraitsTypeOK'
    BY <1>4, <1>8, <1>9, <1>10 DEF PortraitsInv, PortraitsTypeOK
  <1>12. Removed(w) \subseteq deleted
    BY <1>1, <1>3 DEF Removed
  <1>13. PortraitHasFile'
    BY <1>3, <1>4, <1>8, <1>9, <1>12 DEF PortraitsInv, PortraitHasFile
  <1>14. OldPortraitIsRemoved'
    BY <1>4, <1>9 DEF PortraitsInv, OldPortraitIsRemoved
  <1> QED BY <1>8, <1>11, <1>13, <1>14 DEF PortraitsInv
-----------------------------------------------------------------------------
LEMMA NextPortraits == PortraitsInv /\ [PortraitsNext]_portraitVars => PortraitsInv'
  <1> SUFFICES ASSUME PortraitsInv, [PortraitsNext]_portraitVars PROVE PortraitsInv'
    OBVIOUS
  <1>1. CASE UNCHANGED portraitVars
    BY <1>1 DEF portraitVars, PortraitsInv, PortraitsTypeOK, OneWrites, HandlersOf,
                PortraitHasFile, OldPortraitIsRemoved, BeingRemoved, Removed
  <1> QED BY <1>1, EditReadKeeps, CreateOwnerKeeps, WriteOwnerKeeps,
             RemovePictureKeeps, AddPictureKeeps, CommitOwnerKeeps, FailEditKeeps
          DEF PortraitsNext

LEMMA PortraitsInvariant == PortraitsSpec => []PortraitsInv
  BY InitPortraits, NextPortraits, PTL DEF PortraitsSpec

(* Paths, rows, files and requests keep their types.                       *)
THEOREM PortraitsTypeCorrect == PortraitsSpec => []PortraitsTypeOK
  <1>1. PortraitsInv => PortraitsTypeOK
    BY DEF PortraitsInv
  <1> QED BY <1>1, PortraitsInvariant, PTL

(* The picture that is shown has its row and its file, unless S3 was ahead *)
(* of a rollback or the picture was replaced by a stale copy.              *)
THEOREM PortraitsHaveFiles == PortraitsSpec => []PortraitHasFile
  <1>1. PortraitsInv => PortraitHasFile
    BY DEF PortraitsInv
  <1> QED BY <1>1, PortraitsInvariant, PTL

(* No row of a picture outlives it, unless it was overwritten unseen.      *)
THEOREM OldPortraitsGo == PortraitsSpec => []OldPortraitIsRemoved
  <1>1. PortraitsInv => OldPortraitIsRemoved
    BY DEF PortraitsInv
  <1> QED BY <1>1, PortraitsInvariant, PTL
=============================================================================
