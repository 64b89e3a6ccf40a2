------------------------------ MODULE Portraits -----------------------------
(***************************************************************************)
(* The picture of a user or of a blog: profileImagePath, or                *)
(* backgroundImagePath, of its row, the row of attachments at that path    *)
(* and the object in S3.                                                   *)
(*                                                                         *)
(* Unlike the files of a post (PostFiles), a picture is replaced inside    *)
(* the transaction of the request: the event handlers are awaited, beside  *)
(* each other, while the row of the owner is locked.  But S3 is no part of *)
(* the transaction, and a request reads the row before it locks it.        *)
(***************************************************************************)
EXTENDS Naturals, FiniteSets

CONSTANTS
  Editors,     \* requests that write the owner's row at the same time
  Pictures,    \* ids of pictures
  NoPicture    \* the path of an owner without one

ASSUME NoPictureAssumption == Pictures \cap {NoPicture, "absent"} = {}

VARIABLES
  owner,       \* the committed path, or "absent": the blog is not created yet
  pictureRows, \* the committed rows of attachments
  pictureFiles, \* the objects in S3
  editor,      \* the requests
  unowned      \* history: pictures whose row and file went apart from a path

portraitVars == <<owner, pictureRows, pictureFiles, editor, unowned>>

Paths == Pictures \cup {NoPicture}

(* copy: the path the request has read; to: the path it writes; doing: the *)
(* handlers of its events that are not through.                            *)
Editor ==
  [at : {"idle", "write", "events"}, copy : Paths \cup {"absent"}, to : Paths,
   doing : SUBSET {"remove", "add"}, done : SUBSET {"remove", "add"}]

NoEdit == [at |-> "idle", copy |-> NoPicture, to |-> NoPicture,
           doing |-> {}, done |-> {}]

(* A user is created without a picture, a blog perhaps with one.           *)
PortraitsInit ==
  /\ owner \in {NoPicture, "absent"}
  /\ pictureRows = {}
  /\ pictureFiles = {}
  /\ editor = [w \in Editors |-> NoEdit]
  /\ unowned = [kept |-> {}, broken |-> {}]
-----------------------------------------------------------------------------
(* One that nothing refers to any more may stand for a new one.            *)
New == Pictures \ (pictureRows \cup pictureFiles \cup {owner}
                   \cup {editor[w].copy : w \in Editors}
                   \cup {editor[w].to : w \in Editors}
                   \cup unowned.kept \cup unowned.broken)

(* PatchUpdateUserCommandHandler, PatchUpdateBlogCommandHandler: the body  *)
(* leaves the picture as the copy has it, or clears or replaces it.  Other *)
(* writers of a user's row leave it, too.                                  *)
EditRead(w, to) ==
  /\ editor[w] = NoEdit
  /\ to \in {owner, NoPicture} \cup New
  /\ owner # "absent"
  /\ editor' = [editor EXCEPT ![w] =
       [NoEdit EXCEPT !.at = "write", !.copy = owner, !.to = to]]
  /\ UNCHANGED <<owner, pictureRows, pictureFiles, unowned>>

(* CreateBlogCommandHandler; that a couple has one blog is CoupleSpace.    *)
CreateOwner(w, to) ==
  /\ owner = "absent"
  /\ \A v \in Editors : editor[v] = NoEdit
  /\ to \in {NoPicture} \cup New
  /\ editor' = [editor EXCEPT ![w] =
       [NoEdit EXCEPT !.at = "write", !.copy = "absent", !.to = to]]
  /\ UNCHANGED <<owner, pictureRows, pictureFiles, unowned>>

(* Mutant: a picture that is replaced is not removed.                      *)
PictureEvents_addOnly(copy, to) ==
  IF to \in Pictures \ {copy} THEN {"add"}
  ELSE IF copy \in Pictures \ {to} THEN {"remove"} ELSE {}

(* updateProfileImage and updateBackgroundImage: the events of a write.    *)
PictureEvents(copy, to) ==
  (IF copy \in Pictures \ {to} THEN {"remove"} ELSE {})
  \cup (IF to \in Pictures \ {copy} THEN {"add"} ELSE {})

(* The UPDATE waits for a transaction that has the row locked.             *)
OwnerUnlocked(w) == \A v \in Editors \ {w} : editor[v].at # "events"

WriteOwner(w) ==
  /\ editor[w].at = "write"
  /\ OwnerUnlocked(w)
  /\ editor' = [editor EXCEPT ![w].at = "events",
                  ![w].doing = PictureEvents(editor[w].copy, editor[w].to)]
  /\ UNCHANGED <<owner, pictureRows, pictureFiles, unowned>>
-----------------------------------------------------------------------------
Through(w, handler) ==
  editor' = [editor EXCEPT ![w].doing = @ \ {handler},
                           ![w].done = @ \cup {handler}]

(* deletePreviousAttachment: the row found by its path, then the file; no  *)
(* row, nothing to do.                                                     *)
RemovePicture(w) ==
  /\ "remove" \in editor[w].doing
  /\ IF editor[w].copy \in pictureRows
     THEN /\ pictureFiles' = pictureFiles \ {editor[w].copy}
          /\ Through(w, "remove")
     ELSE /\ editor' = [editor EXCEPT ![w].doing = @ \ {"remove"}]
          /\ UNCHANGED pictureFiles
  /\ UNCHANGED <<owner, pictureRows, unowned>>

(* Mutant: the new picture is not uploaded.                                *)
AddPicture_rowOnly(w) ==
  /\ "add" \in editor[w].doing
  /\ Through(w, "add")
  /\ UNCHANGED <<owner, pictureRows, pictureFiles, unowned>>

(* The INSERT, then the upload its event asks for.                         *)
AddPicture(w) ==
  /\ "add" \in editor[w].doing
  /\ pictureFiles' = pictureFiles \cup {editor[w].to}
  /\ Through(w, "add")
  /\ UNCHANGED <<owner, pictureRows, unowned>>

Removed(w) == IF "remove" \in editor[w].done THEN {editor[w].copy} ELSE {}

Added(w) == IF "add" \in editor[w].done THEN {editor[w].to} ELSE {}

(* The path another request has written since this one read it is lost,    *)
(* and an older one may come back.                                         *)
Overwrites(w) ==
  [kept   |-> unowned.kept \cup ({owner} \cap (Pictures \ {editor[w].copy})),
   broken |-> unowned.broken \cup
     IF owner # editor[w].copy /\ editor[w].to = editor[w].copy
     THEN {editor[w].to} \cap Pictures ELSE {}]

CommitOwner(w) ==
  /\ editor[w].at = "events"
  /\ editor[w].doing = {}
  /\ owner' = editor[w].to
  /\ pictureRows' = (pictureRows \ Removed(w)) \cup Added(w)
  /\ unowned' = Overwrites(w)
  /\ editor' = [editor EXCEPT ![w] = NoEdit]
  /\ UNCHANGED pictureFiles

(* The first handler that fails rolls the transaction back; what the other *)
(* has in S3 on its way may still be carried out.                          *)
FailEdit(w) ==
  /\ editor[w].at # "idle"
  /\ \E late \in SUBSET editor[w].doing :
       LET removing == "remove" \in editor[w].done \cup
             (IF editor[w].copy \in pictureRows THEN late ELSE {})
           deleted == IF removing THEN {editor[w].copy} ELSE {}
       IN  /\ pictureFiles' = (pictureFiles \ deleted) \cup
                IF "add" \in late THEN {editor[w].to} ELSE {}
           /\ unowned' = [unowned EXCEPT !.broken = @ \cup deleted]
  /\ editor' = [editor EXCEPT ![w] = NoEdit]
  /\ UNCHANGED <<owner, pictureRows>>

PortraitsNext ==
  \E w \in Editors :
    \/ \E to \in Paths : EditRead(w, to) \/ CreateOwner(w, to)
    \/ WriteOwner(w)
    \/ RemovePicture(w)
    \/ AddPicture(w)
    \/ CommitOwner(w)
    \/ FailEdit(w)

PortraitsSpec == PortraitsInit /\ [][PortraitsNext]_portraitVars
-----------------------------------------------------------------------------
(* The types of the path, its row and its file, and of the requests.       *)
PortraitsTypeOK ==
  /\ owner \in Paths \cup {"absent"}
  /\ pictureRows \subseteq Pictures
  /\ pictureFiles \subseteq Pictures
  /\ editor \in [Editors -> Editor]
  /\ unowned \in [kept : SUBSET Pictures, broken : SUBSET Pictures]

(* The files a running transaction has deleted, the rows not.              *)
BeingRemoved == UNION {Removed(w) : w \in Editors}

(* The picture an owner shows has its row and its file, however requests   *)
(* overlap, unless a transaction was rolled back after S3 had deleted the  *)
(* file, or a request that left the picture alone wrote back, with the     *)
(* whole row, one that had been replaced since it read it.                 *)
PortraitHasFile ==
  owner \in Pictures \ (unowned.broken \cup BeingRemoved) =>
    owner \in pictureRows /\ owner \in pictureFiles

(* A picture that is shown no more is not kept, unless a request that had  *)
(* not seen it overwrote it.                                               *)
OldPortraitIsRemoved == pictureRows \subseteq {owner} \cup unowned.kept
=============================================================================
