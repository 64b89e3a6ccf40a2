------------------------------ MODULE Services ------------------------------
(***************************************************************************)
(* The components that share no row, file or socket with each other, side  *)
(* by side.  What one of them does is invisible to the others, so that a   *)
(* behaviour of one, with the others at rest, shows all that can go wrong  *)
(* in it: scene says which one it is.                                      *)
(***************************************************************************)
EXTENDS PostFiles, Requests, Comments, Chat, Portraits, PostTags

VARIABLE scene

Scenes == {"files", "requests", "comments", "chat", "portraits", "tags"}

serviceVars ==
  <<scene, filesVars, requestVars, commentVars, chatVars, portraitVars, tagVars>>

(* A component that is not in the scene rests in one of its initial states. *)
ServicesInit ==
  /\ scene \in Scenes
  /\ FilesInit /\ RequestsInit /\ ChatInit /\ TagsInit
  /\ CommentsInit /\ PortraitsInit
  /\ scene # "comments" =>
       next = 1 /\ walk.by = "offset" /\ walk.orderBy = "id" /\ walk.order = "asc"
  /\ scene # "portraits" => owner = "absent"

FilesRest     == UNCHANGED filesVars
RequestsRest  == UNCHANGED requestVars
CommentsRest  == UNCHANGED commentVars
ChatRest      == UNCHANGED chatVars
PortraitsRest == UNCHANGED portraitVars
TagsRest      == UNCHANGED tagVars

ServicesNext ==
  \/ /\ scene = "files" /\ FilesNext
     /\ RequestsRest /\ CommentsRest /\ ChatRest /\ PortraitsRest /\ TagsRest
     /\ UNCHANGED scene
  \/ /\ scene = "requests" /\ RequestsNext
     /\ FilesRest /\ CommentsRest /\ ChatRest /\ PortraitsRest /\ TagsRest
     /\ UNCHANGED scene
  \/ /\ scene = "comments" /\ CommentsNext
     /\ FilesRest /\ RequestsRest /\ ChatRest /\ PortraitsRest /\ TagsRest
     /\ UNCHANGED scene
  \/ /\ scene = "chat" /\ ChatNext
     /\ FilesRest /\ RequestsRest /\ CommentsRest /\ PortraitsRest /\ TagsRest
     /\ UNCHANGED scene
  \/ /\ scene = "portraits" /\ PortraitsNext
     /\ FilesRest /\ RequestsRest /\ CommentsRest /\ ChatRest /\ TagsRest
     /\ UNCHANGED scene
  \/ /\ scene = "tags" /\ TagsNext
     /\ FilesRest /\ RequestsRest /\ CommentsRest /\ ChatRest /\ PortraitsRest
     /\ UNCHANGED scene

ServicesSpec ==
  ServicesInit /\ [][ServicesNext]_serviceVars /\ FilesFairness
-----------------------------------------------------------------------------
(* The type invariants of all components of the composition.               *)
ServicesTypeOK ==
  /\ scene \in Scenes
  /\ FilesTypeOK /\ RequestsTypeOK /\ CommentsTypeOK
  /\ ChatTypeOK /\ PortraitsTypeOK /\ TagsTypeOK
=============================================================================
