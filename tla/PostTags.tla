------------------------------ MODULE PostTags -----------------------------
(***************************************************************************)
(* The tags of blog posts: requests that create or patch posts, and the    *)
(* event handlers that, awaited in the transaction of the request, replace *)
(* the links of a post by the tags its body names, and create the tags     *)
(* that are missing.                                                       *)
(*                                                                         *)
(* The database runs at READ COMMITTED: a statement sees what is           *)
(* committed, and its own transaction.  The name of a tag is unique: an    *)
(* INSERT waits for a transaction that has inserted the same name, and     *)
(* fails when that one commits.                                            *)
(***************************************************************************)
EXTENDS Naturals, FiniteSets

CONSTANTS
  Taggers,     \* requests at the same time
  TagPosts,    \* identities of posts
  TagNames     \* names of tags

ASSUME TagPostsAssumption == TagPosts # {}

VARIABLES
  tagged,      \* posts with a committed row
  tags,        \* the names with a committed row of tags
  tagLinks,    \* tagLinks[p]: the committed rows of blog_post_tags of p
  tagger,      \* the requests
  asked        \* history: the tags of the last committed request for a post

tagVars == <<tagged, tags, tagLinks, tagger, asked>>

(* names: the tags of the body; found: those its query found; added: those *)
(* its transaction has inserted; removed: the links it has deleted.        *)
Tagger ==
  [at : {"idle", "write", "unlink", "find", "insert", "link", "commit"},
   post : TagPosts, names : SUBSET TagNames, found : SUBSET TagNames,
   added : SUBSET TagNames, removed : SUBSET TagNames]

NoTagger ==
  [at |-> "idle", post |-> CHOOSE p \in TagPosts : TRUE, names |-> {},
   found |-> {}, added |-> {}, removed |-> {}]

TagsInit ==
  /\ tagged = {}
  /\ tags = {}
  /\ tagLinks = [p \in TagPosts |-> {}]
  /\ tagger = [w \in Taggers |-> NoTagger]
  /\ asked = [p \in TagPosts |-> {}]

Moves(w, to) == tagger' = [tagger EXCEPT ![w] = to]
-----------------------------------------------------------------------------
(* A body without tagNames has none: the DTO of a patch inherits the       *)
(* default of the DTO of a creation, the empty list.                       *)
TagRequest(w, p, names) ==
  /\ tagger[w].at = "idle"
  /\ p \in tagged \/ \A v \in Taggers : tagger[v].at = "idle" \/ tagger[v].post # p
  /\ Moves(w, [NoTagger EXCEPT !.at = "write", !.post = p, !.names = names])
  /\ UNCHANGED <<tagged, tags, tagLinks, asked>>

(* Mutant: the row of the post is written after its links.                 *)
TagPostUnlocked_always(w) == TRUE

(* The row of the post is written first, and stays locked.                 *)
TagPostUnlocked(w) ==
  \A v \in Taggers \ {w} :
    tagger[v].post = tagger[w].post => tagger[v].at \in {"idle", "write"}

(* A new post has no links to delete.                                      *)
WriteTaggedPost(w) ==
  /\ tagger[w].at = "write"
  /\ TagPostUnlocked(w)
  /\ Moves(w, [tagger[w] EXCEPT !.at =
       IF tagger[w].post \in tagged THEN "unlink" ELSE "find"])
  /\ UNCHANGED <<tagged, tags, tagLinks, asked>>

(* UpdateTagsWhenBlogPostUpdated...: bulkDeleteByBlogPostId.               *)
UnlinkTags(w) ==
  /\ tagger[w].at = "unlink"
  /\ Moves(w, [tagger[w] EXCEPT
       !.removed = tagLinks[tagger[w].post],
       !.at = IF tagger[w].names = {} THEN "commit" ELSE "find"])
  /\ UNCHANGED <<tagged, tags, tagLinks, asked>>

(* CreateNewTagsCommandHandler: the query, ...                             *)
FindTags(w) ==
  /\ tagger[w].at = "find"
  /\ Moves(w, [tagger[w] EXCEPT !.found = tags \cap tagger[w].names,
                                !.at = "insert"])
  /\ UNCHANGED <<tagged, tags, tagLinks, asked>>

MissingTags(w) == tagger[w].names \ (tagger[w].found \cup tagger[w].added)

(* ... and one row of its INSERT, in any order of the names.               *)
InsertTag(w, name) ==
  /\ tagger[w].at = "insert"
  /\ name \in MissingTags(w) \ tags
  /\ \A v \in Taggers : name \notin tagger[v].added
  /\ Moves(w, [tagger[w] EXCEPT !.added = @ \cup {name}])
  /\ UNCHANGED <<tagged, tags, tagLinks, asked>>

TagsInserted(w) ==
  /\ tagger[w].at = "insert"
  /\ MissingTags(w) = {}
  /\ Moves(w, [tagger[w] EXCEPT !.at = "link"])
  /\ UNCHANGED <<tagged, tags, tagLinks, asked>>

(* The ids CreateNewTagsCommand returns: the found ones and the new ones.  *)
LinkedTags(w) == tagger[w].found \cup tagger[w].added

LinkTags(w) ==
  /\ tagger[w].at = "link"
  /\ LinkedTags(w) \cap (tagLinks[tagger[w].post] \ tagger[w].removed) = {}
  /\ Moves(w, [tagger[w] EXCEPT !.at = "commit"])
  /\ UNCHANGED <<tagged, tags, tagLinks, asked>>

CommitTags(w) ==
  LET p == tagger[w].post
  IN  /\ tagger[w].at = "commit"
      /\ tagged' = tagged \cup {p}
      /\ tags' = tags \cup tagger[w].added
      /\ tagLinks' = [tagLinks EXCEPT ![p] =
           (@ \ tagger[w].removed) \cup LinkedTags(w)]
      /\ asked' = [asked EXCEPT ![p] = tagger[w].names]
      /\ Moves(w, NoTagger)

(* The name, or the link, is there: the constraint fails.  Two that wait   *)
(* for each other's names, or any other trouble: rolled back, too.         *)
RollBackTags(w) ==
  /\ tagger[w].at # "idle"
  /\ Moves(w, NoTagger)
  /\ UNCHANGED <<tagged, tags, tagLinks, asked>>

TagsNext ==
  \E w \in Taggers :
    \/ \E p \in TagPosts, names \in SUBSET TagNames : TagRequest(w, p, names)
    \/ WriteTaggedPost(w)
    \/ UnlinkTags(w)
    \/ FindTags(w)
    \/ \E name \in TagNames : InsertTag(w, name)
    \/ TagsInserted(w)
    \/ LinkTags(w)
    \/ CommitTags(w)
    \/ RollBackTags(w)

TagsSpec == TagsInit /\ [][TagsNext]_tagVars
-----------------------------------------------------------------------------
(* The types of the rows and the requests.                                 *)
TagsTypeOK ==
  /\ tagged \subseteq TagPosts
  /\ tags \subseteq TagNames
  /\ tagLinks \in [TagPosts -> SUBSET TagNames]
  /\ tagger \in [Taggers -> Tagger]
  /\ asked \in [TagPosts -> SUBSET TagNames]

(* The tags of a post are those of the last request that committed, all of *)
(* them and no others, and each is a tag there is, whichever requests for  *)
(* this and other posts overlap, share names or fail.                      *)
PostTagsAreLast ==
  \A p \in tagged : tagLinks[p] = asked[p] /\ tagLinks[p] \subseteq tags
=============================================================================
