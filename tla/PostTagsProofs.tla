--------------------------- MODULE PostTagsProofs ---------------------------
(***************************************************************************)
(* The tags of a post are those of the last request that committed, for    *)
(* any number of requests, posts and names.                                *)
(*                                                                         *)
(* What carries the proof is the lock on the row of the post: from the     *)
(* write of the row to the COMMIT a request is the only one that changes   *)
(* the links of its post, so that those it has deleted are all there are.  *)
(***************************************************************************)
EXTENDS PostTags, TLAPS

Locking == {"unlink", "find", "insert", "link", "commit"}

(* Two requests do not have the row of one post locked.                    *)
PostLocksExclude ==
  \A v, w \in Taggers :
    /\ v # w
    /\ tagger[v].at \in Locking
    /\ tagger[w].at \in Locking
    => tagger[v].post # tagger[w].post

(* A post that is not committed has no links.                              *)
NewPostsAreBare == \A p \in TagPosts \ tagged : tagLinks[p] = {}

(* What a request knows of the tags and links at its step.                 *)
KnowsItsTags(r) ==
  /\ r.found \subseteq r.names \cap tags
  /\ r.added \subseteq r.names
  /\ r.at \in {"write", "unlink", "find"} => r.found = {} /\ r.added = {}
  /\ r.at = "write" => r.removed = {}
  /\ r.at \in {"find", "insert", "link", "commit"} =>
       r.removed = tagLinks[r.post]
  /\ r.at \in {"link", "commit"} => r.names = r.found \cup r.added

TagsInv ==
  /\ TagsTypeOK
  /\ PostLocksExclude
  /\ NewPostsAreBare
  /\ \A w \in Taggers : KnowsItsTags(tagger[w])
  /\ PostTagsAreLast

(* A request that is through.                                             *)
LEMMA NoTaggerType == NoTagger \in Tagger
  <1>1. (CHOOSE p \in TagPosts : TRUE) \in TagPosts
    BY TagPostsAssumption
  <1> QED BY <1>1 DEF NoTagger, Tagger

(* It holds nothing and knows nothing.                                     *)
LEMMA NoTaggerRests ==
  /\ NoTagger.at = "idle"
  /\ NoTagger.found = {} /\ NoTagger.added = {} /\ NoTagger.names = {}
  BY DEF NoTagger

(* No post, no tag, no request.                                            *)
LEMMA InitTags == TagsInit => TagsInv
  <1> SUFFICES ASSUME TagsInit PROVE TagsInv
    OBVIOUS
  <1> USE DEF TagsInit
  <1>1. TagsTypeOK
    BY NoTaggerType DEF TagsTypeOK
  <1>2. PostLocksExclude
    BY DEF PostLocksExclude, Locking, NoTagger
  <1>3. NewPostsAreBare /\ PostTagsAreLast
    BY DEF NewPostsAreBare, PostTagsAreLast
  <1>4. ASSUME NEW w \in Taggers PROVE KnowsItsTags(tagger[w])
    BY DEF KnowsItsTags, NoTagger
  <1> QED BY <1>1, <1>2, <1>3, <1>4 DEF TagsInv

(* A step of one request that leaves the tables alone.                     *)
LEMMA OwnStep ==
  ASSUME TagsInv, NEW w \in Taggers, NEW r \in Tagger, Moves(w, r),
         UNCHANGED <<tagged, tags, tagLinks, asked>>, KnowsItsTags(r),
         r.at \in Locking =>
           \A v \in Taggers \ {w} :
             tagger[v].at \in Locking => tagger[v].post # r.post
  PROVE  TagsInv'
  <1> USE DEF TagsInv
  <1>1. \A v \in Taggers : tagger'[v] = IF v = w THEN r ELSE tagger[v]
    BY DEF Moves, TagsTypeOK
  <1>2. TagsTypeOK'
    BY DEF TagsTypeOK, Moves
  <1>3. PostLocksExclude'
    BY <1>1 DEF PostLocksExclude
  <1>4. NewPostsAreBare' /\ PostTagsAreLast'
    BY DEF NewPostsAreBare, PostTagsAreLast
  <1>5. ASSUME NEW v \in Taggers PROVE KnowsItsTags(tagger[v])'
    BY <1>1 DEF KnowsItsTags
  <1> QED BY <1>2, <1>3, <1>4, <1>5

(* The COMMIT, which nobody else's links or tags depend on.                *)
LEMMA CommitStep ==
  ASSUME TagsInv, NEW w \in Taggers, CommitTags(w)
  PROVE  TagsInv'
  <1> USE DEF TagsInv
  <1> DEFINE r == tagger[w]
  <1>1. r \in Tagger /\ r.at = "commit"
    BY DEF CommitTags, TagsTypeOK
  <1>2. \A v \in Taggers : tagger'[v] = IF v = w THEN NoTagger ELSE tagger[v]
    BY DEF CommitTags, Moves, TagsTypeOK
  <1>3. tags \subseteq tags' /\ r.added \subseteq tags' /\ tagged' = tagged \cup {r.post}
    BY DEF CommitTags
  <1>4. (tagLinks[r.post] \ r.removed) \cup LinkedTags(w) = r.names
    BY <1>1 DEF KnowsItsTags, LinkedTags
  <1>5. /\ tagLinks' = [tagLinks EXCEPT ![r.post] = r.names]
        /\ asked' = [asked EXCEPT ![r.post] = r.names]
    BY <1>4 DEF CommitTags
  <1>6. r.post \in TagPosts /\ r.names \subseteq TagNames /\ r.added \subseteq TagNames
    BY <1>1 DEF Tagger
  <1>7. TagsTypeOK'
    <2>1. tagged' \subseteq TagPosts /\ tags' \subseteq TagNames
      BY <1>3, <1>6 DEF TagsTypeOK, CommitTags
    <2>2. tagger' \in [Taggers -> Tagger]
      BY NoTaggerType DEF TagsTypeOK, CommitTags, Moves
    <2>3. tagLinks' \in [TagPosts -> SUBSET TagNames] /\ asked' \in [TagPosts -> SUBSET TagNames]
      BY <1>5, <1>6 DEF TagsTypeOK
    <2> QED BY <2>1, <2>2, <2>3 DEF TagsTypeOK
  <1>8. PostLocksExclude'
    BY <1>2, NoTaggerRests DEF PostLocksExclude, Locking
  <1>9. NewPostsAreBare'
    BY <1>3, <1>5 DEF NewPostsAreBare, TagsTypeOK
  <1>10. ASSUME NEW v \in Taggers PROVE KnowsItsTags(tagger[v])'
    <2>1. CASE v = w
      BY <1>2, <2>1, NoTaggerRests DEF KnowsItsTags
    <2>2. CASE v # w
      <3>1. tagger[v] \in Tagger
        BY DEF TagsTypeOK
      <3>2. tagger[v].at \in Locking => tagger[v].post # r.post
        BY <2>2, <1>1 DEF PostLocksExclude, Locking
      <3>3. tagger[v].at \in {"find", "insert", "link", "commit"} =>
              tagLinks'[tagger[v].post] = tagLinks[tagger[v].post]
        BY <1>5, <3>1, <3>2 DEF Locking, TagsTypeOK, Tagger
      <3> QED BY <1>2, <1>3, <2>2, <3>3 DEF KnowsItsTags
    <2> QED BY <2>1, <2>2
  <1>11. PostTagsAreLast'
    <2>1. ASSUME NEW p \in tagged'
          PROVE  tagLinks'[p] = asked'[p] /\ tagLinks'[p] \subseteq tags'
      <3>1. CASE p = r.post
        <4>1. r.names \subseteq tags'
          BY <1>1, <1>3 DEF KnowsItsTags
        <4> QED BY <3>1, <4>1, <1>5, <1>6 DEF TagsTypeOK
      <3>2. CASE p # r.post
        <4>1. p \in tagged /\ p \in TagPosts
          BY <3>2, <1>3 DEF TagsTypeOK
        <4> QED BY <3>2, <4>1, <1>3, <1>5 DEF TagsTypeOK, PostTagsAreLast
      <3> QED BY <3>1, <3>2
    <2> QED BY <2>1 DEF PostTagsAreLast
  <1> QED BY <1>7, <1>8, <1>9, <1>10, <1>11

(* Every step keeps the invariant.                                         *)
LEMMA NextTags == TagsInv /\ [TagsNext]_tagVars => TagsInv'
  <1> SUFFICES ASSUME TagsInv, [TagsNext]_tagVars PROVE TagsInv'
    OBVIOUS
  <1>0. CASE UNCHANGED tagVars
    BY <1>0 DEF tagVars, TagsInv, TagsTypeOK, PostLocksExclude, NewPostsAreBare,
                KnowsItsTags, PostTagsAreLast
  <1> SUFFICES ASSUME TagsNext PROVE TagsInv'
    BY <1>0
  <1> PICK w \in Taggers :
        \/ \E p \in TagPosts, names \in SUBSET TagNames : TagRequest(w, p, names)
        \/ WriteTaggedPost(w)
        \/ UnlinkTags(w)
        \/ FindTags(w)
        \/ \E name \in TagNames : InsertTag(w, name)
        \/ TagsInserted(w)
        \/ LinkTags(w)
        \/ CommitTags(w)
        \/ RollBackTags(w)
    BY DEF TagsNext
  <1> DEFINE r == tagger[w]
  <1>a. /\ r \in Tagger
        /\ KnowsItsTags(r)
        /\ tagLinks \in [TagPosts -> SUBSET TagNames]
        /\ tags \subseteq TagNames
    BY DEF TagsInv, TagsTypeOK
  <1>b. r.at \in Locking =>
          \A v \in Taggers \ {w} : tagger[v].at \in Locking => tagger[v].post # r.post
    BY DEF TagsInv, PostLocksExclude
  <1>1. ASSUME NEW p \in TagPosts, NEW names \in SUBSET TagNames,
               TagRequest(w, p, names)
        PROVE  TagsInv'
    <2> DEFINE n == [NoTagger EXCEPT !.at = "write", !.post = p, !.names = names]
    <2>1. n \in Tagger
      BY NoTaggerType DEF Tagger
    <2>2. n.at = "write" /\ KnowsItsTags(n)
      BY DEF KnowsItsTags, NoTagger
    <2>3. Moves(w, n) /\ UNCHANGED <<tagged, tags, tagLinks, asked>>
      BY <1>1 DEF TagRequest
    <2> HIDE DEF n
    <2> QED BY <2>1, <2>2, <2>3, OwnStep DEF Locking
  <1>2. CASE WriteTaggedPost(w)
    <2> DEFINE n == [r EXCEPT !.at = IF r.post \in tagged THEN "unlink" ELSE "find"]
    <2>1. n \in Tagger /\ n.post = r.post
      BY <1>a DEF Tagger
    <2>2. r.at = "write" /\ r.post \in TagPosts
      BY <1>2, <1>a DEF WriteTaggedPost, Tagger
    <2>3. KnowsItsTags(n)
      <3>1. r.post \notin tagged => r.removed = tagLinks[r.post]
        BY <2>2, <1>a DEF KnowsItsTags, TagsInv, NewPostsAreBare
      <3>2. n.at \in {"unlink", "find"} /\ (n.at = "find" => r.post \notin tagged)
        BY <1>a DEF Tagger
      <3>3. /\ n.found = r.found /\ n.added = r.added /\ n.names = r.names
            /\ n.removed = r.removed
        BY <1>a DEF Tagger
      <3> QED BY <2>1, <2>2, <3>1, <3>2, <3>3, <1>a DEF KnowsItsTags
    <2>4. Moves(w, n) /\ UNCHANGED <<tagged, tags, tagLinks, asked>>
      BY <1>2 DEF WriteTaggedPost
    <2>5. \A v \in Taggers \ {w} : tagger[v].at \in Locking => tagger[v].post # n.post
      BY <1>2, <2>1 DEF WriteTaggedPost, TagPostUnlocked, Locking
    <2> HIDE DEF n
    <2> QED BY <2>1, <2>3, <2>4, <2>5, OwnStep
  <1>3. CASE UnlinkTags(w)
    <2> DEFINE n == [r EXCEPT !.removed = tagLinks[r.post],
                              !.at = IF r.names = {} THEN "commit" ELSE "find"]
    <2>1. r.at = "unlink" /\ tagLinks[r.post] \in SUBSET TagNames
      BY <1>3, <1>a DEF UnlinkTags, Tagger
    <2>2. n \in Tagger /\ n.post = r.post
      BY <1>a, <2>1 DEF Tagger
    <2>3. KnowsItsTags(n)
      BY <1>a, <2>1 DEF KnowsItsTags, Tagger
    <2>4. Moves(w, n) /\ UNCHANGED <<tagged, tags, tagLinks, asked>>
      BY <1>3 DEF UnlinkTags
    <2> HIDE DEF n
    <2> QED BY <1>b, <2>1, <2>2, <2>3, <2>4, OwnStep DEF Locking
  <1>4. CASE FindTags(w)
    <2> DEFINE n == [r EXCEPT !.found = tags \cap r.names, !.at = "insert"]
    <2>1. r.at = "find"
      BY <1>4 DEF FindTags
    <2>2. n \in Tagger /\ n.post = r.post
      BY <1>a DEF Tagger
    <2>3. KnowsItsTags(n)
      BY <1>a, <2>1 DEF KnowsItsTags, Tagger
    <2>4. Moves(w, n) /\ UNCHANGED <<tagged, tags, tagLinks, asked>>
      BY <1>4 DEF FindTags
    <2> HIDE DEF n
    <2> QED BY <1>b, <2>1, <2>2, <2>3, <2>4, OwnStep DEF Locking
  <1>5. ASSUME NEW name \in TagNames, InsertTag(w, name) PROVE TagsInv'
    <2> DEFINE n == [r EXCEPT !.added = @ \cup {name}]
    <2>1. r.at = "insert" /\ name \in r.names
      BY <1>5 DEF InsertTag, MissingTags
    <2>2. n \in Tagger /\ n.post = r.post /\ n.at = r.at
      BY <1>a, <2>1 DEF Tagger
    <2>3. KnowsItsTags(n)
      BY <1>a, <2>1 DEF KnowsItsTags, Tagger
    <2>4. Moves(w, n) /\ UNCHANGED <<tagged, tags, tagLinks, asked>>
      BY <1>5 DEF InsertTag
    <2> HIDE DEF n
    <2> QED BY <1>b, <2>2, <2>3, <2>4, OwnStep
  <1>6. CASE TagsInserted(w)
    <2> DEFINE n == [r EXCEPT !.at = "link"]
    <2>1. r.at = "insert" /\ r.names \subseteq r.found \cup r.added
      BY <1>6 DEF TagsInserted, MissingTags
    <2>2. n \in Tagger /\ n.post = r.post
      BY <1>a DEF Tagger
    <2>3. KnowsItsTags(n)
      BY <1>a, <2>1 DEF KnowsItsTags, Tagger
    <2>4. Moves(w, n) /\ UNCHANGED <<tagged, tags, tagLinks, asked>>
      BY <1>6 DEF TagsInserted
    <2> HIDE DEF n
    <2> QED BY <1>b, <2>1, <2>2, <2>3, <2>4, OwnStep DEF Locking
  <1>7. CASE LinkTags(w)
    <2> DEFINE n == [r EXCEPT !.at = "commit"]
    <2>1. r.at = "link"
      BY <1>7 DEF LinkTags
    <2>2. n \in Tagger /\ n.post = r.post
      BY <1>a DEF Tagger
    <2>3. KnowsItsTags(n)
      BY <1>a, <2>1 DEF KnowsItsTags, Tagger
    <2>4. Moves(w, n) /\ UNCHANGED <<tagged, tags, tagLinks, asked>>
      BY <1>7 DEF LinkTags
    <2> HIDE DEF n
    <2> QED BY <1>b, <2>1, <2>2, <2>3, <2>4, OwnStep DEF Locking
  <1>8. CASE CommitTags(w)
    BY <1>8, CommitStep
  <1>9. CASE RollBackTags(w)
    <2>1. NoTagger.at = "idle" /\ KnowsItsTags(NoTagger)
      BY DEF KnowsItsTags, NoTagger
    <2>2. Moves(w, NoTagger) /\ UNCHANGED <<tagged, tags, tagLinks, asked>>
      BY <1>9 DEF RollBackTags
    <2> QED BY <2>1, <2>2, NoTaggerType, OwnStep DEF Locking
  <1> QED BY <1>1, <1>2, <1>3, <1>4, <1>5, <1>6, <1>7, <1>8, <1>9

(* For any requests, posts and names: the tags of a post are those of its  *)
(* last committed request, and each of them has its row, however requests  *)
(* overlap, race for a new name, or are rolled back.                       *)
THEOREM TagsAreLast == TagsSpec => []PostTagsAreLast
  <1>1. TagsInv => PostTagsAreLast
    BY DEF TagsInv
  <1> QED BY <1>1, InitTags, NextTags, PTL DEF TagsSpec

(* The rows and the requests keep their types.                             *)
THEOREM TagsTypeCorrect == TagsSpec => []TagsTypeOK
  <1>1. TagsInv => TagsTypeOK
    BY DEF TagsInv
  <1> QED BY <1>1, InitTags, NextTags, PTL DEF TagsSpec
=============================================================================
