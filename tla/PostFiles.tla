----------------------------- MODULE PostFiles -----------------------------
(***************************************************************************)
(* The files of one blog post: rows of attachments, objects in S3, the     *)
(* urls in the contents of the post, its thumbnail, and the event handlers *)
(* that keep them together.                                                *)
(*                                                                         *)
(* Files are uploaded first, to temp/, and mentioned in a post later.      *)
(* Creating or patching the post publishes events inside its transaction;  *)
(* their handlers are detached jobs, each in a transaction of its own from *)
(* the moment of the write, committed or not, and their errors reach       *)
(* nobody.  A job copies, or deletes, files in S3 between the writes of    *)
(* its transaction and its COMMIT: S3 knows no transaction.                *)
(*                                                                         *)
(* The author sends one request at a time; two overlapping patches of a    *)
(* post are in CoupleSpace.  The jobs run beside the requests and beside   *)
(* each other, and every request and every job may fail.                   *)
(***************************************************************************)
EXTENDS Naturals, FiniteSets

CONSTANTS
  Atts,        \* identities of attachments; never used twice
  Images,      \* those whose uploadType is IMAGE
  MaxPosts,    \* bound: requests that create or patch the post
  MaxBehind,   \* bound: jobs still running when such a request begins
  MaxLoose,    \* bound: see Loose
  OneBreak,    \* bound: see MayBreak
  None         \* no post, no thumbnail

ASSUME ImagesAssumption == Images \subseteq Atts
ASSUME FilesBoundsAssumption ==
  MaxPosts \in Nat /\ MaxBehind \in Nat /\ MaxLoose \in Nat
ASSUME OneBreakAssumption == OneBreak \in BOOLEAN
ASSUME NoneAssumption == None \notin Atts

VARIABLES
  row,         \* row[a]: where the committed row of attachments says a is
  files,       \* the objects in S3
  links,       \* attachments with a committed row of blog_post_attachments
  post,        \* the committed row of the post, or None
  author,      \* the request of the author
  jobs,        \* the detached handlers that run
  sent,        \* requests that created or patched the post so far
  shown,       \* history: the last body with contents that was committed
  past         \* history: the kinds of trouble there have been

filesVars == <<row, files, links, post, author, jobs, sent, shown, past>>
-----------------------------------------------------------------------------
Places == {"temp", "post"}

(* A url names the attachment and the directory of its path.               *)
Urls == Atts \X Places

ASSUME NoneIsNoUrl == None \notin Urls

Post == [contents : SUBSET Urls, thumb : Atts \cup {None}]

ASSUME NoneIsNoPost == None \notin Post

(* What a request says of files: the urls in its contents, those that are  *)
(* there more than once, and its fileUrls, a field of its own that nothing *)
(* compares with the contents.                                             *)
PostBody == [contents : SUBSET Urls, twice : SUBSET Urls, fileUrls : SUBSET Urls]

Bare == [contents |-> {}, twice |-> {}, fileUrls |-> {}]

(* pc names what the request does next: "write" is the INSERT or UPDATE of *)
(* the post, "commit" the COMMIT.                                          *)
Author ==
  [pc : {"idle", "write", "commit"},
   new : Post \cup {None},            \* the row the request writes
   given : BOOLEAN,                   \* the body has contents
   body : PostBody,
   was : Atts \cup {None},            \* the thumbnail of the copy
   resets : BOOLEAN,                  \* the body has a thumbnail
   ids : SUBSET Atts]                 \* the attachments linked to the copy

Idle == [pc |-> "idle", new |-> None, given |-> FALSE, body |-> Bare,
         was |-> None, resets |-> FALSE, ids |-> {}]

Job ==
  [of : 1 .. MaxPosts,                \* the request that published the event
   does : {"create", "update", "delete", "thumbOff", "thumbOn"},
   pc : {"find", "write", "commit", "drop"},
   body : PostBody,                       \* newContents and fileUrls of the event
   ids : SUBSET Atts,                 \* the attachments the event names
   found : SUBSET Urls]               \* the rows it has read

(* "broken": a request read the post while jobs of an earlier one ran, a   *)
(*   file has been both in the contents and the thumbnail, or a job, or a  *)
(*   request whose jobs had begun, has failed.                             *)
(* "rough": a body named a file by the url or thumbnail it had before, its *)
(*   fileUrls listed a thumbnail or a file of the post that its contents   *)
(*   leave out, or a job on a new post was through before its request.     *)
(* "undone": a job failed after it had deleted its files.                  *)
Trouble == {"rough", "broken", "undone"}

FilesInit ==
  /\ row = [a \in Atts |-> "new"]
  /\ files = {}
  /\ links = {}
  /\ post = None
  /\ author = Idle
  /\ jobs = {}
  /\ sent = 0
  /\ shown = Bare
  /\ past = {}
-----------------------------------------------------------------------------
Stored == {a \in Atts : row[a] \in Places}

(* findByUrls, findByIdsAndUploadType, findOneById: the urls of the rows.  *)
Located(as) == {<<a, row[a]>> : a \in as \cap Stored}

(* Bound: with OneBreak no post request begins, and nothing fails, after   *)
(* the first thing that breaks.                                            *)
MayBreak == OneBreak => "broken" \notin past

AttsOf(us) == {u[1] : u \in us}

At(as, place) == {<<a, place>> : a \in as}

(* Mutant: the old urls stay in the contents.                              *)
Replace_nothing(body, found) == body.contents

(* Mutant: only what was moved is written.                                 *)
Replace_onlyMoved(body, found) ==
  At(AttsOf(body.contents \cap found), "post")

(* JSON.replace of each old url by the new one, where it comes first: an   *)
(* old url that is there more than once stays, too.                        *)
Replace(body, found) ==
  (body.contents \ (found \ body.twice))
    \cup At(AttsOf(body.contents \cap found), "post")

(* A job that has written rows of attachments holds their locks.           *)
Unlocked(as) ==
  \A j \in jobs : j.pc \in {"commit", "drop"} => AttsOf(j.found) \cap as = {}

(* The author's transaction has the row of the post locked.                *)
PostUnlocked == author.pc # "commit"

Becomes(j, k) == jobs' = (jobs \ {j}) \cup {k}

Ends(j) == jobs' = jobs \ {j}
-----------------------------------------------------------------------------
(* CreateAttachmentsCommandHandler, with one file.  Until the COMMIT the   *)
(* url is nobody's, and an upload that fails leaves at most an object in   *)
(* S3 that nobody will name: INSERT, upload and COMMIT are one step.       *)
Upload(a) ==
  /\ row[a] = "new"
  /\ row' = [row EXCEPT ![a] = "temp"]
  /\ files' = files \cup {<<a, "temp">>}
  /\ UNCHANGED <<links, post, author, jobs, sent, shown, past>>
-----------------------------------------------------------------------------
(* What a client may send: contents with files it has uploaded or sees in  *)
(* the post, by the old url, the new one or both.                          *)
Uploaded == {a \in Atts : row[a] # "new"}

Known == At(Uploaded, "temp") \cup IF post = None THEN {} ELSE post.contents

Temps == At(Atts, "temp")

(* How far fileUrls are from listing the new files of the contents, and    *)
(* the contents from naming each file once.                                *)
Distance(c, u) ==
  Cardinality(u.twice)
    + Cardinality(u.fileUrls \ (c \cap Temps))
    + Cardinality((c \cap Temps) \ u.fileUrls)
    + Cardinality({a \in AttsOf(c) : At({a}, "temp") \cup At({a}, "post") \subseteq c})

(* Bound: a body is off by at most MaxLoose urls, by one less in each      *)
(* request.                                                                *)
Loose(contents) ==
  {u \in [twice : SUBSET (contents \cap Temps), fileUrls : SUBSET Known] :
     LET n == Distance(contents, u) IN n = 0 \/ n + sent <= MaxLoose}

Bodies ==
  UNION {{[contents |-> c, twice |-> u.twice, fileUrls |-> u.fileUrls] :
            u \in Loose(c)} : c \in SUBSET Known}

(* IsInFileUrls: the thumbnail is not one of fileUrls.                     *)
Thumbs(body) ==
  {None} \cup {a \in Uploaded : <<a, "temp">> \notin body.fileUrls}

Resends(body, thumb) ==
  \/ \E u \in body.contents \cup body.fileUrls : u \in Temps /\ row[u[1]] # "temp"
  \/ thumb # None /\ row[thumb] # "temp"

(* fileUrls list a file of the post that the contents leave out.           *)
Strays(body) == ~(body.fileUrls \subseteq body.contents \cup Temps)

(* A file of the contents, before or after, is a thumbnail before or after. *)
Shares(old, new) ==
  AttsOf(old.contents \cup new.contents) \cap {old.thumb, new.thumb} # {}

Blank == [contents |-> {}, thumb |-> None]

Notice(body, thumb, old, new) ==
  past' = past
    \cup (IF \/ Resends(body, thumb)
             \/ Strays(body)
             \/ AttsOf(body.fileUrls) \cap {old.thumb, new.thumb} # {}
          THEN {"rough"} ELSE {})
    \cup (IF jobs # {} \/ Shares(old, new) THEN {"broken"} ELSE {})

MayBegin ==
  /\ author = Idle
  /\ sent < MaxPosts
  /\ Cardinality(jobs) <= MaxBehind
  /\ MayBreak

(* CreateBlogPostCommandHandler after its reads of the blog                *)
CreateRead(body, thumb) ==
  LET new == [contents |-> body.contents, thumb |-> thumb]
  IN  /\ author = Idle
      /\ post = None
      /\ author' = [Idle EXCEPT !.pc = "write", !.new = new,
                      !.given = TRUE, !.body = body]
      /\ sent' = sent + 1
      /\ Notice(body, thumb, Blank, new)
      /\ UNCHANGED <<row, files, links, post, jobs, shown>>

(* The row a patch will write carries what the body leaves out as the copy *)
(* has it.                                                                 *)
Patched(given, body, resets, thumb) ==
  [contents |-> IF given THEN body.contents ELSE post.contents,
   thumb |-> IF resets THEN thumb ELSE post.thumb]

(* Mutant: the query leaves the attachments of the post out.               *)
PatchRead_noAttachments(given, body, resets, thumb) ==
  LET new == Patched(given, body, resets, thumb)
  IN  /\ author = Idle
      /\ post # None
      /\ author' = [pc |-> "write", new |-> new, given |-> given, body |-> body,
                     was |-> post.thumb, resets |-> resets, ids |-> {}]
      /\ sent' = sent + 1
      /\ Notice(body, thumb, post, new)
      /\ UNCHANGED <<row, files, links, post, jobs, shown>>

(* PatchUpdateBlogPostCommandHandler after its reads                       *)
PatchRead(given, body, resets, thumb) ==
  LET new == Patched(given, body, resets, thumb)
  IN  /\ author = Idle
      /\ post # None
      /\ author' = [pc |-> "write", new |-> new, given |-> given, body |-> body,
                     was |-> post.thumb, resets |-> resets, ids |-> links]
      /\ sent' = sent + 1
      /\ Notice(body, thumb, post, new)
      /\ UNCHANGED <<row, files, links, post, jobs, shown>>

Start(does, body, ids) ==
  [of |-> sent, does |-> does, pc |-> "find", body |-> body,
   ids |-> ids, found |-> {}]

(* The handlers of BlogPostCreated.                                        *)
CreatedJobs ==
  {Start("create", author.body, {})} \cup
  (IF author.new.thumb = None THEN {}
   ELSE {Start("thumbOn", Bare, {author.new.thumb})})

(* Those of BlogPostUpdated, ...                                           *)
UpdatedJobs ==
  IF ~author.given THEN {}
  ELSE {Start("delete", author.body, author.ids)} \cup
       (IF author.body.fileUrls = {} THEN {} ELSE {Start("update", author.body, {})})

(* Mutant: the new thumbnail is removed for the old one.                   *)
ThumbnailJobs_swapped ==
  IF ~author.resets THEN {}
  ELSE (IF author.new.thumb = None THEN {}
        ELSE {Start("thumbOff", Bare, {author.new.thumb}),
              Start("thumbOn", Bare, {author.new.thumb})})

(* ... and those of BlogPostThumbnailImagePathUpdated: a thumbnail in the  *)
(* body first removes the old one, then sets the new one.                  *)
ThumbnailJobs ==
  IF ~author.resets THEN {}
  ELSE (IF author.was = None THEN {} ELSE {Start("thumbOff", Bare, {author.was})})
       \cup (IF author.new.thumb = None THEN {}
             ELSE {Start("thumbOn", Bare, {author.new.thumb})})

CreateInsert ==
  /\ author.pc = "write"
  /\ post = None
  /\ jobs' = jobs \cup CreatedJobs
  /\ author' = [author EXCEPT !.pc = "commit"]
  /\ UNCHANGED <<row, files, links, post, sent, shown, past>>

PatchUpdate ==
  /\ author.pc = "write"
  /\ post # None
  /\ jobs' = jobs \cup UpdatedJobs \cup ThumbnailJobs
  /\ author' = [author EXCEPT !.pc = "commit"]
  /\ UNCHANGED <<row, files, links, post, sent, shown, past>>

PostCommit ==
  /\ author.pc = "commit"
  /\ post' = author.new
  /\ shown' = IF author.given THEN author.body ELSE shown
  /\ author' = Idle
  /\ UNCHANGED <<row, files, links, jobs, sent, past>>
-----------------------------------------------------------------------------
(* The contents of the post move to the directory of posts                 *)

(* Nothing found ends the handler.                                         *)
FindContents(j) ==
  /\ j.pc = "find"
  /\ LET found == Located(AttsOf(j.body.fileUrls)) \cap j.body.fileUrls
     IN  IF found = {} THEN Ends(j)
         ELSE Becomes(j, [j EXCEPT !.pc = "write", !.found = found])
  /\ UNCHANGED <<row, files, links, post, author, sent, shown, past>>

(* Mutant: the files are moved, the deletion in moveFiles that is commented *)
(* out done.                                                               *)
CopyFiles_andDelete(found) ==
  files' = (files \ (found \cap Temps)) \cup At(AttsOf(found \cap Temps), "post")

(* moveFiles copies, it does not delete: the url in temp/ goes on working. *)
(* changeLocation does nothing when the file is there already.             *)
CopyFiles(found) == files' = files \cup At(AttsOf(found \cap Temps), "post")

(* The UPDATE of a row that is gone fails, and so does a job on contents   *)
(* whose file is not in S3: the row is then deleted and cannot be linked.  *)
(* All that is found is moved, whether the contents mention it or not.     *)
MoveContents(j) ==
  /\ j.pc = "write"
  /\ Unlocked(AttsOf(j.found))
  /\ AttsOf(j.found) \subseteq Stored
  /\ j.found \cap Temps \subseteq files
  /\ CopyFiles(j.found)
  /\ Becomes(j, [j EXCEPT !.pc = "commit"])
  /\ UNCHANGED <<row, links, post, author, sent, shown, past>>

(* updateContents, the links, and the COMMIT: of a post that is committed, *)
(* whatever the contents have become since the event.                      *)
CommitContents(j) ==
  /\ j.pc = "commit"
  /\ post # None
  /\ PostUnlocked
  /\ row' = [a \in Atts |-> IF a \in AttsOf(j.found) THEN "post" ELSE row[a]]
  /\ post' = [post EXCEPT !.contents = Replace(j.body, j.found)]
  /\ links' = links \cup AttsOf(j.found)
  /\ Ends(j)
  /\ UNCHANGED <<files, author, sent, shown, past>>

CreateContents(j) ==
  /\ j.does = "create"
  /\ FindContents(j) \/ MoveContents(j) \/ CommitContents(j)

UpdateContents(j) ==
  /\ j.does = "update"
  /\ FindContents(j) \/ MoveContents(j) \/ CommitContents(j)
-----------------------------------------------------------------------------
(* Deleting attachments: rows, then files, then COMMIT.  The path of the   *)
(* file is that of the row as it was read.                                 *)

(* Mutant: the urls are not looked for in the new contents.                *)
FindRemoved_all(j) ==
  /\ j.pc = "find"
  /\ LET found == Located(j.ids \cap Images)
     IN  IF found = {} THEN Ends(j)
         ELSE Becomes(j, [j EXCEPT !.pc = "write", !.found = found])
  /\ UNCHANGED <<row, files, links, post, author, sent, shown, past>>

FindRemoved(j) ==
  /\ j.pc = "find"
  /\ LET found == Located(j.ids \cap Images) \ j.body.contents
     IN  IF found = {} THEN Ends(j)
         ELSE Becomes(j, [j EXCEPT !.pc = "write", !.found = found])
  /\ UNCHANGED <<row, files, links, post, author, sent, shown, past>>

DeleteFiles(j) ==
  /\ j.pc = "write"
  /\ Unlocked(AttsOf(j.found))
  /\ files' = files \ j.found
  /\ Becomes(j, [j EXCEPT !.pc = "commit"])
  /\ UNCHANGED <<row, links, post, author, sent, shown, past>>

(* Mutant: the row is kept without a path.                                 *)
CommitDelete_kept(j) ==
  /\ j.pc = "commit"
  /\ row' = [a \in Atts |-> IF a \in AttsOf(j.found) THEN None ELSE row[a]]
  /\ links' = links \ AttsOf(j.found)
  /\ Ends(j)
  /\ UNCHANGED <<files, post, author, sent, shown, past>>

(* The foreign key of blog_post_attachments cascades.                      *)
CommitDelete(j) ==
  /\ j.pc = "commit"
  /\ row' = [a \in Atts |-> IF a \in AttsOf(j.found) THEN "gone" ELSE row[a]]
  /\ links' = links \ AttsOf(j.found)
  /\ Ends(j)
  /\ UNCHANGED <<files, post, author, sent, shown, past>>

DeleteRemoved(j) ==
  /\ j.does = "delete"
  /\ FindRemoved(j) \/ DeleteFiles(j) \/ CommitDelete(j)
-----------------------------------------------------------------------------
(* Thumbnails *)

FindThumbnail(j) ==
  /\ j.pc = "find"
  /\ LET found == Located(j.ids)
     IN  IF found = {} THEN Ends(j)
         ELSE Becomes(j, [j EXCEPT !.pc = "write", !.found = found])
  /\ UNCHANGED <<row, files, links, post, author, sent, shown, past>>

(* delete of one row fails when the row is gone, deleteMany does not.      *)
RemoveThumbnail(j) ==
  /\ j.does = "thumbOff"
  /\ \/ FindThumbnail(j)
     \/ AttsOf(j.found) \subseteq Stored /\ DeleteFiles(j)
     \/ CommitDelete(j)

(* Without a file to copy the row is deleted, and here nothing undoes that. *)
MoveThumbnail(j) ==
  /\ j.pc = "write"
  /\ Unlocked(AttsOf(j.found))
  /\ AttsOf(j.found) \subseteq Stored
  /\ \/ /\ j.found \subseteq At(Atts, "post")
        /\ Becomes(j, [j EXCEPT !.pc = "commit"])
        /\ UNCHANGED files
     \/ /\ j.found \subseteq Temps \cap files
        /\ Becomes(j, [j EXCEPT !.pc = "commit"])
        /\ CopyFiles(j.found)
     \/ /\ j.found \subseteq Temps \ files
        /\ Becomes(j, [j EXCEPT !.pc = "drop"])
        /\ UNCHANGED files
  /\ UNCHANGED <<row, links, post, author, sent, shown, past>>

CommitThumbnail(j) ==
  /\ j.pc \in {"commit", "drop"}
  /\ row' = [a \in Atts |-> IF a \notin AttsOf(j.found) THEN row[a]
                            ELSE IF j.pc = "drop" THEN "gone" ELSE "post"]
  /\ links' = IF j.pc = "drop" THEN links \ AttsOf(j.found) ELSE links
  /\ Ends(j)
  /\ UNCHANGED <<files, post, author, sent, shown, past>>

SetThumbnail(j) ==
  /\ j.does = "thumbOn"
  /\ FindThumbnail(j) \/ MoveThumbnail(j) \/ CommitThumbnail(j)
-----------------------------------------------------------------------------
(* Mutant: the update waits for the post to be committed.                  *)
Refused_waitsForPost(j) ==
  /\ j.pc = "write"
  /\ j.does # "delete"
  /\ Unlocked(AttsOf(j.found))
  /\ \/ ~(AttsOf(j.found) \subseteq Stored)
     \/ j.does \in {"create", "update"} /\ ~(j.found \cap Temps \subseteq files)

(* A statement of a job that cannot succeed ends it, and its transaction   *)
(* is rolled back: the row to write is gone, the file to copy is missing,  *)
(* the post is not committed.                                              *)
Refused(j) ==
  \/ /\ j.pc = "write"
     /\ j.does # "delete"
     /\ Unlocked(AttsOf(j.found))
     /\ \/ ~(AttsOf(j.found) \subseteq Stored)
        \/ j.does \in {"create", "update"} /\ ~(j.found \cap Temps \subseteq files)
  \/ /\ j.pc = "commit"
     /\ j.does \in {"create", "update"}
     /\ post = None

RefuseJob(j) ==
  /\ Refused(j)
  /\ Ends(j)
  /\ past' = past \cup (IF post = None THEN {"rough"} ELSE {})
  /\ UNCHANGED <<row, files, links, post, author, sent, shown>>

(* The server, the database or S3 fails.  What S3 has done stays done.     *)
FailJob(j) ==
  /\ MayBreak
  /\ Ends(j)
  /\ past' = past \cup {"broken"} \cup
       (IF j.does \in {"delete", "thumbOff"} /\ j.pc = "commit"
        THEN {"undone"} ELSE {})
  /\ UNCHANGED <<row, files, links, post, author, sent, shown>>

FailRequest ==
  /\ MayBreak
  /\ author # Idle
  /\ past' = IF author.pc = "commit" THEN past \cup {"broken"} ELSE past
  /\ author' = Idle
  /\ UNCHANGED <<row, files, links, post, jobs, sent, shown>>

NewRequest ==
  \/ \E a \in Atts : Upload(a)
  \/ /\ MayBegin
     /\ \E b \in Bodies : \E t \in Thumbs(b) :
          \/ CreateRead(b, t)
          \/ \E g, r \in BOOLEAN :
               /\ g \/ b = Bare
               /\ r \/ t = None
               /\ PatchRead(g, b, r, t)

RequestStep == CreateInsert \/ PatchUpdate \/ PostCommit

Step(j) ==
  \/ CreateContents(j)
  \/ UpdateContents(j)
  \/ DeleteRemoved(j)
  \/ RemoveThumbnail(j)
  \/ SetThumbnail(j)
  \/ RefuseJob(j)

FilesNext ==
  \/ NewRequest
  \/ RequestStep
  \/ FailRequest
  \/ \E j \in jobs : Step(j) \/ FailJob(j)

FilesSpec == FilesInit /\ [][FilesNext]_filesVars

(* The server goes on with the requests and the jobs it has begun.         *)
FilesFairness == WF_filesVars(RequestStep) /\ WF_filesVars(\E j \in jobs : Step(j))

FilesFairSpec == FilesSpec /\ FilesFairness
-----------------------------------------------------------------------------
(* The types of the rows, the files, the request of the author and the     *)
(* detached jobs.                                                          *)
FilesTypeOK ==
  /\ row \in [Atts -> Places \cup {"new", "gone"}]
  /\ files \subseteq Urls
  /\ links \subseteq Atts
  /\ post \in Post \cup {None}
  /\ author \in Author
  /\ jobs \subseteq Job
  /\ sent \in 0 .. MaxPosts
  /\ shown \in PostBody
  /\ past \subseteq Trouble

(* The attachments whose files are deleted and whose rows soon will be.    *)
Deleting == UNION {AttsOf(j.found) : j \in {k \in jobs :
              k.does \in {"delete", "thumbOff"} /\ k.pc = "commit"}}

(* A row of attachments has its file in S3, however uploads, moves and     *)
(* deletions overlap or fail: only a deletion undone by the database after *)
(* S3 has carried it out leaves a row without a file.                      *)
RowHasFile ==
  "undone" \notin past =>
    \A a \in Stored \ Deleting : <<a, row[a]>> \in files

Settled == author = Idle /\ jobs = {} /\ post # None

(* Once the jobs are through, every image of the post can be shown, unless *)
(* a patch came before the jobs of the last were through, a file was used  *)
(* twice or a transaction failed: the files a patch removes are deleted    *)
(* before it commits.                                                      *)
ContentsHaveFiles ==
  Settled /\ "broken" \notin past => post.contents \subseteq files

(* Once the jobs are through, the contents are those of the last patch     *)
(* that committed, with the same exceptions: a detached job that writes    *)
(* contents never brings older ones back.                                  *)
LastPatchShows ==
  Settled /\ "broken" \notin past => AttsOf(post.contents) = AttsOf(shown.contents)

(* When nothing went wrong, every file that the last body listed in        *)
(* fileUrls, mentioned or not, has moved out of temp/ and is linked to the *)
(* post, so that a later patch finds it if it is to be removed; so is what *)
(* the contents show by its new url.  They show the old url only of a file *)
(* that the body did not list, or mentioned twice: nothing compares the    *)
(* two lists, and only the first mention is replaced.                      *)
ListedAreLinked ==
  Settled /\ past = {} =>
    /\ \A a \in AttsOf(shown.fileUrls \cup (post.contents \ Temps)) :
         row[a] = "post" /\ a \in links
    /\ post.contents \cap Temps \cap shown.fileUrls \subseteq shown.twice

(* When nothing went wrong, an image or a thumbnail the post has no more   *)
(* is not kept: the jobs of a patch find all it removes.  What fileUrls    *)
(* list and the contents do not mention stays until the next patch.        *)
NothingIsLeft ==
  Settled /\ past = {} =>
    \A a \in Atts :
      row[a] = "post" /\ (a \in links => a \in Images) =>
        a \in AttsOf(post.contents \cup shown.fileUrls) \cup {post.thumb}

(* When nothing went wrong, the thumbnail of the post has its row and its  *)
(* file in the directory of posts: the job that removes the old thumbnail  *)
(* and the one that sets the new, beside each other, do not mix them up.   *)
ThumbnailHasFile ==
  Settled /\ past = {} /\ post.thumb # None =>
    <<post.thumb, "post">> \in files /\ row[post.thumb] = "post"

(* Every detached handler ends, whoever holds the rows it waits for: it    *)
(* commits, is refused or fails.                                           *)
JobsEnd == jobs # {} ~> jobs = {}
=============================================================================
