--------------------------- MODULE PostFilesProofs ---------------------------
(***************************************************************************)
(* A row of attachments has its file in S3, for any number of files, posts *)
(* and handlers, whatever overlaps and whatever fails, but for a deletion  *)
(* the database takes back after S3 has carried it out; and a post whose   *)
(* handlers are through has what its last patch named, and no more, unless *)
(* what past records has happened.                                         *)
(*                                                                         *)
(* The first proof rests on the locks of the rows: of the handlers that    *)
(* have written rows and not committed, no two have written the same, and  *)
(* so the file one has copied for a row is not deleted for another.  The   *)
(* second, from SettledInv on, rests on what a request leaves its handlers *)
(* to do: no two of them are about the same file.                          *)
(***************************************************************************)
EXTENDS PostFiles, TLAPS

Removes(j) == j.does \in {"delete", "thumbOff"}

Locks(j) == j.pc \in {"commit", "drop"}

(* A row that was in the directory of posts does not leave it; what has    *)
(* been copied is there.                                                   *)
JobOK(j) ==
  /\ j.pc = "drop" => j.does = "thumbOn"
  /\ \A a \in Atts : <<a, "post">> \in j.found => row[a] \in {"post", "gone"}
  /\ (j.pc = "commit" /\ ~Removes(j) /\ "undone" \notin past) =>
       \A a \in AttsOf(j.found) : <<a, "post">> \in files

LocksExclude ==
  \A j, k \in jobs : Locks(j) /\ Locks(k) /\ j # k =>
    AttsOf(j.found) \cap AttsOf(k.found) = {}

AuthorOK == author.pc # "idle" => author.new \in Post /\ sent >= 1

FilesInv ==
  /\ FilesTypeOK
  /\ AuthorOK
  /\ \A j \in jobs : JobOK(j)
  /\ LocksExclude
  /\ RowHasFile
-----------------------------------------------------------------------------
(* The attachments of a set of urls.                                       *)
LEMMA UrlFacts ==
  ASSUME NEW us \in SUBSET Urls
  PROVE  /\ AttsOf(us) \subseteq Atts
         /\ \A a \in AttsOf(us) : <<a, "temp">> \in us \/ <<a, "post">> \in us
         /\ \A a, p : <<a, p>> \in us => a \in AttsOf(us) /\ p \in Places
  <1>1. \A u \in us : u \in Atts \X Places
    BY DEF Urls
  <1>2. \A u \in Atts \X Places :
          /\ u[1] \in Atts /\ u[2] \in Places /\ u = <<u[1], u[2]>>
    OBVIOUS
  <1>3. \A a \in AttsOf(us) : a \in Atts /\ \E p \in Places : <<a, p>> \in us
    BY <1>1, <1>2 DEF AttsOf
  <1>4. ASSUME NEW a, NEW p, <<a, p>> \in us
        PROVE  a \in AttsOf(us) /\ p \in Places
    <2>1. <<a, p>> \in Atts \X Places
      BY <1>1, <1>4
    <2>2. a = <<a, p>>[1]
      OBVIOUS
    <2> QED BY <1>4, <2>1, <2>2 DEF AttsOf
  <1> QED BY <1>3, <1>4 DEF Places

(* A url is an attachment and a place.                                     *)
LEMMA PairFacts ==
  /\ \A a, p, b, q : <<a, p>> = <<b, q>> => a = b /\ p = q
  /\ \A a, p : <<a, p>>[1] = a
  /\ \A a \in Atts, p \in Places : <<a, p>> \in Urls
  <1>1. ASSUME NEW a, NEW p, NEW b, NEW q, <<a, p>> = <<b, q>>
        PROVE  a = b /\ p = q
    <2>1. <<a, p>>[1] = <<b, q>>[1] /\ <<a, p>>[2] = <<b, q>>[2]
      BY <1>1
    <2> QED BY <2>1
  <1>2. \A a \in Atts, p \in Places : <<a, p>> \in Urls
    BY DEF Urls
  <1> QED BY <1>1, <1>2

(* The urls of attachments at one place.                                   *)
LEMMA AtFacts ==
  ASSUME NEW as \in SUBSET Atts, NEW p \in Places
  PROVE  /\ At(as, p) \subseteq Urls
         /\ AttsOf(At(as, p)) = as
         /\ \A a, q : <<a, q>> \in At(as, p) <=> a \in as /\ q = p
  <1>1. \A u : u \in At(as, p) <=> \E a \in as : u = <<a, p>>
    BY DEF At
  <1>2. ASSUME NEW u \in At(as, p) PROVE u \in Urls /\ u[1] \in as
    <2>1. PICK a \in as : u = <<a, p>>
      BY <1>1
    <2>2. <<a, p>> \in Urls /\ <<a, p>>[1] = a
      BY PairFacts
    <2> QED BY <2>1, <2>2
  <1>3. ASSUME NEW a, NEW q PROVE <<a, q>> \in At(as, p) <=> a \in as /\ q = p
    <2>1. ASSUME <<a, q>> \in At(as, p) PROVE a \in as /\ q = p
      <3>1. PICK b \in as : <<a, q>> = <<b, p>>
        BY <1>1, <2>1
      <3>2. a = b /\ q = p
        BY <3>1, PairFacts
      <3> QED BY <3>2
    <2>2. ASSUME a \in as, q = p PROVE <<a, q>> \in At(as, p)
      BY <1>1, <2>2
    <2> QED BY <2>1, <2>2
  <1>4. AttsOf(At(as, p)) = as
    <2>1. \A a : a \in AttsOf(At(as, p)) <=> \E u \in At(as, p) : a = u[1]
      BY DEF AttsOf
    <2>2. ASSUME NEW a \in as PROVE a \in AttsOf(At(as, p))
      <3>1. <<a, p>> \in At(as, p) /\ <<a, p>>[1] = a
        BY <1>3, PairFacts
      <3> QED BY <2>1, <3>1
    <2> QED BY <1>2, <2>1, <2>2
  <1> QED BY <1>2, <1>3, <1>4

(* The urls of attachments as their committed rows have them.              *)
LEMMA LocatedFacts ==
  ASSUME FilesTypeOK, NEW as \in SUBSET Atts
  PROVE  /\ Located(as) \subseteq Urls
         /\ \A a, p : <<a, p>> \in Located(as) <=> a \in as /\ a \in Stored /\ row[a] = p
  <1>1. \A u : u \in Located(as) <=> \E a \in as \cap Stored : u = <<a, row[a]>>
    BY DEF Located
  <1>2. \A a \in as \cap Stored : a \in Atts /\ row[a] \in Places
    BY DEF Stored
  <1>3. ASSUME NEW u \in Located(as) PROVE u \in Urls
    <2>1. PICK a \in as \cap Stored : u = <<a, row[a]>>
      BY <1>1
    <2>2. <<a, row[a]>> \in Urls
      BY <1>2, PairFacts
    <2> QED BY <2>1, <2>2
  <1>4. ASSUME NEW a, NEW p
        PROVE  <<a, p>> \in Located(as) <=> a \in as /\ a \in Stored /\ row[a] = p
    <2>1. ASSUME <<a, p>> \in Located(as)
          PROVE  a \in as /\ a \in Stored /\ row[a] = p
      <3>1. PICK b \in as \cap Stored : <<a, p>> = <<b, row[b]>>
        BY <1>1, <2>1
      <3>2. a = b /\ p = row[b]
        BY <3>1, PairFacts
      <3> QED BY <3>2
    <2>2. ASSUME a \in as, a \in Stored, row[a] = p
          PROVE  <<a, p>> \in Located(as)
      BY <1>1, <2>2
    <2> QED BY <2>1, <2>2
  <1> QED BY <1>3, <1>4

(* Who is deleting depends on the jobs alone.                              *)
LEMMA DeletingFacts ==
  \A a : a \in Deleting <=>
    \E j \in jobs : Removes(j) /\ j.pc = "commit" /\ a \in AttsOf(j.found)
  BY DEF Deleting, Removes

LEMMA InitFiles == FilesInit => FilesInv
  <1> SUFFICES ASSUME FilesInit PROVE FilesInv
    OBVIOUS
  <1>1. Idle \in Author /\ Idle.pc = "idle" /\ Bare \in PostBody
    BY DEF Idle, Author, Bare, PostBody
  <1>2. FilesTypeOK
    BY <1>1, FilesBoundsAssumption DEF FilesInit, FilesTypeOK
  <1>3. RowHasFile
    BY DEF FilesInit, RowHasFile, Stored, Places
  <1> QED BY <1>1, <1>2, <1>3 DEF FilesInit, FilesInv, AuthorOK, LocksExclude
-----------------------------------------------------------------------------
(* Steps of the author                                                     *)

LEMMA AuthorMoves ==
  ASSUME FilesInv, UNCHANGED <<row, files, jobs>>, past \subseteq past',
         FilesTypeOK', AuthorOK'
  PROVE  FilesInv'
  <1>1. (\A j \in jobs : JobOK(j))' /\ LocksExclude'
    BY DEF FilesInv, JobOK, LocksExclude
  <1>2. RowHasFile'
    BY DEF FilesInv, RowHasFile, Stored, Deleting
  <1> QED BY <1>1, <1>2 DEF FilesInv

(* What past records is one of the known troubles.                         *)
LEMMA PastTypes ==
  ASSUME FilesTypeOK, NEW body, NEW thumb, NEW old, NEW new,
         Notice(body, thumb, old, new)
  PROVE  past \subseteq past' /\ past' \subseteq Trouble
  BY DEF Notice, FilesTypeOK, Trouble

(* What a body of a request may say of contents and files, ...             *)
LEMMA BodyFields ==
  ASSUME FilesTypeOK
  PROVE  /\ Known \subseteq Urls
         /\ \A b \in Bodies : /\ b \in PostBody
                              /\ b.contents \subseteq Known
                              /\ b.fileUrls \subseteq Known
                              /\ b.twice \subseteq b.contents
  <1>1. At(Uploaded, "temp") \subseteq Urls
    BY AtFacts DEF Uploaded, Places
  <1>2. post # None => post.contents \subseteq Urls
    BY DEF FilesTypeOK, Post
  <1>3. Known \subseteq Urls
    BY <1>1, <1>2 DEF Known
  <1>4. ASSUME NEW c \in SUBSET Known, NEW u \in Loose(c),
               NEW b, b = [contents |-> c, twice |-> u.twice, fileUrls |-> u.fileUrls]
        PROVE  /\ b \in PostBody
               /\ b.contents \subseteq Known
               /\ b.fileUrls \subseteq Known
               /\ b.twice \subseteq b.contents
    <2>1. u.twice \subseteq c /\ u.fileUrls \subseteq Known
      BY DEF Loose
    <2>2. b.contents = c /\ b.twice = u.twice /\ b.fileUrls = u.fileUrls
      BY <1>4
    <2>3. b \in PostBody
      BY <1>3, <1>4, <2>1 DEF PostBody
    <2> QED BY <2>1, <2>2, <2>3
  <1>5. ASSUME NEW b \in Bodies
        PROVE  \E c \in SUBSET Known : \E u \in Loose(c) :
                 b = [contents |-> c, twice |-> u.twice, fileUrls |-> u.fileUrls]
    BY Zenon DEF Bodies
  <1> QED BY <1>3, <1>4, <1>5

(* ... and of the thumbnail.                                               *)
LEMMA ThumbTypes ==
  \A b : Thumbs(b) \subseteq Atts \cup {None}
  BY DEF Thumbs, Uploaded

LEMMA MayBeginSent ==
  ASSUME FilesTypeOK, MayBegin, sent' = sent + 1
  PROVE  sent' \in 0 .. MaxPosts /\ sent' >= 1
  BY FilesBoundsAssumption DEF FilesTypeOK, MayBegin

(* The requests of the author keep the invariant.                          *)
LEMMA CreateReadKeeps ==
  ASSUME FilesInv, MayBegin, NEW b \in PostBody, NEW t \in Atts \cup {None},
         CreateRead(b, t)
  PROVE  FilesInv'
  <1>1. PICK new \in Post : new = [contents |-> b.contents, thumb |-> t]
    BY DEF Post, PostBody
  <1>2. /\ author' = [Idle EXCEPT !.pc = "write", !.new = new, !.given = TRUE,
                        !.body = b]
        /\ sent' = sent + 1 /\ Notice(b, t, Blank, new)
        /\ UNCHANGED <<row, files, links, post, jobs, shown>>
    BY <1>1 DEF CreateRead
  <1>3. author'.pc = "write" /\ author'.new = new /\ author' \in Author
    BY <1>2 DEF Idle, Author
  <1>4. sent' \in 0 .. MaxPosts /\ sent' >= 1
    BY <1>2, MayBeginSent DEF FilesInv
  <1>5. past \subseteq past' /\ past' \subseteq Trouble
    BY <1>2, PastTypes DEF FilesInv
  <1>6. FilesTypeOK'
    BY <1>2, <1>3, <1>4, <1>5 DEF FilesInv, FilesTypeOK
  <1>7. AuthorOK'
    BY <1>3, <1>4 DEF AuthorOK
  <1> QED BY <1>2, <1>5, <1>6, <1>7, AuthorMoves

LEMMA PatchReadKeeps ==
  ASSUME FilesInv, MayBegin, NEW given \in BOOLEAN, NEW b \in PostBody,
         NEW resets \in BOOLEAN, NEW t \in Atts \cup {None},
         PatchRead(given, b, resets, t)
  PROVE  FilesInv'
  <1>1. PICK new : new = Patched(given, b, resets, t)
    OBVIOUS
  <1>2. post \in Post
    BY DEF PatchRead, FilesInv, FilesTypeOK
  <1>3. new \in Post
    BY <1>1, <1>2 DEF Post, PostBody, Patched
  <1>4. /\ author' = [pc |-> "write", new |-> new, given |-> given, body |-> b,
                      was |-> post.thumb, resets |-> resets, ids |-> links]
        /\ sent' = sent + 1 /\ Notice(b, t, post, new)
        /\ UNCHANGED <<row, files, links, post, jobs, shown>>
    BY <1>1 DEF PatchRead
  <1>5. post.thumb \in Atts \cup {None} /\ links \subseteq Atts
    BY <1>2 DEF Post, FilesInv, FilesTypeOK
  <1>6. author'.pc = "write" /\ author'.new = new /\ author' \in Author
    BY <1>3, <1>4, <1>5 DEF Author
  <1>7. sent' \in 0 .. MaxPosts /\ sent' >= 1
    BY <1>4, MayBeginSent DEF FilesInv
  <1>8. past \subseteq past' /\ past' \subseteq Trouble
    BY <1>4, PastTypes DEF FilesInv
  <1>9. FilesTypeOK'
    BY <1>4, <1>6, <1>7, <1>8 DEF FilesInv, FilesTypeOK
  <1>10. AuthorOK'
    BY <1>3, <1>6, <1>7 DEF AuthorOK
  <1> QED BY <1>4, <1>8, <1>9, <1>10, AuthorMoves

LEMMA PostCommitKeeps ==
  ASSUME FilesInv, PostCommit
  PROVE  FilesInv'
  <1>1. Idle \in Author /\ Idle.pc = "idle"
    BY DEF Idle, Author, Bare, PostBody
  <1>2. author.new \in Post /\ author.body \in PostBody
    BY DEF PostCommit, FilesInv, FilesTypeOK, Author, AuthorOK
  <1>3. FilesTypeOK'
    BY <1>1, <1>2 DEF PostCommit, FilesInv, FilesTypeOK
  <1>4. AuthorOK'
    BY <1>1 DEF PostCommit, AuthorOK
  <1> QED BY <1>3, <1>4, AuthorMoves DEF PostCommit

LEMMA FailRequestKeeps ==
  ASSUME FilesInv, FailRequest
  PROVE  FilesInv'
  <1>1. Idle \in Author /\ Idle.pc = "idle"
    BY DEF Idle, Author, Bare, PostBody
  <1>2. past \subseteq past' /\ past' \subseteq Trouble
    BY DEF FailRequest, FilesInv, FilesTypeOK, Trouble
  <1>3. FilesTypeOK'
    BY <1>1, <1>2 DEF FailRequest, FilesInv, FilesTypeOK
  <1>4. AuthorOK'
    BY <1>1 DEF FailRequest, AuthorOK
  <1> QED BY <1>2, <1>3, <1>4, AuthorMoves DEF FailRequest

(* The jobs of a request begin with nothing found.                         *)
LEMMA JobsBegin ==
  ASSUME FilesInv, author.pc = "write", NEW new \in SUBSET Job,
         \A j \in new : j.pc = "find" /\ j.found = {},
         jobs' = jobs \cup new, author' = [author EXCEPT !.pc = "commit"],
         UNCHANGED <<row, files, links, post, sent, shown, past>>
  PROVE  FilesInv'
  <1>1. author' \in Author /\ author'.pc = "commit" /\ author'.new = author.new
    BY DEF FilesInv, FilesTypeOK, Author
  <1>2. FilesTypeOK'
    BY <1>1 DEF FilesInv, FilesTypeOK
  <1>3. AuthorOK'
    BY <1>1 DEF FilesInv, AuthorOK
  <1>4. (\A j \in jobs : JobOK(j))'
    BY DEF FilesInv, JobOK
  <1>5. LocksExclude'
    BY DEF FilesInv, LocksExclude, Locks
  <1>6. \A a : a \in Deleting => a \in Deleting'
    BY DEF Deleting
  <1>7. RowHasFile'
    BY <1>6 DEF FilesInv, RowHasFile, Stored
  <1> QED BY <1>2, <1>3, <1>4, <1>5, <1>7 DEF FilesInv

(* A job that has begun.                                                   *)
Fresh(j) == j \in Job /\ j.pc = "find" /\ j.found = {}

LEMMA StartTypes ==
  ASSUME FilesInv, author.pc = "write", NEW ids \in SUBSET Atts,
         NEW does \in {"create", "update", "delete", "thumbOff", "thumbOn"},
         NEW body \in PostBody
  PROVE  /\ Start(does, body, ids) \in Job
         /\ Start(does, body, ids).pc = "find"
         /\ Start(does, body, ids).found = {}
  <1>1. sent \in 1 .. MaxPosts
    BY FilesBoundsAssumption DEF FilesInv, FilesTypeOK, AuthorOK
  <1> QED BY <1>1 DEF Start, Job

(* The bodies that jobs are given.                                         *)
LEMMA BodiesOfJobs ==
  ASSUME FilesInv
  PROVE  author \in Author /\ author.body \in PostBody /\ Bare \in PostBody
  BY DEF FilesInv, FilesTypeOK, Author, Bare, PostBody

LEMMA CreateInsertKeeps ==
  ASSUME FilesInv, CreateInsert
  PROVE  FilesInv'
  <1>1. author.pc = "write" /\ author.new \in Post
    BY DEF CreateInsert, FilesInv, AuthorOK
  <1>2. author.new.thumb # None => {author.new.thumb} \in SUBSET Atts
    BY <1>1 DEF Post
  <1>3. Fresh(Start("create", author.body, {}))
    BY <1>1, StartTypes, BodiesOfJobs DEF Fresh
  <1>4. author.new.thumb # None => Fresh(Start("thumbOn", Bare, {author.new.thumb}))
    BY <1>1, <1>2, StartTypes, BodiesOfJobs DEF Fresh
  <1>5. \A j \in CreatedJobs : Fresh(j)
    BY <1>3, <1>4 DEF CreatedJobs
  <1> HIDE DEF CreatedJobs
  <1> QED BY <1>1, <1>5, JobsBegin DEF CreateInsert, Fresh

LEMMA PatchUpdateKeeps ==
  ASSUME FilesInv, PatchUpdate
  PROVE  FilesInv'
  <1>1. author.pc = "write" /\ author.new \in Post /\ author \in Author
    BY DEF PatchUpdate, FilesInv, FilesTypeOK, AuthorOK
  <1>2. /\ author.new.thumb # None => {author.new.thumb} \in SUBSET Atts
        /\ author.was # None => {author.was} \in SUBSET Atts
        /\ author.ids \in SUBSET Atts
    BY <1>1 DEF Post, Author
  <1>3. /\ Fresh(Start("delete", author.body, author.ids))
        /\ Fresh(Start("update", author.body, {}))
    BY <1>1, <1>2, StartTypes, BodiesOfJobs DEF Fresh
  <1>4. /\ author.new.thumb # None => Fresh(Start("thumbOn", Bare, {author.new.thumb}))
        /\ author.was # None => Fresh(Start("thumbOff", Bare, {author.was}))
    BY <1>1, <1>2, StartTypes, BodiesOfJobs DEF Fresh
  <1>5. \A j \in UpdatedJobs \cup ThumbnailJobs : Fresh(j)
    BY <1>3, <1>4 DEF UpdatedJobs, ThumbnailJobs
  <1>6. jobs' = jobs \cup (UpdatedJobs \cup ThumbnailJobs)
    BY DEF PatchUpdate
  <1> HIDE DEF UpdatedJobs, ThumbnailJobs
  <1> QED BY <1>1, <1>5, <1>6, JobsBegin DEF PatchUpdate, Fresh

(* A new row comes with its file.                                          *)
LEMMA UploadKeeps ==
  ASSUME FilesInv, NEW a \in Atts, Upload(a)
  PROVE  FilesInv'
  <1>1. /\ \A b \in Atts : row'[b] = IF b = a THEN "temp" ELSE row[b]
        /\ row[a] = "new"
    BY DEF Upload, FilesInv, FilesTypeOK
  <1>2. <<a, "temp">> \in Urls
    BY DEF Urls, Places
  <1>3. FilesTypeOK'
    BY <1>2 DEF Upload, FilesInv, FilesTypeOK, Places
  <1>4. AuthorOK' /\ LocksExclude'
    BY DEF Upload, FilesInv, AuthorOK, LocksExclude
  <1>5. (\A j \in jobs : JobOK(j))'
    BY <1>1 DEF Upload, FilesInv, JobOK
  <1>6. Deleting' = Deleting
    BY DEF Upload, Deleting
  <1>7. RowHasFile'
    BY <1>1, <1>6 DEF Upload, FilesInv, RowHasFile, Stored
  <1> QED BY <1>3, <1>4, <1>5, <1>7 DEF FilesInv
-----------------------------------------------------------------------------
(* Steps of the jobs                                                       *)

(* A job goes on: what it locks nobody else has locked, and the files it   *)
(* deletes are those of rows it will delete.                               *)
LEMMA JobGoes ==
  ASSUME FilesInv, NEW j \in jobs, NEW k \in Job, ~Locks(j),
         jobs' = (jobs \ {j}) \cup {k},
         UNCHANGED <<row, links, post, author, sent, shown, past>>,
         JobOK(k)', Locks(k) => Unlocked(AttsOf(k.found)),
         files' \subseteq Urls,
         \A u \in files : u \in files' \/ (Removes(k) /\ k.pc = "commit" /\ u \in k.found)
  PROVE  FilesInv'
  <1>0. k.found \in SUBSET Urls
    BY DEF Job
  <1>1. FilesTypeOK'
    BY DEF FilesInv, FilesTypeOK
  <1>2. AuthorOK'
    BY DEF FilesInv, AuthorOK
  <1>3. \A x \in jobs : Locks(x) /\ Locks(k) => AttsOf(x.found) \cap AttsOf(k.found) = {}
    BY DEF Unlocked, Locks
  <1>4. ASSUME NEW x \in jobs, x # j PROVE JobOK(x)'
    <2>1. JobOK(x)
      BY DEF FilesInv
    <2>2. ASSUME x.pc = "commit", ~Removes(x), "undone" \notin past, NEW a \in AttsOf(x.found)
          PROVE  <<a, "post">> \in files'
      <3>1. <<a, "post">> \in files
        BY <2>1, <2>2 DEF JobOK
      <3>2. Removes(k) /\ k.pc = "commit" => a \notin AttsOf(k.found)
        BY <1>3, <2>2 DEF Locks
      <3>3. <<a, "post">> \in k.found => a \in AttsOf(k.found)
        BY <1>0, UrlFacts
      <3> QED BY <3>1, <3>2, <3>3
    <2> QED BY <2>1, <2>2 DEF JobOK
  <1>5. ASSUME NEW x \in jobs' PROVE JobOK(x)'
    BY <1>4
  <1>6. LocksExclude'
    BY <1>3 DEF FilesInv, LocksExclude
  <1>7. \A a : a \in Deleting => a \in Deleting'
    BY DEF Deleting, Locks
  <1>8. Removes(k) /\ k.pc = "commit" => \A a \in AttsOf(k.found) : a \in Deleting'
    BY DEF Deleting, Removes
  <1>9. RowHasFile'
    <2> SUFFICES ASSUME "undone" \notin past', NEW a \in Stored', a \notin Deleting'
                 PROVE  <<a, row[a]>> \in files'
      BY DEF RowHasFile
    <2>1. a \in Stored /\ a \notin Deleting
      BY <1>7 DEF Stored
    <2>2. <<a, row[a]>> \in files
      BY <2>1 DEF FilesInv, RowHasFile
    <2>3. <<a, row[a]>> \in k.found => a \in AttsOf(k.found)
      BY <1>0, UrlFacts
    <2> QED BY <1>8, <2>2, <2>3
  <1> QED BY <1>1, <1>2, <1>5, <1>6, <1>9 DEF FilesInv

(* A job ends: the rows it leaves behind are as they were, gone, or have   *)
(* the file it copied.                                                     *)
LEMMA JobEnds ==
  ASSUME FilesInv, NEW j \in jobs, jobs' = jobs \ {j}, files' = files,
         FilesTypeOK', UNCHANGED <<author, sent>>, past \subseteq past',
         \A a \in Atts : row[a] \in {"post", "gone"} => row'[a] \in {"post", "gone"},
         "undone" \notin past' => \A a \in Atts :
           \/ row'[a] = row[a] /\ (a \in Deleting => a \in Deleting')
           \/ row'[a] = "gone"
           \/ row'[a] = "post" /\ <<a, "post">> \in files
  PROVE  FilesInv'
  <1>1. AuthorOK'
    BY DEF FilesInv, AuthorOK
  <1>2. (\A x \in jobs : JobOK(x))'
    BY DEF FilesInv, JobOK
  <1>3. LocksExclude'
    BY DEF FilesInv, LocksExclude
  <1>4. RowHasFile'
    <2> SUFFICES ASSUME "undone" \notin past', NEW a \in Stored', a \notin Deleting'
                 PROVE  <<a, row'[a]>> \in files
      BY DEF RowHasFile
    <2>1. a \in Atts /\ row'[a] \in Places
      BY DEF Stored
    <2>2. CASE row'[a] = row[a] /\ (a \in Deleting => a \in Deleting')
      BY <2>1, <2>2 DEF FilesInv, RowHasFile, Stored
    <2> QED BY <2>1, <2>2 DEF Places
  <1> QED BY <1>1, <1>2, <1>3, <1>4 DEF FilesInv

(* One that changes no row and has deleted nothing.                        *)
LEMMA JobStops ==
  ASSUME FilesInv, NEW j \in jobs, Ends(j),
         UNCHANGED <<row, files, links, post, author, sent, shown>>,
         past \subseteq past', past' \subseteq Trouble,
         Removes(j) /\ j.pc = "commit" => "undone" \in past'
  PROVE  FilesInv'
  <1>1. FilesTypeOK'
    BY DEF Ends, FilesInv, FilesTypeOK
  <1>2. "undone" \notin past' => \A a : a \in Deleting => a \in Deleting'
    BY DEF Ends, Deleting, Removes
  <1> QED BY <1>1, <1>2, JobEnds DEF Ends

(* The rows are found; they are where the job now says they are.           *)
LEMMA FindKeeps ==
  ASSUME FilesInv, NEW j \in jobs, j.pc = "find", NEW found \in SUBSET Urls,
         NEW as \in SUBSET Atts, found \subseteq Located(as),
         \/ Ends(j)
         \/ Becomes(j, [j EXCEPT !.pc = "write", !.found = found]),
         UNCHANGED <<row, files, links, post, author, sent, shown, past>>
  PROVE  FilesInv'
  <1>1. CASE Ends(j)
    BY <1>1, JobStops DEF FilesInv, FilesTypeOK
  <1>2. CASE Becomes(j, [j EXCEPT !.pc = "write", !.found = found])
    <2>1. PICK k : k = [[j EXCEPT !.pc = "write"] EXCEPT !.found = found]
      OBVIOUS
    <2>2. j \in Job
      BY DEF FilesInv, FilesTypeOK
    <2>3. /\ k \in Job /\ k.pc = "write" /\ k.found = found /\ k.does = j.does
      BY <2>1, <2>2 DEF Job
    <2>4. \A a \in Atts : <<a, "post">> \in found => row[a] = "post"
      BY LocatedFacts DEF FilesInv
    <2>5. JobOK(k)'
      BY <2>3, <2>4 DEF JobOK
    <2>6. k = [j EXCEPT !.pc = "write", !.found = found]
      BY <2>1
    <2>7. jobs' = (jobs \ {j}) \cup {k}
      BY <1>2, <2>6 DEF Becomes
    <2>8. ~Locks(j) /\ ~Locks(k)
      BY <2>3 DEF Locks
    <2>9. /\ files' \subseteq Urls
          /\ \A u \in files :
               u \in files' \/ (Removes(k) /\ k.pc = "commit" /\ u \in k.found)
      BY DEF FilesInv, FilesTypeOK
    <2>10. UNCHANGED <<row, links, post, author, sent, shown, past>>
      OBVIOUS
    <2> QED BY <2>3, <2>5, <2>7, <2>8, <2>9, <2>10, JobGoes
  <1> QED BY <1>1, <1>2

(* The job writes its rows, in a transaction, and S3 copies or deletes.    *)
LEMMA WriteKeeps ==
  ASSUME FilesInv, NEW j \in jobs, j.pc = "write", NEW pc \in {"commit", "drop"},
         Becomes(j, [j EXCEPT !.pc = pc]), Unlocked(AttsOf(j.found)),
         pc = "drop" => j.does = "thumbOn",
         UNCHANGED <<row, links, post, author, sent, shown, past>>,
         files' \subseteq Urls,
         \A u \in files : u \in files' \/ (Removes(j) /\ pc = "commit" /\ u \in j.found),
         (pc = "commit" /\ ~Removes(j) /\ "undone" \notin past) =>
           \A a \in AttsOf(j.found) : <<a, "post">> \in files'
  PROVE  FilesInv'
  <1>1. PICK k : k = [j EXCEPT !.pc = pc]
    OBVIOUS
  <1>2. j \in Job /\ JobOK(j)
    BY DEF FilesInv, FilesTypeOK
  <1>3. k \in Job /\ k.pc = pc /\ k.found = j.found /\ k.does = j.does
    BY <1>1, <1>2 DEF Job
  <1>4. JobOK(k)'
    BY <1>2, <1>3 DEF JobOK, Removes
  <1>5. jobs' = (jobs \ {j}) \cup {k}
    BY <1>1 DEF Becomes
  <1>6. ~Locks(j) /\ (Removes(k) <=> Removes(j))
    BY <1>3 DEF Locks, Removes
  <1> QED BY <1>3, <1>4, <1>5, <1>6, JobGoes
-----------------------------------------------------------------------------
(* What each kind of job finds.                                            *)
LEMMA FindContentsKeeps ==
  ASSUME FilesInv, NEW j \in jobs, FindContents(j)
  PROVE  FilesInv'
  <1>1. PICK found : found = Located(AttsOf(j.body.fileUrls)) \cap j.body.fileUrls
    OBVIOUS
  <1>2. j.body.fileUrls \in SUBSET Urls /\ j.pc = "find"
    BY DEF FindContents, FilesInv, FilesTypeOK, Job, PostBody
  <1>3. PICK as \in SUBSET Atts : as = AttsOf(j.body.fileUrls)
    BY <1>2, UrlFacts
  <1>4. found \in SUBSET Urls /\ found \subseteq Located(as)
    BY <1>1, <1>2, <1>3
  <1>5. /\ \/ Ends(j)
           \/ Becomes(j, [j EXCEPT !.pc = "write", !.found = found])
        /\ UNCHANGED <<row, files, links, post, author, sent, shown, past>>
    BY <1>1 DEF FindContents
  <1> QED BY <1>2, <1>4, <1>5, FindKeeps

LEMMA FindRemovedKeeps ==
  ASSUME FilesInv, NEW j \in jobs, FindRemoved(j)
  PROVE  FilesInv'
  <1>1. PICK found : found = Located(j.ids \cap Images) \ j.body.contents
    OBVIOUS
  <1>2. j.ids \cap Images \in SUBSET Atts /\ j.pc = "find"
    BY DEF FindRemoved, FilesInv, FilesTypeOK, Job
  <1>3. found \in SUBSET Urls /\ found \subseteq Located(j.ids \cap Images)
    BY <1>1, <1>2, LocatedFacts DEF FilesInv
  <1>4. /\ \/ Ends(j)
           \/ Becomes(j, [j EXCEPT !.pc = "write", !.found = found])
        /\ UNCHANGED <<row, files, links, post, author, sent, shown, past>>
    BY <1>1 DEF FindRemoved
  <1> QED BY <1>2, <1>3, <1>4, FindKeeps

LEMMA FindThumbnailKeeps ==
  ASSUME FilesInv, NEW j \in jobs, FindThumbnail(j)
  PROVE  FilesInv'
  <1>1. PICK found : found = Located(j.ids)
    OBVIOUS
  <1>2. j.ids \in SUBSET Atts /\ j.pc = "find"
    BY DEF FindThumbnail, FilesInv, FilesTypeOK, Job
  <1>a. PICK as \in SUBSET Atts : as = j.ids
    BY <1>2
  <1>3. found \in SUBSET Urls /\ found \subseteq Located(as)
    BY <1>1, <1>a, LocatedFacts DEF FilesInv
  <1>4. /\ \/ Ends(j)
           \/ Becomes(j, [j EXCEPT !.pc = "write", !.found = found])
        /\ UNCHANGED <<row, files, links, post, author, sent, shown, past>>
    BY <1>1 DEF FindThumbnail
  <1> QED BY <1>2, <1>3, <1>4, FindKeeps

(* What the job has found, and its copies.                                 *)
LEMMA CopyFacts ==
  ASSUME FilesInv, NEW j \in jobs, CopyFiles(j.found)
  PROVE  /\ files' \subseteq Urls
         /\ files \subseteq files'
         /\ \A a \in Atts : <<a, "temp">> \in j.found => <<a, "post">> \in files'
         /\ \A u \in files' :
              u \in files \/ \E a \in AttsOf(j.found) : u = <<a, "post">>
  <1>1. j.found \in SUBSET Urls /\ "post" \in Places /\ "temp" \in Places
    BY DEF FilesInv, FilesTypeOK, Job, Places
  <1>2. j.found \cap Temps \in SUBSET Urls
    BY <1>1
  <1>3. PICK as \in SUBSET Atts : as = AttsOf(j.found \cap Temps)
    BY <1>2, UrlFacts
  <1>4. /\ At(as, "post") \subseteq Urls
        /\ \A a \in as : <<a, "post">> \in At(as, "post")
    BY <1>1, AtFacts
  <1>a. \A u \in At(as, "post") : \E a \in as : u = <<a, "post">>
    BY DEF At
  <1>5. files' = files \cup At(as, "post") /\ files \subseteq Urls
    BY <1>3 DEF CopyFiles, FilesInv, FilesTypeOK
  <1>6. \A a \in Atts : <<a, "temp">> \in j.found => a \in as
    <2>1. \A a \in Atts : <<a, "temp">> \in Temps
      BY <1>1, AtFacts DEF Temps
    <2> QED BY <1>2, <1>3, <2>1, UrlFacts
  <1>7. as \subseteq AttsOf(j.found)
    BY <1>3 DEF AttsOf
  <1> QED BY <1>4, <1>a, <1>5, <1>6, <1>7

(* What is in the directory of posts has its file, since nobody is         *)
(* deleting it.                                                            *)
LEMMA FoundHasFile ==
  ASSUME FilesInv, NEW j \in jobs, Unlocked(AttsOf(j.found)),
         AttsOf(j.found) \subseteq Stored, "undone" \notin past,
         NEW a \in Atts, <<a, "post">> \in j.found
  PROVE  <<a, "post">> \in files
  <1>1. j.found \in SUBSET Urls /\ JobOK(j)
    BY DEF FilesInv, FilesTypeOK, Job
  <1>2. a \in AttsOf(j.found)
    BY <1>1, UrlFacts
  <1>3. a \in Stored /\ row[a] = "post"
    BY <1>1, <1>2 DEF JobOK, Stored, Places
  <1>4. a \notin Deleting
    BY <1>2 DEF Deleting, Unlocked
  <1> QED BY <1>3, <1>4 DEF FilesInv, RowHasFile

(* The calls of S3, one for each kind of job.                              *)
LEMMA MoveContentsKeeps ==
  ASSUME FilesInv, NEW j \in jobs, j.does \in {"create", "update"}, MoveContents(j)
  PROVE  FilesInv'
  <1>1. /\ j.pc = "write" /\ Unlocked(AttsOf(j.found))
        /\ AttsOf(j.found) \subseteq Stored
        /\ Becomes(j, [j EXCEPT !.pc = "commit"])
        /\ CopyFiles(j.found)
        /\ UNCHANGED <<row, links, post, author, sent, shown, past>>
    BY DEF MoveContents
  <1>2. ASSUME "undone" \notin past, NEW a \in AttsOf(j.found)
        PROVE  <<a, "post">> \in files'
    <2>1. j.found \in SUBSET Urls
      BY DEF FilesInv, FilesTypeOK, Job
    <2>2. a \in Atts /\ (<<a, "temp">> \in j.found \/ <<a, "post">> \in j.found)
      BY <2>1, UrlFacts
    <2>3. <<a, "post">> \in j.found => <<a, "post">> \in files
      BY <1>1, <1>2, <2>2, FoundHasFile
    <2> QED BY <1>1, <2>2, <2>3, CopyFacts
  <1> QED BY <1>1, <1>2, CopyFacts, WriteKeeps

LEMMA DeleteFilesKeeps ==
  ASSUME FilesInv, NEW j \in jobs, Removes(j), DeleteFiles(j)
  PROVE  FilesInv'
  <1>1. /\ j.pc = "write" /\ Unlocked(AttsOf(j.found))
        /\ Becomes(j, [j EXCEPT !.pc = "commit"])
        /\ files' = files \ j.found
        /\ UNCHANGED <<row, links, post, author, sent, shown, past>>
    BY DEF DeleteFiles
  <1>2. files' \subseteq Urls
    BY <1>1 DEF FilesInv, FilesTypeOK
  <1> QED BY <1>1, <1>2, WriteKeeps

LEMMA MoveThumbnailKeeps ==
  ASSUME FilesInv, NEW j \in jobs, j.does = "thumbOn", MoveThumbnail(j)
  PROVE  FilesInv'
  <1>1. /\ j.pc = "write" /\ Unlocked(AttsOf(j.found))
        /\ AttsOf(j.found) \subseteq Stored
        /\ UNCHANGED <<row, links, post, author, sent, shown, past>>
    BY DEF MoveThumbnail
  <1>2. /\ j.found \in SUBSET Urls /\ JobOK(j) /\ ~Removes(j)
        /\ AttsOf(j.found) \in SUBSET Atts /\ files \subseteq Urls
    BY UrlFacts DEF FilesInv, FilesTypeOK, Job, Removes
  <1>3. CASE /\ j.found \subseteq At(Atts, "post")
             /\ Becomes(j, [j EXCEPT !.pc = "commit"])
             /\ UNCHANGED files
    <2>1. ASSUME "undone" \notin past, NEW a \in AttsOf(j.found)
          PROVE  <<a, "post">> \in files
      <3>1. <<a, "post">> \in j.found
        <4>1. \A p : <<a, p>> \in At(Atts, "post") => p = "post"
          BY AtFacts DEF Places
        <4> QED BY <1>2, <1>3, <4>1, UrlFacts
      <3> QED BY <1>1, <1>2, <2>1, <3>1, FoundHasFile
    <2> QED BY <1>1, <1>2, <1>3, <2>1, WriteKeeps
  <1>4. CASE /\ j.found \subseteq Temps \cap files
             /\ CopyFiles(j.found) /\ Becomes(j, [j EXCEPT !.pc = "commit"])
    <2>1. ASSUME NEW a \in AttsOf(j.found) PROVE <<a, "post">> \in files'
      <3>1. a \in Atts /\ (<<a, "temp">> \in j.found \/ <<a, "post">> \in j.found)
        BY <1>2, UrlFacts
      <3>2. <<a, "post">> \notin Temps
        BY AtFacts DEF Temps, Places
      <3> QED BY <1>4, <3>1, <3>2, CopyFacts
    <2> QED BY <1>1, <1>2, <1>4, <2>1, CopyFacts, WriteKeeps
  <1>5. CASE Becomes(j, [j EXCEPT !.pc = "drop"]) /\ UNCHANGED files
    BY <1>1, <1>2, <1>5, WriteKeeps
  <1> QED BY <1>3, <1>4, <1>5 DEF MoveThumbnail

(* Whoever commits, the files others are deleting stay announced.          *)
LEMMA OthersDelete ==
  ASSUME NEW j \in jobs, jobs' = jobs \ {j}
  PROVE  \A a \in Deleting :
           a \in Deleting' \/ (Removes(j) /\ a \in AttsOf(j.found))
  BY DEF Deleting, Removes

(* Replacing urls gives urls.                                              *)
LEMMA ReplaceTypes ==
  ASSUME NEW body \in PostBody, NEW found \in SUBSET Urls
  PROVE  Replace(body, found) \subseteq Urls
  <1>1. /\ body.contents \subseteq Urls /\ "post" \in Places
        /\ body.contents \cap found \in SUBSET Urls
    BY DEF Places, PostBody
  <1>2. AttsOf(body.contents \cap found) \in SUBSET Atts
    BY <1>1, UrlFacts
  <1>3. At(AttsOf(body.contents \cap found), "post") \subseteq Urls
    BY <1>1, <1>2, AtFacts
  <1> QED BY <1>1, <1>3 DEF Replace

(* The commits of the jobs.                                                *)
LEMMA CommitContentsKeeps ==
  ASSUME FilesInv, NEW j \in jobs, j.does \in {"create", "update"}, CommitContents(j)
  PROVE  FilesInv'
  <1>1. /\ j.pc = "commit" /\ ~Removes(j) /\ JobOK(j)
        /\ j.found \in SUBSET Urls /\ j.body \in PostBody
    BY DEF CommitContents, FilesInv, FilesTypeOK, Job, Removes
  <1>2. /\ jobs' = jobs \ {j} /\ files' = files
        /\ UNCHANGED <<author, sent, shown, past>>
    BY DEF CommitContents, Ends
  <1>3. \A a \in Atts : row'[a] = IF a \in AttsOf(j.found) THEN "post" ELSE row[a]
    BY DEF CommitContents
  <1>4. FilesTypeOK'
    <2>1. post' \in Post
      <3>1. Replace(j.body, j.found) \subseteq Urls
        BY <1>1, ReplaceTypes
      <3>2. post \in Post
        BY DEF CommitContents, FilesInv, FilesTypeOK
      <3> QED BY <3>1, <3>2 DEF CommitContents, Post
    <2>2. row' \in [Atts -> Places \cup {"new", "gone"}]
      BY DEF CommitContents, FilesInv, FilesTypeOK, Places
    <2>3. links' \subseteq Atts
      BY <1>1, UrlFacts DEF CommitContents, FilesInv, FilesTypeOK
    <2> QED BY <1>2, <2>1, <2>2, <2>3 DEF FilesInv, FilesTypeOK
  <1>5. \A a \in Deleting : a \in Deleting'
    BY <1>1, <1>2, OthersDelete
  <1>6. ASSUME "undone" \notin past', NEW a \in Atts
        PROVE  \/ row'[a] = row[a] /\ (a \in Deleting => a \in Deleting')
               \/ row'[a] = "gone"
               \/ row'[a] = "post" /\ <<a, "post">> \in files
    BY <1>1, <1>2, <1>3, <1>5, <1>6 DEF JobOK
  <1>7. \A a \in Atts : row[a] \in {"post", "gone"} => row'[a] \in {"post", "gone"}
    BY <1>3
  <1> QED BY <1>2, <1>4, <1>6, <1>7, JobEnds

LEMMA CommitDeleteKeeps ==
  ASSUME FilesInv, NEW j \in jobs, Removes(j), CommitDelete(j)
  PROVE  FilesInv'
  <1>2. /\ jobs' = jobs \ {j} /\ files' = files
        /\ UNCHANGED <<post, author, sent, shown, past>>
    BY DEF CommitDelete, Ends
  <1>3. \A a \in Atts : row'[a] = IF a \in AttsOf(j.found) THEN "gone" ELSE row[a]
    BY DEF CommitDelete
  <1>4. FilesTypeOK'
    <2>1. row' \in [Atts -> Places \cup {"new", "gone"}] /\ links' \subseteq Atts
      BY DEF CommitDelete, FilesInv, FilesTypeOK
    <2> QED BY <1>2, <2>1 DEF FilesInv, FilesTypeOK
  <1>5. \A a \in Deleting : a \in Deleting' \/ a \in AttsOf(j.found)
    BY <1>2, OthersDelete
  <1>6. ASSUME NEW a \in Atts
        PROVE  \/ row'[a] = row[a] /\ (a \in Deleting => a \in Deleting')
               \/ row'[a] = "gone"
    BY <1>3, <1>5
  <1>7. \A a \in Atts : row[a] \in {"post", "gone"} => row'[a] \in {"post", "gone"}
    BY <1>3
  <1> QED BY <1>2, <1>4, <1>6, <1>7, JobEnds

LEMMA CommitThumbnailKeeps ==
  ASSUME FilesInv, NEW j \in jobs, j.does = "thumbOn", CommitThumbnail(j)
  PROVE  FilesInv'
  <1>1. j.pc \in {"commit", "drop"} /\ ~Removes(j) /\ JobOK(j)
    BY DEF CommitThumbnail, FilesInv, Removes
  <1>2. /\ jobs' = jobs \ {j} /\ files' = files
        /\ UNCHANGED <<post, author, sent, shown, past>>
    BY DEF CommitThumbnail, Ends
  <1>3. \A a \in Atts : row'[a] = IF a \notin AttsOf(j.found) THEN row[a]
                                  ELSE IF j.pc = "drop" THEN "gone" ELSE "post"
    BY DEF CommitThumbnail
  <1>4. FilesTypeOK'
    <2>1. row' \in [Atts -> Places \cup {"new", "gone"}]
      BY DEF CommitThumbnail, FilesInv, FilesTypeOK, Places
    <2>2. links' \subseteq Atts
      BY DEF CommitThumbnail, FilesInv, FilesTypeOK
    <2> QED BY <1>2, <2>1, <2>2 DEF FilesInv, FilesTypeOK
  <1>5. \A a \in Deleting : a \in Deleting'
    BY <1>1, <1>2, OthersDelete
  <1>6. ASSUME "undone" \notin past', NEW a \in Atts
        PROVE  \/ row'[a] = row[a] /\ (a \in Deleting => a \in Deleting')
               \/ row'[a] = "gone"
               \/ row'[a] = "post" /\ <<a, "post">> \in files
    BY <1>1, <1>2, <1>3, <1>5, <1>6 DEF JobOK
  <1>7. \A a \in Atts : row[a] \in {"post", "gone"} => row'[a] \in {"post", "gone"}
    BY <1>3
  <1> QED BY <1>2, <1>4, <1>6, <1>7, JobEnds

(* Only a statement that has not deleted anything is refused.              *)
LEMMA RefuseJobKeeps ==
  ASSUME FilesInv, NEW j \in jobs, RefuseJob(j)
  PROVE  FilesInv'
  <1>1. past \subseteq past' /\ past' \subseteq Trouble
    BY DEF RefuseJob, FilesInv, FilesTypeOK, Trouble
  <1>2. ~(Removes(j) /\ j.pc = "commit")
    BY DEF RefuseJob, Refused, Removes
  <1> QED BY <1>1, <1>2, JobStops DEF RefuseJob

LEMMA FailJobKeeps ==
  ASSUME FilesInv, NEW j \in jobs, FailJob(j)
  PROVE  FilesInv'
  <1>1. past \subseteq past' /\ past' \subseteq Trouble
    BY DEF FailJob, FilesInv, FilesTypeOK, Trouble
  <1>2. Removes(j) /\ j.pc = "commit" => "undone" \in past'
    BY DEF FailJob, Removes
  <1> QED BY <1>1, <1>2, JobStops DEF FailJob

(* A step of a job, and one of a request.                                  *)
LEMMA StepKeeps ==
  ASSUME FilesInv, NEW j \in jobs, Step(j)
  PROVE  FilesInv'
  <1>1. CASE CreateContents(j)
    BY <1>1, FindContentsKeeps, MoveContentsKeeps, CommitContentsKeeps
       DEF CreateContents
  <1>2. CASE UpdateContents(j)
    BY <1>2, FindContentsKeeps, MoveContentsKeeps, CommitContentsKeeps
       DEF UpdateContents
  <1>3. CASE DeleteRemoved(j)
    BY <1>3, FindRemovedKeeps, DeleteFilesKeeps, CommitDeleteKeeps
       DEF DeleteRemoved, Removes
  <1>4. CASE RemoveThumbnail(j)
    BY <1>4, FindThumbnailKeeps, DeleteFilesKeeps, CommitDeleteKeeps
       DEF RemoveThumbnail, Removes
  <1>5. CASE SetThumbnail(j)
    BY <1>5, FindThumbnailKeeps, MoveThumbnailKeeps, CommitThumbnailKeeps
       DEF SetThumbnail
  <1>6. CASE RefuseJob(j)
    BY <1>6, RefuseJobKeeps
  <1> QED BY <1>1, <1>2, <1>3, <1>4, <1>5, <1>6 DEF Step

LEMMA NewRequestKeeps ==
  ASSUME FilesInv, NewRequest
  PROVE  FilesInv'
  <1>1. FilesTypeOK
    BY DEF FilesInv
  <1>2. ASSUME NEW a \in Atts, Upload(a) PROVE FilesInv'
    BY <1>2, UploadKeeps
  <1>3. ASSUME MayBegin, NEW b \in Bodies, NEW t \in Thumbs(b), CreateRead(b, t)
        PROVE  FilesInv'
    BY <1>1, <1>3, BodyFields, ThumbTypes, CreateReadKeeps
  <1>4. ASSUME MayBegin, NEW b \in Bodies, NEW t \in Thumbs(b), NEW g \in BOOLEAN,
               NEW r \in BOOLEAN, PatchRead(g, b, r, t)
        PROVE  FilesInv'
    BY <1>1, <1>4, BodyFields, ThumbTypes, PatchReadKeeps
  <1> HIDE DEF Bodies, Thumbs
  <1>5. CASE MayBegin /\ \E b \in Bodies : \E t \in Thumbs(b) : CreateRead(b, t)
    BY <1>3, <1>5
  <1>6. CASE MayBegin /\ \E b \in Bodies : \E t \in Thumbs(b), g, r \in BOOLEAN :
               PatchRead(g, b, r, t)
    <2>1. PICK b \in Bodies : \E t \in Thumbs(b), g, r \in BOOLEAN :
            PatchRead(g, b, r, t)
      BY <1>6
    <2> QED BY <1>4, <1>6, <2>1
  <1>7. \/ \E a \in Atts : Upload(a)
        \/ MayBegin /\ \E b \in Bodies : \E t \in Thumbs(b) : CreateRead(b, t)
        \/ MayBegin /\ \E b \in Bodies : \E t \in Thumbs(b), g, r \in BOOLEAN :
             PatchRead(g, b, r, t)
    BY DEF NewRequest
  <1> QED BY <1>2, <1>5, <1>6, <1>7

(* Every step keeps the invariant.                                         *)
LEMMA NextFiles == FilesInv /\ [FilesNext]_filesVars => FilesInv'
  <1> SUFFICES ASSUME FilesInv, [FilesNext]_filesVars PROVE FilesInv'
    OBVIOUS
  <1>1. CASE NewRequest
    BY <1>1, NewRequestKeeps
  <1>2. CASE RequestStep
    BY <1>2, CreateInsertKeeps, PatchUpdateKeeps, PostCommitKeeps DEF RequestStep
  <1>3. CASE FailRequest
    BY <1>3, FailRequestKeeps
  <1>4. ASSUME NEW j \in jobs, Step(j) \/ FailJob(j) PROVE FilesInv'
    BY <1>4, StepKeeps, FailJobKeeps
  <1>5. CASE UNCHANGED filesVars
    <2>1. FilesTypeOK' /\ AuthorOK' /\ past \subseteq past'
      BY <1>5 DEF FilesInv, FilesTypeOK, AuthorOK, filesVars
    <2> QED BY <1>5, <2>1, AuthorMoves DEF filesVars
  <1> QED BY <1>1, <1>2, <1>3, <1>4, <1>5 DEF FilesNext

(* So it holds in every state.                                             *)
LEMMA FilesInvariant == FilesSpec => []FilesInv
  BY InitFiles, NextFiles, PTL DEF FilesSpec
-----------------------------------------------------------------------------
(* Requests and detached handlers keep their types: none writes a post, a  *)
(* row or a file from a value it has not read.                             *)
THEOREM FilesTypeCorrect == FilesSpec => []FilesTypeOK
  <1>1. FilesInv => FilesTypeOK
    BY DEF FilesInv
  <1> QED BY <1>1, FilesInvariant, PTL

(* Whatever overlaps or fails, an attachment the database knows has its    *)
(* file in S3, unless the database undid a deletion S3 had carried out.    *)
THEOREM RowsHaveFiles == FilesSpec => []RowHasFile
  <1>1. FilesInv => RowHasFile
    BY DEF FilesInv
  <1> QED BY <1>1, FilesInvariant, PTL
-----------------------------------------------------------------------------
(***************************************************************************)
(* A post whose handlers are through, when requests have not overlapped    *)
(* them and nothing has failed (clean), and when besides no body named an  *)
(* old url (smooth).                                                       *)
(*                                                                         *)
(* Target is the row of the post the handlers work for: while the request  *)
(* has its COMMIT to come, the one it has written.  The invariant says     *)
(* what each handler still has to do for it, and that none touches what    *)
(* another one is about: the files to remove are none of the contents or   *)
(* of fileUrls, and none that is being moved.                              *)
(***************************************************************************)
Clean == "broken" \notin past

Smooth == past = {}

Rewrites(j) == j.does \in {"create", "update"}

Target == IF author.pc = "commit" THEN author.new ELSE post

(* What the last patch with contents says, once it has committed.          *)
TargetShown ==
  IF author.pc = "commit" /\ author.given THEN author.body ELSE shown

TargetIsShown ==
  Target # None => AttsOf(Target.contents) = AttsOf(TargetShown.contents)

(* One handler at most writes contents, those of the last request.         *)
JobsHaveTarget ==
  /\ author.pc = "write" => jobs = {}
  /\ Target = None => jobs = {}
  /\ \A j \in jobs : Rewrites(j) =>
       /\ j.body = TargetShown
       /\ j.body.contents = Target.contents
       /\ j.found \subseteq j.body.fileUrls
       /\ AttsOf(j.found) \subseteq Uploaded
  /\ \A j, k \in jobs : Rewrites(j) /\ Rewrites(k) => j = k

(* What the request is to write fits the post and the files.               *)
WriteIsFresh ==
  author.pc = "write" =>
    /\ author.new.contents \subseteq files
    /\ author.new.thumb # None => author.new.thumb \in Uploaded
    /\ author.new.thumb \notin AttsOf(author.new.contents)
    /\ author.given => author.new.contents = author.body.contents
    /\ post = None => author.given
    /\ post # None =>
         /\ author.ids = links
         /\ author.was = post.thumb
         /\ author.was \notin AttsOf(author.new.contents)
         /\ ~author.given => author.new.contents = post.contents
         /\ ~author.resets => author.new.thumb = post.thumb

FilesStay ==
  /\ \A a \in Uploaded : <<a, "temp">> \in files
  /\ Target # None => Target.contents \subseteq files

(* The files a handler may still delete.                                   *)
Doomed(k) == At(k.ids, "post") \ k.body.contents

RemoversSpare ==
  \A k \in jobs : Removes(k) =>
    /\ \A a \in k.ids : row[a] \in {"post", "gone"}
    /\ k.found \subseteq Doomed(k)
    /\ Doomed(k) \cap Target.contents = {}
    /\ k.does = "thumbOff" => k.body.contents = {} /\ \E t \in Atts : k.ids = {t}
    /\ \A j \in jobs : Rewrites(j) => \A a \in k.ids : <<a, "temp">> \notin j.found

(* The thumbnail is out of temp/, or a handler will see to it.             *)
ThumbIsMoved ==
  /\ Target # None /\ Target.thumb # None =>
       \/ row[Target.thumb] \in {"post", "gone"}
       \/ \E k \in jobs : k.does = "thumbOn" /\ Target.thumb \in k.ids
  /\ \A k \in jobs : k.does = "thumbOn" =>
       /\ \E t \in Uploaded : k.ids = {t}
       /\ k.pc # "find" => AttsOf(k.found) = k.ids

CleanInv ==
  /\ "undone" \notin past
  /\ TargetIsShown
  /\ JobsHaveTarget
  /\ WriteIsFresh
  /\ FilesStay
  /\ RemoversSpare
  /\ ThumbIsMoved

(* What fileUrls list is moved and linked, or a handler has yet to move    *)
(* it; moved, it is mentioned by its old url only if it was mentioned      *)
(* twice.  What the contents show by its new url was listed.               *)
Moving(a) ==
  \E j \in jobs : Rewrites(j) /\ (j.pc = "find" \/ <<a, "temp">> \in j.found)

ContentsAreLinked ==
  Target # None =>
    \A a \in Atts :
      /\ <<a, "post">> \in Target.contents \cup TargetShown.fileUrls =>
           row[a] = "post" /\ a \in links
      /\ <<a, "temp">> \in Target.contents => row[a] = "temp" \/ a \in links
      /\ <<a, "temp">> \in TargetShown.fileUrls =>
           \/ row[a] = "temp" /\ Moving(a)
           \/ /\ a \in links
              /\ <<a, "temp">> \in Target.contents => <<a, "temp">> \in TargetShown.twice

WriteIsSmooth ==
  author.pc = "write" =>
    /\ author.given => \A a \in Atts :
         /\ <<a, "post">> \in author.body.contents =>
              post # None /\ <<a, "post">> \in post.contents
         /\ <<a, "post">> \in author.body.fileUrls =>
              <<a, "post">> \in author.body.contents
         /\ <<a, "temp">> \in author.body.contents \cup author.body.fileUrls =>
              row[a] = "temp"
    /\ author.given =>
         /\ author.new.thumb \notin AttsOf(author.body.fileUrls)
         /\ post # None => post.thumb \notin AttsOf(author.body.fileUrls)
    /\ author.new.thumb # None /\ (post = None \/ author.resets) =>
         row[author.new.thumb] = "temp"

(* The attachments a post is to keep, but for its thumbnail.               *)
Named == AttsOf(Target.contents) \cup AttsOf(TargetShown.fileUrls)

NamedAreSpared ==
  \A k \in jobs : Removes(k) =>
    \A a \in Atts : <<a, "post">> \in Doomed(k) => a \notin Named

(* Nobody but the handler that sets it is about the thumbnail.             *)
ThumbIsAlone ==
  /\ Target # None /\ Target.thumb # None =>
       /\ Target.thumb \notin Named \cup links
       /\ \/ row[Target.thumb] = "post"
          \/ /\ row[Target.thumb] = "temp"
             /\ \E k \in jobs : k.does = "thumbOn"
  /\ \A k \in jobs :
       /\ Removes(k) => Target.thumb \notin k.ids
       /\ k.does = "thumbOn" => k.ids = {Target.thumb} /\ k.pc # "drop"

(* A moved row nobody mentions, and the handler that will remove it.       *)
Left(a) == row[a] = "post" /\ (a \in links => a \in Images)

Removing(k, a) ==
  /\ Removes(k) /\ a \in k.ids /\ <<a, "post">> \notin k.body.contents
  /\ k.does = "delete" => a \in Images
  /\ k.pc = "find" \/ <<a, "post">> \in k.found

RestIsRemoved ==
  \A a \in Atts : Left(a) =>
    /\ Target # None
    /\ \/ a \in Named \cup {Target.thumb}
       \/ \E k \in jobs : Removing(k, a)

SmoothInv ==
  /\ ContentsAreLinked
  /\ WriteIsSmooth
  /\ NamedAreSpared
  /\ ThumbIsAlone
  /\ RestIsRemoved

SettledInv ==
  /\ FilesInv
  /\ \A a \in links : row[a] = "post"
  /\ author.pc = "idle" => author = Idle
  /\ Clean => CleanInv
  /\ Smooth => SmoothInv
-----------------------------------------------------------------------------
(* There is no post, and no job.                                           *)
LEMMA InitSettled == FilesInit => SettledInv
  <1> SUFFICES ASSUME FilesInit PROVE SettledInv
    OBVIOUS
  <1>1. FilesInv
    BY InitFiles
  <1>2. Target = None /\ Idle.pc = "idle" /\ author = Idle
    BY DEF FilesInit, Target, Idle
  <1>3. CleanInv
    BY <1>2 DEF FilesInit, CleanInv, TargetIsShown, JobsHaveTarget, WriteIsFresh,
       FilesStay, Uploaded, RemoversSpare, ThumbIsMoved
  <1>4. SmoothInv
    BY <1>2 DEF FilesInit, SmoothInv, ContentsAreLinked, WriteIsSmooth,
       NamedAreSpared, ThumbIsAlone, RestIsRemoved, Left
  <1> QED BY <1>1, <1>2, <1>3, <1>4 DEF FilesInit, SettledInv

(* What went wrong is not forgotten.                                       *)
LEMMA TroubleStays ==
  ASSUME past \subseteq past'
  PROVE  (Clean' => Clean) /\ (Smooth' => Smooth) /\ (Smooth' => Clean') /\ (Smooth => Clean)
  BY DEF Clean, Smooth

(* The post the jobs work towards has the type of a post.                  *)
LEMMA TargetTypes ==
  ASSUME FilesInv
  PROVE  /\ Target # None => Target \in Post /\ Target.contents \in SUBSET Urls
         /\ TargetShown \in PostBody
         /\ TargetShown.contents \in SUBSET Urls
         /\ TargetShown.fileUrls \in SUBSET Urls
  <1>1. Target # None => Target \in Post /\ Target.contents \in SUBSET Urls
    BY DEF Target, FilesInv, FilesTypeOK, AuthorOK, Post
  <1>2. TargetShown \in PostBody
    BY DEF TargetShown, FilesInv, FilesTypeOK, Author
  <1> QED BY <1>1, <1>2 DEF PostBody

(* A step of the request that leaves the target as it is.                  *)
LEMMA AuthorSettles ==
  ASSUME SettledInv, FilesInv', UNCHANGED <<row, files, links, jobs>>,
         past \subseteq past', "undone" \in past' => "undone" \in past,
         Target' = Target, TargetShown' = TargetShown,
         author'.pc = "idle" => author' = Idle,
         Clean' => WriteIsFresh' /\ (author'.pc = "write" => jobs = {}),
         Smooth' => WriteIsSmooth'
  PROVE  SettledInv'
  <1>1. (\A a \in links : row[a] = "post")'
    BY DEF SettledInv
  <1>2. ASSUME Clean' PROVE CleanInv'
    <2>1. CleanInv
      BY <1>2, TroubleStays DEF SettledInv
    <2>2. TargetIsShown'
      BY <2>1 DEF CleanInv, TargetIsShown
    <2>3. JobsHaveTarget'
      BY <1>2, <2>1 DEF CleanInv, JobsHaveTarget, Uploaded
    <2>4. FilesStay'
      BY <2>1 DEF CleanInv, FilesStay, Uploaded
    <2>5. RemoversSpare'
      BY <2>1 DEF CleanInv, RemoversSpare
    <2>6. ThumbIsMoved'
      BY <2>1 DEF CleanInv, ThumbIsMoved, Uploaded
    <2> QED BY <1>2, <2>1, <2>2, <2>3, <2>4, <2>5, <2>6 DEF CleanInv
  <1>3. ASSUME Smooth' PROVE SmoothInv'
    <2>1. SmoothInv
      BY <1>3, TroubleStays DEF SettledInv
    <2>2. ContentsAreLinked'
      BY <2>1 DEF SmoothInv, ContentsAreLinked, Moving
    <2>a. Named' = Named
      BY DEF Named
    <2>b. NamedAreSpared'
      BY <2>1, <2>a DEF SmoothInv, NamedAreSpared
    <2>3. ThumbIsAlone'
      BY <2>1, <2>a DEF SmoothInv, ThumbIsAlone
    <2>4. RestIsRemoved'
      BY <2>1, <2>a DEF SmoothInv, RestIsRemoved, Left, Removing
    <2> QED BY <1>3, <2>2, <2>b, <2>3, <2>4 DEF SmoothInv
  <1> QED BY <1>1, <1>2, <1>3 DEF SettledInv

(* At the COMMIT the row becomes what the jobs work towards already.       *)
LEMMA PostCommitSettles ==
  ASSUME SettledInv, FilesInv', PostCommit
  PROVE  SettledInv'
  <1>1. author.pc = "commit" /\ author' = Idle /\ Idle.pc = "idle"
    BY DEF PostCommit, Idle
  <1>2. Target' = Target
    BY <1>1 DEF PostCommit, Target
  <1>3. TargetShown' = TargetShown
    BY <1>1 DEF PostCommit, TargetShown
  <1>4. WriteIsFresh' /\ WriteIsSmooth'
    BY <1>1 DEF WriteIsFresh, WriteIsSmooth
  <1> QED BY <1>1, <1>2, <1>3, <1>4, AuthorSettles DEF PostCommit

(* Only a request that has not written yet fails without trouble.          *)
LEMMA FailRequestSettles ==
  ASSUME SettledInv, FilesInv', FailRequest
  PROVE  SettledInv'
  <1>1. author' = Idle /\ Idle.pc = "idle" /\ past \subseteq past'
    BY DEF FailRequest, Idle
  <1>2. CASE author.pc # "commit"
    <2>1. Target' = Target /\ TargetShown' = TargetShown
      BY <1>1, <1>2 DEF FailRequest, Target, TargetShown
    <2>2. WriteIsFresh' /\ WriteIsSmooth'
      BY <1>1 DEF WriteIsFresh, WriteIsSmooth
    <2> QED BY <1>1, <1>2, <2>1, <2>2, AuthorSettles DEF FailRequest
  <1>3. CASE author.pc = "commit"
    <2>1. ~Clean' /\ ~Smooth'
      BY <1>3 DEF FailRequest, Clean, Smooth
    <2>2. (\A a \in links : row[a] = "post")'
      BY DEF FailRequest, SettledInv
    <2> QED BY <1>1, <2>1, <2>2 DEF SettledInv
  <1> QED BY <1>2, <1>3

(* A request that begins finds no handler of the last one, or breaks.      *)
LEMMA Quiet ==
  ASSUME SettledInv, author = Idle, NEW body, NEW thumb, NEW old, NEW new,
         Notice(body, thumb, old, new)
  PROVE  /\ past \subseteq past' /\ ("undone" \in past' => "undone" \in past)
         /\ Clean' => Clean /\ jobs = {} /\ ~Shares(old, new)
         /\ Smooth' => /\ Smooth /\ ~Resends(body, thumb) /\ ~Strays(body)
                       /\ old.thumb \notin AttsOf(body.fileUrls)
                       /\ new.thumb \notin AttsOf(body.fileUrls)
         /\ Idle.pc = "idle" /\ Target = post /\ TargetShown = shown
  BY DEF Notice, Clean, Smooth, Idle, Target, TargetShown

(* The urls a smooth body names: those in temp/ have not moved, the others *)
(* are of the post.                                                        *)
LEMMA SmoothBody ==
  ASSUME FilesTypeOK, NEW b \in Bodies, NEW t, ~Resends(b, t), ~Strays(b),
         NEW a \in Atts
  PROVE  /\ <<a, "post">> \in b.contents =>
              post # None /\ <<a, "post">> \in post.contents
         /\ <<a, "post">> \in b.fileUrls => <<a, "post">> \in b.contents
         /\ <<a, "temp">> \in b.contents \cup b.fileUrls => row[a] = "temp"
  <1>1. b.contents \subseteq Known
    BY BodyFields
  <1>2. Uploaded \in SUBSET Atts
    BY DEF Uploaded
  <1>3. <<a, "post">> \notin At(Uploaded, "temp")
    BY <1>2, AtFacts DEF Places
  <1>4. <<a, "post">> \notin Temps /\ <<a, "temp">> \in Temps
    BY AtFacts DEF Temps, Places
  <1>5. <<a, "temp">>[1] = a
    OBVIOUS
  <1>6. <<a, "temp">> \in b.contents \cup b.fileUrls => row[a] = "temp"
    BY <1>4, <1>5 DEF Resends
  <1>7. <<a, "post">> \in b.fileUrls => <<a, "post">> \in b.contents
    BY <1>4 DEF Strays
  <1> QED BY <1>1, <1>3, <1>6, <1>7 DEF Known

(* Nothing a body shows misses its file.                                   *)
LEMMA KnownHasFile ==
  ASSUME FilesTypeOK, FilesStay, Target = post, NEW b \in Bodies
  PROVE  b.contents \subseteq files
  <1>1. b.contents \subseteq Known
    BY BodyFields
  <1>2. Known \subseteq files
    BY DEF Known, FilesStay, At
  <1> QED BY <1>1, <1>2

(* What a request is about to write once it has read.                      *)
LEMMA CreateReadSettles ==
  ASSUME SettledInv, FilesInv', NEW b \in Bodies, NEW t \in Thumbs(b),
         CreateRead(b, t)
  PROVE  SettledInv'
  <1>1. PICK new : new = [contents |-> b.contents, thumb |-> t]
    OBVIOUS
  <1>2. /\ author = Idle /\ post = None
        /\ Notice(b, t, Blank, new)
        /\ UNCHANGED <<row, files, links, post, jobs, shown>>
    BY <1>1 DEF CreateRead
  <1>3. /\ author'.pc = "write" /\ author'.new = new /\ author'.given
        /\ author'.body = b
    BY <1>1 DEF CreateRead, Idle
  <1>4. Target' = Target /\ TargetShown' = TargetShown
    BY <1>2, <1>3, Quiet DEF Target, TargetShown
  <1>5. t \in Uploaded \cup {None} /\ FilesTypeOK
    BY DEF Thumbs, SettledInv, FilesInv
  <1>6. new.contents = b.contents /\ new.thumb = t
    BY <1>1
  <1>7. ASSUME Clean' PROVE WriteIsFresh' /\ jobs = {}
    <2>1. FilesStay /\ Target = post
      BY <1>2, <1>7, Quiet DEF SettledInv, CleanInv
    <2>2. b.contents \subseteq files
      BY <1>5, <2>1, KnownHasFile
    <2>3. t \notin AttsOf(b.contents)
      <3>1. AttsOf({} \cup b.contents) \cap {None, t} = {}
        BY <1>1, <1>2, <1>7, Quiet DEF Shares, Blank
      <3>2. {} \cup b.contents = b.contents
        OBVIOUS
      <3> QED BY <3>1, <3>2
    <2> QED BY <1>2, <1>3, <1>5, <1>6, <1>7, <2>2, <2>3, Quiet DEF WriteIsFresh, Uploaded
  <1>8. ASSUME Smooth' PROVE WriteIsSmooth'
    <2>1. ~Resends(b, t) /\ ~Strays(b) /\ new.thumb \notin AttsOf(b.fileUrls)
      BY <1>2, <1>8, Quiet
    <2>2. t # None => row[t] = "temp"
      BY <2>1 DEF Resends
    <2> QED BY <1>2, <1>3, <1>5, <1>6, <2>1, <2>2, SmoothBody DEF WriteIsSmooth
  <1> QED BY <1>2, <1>3, <1>4, <1>7, <1>8, Quiet, AuthorSettles

LEMMA PatchReadSettles ==
  ASSUME SettledInv, FilesInv', NEW given \in BOOLEAN, NEW b \in Bodies,
         NEW resets \in BOOLEAN, NEW t \in Thumbs(b), given \/ b = Bare,
         resets \/ t = None, PatchRead(given, b, resets, t)
  PROVE  SettledInv'
  <1>1. PICK new : new = Patched(given, b, resets, t)
    OBVIOUS
  <1>2. /\ author = Idle /\ post # None
        /\ Notice(b, t, post, new)
        /\ UNCHANGED <<row, files, links, post, jobs, shown>>
    BY <1>1 DEF PatchRead
  <1>3. /\ author'.pc = "write" /\ author'.new = new /\ author'.given = given
        /\ author'.was = post.thumb /\ author'.resets = resets
        /\ author'.ids = links /\ author'.body = b
    BY <1>1 DEF PatchRead, Idle
  <1>4. Target' = Target /\ TargetShown' = TargetShown
    BY <1>2, <1>3, Quiet DEF Target, TargetShown
  <1>5. t \in Uploaded \cup {None} /\ FilesTypeOK /\ post \in Post
    BY <1>2 DEF Thumbs, SettledInv, FilesInv, FilesTypeOK
  <1>7. /\ given => new.contents = b.contents
        /\ ~given => new.contents = post.contents
        /\ resets => new.thumb = t
        /\ ~resets => new.thumb = post.thumb
    BY <1>1 DEF Patched
  <1>8. ASSUME Clean' PROVE WriteIsFresh' /\ jobs = {}
    <2>1. FilesStay /\ ThumbIsMoved /\ jobs = {} /\ Target = post
      BY <1>2, <1>8, Quiet DEF SettledInv, CleanInv
    <2>2. new.contents \subseteq files
      BY <1>2, <1>5, <1>7, <2>1, KnownHasFile DEF FilesStay
    <2>3. new.thumb \notin AttsOf(new.contents) /\ post.thumb \notin AttsOf(new.contents)
      <3>1. AttsOf(post.contents \cup new.contents) \cap {post.thumb, new.thumb} = {}
        BY <1>2, <1>8, Quiet DEF Shares
      <3>2. AttsOf(new.contents) \subseteq AttsOf(post.contents \cup new.contents)
        BY DEF AttsOf
      <3> QED BY <3>1, <3>2
    <2>4. new.thumb # None => new.thumb \in Uploaded
      <3>1. post.thumb # None => post.thumb \in Atts /\ row[post.thumb] \in {"post", "gone"}
        BY <1>2, <1>5, <2>1 DEF ThumbIsMoved, Post
      <3>2. post.thumb # None => post.thumb \in Uploaded
        BY <3>1 DEF Uploaded
      <3> QED BY <1>5, <1>7, <3>2
    <2> QED BY <1>2, <1>3, <1>7, <2>1, <2>2, <2>3, <2>4 DEF WriteIsFresh, Uploaded
  <1>9. ASSUME Smooth' PROVE WriteIsSmooth'
    <2>1. /\ ~Resends(b, t) /\ ~Strays(b)
          /\ new.thumb \notin AttsOf(b.fileUrls)
          /\ post.thumb \notin AttsOf(b.fileUrls)
      BY <1>2, <1>9, Quiet
    <2>2. t # None => row[t] = "temp"
      BY <2>1 DEF Resends
    <2> QED BY <1>2, <1>3, <1>5, <1>7, <2>1, <2>2, SmoothBody DEF WriteIsSmooth
  <1> QED BY <1>2, <1>3, <1>4, <1>8, <1>9, Quiet, AuthorSettles
-----------------------------------------------------------------------------
(* The handlers a request begins, whether it creates or patches the post.  *)
Begun(new) ==
  /\ \A j \in new : j.pc = "find" /\ j.found = {}
  /\ \A j \in new : Rewrites(j) \/ j.does = "delete" =>
       j.body = author.body /\ (post = None \/ author.given)
  /\ \A j, k \in new : Rewrites(j) /\ Rewrites(k) => j = k
  /\ \A j \in new : j.does = "delete" => post # None /\ j.ids = author.ids
  /\ \A j \in new : j.does = "thumbOff" =>
       /\ post # None /\ author.resets /\ author.was # None
       /\ j.ids = {author.was} /\ j.body = Bare
  /\ \A j \in new : j.does = "thumbOn" =>
       /\ author.new.thumb # None /\ j.ids = {author.new.thumb}
       /\ post = None \/ author.resets
  /\ author.body.fileUrls # {} /\ (post = None \/ author.given) =>
       \E j \in new : Rewrites(j)
  /\ author.new.thumb # None /\ (post = None \/ author.resets) =>
       \E j \in new : j.does = "thumbOn"
  /\ post # None /\ author.given => \E j \in new : j.does = "delete"
  /\ post # None /\ author.resets /\ author.was # None =>
       \E j \in new : j.does = "thumbOff"

(* What a job is begun with.                                               *)
LEMMA StartFields ==
  ASSUME NEW does, NEW body, NEW ids
  PROVE  /\ Start(does, body, ids).does = does /\ Start(does, body, ids).ids = ids
         /\ Start(does, body, ids).pc = "find" /\ Start(does, body, ids).found = {}
         /\ Start(does, body, ids).body = body
  BY DEF Start

(* The jobs of a new post, and those of a patch.                           *)
LEMMA CreatedBegin ==
  ASSUME post = None
  PROVE  Begun(CreatedJobs)
  <1>1. \A j : j \in CreatedJobs <=>
          \/ j = Start("create", author.body, {})
          \/ author.new.thumb # None /\ j = Start("thumbOn", Bare, {author.new.thumb})
    BY DEF CreatedJobs
  <1> HIDE DEF CreatedJobs
  <1> QED BY <1>1, StartFields DEF Begun, Rewrites

LEMMA PatchedBegin ==
  ASSUME post # None
  PROVE  Begun(UpdatedJobs \cup ThumbnailJobs)
  <1>1. PICK new : new = UpdatedJobs \cup ThumbnailJobs
    OBVIOUS
  <1>2. \A j : j \in new <=>
          \/ author.given /\ j = Start("delete", author.body, author.ids)
          \/ /\ author.given /\ author.body.fileUrls # {}
             /\ j = Start("update", author.body, {})
          \/ /\ author.resets /\ author.was # None
             /\ j = Start("thumbOff", Bare, {author.was})
          \/ /\ author.resets /\ author.new.thumb # None
             /\ j = Start("thumbOn", Bare, {author.new.thumb})
    BY <1>1 DEF UpdatedJobs, ThumbnailJobs
  <1>3. Begun(new)
    BY <1>2, StartFields DEF Begun, Rewrites
  <1> QED BY <1>1, <1>3

(* With the write of the post its jobs begin: no others are running,       *)
(* or past says so, and they spare each what another is about.             *)
LEMMA BeginCleans ==
  ASSUME SettledInv, FilesInv', Clean, author.pc = "write",
         NEW new, Begun(new), jobs' = jobs \cup new,
         author' = [author EXCEPT !.pc = "commit"],
         UNCHANGED <<row, files, links, post, sent, shown, past>>
  PROVE  CleanInv'
  <1>1. /\ author \in Author /\ author.new \in Post
        /\ author.new.contents \in SUBSET Urls
    BY DEF SettledInv, FilesInv, FilesTypeOK, AuthorOK, Post
  <1>2. /\ author'.pc = "commit" /\ author'.new = author.new
        /\ author'.given = author.given /\ author'.body = author.body
    BY <1>1 DEF Author
  <1>3. CleanInv /\ jobs = {} /\ jobs' = new /\ Target = post
    BY DEF SettledInv, CleanInv, JobsHaveTarget, Target
  <1>a. /\ author.given => author.new.contents = author.body.contents
        /\ post = None => author.given
    BY <1>3 DEF CleanInv, WriteIsFresh
  <1>b. TargetShown' = IF author.given THEN author.body ELSE shown
    BY <1>2 DEF TargetShown
  <1>4. Target' = author.new /\ Target' # None
    BY <1>1, <1>2, NoneIsNoPost DEF Target
  <1>5. TargetIsShown'
    <2>2. CASE ~author.given
      <3>1. TargetShown = shown /\ TargetIsShown
        BY <1>3 DEF TargetShown, CleanInv
      <3>2. post # None /\ author.new.contents = post.contents
        BY <1>3, <2>2 DEF CleanInv, WriteIsFresh
      <3> QED BY <1>3, <1>4, <1>b, <2>2, <3>1, <3>2 DEF TargetIsShown
    <2> QED BY <1>4, <1>a, <1>b, <2>2 DEF TargetIsShown
  <1>6. JobsHaveTarget'
    <2>1. \A j \in new : j.found = {} /\ AttsOf(j.found) = {}
      BY DEF Begun, AttsOf
    <2>2. \A j \in new : Rewrites(j) =>
            /\ j.body = TargetShown'
            /\ j.body.contents = author.new.contents
      BY <1>a, <1>b DEF Begun
    <2>3. \A j \in new : Rewrites(j) =>
            /\ j.found \subseteq j.body.fileUrls
            /\ AttsOf(j.found) \subseteq Uploaded'
      BY <2>1
    <2>4. \A j, k \in new : Rewrites(j) /\ Rewrites(k) => j = k
      BY DEF Begun
    <2> QED BY <1>2, <1>3, <1>4, <2>2, <2>3, <2>4 DEF JobsHaveTarget
  <1>7. WriteIsFresh'
    BY <1>2 DEF WriteIsFresh
  <1>8. FilesStay'
    BY <1>3, <1>4 DEF CleanInv, FilesStay, WriteIsFresh, Uploaded
  <1>9. RemoversSpare'
    <2>1. ASSUME NEW k \in new, k.does = "delete"
          PROVE  /\ \A a \in k.ids : row[a] \in {"post", "gone"}
                 /\ Doomed(k) \cap author.new.contents = {}
      <3>1. k.ids = links /\ k.body.contents = author.new.contents
        BY <1>3, <1>a, <2>1 DEF Begun, CleanInv, WriteIsFresh
      <3> QED BY <3>1 DEF SettledInv, Doomed
    <2>2. ASSUME NEW k \in new, k.does = "thumbOff"
          PROVE  /\ \A a \in k.ids : row[a] \in {"post", "gone"}
                 /\ Doomed(k) \cap author.new.contents = {}
      <3>1. /\ k.ids = {post.thumb} /\ post.thumb # None /\ post # None
            /\ post.thumb \notin AttsOf(author.new.contents)
        BY <1>3, <2>2 DEF Begun, CleanInv, WriteIsFresh
      <3>2. row[post.thumb] \in {"post", "gone"}
        BY <1>3, <3>1 DEF CleanInv, ThumbIsMoved
      <3>3. Doomed(k) \subseteq {<<post.thumb, "post">>}
        BY <3>1 DEF Doomed, At
      <3>4. <<post.thumb, "post">> \notin author.new.contents
        BY <1>1, <3>1, UrlFacts
      <3> QED BY <3>1, <3>2, <3>3, <3>4
    <2>3. \A j \in new : j.found = {} /\ AttsOf(j.found) = {}
      BY DEF Begun, AttsOf
    <2>4. \A k \in new : k.does = "thumbOff" =>
            k.body.contents = {} /\ \E t \in Atts : k.ids = {t}
      BY <1>1 DEF Begun, Author, Bare
    <2>5. (\A k \in jobs : Removes(k) =>
             /\ \A a \in k.ids : row[a] \in {"post", "gone"}
             /\ k.found \subseteq Doomed(k)
             /\ Doomed(k) \cap Target.contents = {}
             /\ k.does = "thumbOff" =>
                  k.body.contents = {} /\ \E t \in Atts : k.ids = {t}
             /\ \A j \in jobs : Rewrites(j) =>
                  \A a \in k.ids : <<a, "temp">> \notin j.found)'
      BY <1>3, <1>4, <2>1, <2>2, <2>3, <2>4 DEF Removes
    <2> QED BY <2>5 DEF RemoversSpare
  <1>10. ThumbIsMoved'
    <2>1. ASSUME author.new.thumb # None
          PROVE  \/ row[author.new.thumb] \in {"post", "gone"}
                 \/ \E k \in new : k.does = "thumbOn" /\ author.new.thumb \in k.ids
      <3>1. CASE post = None \/ author.resets
        BY <2>1, <3>1 DEF Begun
      <3>2. CASE post # None /\ ~author.resets
        BY <1>3, <2>1, <3>2 DEF CleanInv, WriteIsFresh, ThumbIsMoved
      <3> QED BY <3>1, <3>2
    <2>2. ASSUME NEW k \in new, k.does = "thumbOn"
          PROVE  k.pc = "find" /\ \E t \in Uploaded : k.ids = {t}
      BY <1>3, <2>2 DEF Begun, CleanInv, WriteIsFresh
    <2> QED BY <1>3, <1>4, <2>1, <2>2 DEF ThumbIsMoved, Uploaded
  <1> QED BY <1>3, <1>5, <1>6, <1>7, <1>8, <1>9, <1>10 DEF CleanInv

(* When nothing has gone wrong, they remove all that is to go.             *)
LEMMA BeginSmooths ==
  ASSUME SettledInv, FilesInv', Smooth, author.pc = "write",
         NEW new, Begun(new), jobs' = jobs \cup new,
         author' = [author EXCEPT !.pc = "commit"],
         UNCHANGED <<row, files, links, post, sent, shown, past>>
  PROVE  SmoothInv'
  <1>1. /\ author \in Author /\ author.new \in Post
        /\ author.new.contents \in SUBSET Urls
        /\ author.body.contents \in SUBSET Urls
        /\ author.body.fileUrls \in SUBSET Urls
    BY DEF SettledInv, FilesInv, FilesTypeOK, AuthorOK, Post, Author, PostBody
  <1>2. /\ author'.pc = "commit" /\ author'.new = author.new
        /\ author'.given = author.given /\ author'.body = author.body
    BY <1>1 DEF Author
  <1>3. /\ CleanInv /\ SmoothInv /\ jobs = {} /\ jobs' = new /\ Target = post
        /\ TargetShown = shown /\ WriteIsFresh /\ WriteIsSmooth
    BY DEF SettledInv, CleanInv, SmoothInv, JobsHaveTarget, Target, TargetShown,
       Smooth, Clean
  <1>4. Target' = author.new /\ Target' # None
    BY <1>1, <1>2, NoneIsNoPost DEF Target
  <1>a. /\ author.given =>
             author.new.contents = author.body.contents /\ TargetShown' = author.body
        /\ ~author.given =>
             /\ post # None /\ author.new.contents = post.contents
             /\ TargetShown' = shown
    BY <1>2, <1>3 DEF WriteIsFresh, TargetShown
  <1>5. post # None => \A a \in Atts :
          /\ <<a, "post">> \in post.contents \cup shown.fileUrls =>
               row[a] = "post" /\ a \in links
          /\ <<a, "temp">> \in post.contents => row[a] = "temp" \/ a \in links
          /\ <<a, "temp">> \in shown.fileUrls =>
               /\ a \in links
               /\ <<a, "temp">> \in post.contents => <<a, "temp">> \in shown.twice
    BY <1>3 DEF SmoothInv, ContentsAreLinked, Moving
  <1>b. \A a \in links : a \in Atts /\ row[a] = "post"
    BY DEF SettledInv, FilesInv, FilesTypeOK
  <1>c. Named' = AttsOf(author.new.contents) \cup AttsOf(TargetShown'.fileUrls)
    BY <1>4 DEF Named
  <1>d. ASSUME author.given, NEW a \in Atts
        PROVE  /\ <<a, "post">> \in author.body.contents \cup author.body.fileUrls =>
                    /\ post # None /\ <<a, "post">> \in author.body.contents
                    /\ row[a] = "post" /\ a \in links
               /\ <<a, "temp">> \in author.body.contents \cup author.body.fileUrls =>
                    row[a] = "temp"
    BY <1>3, <1>5, <1>d DEF WriteIsSmooth
  <1>e. ASSUME ~author.given, post # None, NEW a \in AttsOf(shown.fileUrls)
        PROVE  a \in links
    <2>1. shown.fileUrls \in SUBSET Urls
      BY DEF SettledInv, FilesInv, FilesTypeOK, PostBody
    <2> QED BY <1>5, <1>e, <2>1, UrlFacts
  <1>6. ContentsAreLinked'
    <2>1. ASSUME author.given, NEW a \in Atts
          PROVE  /\ <<a, "post">> \in author.new.contents \cup TargetShown'.fileUrls =>
                      row[a] = "post" /\ a \in links
                 /\ <<a, "temp">> \in author.new.contents => row[a] = "temp"
                 /\ <<a, "temp">> \in TargetShown'.fileUrls =>
                      row[a] = "temp" /\ \E j \in new : Rewrites(j) /\ j.pc = "find"
      <3>1. <<a, "temp">> \in author.body.fileUrls =>
              \E j \in new : Rewrites(j) /\ j.pc = "find"
        BY <2>1 DEF Begun
      <3> QED BY <1>a, <1>d, <2>1, <3>1
    <2>2. CASE author.given
      BY <1>3, <1>4, <2>1, <2>2 DEF ContentsAreLinked, Moving
    <2>3. CASE ~author.given
      <3>1. /\ post # None /\ author.new.contents = post.contents
            /\ TargetShown' = shown
        BY <1>a, <2>3
      <3> QED BY <1>4, <1>5, <3>1 DEF ContentsAreLinked
    <2> QED BY <2>2, <2>3
  <1>7. WriteIsSmooth'
    BY <1>2 DEF WriteIsSmooth
  <1>8. ASSUME author.new.thumb # None
        PROVE  /\ author.new.thumb \notin Named' \cup links
               /\ \/ row[author.new.thumb] = "post"
                  \/ /\ row[author.new.thumb] = "temp"
                     /\ \E k \in new : k.does = "thumbOn"
    <2>1. author.new.thumb \notin AttsOf(author.new.contents)
      BY <1>3 DEF WriteIsFresh
    <2>2. author.given => author.new.thumb \notin AttsOf(TargetShown'.fileUrls)
      BY <1>3, <1>a DEF WriteIsSmooth
    <2>3. CASE post = None \/ author.resets
      <3>1. row[author.new.thumb] = "temp"
        BY <1>3, <1>8, <2>3 DEF WriteIsSmooth
      <3>2. author.new.thumb \notin links
        BY <1>b, <3>1
      <3>3. ~author.given => author.new.thumb \notin AttsOf(TargetShown'.fileUrls)
        BY <1>a, <1>e, <3>2
      <3>4. \E k \in new : k.does = "thumbOn"
        BY <1>8, <2>3 DEF Begun
      <3> QED BY <1>c, <2>1, <2>2, <3>1, <3>2, <3>3, <3>4
    <2>4. CASE post # None /\ ~author.resets
      <3>1. author.new.thumb = post.thumb
        BY <1>3, <2>4 DEF WriteIsFresh
      <3>2. row[post.thumb] = "post" /\ post.thumb \notin Named \cup links
        BY <1>3, <1>8, <2>4, <3>1 DEF SmoothInv, ThumbIsAlone
      <3>3. ~author.given => author.new.thumb \notin AttsOf(TargetShown'.fileUrls)
        BY <1>a, <1>e, <3>1, <3>2
      <3> QED BY <1>c, <2>1, <2>2, <3>1, <3>2, <3>3
    <2> QED BY <2>3, <2>4
  <1>9. ASSUME NEW k \in new, Removes(k)
        PROVE  /\ author.new.thumb \notin k.ids
               /\ \A a \in Atts : <<a, "post">> \in Doomed(k) => a \notin Named'
    <2>1. CASE k.does = "delete"
      <3>1. k.ids = links /\ k.body = author.body /\ author.given
        BY <1>3, <2>1 DEF Begun, WriteIsFresh
      <3>2. None \notin links
        BY <1>b, NoneAssumption
      <3>3. ASSUME NEW a \in Atts, <<a, "post">> \in Doomed(k) PROVE a \notin Named'
        <4>1. a \in links /\ <<a, "post">> \notin author.body.contents
          <5>1. \A x, q : <<x, q>> \in At(links, "post") <=> x \in links /\ q = "post"
            BY AtFacts DEF SettledInv, FilesInv, FilesTypeOK, Places
          <5> QED BY <3>1, <3>3, <5>1 DEF Doomed
        <4>2. <<a, "temp">> \notin author.body.contents \cup author.body.fileUrls
          BY <1>b, <1>d, <3>1, <4>1
        <4>3. <<a, "post">> \notin author.body.contents \cup author.body.fileUrls
          BY <1>d, <3>1, <4>1
        <4>4. a \notin AttsOf(author.body.contents) /\ a \notin AttsOf(author.body.fileUrls)
          BY <1>1, <4>2, <4>3, UrlFacts
        <4> QED BY <1>a, <1>c, <3>1, <4>4
      <3> QED BY <1>8, <3>1, <3>2, <3>3
    <2>2. CASE k.does = "thumbOff"
      <3>1. /\ k.ids = {post.thumb} /\ post.thumb # None /\ post # None
            /\ author.resets
        BY <1>3, <2>2 DEF Begun, WriteIsFresh
      <3>2. row[post.thumb] = "post" /\ post.thumb \notin Named \cup links
        BY <1>3, <3>1 DEF SmoothInv, ThumbIsAlone
      <3>3. author.new.thumb # None => row[author.new.thumb] = "temp"
        BY <1>3, <3>1 DEF WriteIsSmooth
      <3>4. post.thumb \notin AttsOf(author.new.contents)
        BY <1>3, <3>1 DEF WriteIsFresh
      <3>5. post.thumb \notin AttsOf(TargetShown'.fileUrls)
        BY <1>3, <1>a, <1>e, <3>1, <3>2 DEF WriteIsSmooth
      <3>6. \A a : <<a, "post">> \in Doomed(k) => a = post.thumb
        BY <3>1, PairFacts DEF Doomed, At
      <3> QED BY <1>c, <3>1, <3>2, <3>3, <3>4, <3>5, <3>6
    <2> QED BY <1>9, <2>1, <2>2 DEF Removes
  <1>10. ThumbIsAlone' /\ NamedAreSpared'
    <2>1. \A k \in new : k.does = "thumbOn" => k.ids = {author.new.thumb} /\ k.pc # "drop"
      BY DEF Begun
    <2>2. \A k : Doomed(k)' = Doomed(k)
      BY DEF Doomed
    <2>3. ThumbIsAlone'
      BY <1>3, <1>4, <1>8, <1>9, <2>1 DEF ThumbIsAlone
    <2>4. NamedAreSpared'
      BY <1>3, <1>9, <2>2 DEF NamedAreSpared
    <2> QED BY <2>3, <2>4
  <1>11. RestIsRemoved'
    <2> SUFFICES ASSUME NEW a \in Atts, Left(a), a # author.new.thumb,
                        a \notin AttsOf(author.new.contents),
                        a \notin AttsOf(TargetShown'.fileUrls)
                 PROVE  post # None /\ \E k \in new : Removing(k, a)
      <3>1. \A a \in Atts : Left(a)' <=> Left(a)
        BY DEF Left
      <3>2. \A k, a : Removing(k, a)' <=> Removing(k, a)
        BY DEF Removing, Removes
      <3> QED BY <1>3, <1>4, <1>c, <3>1, <3>2 DEF RestIsRemoved
    <2>1. post # None /\ a \in Named \cup {post.thumb}
      BY <1>3 DEF SmoothInv, RestIsRemoved
    <2>2. CASE a \in Named
      <3>1. post.contents \in SUBSET Urls /\ shown.fileUrls \in SUBSET Urls
        BY <2>1 DEF SettledInv, FilesInv, FilesTypeOK, Post, PostBody
      <3>2. Named = AttsOf(post.contents) \cup AttsOf(shown.fileUrls)
        BY <1>3 DEF Named
      <3>3. \/ <<a, "post">> \in post.contents \/ <<a, "temp">> \in post.contents
            \/ <<a, "post">> \in shown.fileUrls \/ <<a, "temp">> \in shown.fileUrls
        BY <2>2, <3>1, <3>2, UrlFacts
      <3>4. a \in links
        BY <1>5, <2>1, <3>3 DEF Left
      <3>5. a \in Images
        BY <3>4 DEF Left
      <3>6. author.given
        BY <1>a, <2>2, <3>2
      <3>7. PICK k \in new : k.does = "delete"
        BY <2>1, <3>6 DEF Begun
      <3>8. k.ids = links /\ k.body = author.body /\ k.pc = "find"
        BY <1>3, <2>1, <3>7 DEF Begun, WriteIsFresh
      <3>9. <<a, "post">> \notin author.body.contents
        BY <1>1, <1>a, <3>6, UrlFacts
      <3> QED BY <2>1, <3>4, <3>5, <3>7, <3>8, <3>9 DEF Removing, Removes
    <2>3. CASE a = post.thumb
      <3>1. author.resets /\ author.was = a /\ author.was # None
        BY <1>3, <2>1, <2>3, NoneAssumption DEF WriteIsFresh
      <3>2. PICK k \in new : k.does = "thumbOff"
        BY <2>1, <3>1 DEF Begun
      <3>3. k.ids = {a} /\ k.body = Bare /\ k.pc = "find"
        BY <3>1, <3>2 DEF Begun
      <3> QED BY <2>1, <3>2, <3>3 DEF Removing, Removes, Bare
    <2> QED BY <2>1, <2>2, <2>3
  <1> QED BY <1>6, <1>7, <1>10, <1>11 DEF SmoothInv

LEMMA BeginSettles ==
  ASSUME SettledInv, FilesInv', author.pc = "write",
         NEW new, Begun(new), jobs' = jobs \cup new,
         author' = [author EXCEPT !.pc = "commit"],
         UNCHANGED <<row, files, links, post, sent, shown, past>>
  PROVE  SettledInv'
  <1>1. author'.pc = "commit"
    BY DEF SettledInv, FilesInv, FilesTypeOK, Author
  <1>2. Clean' => CleanInv'
    BY BeginCleans DEF Clean
  <1>3. Smooth' => SmoothInv'
    BY BeginSmooths DEF Smooth
  <1> QED BY <1>1, <1>2, <1>3 DEF SettledInv

LEMMA CreateInsertSettles ==
  ASSUME SettledInv, FilesInv', CreateInsert
  PROVE  SettledInv'
  <1>1. Begun(CreatedJobs)
    BY CreatedBegin DEF CreateInsert
  <1> QED BY <1>1, BeginSettles DEF CreateInsert

LEMMA PatchUpdateSettles ==
  ASSUME SettledInv, FilesInv', PatchUpdate
  PROVE  SettledInv'
  <1>1. Begun(UpdatedJobs \cup ThumbnailJobs)
    BY PatchedBegin DEF PatchUpdate
  <1>2. jobs' = jobs \cup (UpdatedJobs \cup ThumbnailJobs)
    BY DEF PatchUpdate
  <1> QED BY <1>1, <1>2, BeginSettles DEF PatchUpdate

(* A new file in temp/ is nobody's.                                        *)
LEMMA UploadSettles ==
  ASSUME SettledInv, FilesInv', NEW a \in Atts, Upload(a)
  PROVE  SettledInv'
  <1>1. /\ row[a] = "new" /\ row'[a] = "temp" /\ files' = files \cup {<<a, "temp">>}
        /\ \A b \in Atts : b # a => row'[b] = row[b]
        /\ UNCHANGED <<links, post, author, jobs, sent, shown, past>>
    BY DEF Upload, SettledInv, FilesInv, FilesTypeOK
  <1>2. Target' = Target /\ TargetShown' = TargetShown
    BY <1>1 DEF Target, TargetShown
  <1>3. links \subseteq Atts /\ (\A b \in links : row[b] = "post")
    BY DEF SettledInv, FilesInv, FilesTypeOK
  <1>4. (\A b \in links : row[b] = "post")'
    BY <1>1, <1>3
  <1>5. Uploaded' = Uploaded \cup {a} /\ a \notin Uploaded /\ Uploaded \subseteq Atts
    BY <1>1 DEF Uploaded
  <1>6. \A b \in Atts : row[b] # "new" => row'[b] = row[b]
    BY <1>1
  <1>7. /\ Target # None => Target.thumb \in Atts \cup {None}
        /\ author.pc = "write" => author.new.thumb \in Atts \cup {None}
        /\ \A k \in jobs : k.ids \subseteq Atts
    BY TargetTypes DEF SettledInv, FilesInv, FilesTypeOK, AuthorOK, Post, Job
  <1>8. ASSUME Clean' PROVE CleanInv'
    <2>1. CleanInv
      BY <1>1, <1>8 DEF SettledInv, Clean
    <2>2. TargetIsShown' /\ JobsHaveTarget'
      BY <1>1, <1>2, <1>5, <2>1 DEF CleanInv, TargetIsShown, JobsHaveTarget
    <2>3. WriteIsFresh'
      BY <1>1, <1>5, <2>1 DEF CleanInv, WriteIsFresh
    <2>4. FilesStay'
      BY <1>1, <1>2, <1>5, <2>1 DEF CleanInv, FilesStay
    <2>5. RemoversSpare'
      <3>1. \A k \in jobs : Removes(k) => \A b \in k.ids : row'[b] \in {"post", "gone"}
        BY <1>6, <1>7, <2>1 DEF CleanInv, RemoversSpare
      <3> QED BY <1>1, <1>2, <2>1, <3>1 DEF CleanInv, RemoversSpare
    <2>6. ThumbIsMoved'
      BY <1>1, <1>2, <1>5, <1>6, <1>7, <2>1 DEF CleanInv, ThumbIsMoved
    <2> QED BY <1>1, <2>1, <2>2, <2>3, <2>4, <2>5, <2>6 DEF CleanInv
  <1>9. ASSUME Smooth' PROVE SmoothInv'
    <2>1. SmoothInv
      BY <1>1, <1>9 DEF SettledInv, Smooth
    <2>2. ContentsAreLinked'
      BY <1>1, <1>2, <1>6, <2>1 DEF SmoothInv, ContentsAreLinked, Moving
    <2>3. WriteIsSmooth'
      BY <1>1, <1>6, <1>7, <2>1 DEF SmoothInv, WriteIsSmooth
    <2>a. Named' = Named
      BY <1>2 DEF Named
    <2>b. NamedAreSpared'
      BY <1>1, <2>1, <2>a DEF SmoothInv, NamedAreSpared, Doomed
    <2>4. ThumbIsAlone'
      BY <1>1, <1>2, <1>6, <1>7, <2>1, <2>a DEF SmoothInv, ThumbIsAlone
    <2>5. RestIsRemoved'
      BY <1>1, <1>2, <2>1, <2>a DEF SmoothInv, RestIsRemoved, Left, Removing
    <2> QED BY <2>2, <2>3, <2>b, <2>4, <2>5 DEF SmoothInv
  <1> QED BY <1>1, <1>4, <1>8, <1>9 DEF SettledInv
-----------------------------------------------------------------------------
(* Steps of the handlers                                                   *)

LEMMA JobTypes ==
  ASSUME FilesInv, NEW j \in jobs
  PROVE  /\ j \in Job /\ JobOK(j) /\ j.ids \in SUBSET Atts
         /\ j.found \in SUBSET Urls /\ j.body \in PostBody
         /\ j.body.contents \in SUBSET Urls /\ j.body.fileUrls \in SUBSET Urls
         /\ AttsOf(j.found) \in SUBSET Atts
         /\ \A a, p : <<a, p>> \in Doomed(j) <=>
              a \in j.ids /\ p = "post" /\ <<a, "post">> \notin j.body.contents
  <1>1. j \in Job /\ JobOK(j)
    BY DEF FilesInv, FilesTypeOK
  <1>2. /\ j.ids \in SUBSET Atts
        /\ j.found \in SUBSET Urls /\ j.body \in PostBody
        /\ j.body.contents \in SUBSET Urls /\ j.body.fileUrls \in SUBSET Urls
    BY <1>1 DEF Job, PostBody
  <1>3. AttsOf(j.found) \in SUBSET Atts
    BY <1>2, UrlFacts
  <1>4. \A a, p : <<a, p>> \in At(j.ids, "post") <=> a \in j.ids /\ p = "post"
    BY <1>2, AtFacts DEF Places
  <1>5. \A a, p : <<a, p>> \in Doomed(j) <=>
          a \in j.ids /\ p = "post" /\ <<a, "post">> \notin j.body.contents
    BY <1>4 DEF Doomed
  <1> QED BY <1>1, <1>2, <1>3, <1>5

(* While handlers run there is a post to work for, and no request that     *)
(* has yet to write.                                                       *)
LEMMA HasTarget ==
  ASSUME SettledInv, Clean, NEW j \in jobs
  PROVE  /\ CleanInv /\ Target # None /\ Target \in Post
         /\ Target.contents \in SUBSET Urls /\ author.pc # "write"
  BY TargetTypes DEF SettledInv, CleanInv, JobsHaveTarget

(* A step inside the transaction of a job, which deletes of S3 only        *)
(* what is to go, and finds only what is its own.                          *)
LEMMA JobGoesSettles ==
  ASSUME SettledInv, FilesInv', NEW j \in jobs, NEW k \in Job,
         k.does = j.does, k.ids = j.ids, k.body = j.body, k.pc # "find",
         jobs' = (jobs \ {j}) \cup {k},
         UNCHANGED <<row, links, post, author, sent, shown, past>>,
         \A u \in files : u \in files' \/ (Removes(k) /\ u \in k.found),
         Clean /\ Removes(k) => k.found \subseteq Doomed(k),
         Clean /\ Rewrites(k) =>
           /\ k.found \subseteq k.body.fileUrls
           /\ AttsOf(k.found) \subseteq Uploaded
           /\ \A x \in jobs : Removes(x) => \A a \in x.ids : <<a, "temp">> \notin k.found,
         Clean /\ k.does = "thumbOn" => AttsOf(k.found) = k.ids,
         Smooth => k.pc # "drop",
         Smooth /\ Rewrites(k) =>
           \A a \in Atts :
             /\ <<a, "temp">> \in TargetShown.fileUrls /\ row[a] = "temp"
             /\ j.pc = "find" \/ <<a, "temp">> \in j.found
             => <<a, "temp">> \in k.found,
         Smooth => \A a \in Atts : Left(a) /\ Removing(j, a) => <<a, "post">> \in k.found
  PROVE  SettledInv'
  <1>1. Target' = Target /\ TargetShown' = TargetShown
    BY DEF Target, TargetShown
  <1>2. (\A a \in links : row[a] = "post")'
    BY DEF SettledInv
  <1>3. Doomed(k) = Doomed(j) /\ (Removes(k) <=> Removes(j)) /\ (Rewrites(k) <=> Rewrites(j))
    BY DEF Doomed, Removes, Rewrites
  <1>4. ASSUME Clean PROVE CleanInv'
    <2>1. CleanInv /\ Target # None /\ author.pc # "write"
      BY <1>4, HasTarget
    <2>2. TargetIsShown' /\ WriteIsFresh'
      BY <1>1, <2>1 DEF CleanInv, TargetIsShown, WriteIsFresh
    <2>3. JobsHaveTarget'
      <3>1. \A x \in jobs' : Rewrites(x) =>
              /\ x.body = TargetShown
              /\ x.body.contents = Target.contents
              /\ x.found \subseteq x.body.fileUrls
              /\ AttsOf(x.found) \subseteq Uploaded
        BY <1>3, <1>4, <2>1 DEF CleanInv, JobsHaveTarget
      <3>2. \A x, y \in jobs' : Rewrites(x) /\ Rewrites(y) => x = y
        BY <1>3, <2>1 DEF CleanInv, JobsHaveTarget
      <3> QED BY <1>1, <2>1, <3>1, <3>2 DEF JobsHaveTarget, Uploaded
    <2>4. RemoversSpare'
      <3>1. \A x \in jobs : Removes(x) =>
              /\ \A a \in x.ids : row[a] \in {"post", "gone"}
              /\ x.found \subseteq Doomed(x)
              /\ Doomed(x) \cap Target.contents = {}
              /\ x.does = "thumbOff" => x.body.contents = {} /\ \E t \in Atts : x.ids = {t}
              /\ \A y \in jobs : Rewrites(y) => \A a \in x.ids : <<a, "temp">> \notin y.found
        BY <2>1 DEF CleanInv, RemoversSpare
      <3>2. \A x \in jobs' : Removes(x) =>
              /\ \A a \in x.ids : row[a] \in {"post", "gone"}
              /\ x.found \subseteq Doomed(x)
              /\ Doomed(x) \cap Target.contents = {}
              /\ x.does = "thumbOff" => x.body.contents = {} /\ \E t \in Atts : x.ids = {t}
        BY <1>3, <1>4, <3>1
      <3>3. \A x, y \in jobs' : Removes(x) /\ Rewrites(y) =>
              \A a \in x.ids : <<a, "temp">> \notin y.found
        <4>1. ~(Removes(k) /\ Rewrites(k))
          BY DEF Removes, Rewrites
        <4> QED BY <1>3, <1>4, <3>1, <4>1
      <3> QED BY <1>1, <3>2, <3>3 DEF RemoversSpare, Doomed, Removes, Rewrites
    <2>5. FilesStay'
      <3>1. Removes(k) => k.found \subseteq Doomed(k) /\ Doomed(k) \cap Target.contents = {}
        BY <1>3, <1>4, <2>1 DEF CleanInv, RemoversSpare
      <3>2. \A a, p : <<a, p>> \in Doomed(k) => p = "post"
        BY <1>3, JobTypes DEF SettledInv
      <3>3. \A u \in Target.contents : u \in files'
        BY <2>1, <3>1 DEF CleanInv, FilesStay
      <3>4. \A a \in Uploaded : <<a, "temp">> \in files'
        BY <2>1, <3>1, <3>2 DEF CleanInv, FilesStay
      <3> QED BY <1>1, <3>3, <3>4 DEF FilesStay, Uploaded
    <2>6. ThumbIsMoved'
      BY <1>1, <1>4, <2>1 DEF CleanInv, ThumbIsMoved, Uploaded
    <2> QED BY <2>1, <2>2, <2>3, <2>4, <2>5, <2>6 DEF CleanInv
  <1>5. ASSUME Smooth PROVE SmoothInv'
    <2>1. SmoothInv /\ CleanInv /\ Target # None /\ author.pc # "write"
      BY <1>5, HasTarget DEF SettledInv, Smooth, Clean
    <2>2. ContentsAreLinked'
      <3>1. ASSUME NEW a \in Atts, <<a, "temp">> \in TargetShown.fileUrls,
                   row[a] = "temp", Moving(a)
            PROVE  Moving(a)'
        <4>1. PICK x \in jobs : Rewrites(x) /\ (x.pc = "find" \/ <<a, "temp">> \in x.found)
          BY <3>1 DEF Moving
        <4>2. CASE x = j
          BY <1>3, <1>5, <3>1, <4>1, <4>2 DEF Moving, Rewrites
        <4>3. CASE x # j
          BY <4>1, <4>3 DEF Moving, Rewrites
        <4> QED BY <4>2, <4>3
      <3> QED BY <1>1, <2>1, <3>1 DEF SmoothInv, ContentsAreLinked
    <2>a. Named' = Named
      BY <1>1 DEF Named
    <2>b. NamedAreSpared'
      <3>1. \A x \in jobs' : Removes(x) => \A a \in Atts : <<a, "post">> \in Doomed(x) => a \notin Named
        BY <1>3, <2>1 DEF SmoothInv, NamedAreSpared
      <3> QED BY <2>a, <3>1 DEF NamedAreSpared, Doomed, Removes
    <2>3. WriteIsSmooth'
      BY <2>1 DEF WriteIsSmooth
    <2>4. ThumbIsAlone'
      BY <1>1, <1>3, <1>5, <2>1, <2>a DEF SmoothInv, ThumbIsAlone
    <2>5. RestIsRemoved'
      <3>1. ASSUME NEW a \in Atts, Left(a), NEW x \in jobs, Removing(x, a)
            PROVE  \E y \in jobs' : Removing(y, a)
        <4>1. CASE x = j
          BY <1>3, <1>5, <3>1, <4>1 DEF Removing
        <4> QED BY <3>1, <4>1
      <3>2. \A a \in Atts : Left(a)' <=> Left(a)
        BY DEF Left
      <3>3. \A x, a : Removing(x, a)' <=> Removing(x, a)
        BY DEF Removing, Removes
      <3> QED BY <1>1, <2>1, <2>a, <3>1, <3>2, <3>3 DEF SmoothInv, RestIsRemoved
    <2> QED BY <2>2, <2>b, <2>3, <2>4, <2>5 DEF SmoothInv
  <1> QED BY <1>2, <1>4, <1>5 DEF SettledInv, Clean, Smooth

(* The end of a job: what it promised the others is done.                  *)
LEMMA JobEndsSettles ==
  ASSUME SettledInv, FilesInv', NEW j \in jobs, jobs' = jobs \ {j},
         UNCHANGED <<files, author, sent, shown>>,
         past \subseteq past', "undone" \in past' => "undone" \in past,
         (\A a \in links : row[a] = "post")',
         Target' = Target \/ Rewrites(j),
         Clean' =>
           /\ \A a \in Atts : row[a] \in {"post", "gone"} => row'[a] \in {"post", "gone"}
           /\ Uploaded' = Uploaded
           /\ Target' # None /\ Target'.thumb = Target.thumb
           /\ AttsOf(Target'.contents) = AttsOf(Target.contents)
           /\ Target'.contents \subseteq files
           /\ \A k \in jobs' : Removes(k) => Doomed(k) \cap Target'.contents = {}
           /\ j.does = "thumbOn" => \A a \in j.ids : row'[a] \in {"post", "gone"},
         Smooth' =>
           /\ ContentsAreLinked'
           /\ Target.thumb # None =>
                /\ Target.thumb \notin links => Target.thumb \notin links'
                /\ \/ row'[Target.thumb] = "post"
                   \/ row'[Target.thumb] = row[Target.thumb] /\ j.does # "thumbOn"
           /\ \A a \in Atts : Left(a)' =>
                \/ Left(a) /\ ~Removing(j, a)
                \/ a \in Named \cup {Target.thumb}
  PROVE  SettledInv'
  <1>1. (Clean' => Clean) /\ (Smooth' => Smooth /\ Clean')
    BY TroubleStays
  <1>2. TargetShown' = TargetShown
    BY DEF TargetShown
  <1>4. ASSUME Clean' PROVE CleanInv'
    <2>1. CleanInv /\ Target # None /\ author.pc # "write"
      BY <1>1, <1>4, HasTarget
    <2>2. TargetIsShown' /\ WriteIsFresh'
      BY <1>2, <1>4, <2>1 DEF CleanInv, TargetIsShown, WriteIsFresh
    <2>3. JobsHaveTarget'
      <3>1. \A x \in jobs' : Rewrites(x) => ~Rewrites(j)
        BY <2>1 DEF CleanInv, JobsHaveTarget
      <3>2. \A x \in jobs' : Rewrites(x) =>
              /\ x.body = TargetShown'
              /\ x.body.contents = Target'.contents
              /\ x.found \subseteq x.body.fileUrls
              /\ AttsOf(x.found) \subseteq Uploaded'
        BY <1>2, <1>4, <2>1, <3>1 DEF CleanInv, JobsHaveTarget
      <3> QED BY <1>4, <2>1, <3>2 DEF CleanInv, JobsHaveTarget
    <2>4. RemoversSpare'
      <3>1. \A k \in jobs : Removes(k) => \A a \in k.ids : row'[a] \in {"post", "gone"}
        BY <1>4, <2>1, JobTypes DEF SettledInv, CleanInv, RemoversSpare
      <3> QED BY <1>4, <2>1, <3>1 DEF CleanInv, RemoversSpare
    <2>5. FilesStay'
      BY <1>4, <2>1 DEF CleanInv, FilesStay
    <2>6. ThumbIsMoved'
      <3>1. Target.thumb # None => Target.thumb \in Atts
        BY <2>1, TargetTypes DEF SettledInv, Post
      <3> QED BY <1>4, <2>1, <3>1 DEF CleanInv, ThumbIsMoved
    <2> QED BY <1>4, <2>1, <2>2, <2>3, <2>4, <2>5, <2>6 DEF CleanInv
  <1>5. ASSUME Smooth' PROVE SmoothInv'
    <2>1. /\ SmoothInv /\ Target # None /\ author.pc # "write"
          /\ Target' # None /\ Target'.thumb = Target.thumb
          /\ AttsOf(Target'.contents) = AttsOf(Target.contents)
      BY <1>1, <1>5, HasTarget DEF SettledInv
    <2>2. WriteIsSmooth'
      BY <2>1 DEF WriteIsSmooth
    <2>a. Named' = Named
      BY <1>2, <2>1 DEF Named
    <2>b. NamedAreSpared'
      BY <2>1, <2>a DEF SmoothInv, NamedAreSpared, Doomed
    <2>3. ThumbIsAlone'
      BY <1>5, <2>1, <2>a DEF SmoothInv, ThumbIsAlone
    <2>4. RestIsRemoved'
      <3>1. ASSUME NEW a \in Atts, Left(a)'
            PROVE  \/ a \in Named \cup {Target.thumb}
                   \/ \E k \in jobs' : Removing(k, a)
        BY <1>5, <2>1, <3>1 DEF SmoothInv, RestIsRemoved
      <3>2. \A x, a : Removing(x, a)' <=> Removing(x, a)
        BY DEF Removing, Removes
      <3> QED BY <2>1, <2>a, <3>1, <3>2 DEF RestIsRemoved
    <2> QED BY <1>5, <2>2, <2>b, <2>3, <2>4 DEF SmoothInv
  <1> QED BY <1>4, <1>5 DEF SettledInv

(* What a handler that ends leaves, when it leaves rows and post alone.    *)
LEMMA JobStopsSettles ==
  ASSUME SettledInv, FilesInv', NEW j \in jobs, Ends(j),
         UNCHANGED <<row, files, links, post, author, sent, shown>>,
         past \subseteq past', "undone" \in past' => "undone" \in past,
         Clean' /\ j.does = "thumbOn" => \A a \in j.ids : row[a] \in {"post", "gone"},
         Smooth' /\ j.does = "thumbOn" => \A a \in j.ids : row[a] = "post",
         Smooth' /\ Rewrites(j) =>
           \A a \in Atts : <<a, "temp">> \in TargetShown.fileUrls => row[a] # "temp",
         Smooth' => \A a \in Atts : ~(Left(a) /\ Removing(j, a))
  PROVE  SettledInv'
  <1>1. Target' = Target /\ TargetShown' = TargetShown /\ jobs' = jobs \ {j}
    BY DEF Target, TargetShown, Ends
  <1>2. (\A a \in links : row[a] = "post")'
    BY DEF SettledInv
  <1>3. (Clean' => Clean) /\ (Smooth' => Smooth /\ Clean')
    BY TroubleStays
  <1>4. ASSUME Clean'
        PROVE  /\ Uploaded' = Uploaded /\ Target # None
               /\ Target.contents \subseteq files
               /\ \A k \in jobs : Removes(k) => Doomed(k) \cap Target.contents = {}
    BY <1>3, <1>4, HasTarget DEF Uploaded, CleanInv, FilesStay, RemoversSpare
  <1>5. ASSUME Smooth'
        PROVE  /\ ContentsAreLinked'
               /\ Target.thumb # None /\ j.does = "thumbOn" => row[Target.thumb] = "post"
    <2>1. SmoothInv
      BY <1>3, <1>5 DEF SettledInv
    <2>2. ContentsAreLinked'
      BY <1>1, <1>5, <2>1 DEF SmoothInv, ContentsAreLinked, Moving
    <2>3. j.does = "thumbOn" => j.ids = {Target.thumb}
      BY <2>1 DEF SmoothInv, ThumbIsAlone
    <2> QED BY <1>5, <2>2, <2>3
  <1>6. \A a : Left(a)' <=> Left(a)
    BY DEF Left
  <1> QED BY <1>1, <1>2, <1>4, <1>5, <1>6, JobEndsSettles
-----------------------------------------------------------------------------
(* Rows are found.                                                         *)
LEMMA FindSettles ==
  ASSUME SettledInv, FilesInv', NEW j \in jobs, j.pc = "find",
         NEW found \in SUBSET Urls,
         IF found = {} THEN Ends(j)
         ELSE Becomes(j, [j EXCEPT !.pc = "write", !.found = found]),
         UNCHANGED <<row, files, links, post, author, sent, shown, past>>,
         Clean /\ Removes(j) => found \subseteq Doomed(j),
         Clean /\ Rewrites(j) =>
           /\ found \subseteq j.body.fileUrls
           /\ \A a, p : <<a, p>> \in found => a \in Uploaded /\ row[a] = p,
         Clean /\ j.does = "thumbOn" =>
           IF found = {} THEN \A a \in j.ids : row[a] = "gone" ELSE AttsOf(found) = j.ids,
         Smooth /\ Rewrites(j) =>
           \A a \in Atts : <<a, "temp">> \in TargetShown.fileUrls /\ row[a] = "temp" =>
             <<a, "temp">> \in found,
         Smooth => \A a \in Atts : Left(a) /\ Removing(j, a) => <<a, "post">> \in found
  PROVE  SettledInv'
  <1>1. CASE found = {}
    <2>1. Smooth => Clean /\ SmoothInv /\ Target # None
      BY HasTarget DEF Smooth, Clean, SettledInv
    <2>2. Smooth /\ j.does = "thumbOn" => \A a \in j.ids : row[a] = "post"
      <3> SUFFICES ASSUME Smooth, j.does = "thumbOn" PROVE FALSE
        OBVIOUS
      <3>1. j.ids = {Target.thumb} /\ row[Target.thumb] = "gone"
        BY <1>1, <2>1 DEF SmoothInv, ThumbIsAlone
      <3>2. Target.thumb # None
        BY <3>1, JobTypes, NoneAssumption DEF SettledInv
      <3> QED BY <2>1, <3>1, <3>2 DEF SmoothInv, ThumbIsAlone
    <2> QED BY <1>1, <2>2, JobStopsSettles DEF Clean, Smooth
  <1>2. CASE found # {}
    <2>1. PICK k : k = [[j EXCEPT !.pc = "write"] EXCEPT !.found = found]
      OBVIOUS
    <2>2. j \in Job
      BY JobTypes DEF SettledInv
    <2>3. /\ k \in Job /\ k.pc = "write" /\ k.found = found /\ k.does = j.does
          /\ k.ids = j.ids /\ k.body = j.body
      BY <2>1, <2>2 DEF Job
    <2>4. k = [j EXCEPT !.pc = "write", !.found = found]
      BY <2>1
    <2>5. jobs' = (jobs \ {j}) \cup {k}
      BY <1>2, <2>4 DEF Becomes
    <2>6. Doomed(k) = Doomed(j) /\ (Removes(k) <=> Removes(j)) /\ (Rewrites(k) <=> Rewrites(j))
      BY <2>3 DEF Doomed, Removes, Rewrites
    <2>7. Clean /\ Rewrites(k) =>
            \A x \in jobs : Removes(x) => \A a \in x.ids : <<a, "temp">> \notin found
      <3>1. ASSUME Clean, Rewrites(k), NEW x \in jobs, Removes(x), NEW a \in x.ids
            PROVE  <<a, "temp">> \notin found
        <4>1. row[a] \in {"post", "gone"}
          BY <3>1, HasTarget DEF CleanInv, RemoversSpare
        <4>2. <<a, "temp">> \in found => row[a] = "temp"
          BY <2>6, <3>1
        <4> QED BY <4>1, <4>2
      <3> QED BY <3>1
    <2>8. Clean /\ Rewrites(k) => AttsOf(found) \subseteq Uploaded
      BY <2>6, UrlFacts
    <2> QED BY <1>2, <2>3, <2>5, <2>6, <2>7, <2>8, JobGoesSettles
  <1> QED BY <1>1, <1>2

(* What each kind of job finds is about no file of another kind.           *)
LEMMA FindContentsSettles ==
  ASSUME SettledInv, FilesInv', NEW j \in jobs, Rewrites(j), FindContents(j)
  PROVE  SettledInv'
  <1>1. PICK found : found = Located(AttsOf(j.body.fileUrls)) \cap j.body.fileUrls
    OBVIOUS
  <1>2. j.body.fileUrls \in SUBSET Urls /\ j.pc = "find" /\ FilesTypeOK
    BY JobTypes DEF FindContents, SettledInv, FilesInv
  <1>3. PICK as \in SUBSET Atts : as = AttsOf(j.body.fileUrls)
    BY <1>2, UrlFacts
  <1>4. \A a, p : <<a, p>> \in Located(as) <=> a \in as /\ a \in Stored /\ row[a] = p
    BY <1>2, LocatedFacts
  <1>5. found \in SUBSET Urls /\ found = Located(as) \cap j.body.fileUrls
    BY <1>1, <1>2, <1>3
  <1>6. /\ IF found = {} THEN Ends(j)
           ELSE Becomes(j, [j EXCEPT !.pc = "write", !.found = found])
        /\ UNCHANGED <<row, files, links, post, author, sent, shown, past>>
    BY <1>1 DEF FindContents
  <1>7. Clean => j.body = TargetShown
    BY HasTarget DEF CleanInv, JobsHaveTarget
  <1>8. \A a \in Stored : a \in Uploaded
    BY DEF Stored, Uploaded, Places
  <1>9. ASSUME NEW a, NEW p, <<a, p>> \in found PROVE a \in Uploaded /\ row[a] = p
    BY <1>4, <1>5, <1>8, <1>9
  <1>10. ASSUME Smooth, NEW a \in Atts, <<a, "temp">> \in TargetShown.fileUrls,
                row[a] = "temp"
         PROVE  <<a, "temp">> \in found
    <2>1. <<a, "temp">> \in j.body.fileUrls
      BY <1>7, <1>10 DEF Smooth, Clean
    <2>2. a \in as
      BY <1>2, <1>3, <2>1, UrlFacts
    <2> QED BY <1>4, <1>5, <1>10, <2>1, <2>2 DEF Stored, Places
  <1>11. ~Removes(j) /\ j.does # "thumbOn" /\ \A a : ~Removing(j, a)
    BY DEF Removes, Rewrites, Removing
  <1>12. /\ found \subseteq j.body.fileUrls
         /\ \A a, p : <<a, p>> \in found => a \in Uploaded /\ row[a] = p
    BY <1>5, <1>9
  <1>13. Smooth => \A a \in Atts :
           <<a, "temp">> \in TargetShown.fileUrls /\ row[a] = "temp" => <<a, "temp">> \in found
    BY <1>10
  <1> QED BY ONLY SettledInv, FilesInv', j \in jobs, <1>2, <1>5, <1>6, <1>11,
             <1>12, <1>13, FindSettles

LEMMA FindRemovedSettles ==
  ASSUME SettledInv, FilesInv', NEW j \in jobs, j.does = "delete", FindRemoved(j)
  PROVE  SettledInv'
  <1>1. PICK found : found = Located(j.ids \cap Images) \ j.body.contents
    OBVIOUS
  <1>2. /\ j.ids \cap Images \in SUBSET Atts /\ j.pc = "find" /\ FilesTypeOK
        /\ Removes(j)
    BY DEF FindRemoved, SettledInv, FilesInv, FilesTypeOK, Job, Removes
  <1>3. /\ Located(j.ids \cap Images) \in SUBSET Urls
        /\ \A a, p : <<a, p>> \in Located(j.ids \cap Images) <=>
             a \in j.ids \cap Images /\ a \in Stored /\ row[a] = p
    BY <1>2, LocatedFacts
  <1>5. found \in SUBSET Urls
    BY <1>1, <1>3
  <1>6. /\ IF found = {} THEN Ends(j)
           ELSE Becomes(j, [j EXCEPT !.pc = "write", !.found = found])
        /\ UNCHANGED <<row, files, links, post, author, sent, shown, past>>
    BY <1>1 DEF FindRemoved
  <1>7. ASSUME Clean, NEW u \in found PROVE u \in Doomed(j)
    <2>1. PICK a \in Atts, p \in Places : u = <<a, p>>
      BY <1>5 DEF Urls
    <2>2. a \in j.ids /\ a \in Stored /\ row[a] = p /\ u \notin j.body.contents
      BY <1>1, <1>3, <2>1
    <2>3. row[a] \in {"post", "gone"}
      BY <1>2, <1>7, <2>2, HasTarget DEF CleanInv, RemoversSpare
    <2>4. p = "post"
      BY <2>2, <2>3 DEF Stored, Places
    <2> QED BY <2>1, <2>2, <2>4, JobTypes DEF SettledInv
  <1>8. ASSUME NEW a \in Atts, Left(a), Removing(j, a) PROVE <<a, "post">> \in found
    BY <1>1, <1>3, <1>8 DEF Left, Removing, Stored, Places
  <1>9. ~Rewrites(j)
    BY DEF Rewrites
  <1> QED BY <1>2, <1>5, <1>6, <1>7, <1>8, <1>9, FindSettles

LEMMA FindThumbnailSettles ==
  ASSUME SettledInv, FilesInv', NEW j \in jobs, j.does \in {"thumbOff", "thumbOn"},
         FindThumbnail(j)
  PROVE  SettledInv'
  <1>1. PICK found : found = Located(j.ids)
    OBVIOUS
  <1>2. j.ids \in SUBSET Atts /\ j.pc = "find" /\ FilesTypeOK
    BY DEF FindThumbnail, SettledInv, FilesInv, FilesTypeOK, Job
  <1>3. /\ found \in SUBSET Urls
        /\ \A a, p : <<a, p>> \in found <=> a \in j.ids /\ a \in Stored /\ row[a] = p
    BY <1>1, <1>2, LocatedFacts
  <1>4. /\ IF found = {} THEN Ends(j)
           ELSE Becomes(j, [j EXCEPT !.pc = "write", !.found = found])
        /\ UNCHANGED <<row, files, links, post, author, sent, shown, past>>
    BY <1>1 DEF FindThumbnail
  <1>5. ASSUME Clean, Removes(j), NEW u \in found PROVE u \in Doomed(j)
    <2>1. PICK a \in Atts, p \in Places : u = <<a, p>>
      BY <1>3 DEF Urls
    <2>2. a \in j.ids /\ a \in Stored /\ row[a] = p
      BY <1>3, <2>1
    <2>3. row[a] \in {"post", "gone"} /\ j.body.contents = {}
      BY <1>5, <2>2, HasTarget DEF CleanInv, RemoversSpare, Removes
    <2>4. p = "post"
      BY <2>2, <2>3 DEF Stored, Places
    <2> QED BY <2>1, <2>2, <2>3, <2>4, JobTypes DEF SettledInv
  <1>6. ASSUME Clean, j.does = "thumbOn"
        PROVE  IF found = {} THEN \A a \in j.ids : row[a] = "gone" ELSE AttsOf(found) = j.ids
    <2>1. PICK t \in Uploaded : j.ids = {t}
      BY <1>6, HasTarget DEF CleanInv, ThumbIsMoved
    <2>2. t \in Atts /\ row[t] # "new" /\ row[t] \in Places \cup {"new", "gone"}
      BY <1>2, <2>1 DEF Uploaded, FilesTypeOK
    <2>3. CASE found = {}
      <3>1. <<t, row[t]>> \notin found
        BY <2>3
      <3>2. t \notin Stored
        BY <1>3, <2>1, <3>1
      <3> QED BY <2>1, <2>2, <2>3, <3>2 DEF Stored
    <2>4. CASE found # {}
      <3>1. \A a \in AttsOf(found) : a = t
        BY <1>3, <2>1, UrlFacts
      <3>2. AttsOf(found) # {}
        BY <2>4 DEF AttsOf
      <3> QED BY <2>1, <2>4, <3>1, <3>2
    <2> QED BY <2>3, <2>4
  <1>7. ASSUME NEW a \in Atts, Left(a), Removing(j, a) PROVE <<a, "post">> \in found
    BY <1>3, <1>7 DEF Left, Removing, Stored, Places
  <1>8. ~Rewrites(j)
    BY DEF Rewrites
  <1> QED BY <1>2, <1>3, <1>4, <1>5, <1>6, <1>7, <1>8, FindSettles

(* Rows are written, files copied or deleted.                              *)
LEMMA WriteSettles ==
  ASSUME SettledInv, FilesInv', NEW j \in jobs, j.pc = "write",
         NEW pc \in {"commit", "drop"}, Becomes(j, [j EXCEPT !.pc = pc]),
         UNCHANGED <<row, links, post, author, sent, shown, past>>,
         Smooth => pc # "drop",
         \A u \in files : u \in files' \/ (Removes(j) /\ u \in j.found)
  PROVE  SettledInv'
  <1>1. PICK k : k = [j EXCEPT !.pc = pc]
    OBVIOUS
  <1>2. j \in Job
    BY JobTypes DEF SettledInv
  <1>3. /\ k \in Job /\ k.pc = pc /\ k.found = j.found /\ k.does = j.does
        /\ k.ids = j.ids /\ k.body = j.body
    BY <1>1, <1>2 DEF Job
  <1>4. jobs' = (jobs \ {j}) \cup {k}
    BY <1>1 DEF Becomes
  <1>5. Doomed(k) = Doomed(j) /\ (Removes(k) <=> Removes(j)) /\ (Rewrites(k) <=> Rewrites(j))
    BY <1>3 DEF Doomed, Removes, Rewrites
  <1>6. ASSUME Clean
        PROVE  /\ Removes(k) => k.found \subseteq Doomed(k)
               /\ Rewrites(k) =>
                    /\ k.found \subseteq k.body.fileUrls
                    /\ AttsOf(k.found) \subseteq Uploaded
                    /\ \A x \in jobs : Removes(x) =>
                         \A a \in x.ids : <<a, "temp">> \notin k.found
               /\ k.does = "thumbOn" => AttsOf(k.found) = k.ids
    BY <1>3, <1>5, <1>6, HasTarget
       DEF CleanInv, RemoversSpare, JobsHaveTarget, ThumbIsMoved
  <1>7. Smooth => \A a \in Atts : Left(a) /\ Removing(j, a) => <<a, "post">> \in k.found
    BY <1>3 DEF Removing
  <1> QED BY <1>3, <1>4, <1>5, <1>6, <1>7, JobGoesSettles

(* Copying disturbs nobody.                                                *)
LEMMA MoveContentsSettles ==
  ASSUME SettledInv, FilesInv', NEW j \in jobs, MoveContents(j)
  PROVE  SettledInv'
  BY WriteSettles DEF MoveContents, CopyFiles

(* What a remover deletes was found to be removed.                         *)
LEMMA DeleteFilesSettles ==
  ASSUME SettledInv, FilesInv', NEW j \in jobs, Removes(j), DeleteFiles(j)
  PROVE  SettledInv'
  BY WriteSettles DEF DeleteFiles

(* The file of a thumbnail in temp/ is there.                              *)
LEMMA MoveThumbnailSettles ==
  ASSUME SettledInv, FilesInv', NEW j \in jobs, j.does = "thumbOn", MoveThumbnail(j)
  PROVE  SettledInv'
  <1>1. /\ j.pc = "write"
        /\ UNCHANGED <<row, links, post, author, sent, shown, past>>
    BY DEF MoveThumbnail
  <1>2. CASE Becomes(j, [j EXCEPT !.pc = "commit"]) /\ files \subseteq files'
    BY <1>1, <1>2, WriteSettles
  <1>3. CASE /\ j.found \subseteq Temps \ files
             /\ Becomes(j, [j EXCEPT !.pc = "drop"])
             /\ UNCHANGED files
    <2>1. ASSUME Smooth PROVE FALSE
      <3>1. CleanInv
        BY <2>1 DEF SettledInv, Smooth, Clean
      <3>2. PICK t \in Uploaded : AttsOf(j.found) = {t}
        BY <1>1, <3>1 DEF CleanInv, ThumbIsMoved
      <3>3. PICK p : <<t, p>> \in j.found
        BY <3>2, JobTypes, UrlFacts DEF SettledInv
      <3>4. p = "temp"
        <4>1. \A a, q : <<a, q>> \in Temps => q = "temp"
          BY AtFacts DEF Temps, Places
        <4> QED BY <1>3, <3>3, <4>1
      <3> QED BY <1>3, <3>1, <3>2, <3>3, <3>4 DEF CleanInv, FilesStay
    <2> QED BY <1>1, <1>3, <2>1, WriteSettles
  <1> QED BY <1>2, <1>3 DEF MoveThumbnail, CopyFiles

(* A COMMIT that deletes rows: none of the contents, and not the thumbnail. *)
LEMMA CommitDeleteSettles ==
  ASSUME SettledInv, FilesInv', NEW j \in jobs, Removes(j), CommitDelete(j)
  PROVE  SettledInv'
  <1>1. /\ j.pc = "commit" /\ jobs' = jobs \ {j}
        /\ links' = links \ AttsOf(j.found)
        /\ UNCHANGED <<files, post, author, sent, shown, past>>
        /\ \A a \in Atts : row'[a] = IF a \in AttsOf(j.found) THEN "gone" ELSE row[a]
    BY DEF CommitDelete, Ends
  <1>2. /\ AttsOf(j.found) \in SUBSET Atts /\ j.found \in SUBSET Urls
        /\ \A a \in AttsOf(j.found) : <<a, "temp">> \in j.found \/ <<a, "post">> \in j.found
    BY JobTypes, UrlFacts DEF SettledInv
  <1>3. Target' = Target /\ TargetShown' = TargetShown
    BY <1>1 DEF Target, TargetShown
  <1>4. links \subseteq Atts /\ \A a \in links : row[a] = "post"
    BY DEF SettledInv, FilesInv, FilesTypeOK
  <1>5. (\A a \in links : row[a] = "post")'
    BY <1>1, <1>4
  <1>6. ASSUME Clean
        PROVE  /\ CleanInv /\ Target # None
               /\ j.found \subseteq Doomed(j)
               /\ \A a \in AttsOf(j.found) :
                    /\ <<a, "post">> \in j.found /\ a \in j.ids
                    /\ <<a, "post">> \notin Target.contents
                    /\ row[a] \in {"post", "gone"}
    <2>1. CleanInv /\ Target # None
      BY <1>6, HasTarget
    <2>2. /\ j.found \subseteq Doomed(j) /\ Doomed(j) \cap Target.contents = {}
          /\ \A a \in j.ids : row[a] \in {"post", "gone"}
      BY <2>1 DEF CleanInv, RemoversSpare
    <2>3. \A a \in AttsOf(j.found) : <<a, "post">> \in j.found /\ a \in j.ids
      BY <1>2, <2>2, JobTypes DEF SettledInv
    <2> QED BY <2>1, <2>2, <2>3
  <1>7. ASSUME Clean'
        PROVE  /\ \A a \in Atts : row[a] \in {"post", "gone"} => row'[a] \in {"post", "gone"}
               /\ Uploaded' = Uploaded
               /\ Target' # None /\ Target'.thumb = Target.thumb
               /\ AttsOf(Target'.contents) = AttsOf(Target.contents)
               /\ Target'.contents \subseteq files
               /\ \A k \in jobs' : Removes(k) => Doomed(k) \cap Target'.contents = {}
    <2>1. Clean
      BY <1>1, <1>7 DEF Clean
    <2>2. \A a \in Atts : row'[a] = "new" <=> row[a] = "new"
      BY <1>1, <1>6, <2>1
    <2> QED BY <1>1, <1>3, <1>6, <2>1, <2>2 DEF Uploaded, CleanInv, FilesStay, RemoversSpare
  <1>8. ASSUME Smooth' PROVE ContentsAreLinked'
    <2>1. Clean /\ Smooth /\ SmoothInv
      BY <1>1, <1>8 DEF Clean, Smooth, SettledInv
    <2>2. \A a \in AttsOf(j.found) : a \notin Named
      BY <1>2, <1>6, <2>1 DEF SmoothInv, NamedAreSpared
    <2>3. Target.contents \in SUBSET Urls /\ TargetShown.fileUrls \in SUBSET Urls
      BY <1>6, <2>1, TargetTypes DEF SettledInv
    <2>4. ASSUME NEW a \in Atts, NEW p, <<a, p>> \in Target.contents \cup TargetShown.fileUrls
          PROVE  row'[a] = row[a] /\ (a \in links => a \in links')
      <3>1. a \in Named
        BY <2>3, <2>4, UrlFacts DEF Named
      <3> QED BY <1>1, <2>2, <3>1
    <2>5. \A a : Moving(a) => Moving(a)'
      BY <1>1 DEF Moving, Rewrites, Removes
    <2> QED BY <1>3, <2>1, <2>4, <2>5 DEF SmoothInv, ContentsAreLinked
  <1>9. ASSUME Smooth'
        PROVE  /\ Target.thumb # None =>
                    /\ Target.thumb \notin links => Target.thumb \notin links'
                    /\ row'[Target.thumb] = row[Target.thumb] /\ j.does # "thumbOn"
               /\ \A a \in Atts : Left(a)' => Left(a) /\ ~Removing(j, a)
    <2>1. Clean /\ Smooth /\ SmoothInv
      BY <1>1, <1>9 DEF Clean, Smooth, SettledInv
    <2>2. Target.thumb \notin j.ids
      BY <2>1 DEF SmoothInv, ThumbIsAlone
    <2>3. Target.thumb # None => Target.thumb \in Atts
      BY <1>6, <2>1, TargetTypes DEF SettledInv, Post
    <2>4. ASSUME NEW a \in Atts, Left(a)' PROVE Left(a) /\ ~Removing(j, a)
      <3>1. a \notin AttsOf(j.found)
        BY <1>1, <2>4 DEF Left
      <3>2. <<a, "post">> \notin j.found
        BY <1>2, <3>1, UrlFacts
      <3> QED BY <1>1, <2>4, <3>1, <3>2 DEF Left, Removing
    <2> QED BY <1>1, <1>6, <2>1, <2>2, <2>3, <2>4 DEF Removes
  <1>10. j.does # "thumbOn"
    BY DEF Removes
  <1> QED BY <1>1, <1>3, <1>5, <1>7, <1>8, <1>9, <1>10, JobEndsSettles

(* A COMMIT that moves the thumbnail, or deletes it.                       *)
LEMMA CommitThumbnailSettles ==
  ASSUME SettledInv, FilesInv', NEW j \in jobs, j.does = "thumbOn", CommitThumbnail(j)
  PROVE  SettledInv'
  <1>1. /\ j.pc \in {"commit", "drop"} /\ jobs' = jobs \ {j}
        /\ links' = IF j.pc = "drop" THEN links \ AttsOf(j.found) ELSE links
        /\ UNCHANGED <<files, post, author, sent, shown, past>>
        /\ \A a \in Atts : row'[a] = IF a \notin AttsOf(j.found) THEN row[a]
                                     ELSE IF j.pc = "drop" THEN "gone" ELSE "post"
    BY DEF CommitThumbnail, Ends
  <1>2. Target' = Target /\ TargetShown' = TargetShown
    BY <1>1 DEF Target, TargetShown
  <1>3. links \subseteq Atts /\ \A a \in links : row[a] = "post"
    BY DEF SettledInv, FilesInv, FilesTypeOK
  <1>4. (\A a \in links : row[a] = "post")'
    BY <1>1, <1>3
  <1>5. ASSUME Clean
        PROVE  /\ CleanInv /\ Target # None
               /\ AttsOf(j.found) = j.ids /\ \E t \in Uploaded : j.ids = {t}
    BY <1>1, <1>5, HasTarget DEF CleanInv, ThumbIsMoved
  <1>6. ASSUME Clean'
        PROVE  /\ \A a \in Atts : row[a] \in {"post", "gone"} => row'[a] \in {"post", "gone"}
               /\ Uploaded' = Uploaded
               /\ Target' # None /\ Target'.thumb = Target.thumb
               /\ AttsOf(Target'.contents) = AttsOf(Target.contents)
               /\ Target'.contents \subseteq files
               /\ \A k \in jobs' : Removes(k) => Doomed(k) \cap Target'.contents = {}
               /\ \A a \in j.ids : row'[a] \in {"post", "gone"}
    <2>1. Clean
      BY <1>1, <1>6 DEF Clean
    <2>2. \A a \in Atts : row'[a] = "new" <=> row[a] = "new"
      BY <1>1, <1>5, <2>1 DEF Uploaded
    <2>3. \A a \in j.ids : a \in Atts /\ row'[a] \in {"post", "gone"}
      BY <1>1, <1>5, <2>1 DEF Uploaded
    <2> QED BY <1>1, <1>2, <1>5, <2>1, <2>2, <2>3
        DEF Uploaded, CleanInv, FilesStay, RemoversSpare
  <1>7. ASSUME Smooth'
        PROVE  /\ ContentsAreLinked'
               /\ Target.thumb # None =>
                    /\ Target.thumb \notin links => Target.thumb \notin links'
                    /\ row'[Target.thumb] = "post"
               /\ \A a \in Atts : Left(a)' =>
                    (Left(a) /\ ~Removing(j, a)) \/ a = Target.thumb
    <2>1. Clean /\ Smooth /\ SmoothInv /\ Target # None
      BY <1>1, <1>5, <1>7 DEF Clean, Smooth, SettledInv
    <2>2. AttsOf(j.found) = {Target.thumb} /\ j.pc = "commit" /\ Target.thumb \in Atts
      BY <1>1, <1>5, <2>1 DEF SmoothInv, ThumbIsAlone, Uploaded
    <2>3. Target.thumb # None /\ Target.thumb \notin Named
      BY <2>1, <2>2, NoneAssumption DEF SmoothInv, ThumbIsAlone
    <2>4. /\ row'[Target.thumb] = "post" /\ links' = links
          /\ \A a \in Atts : a # Target.thumb => row'[a] = row[a]
      BY <1>1, <2>2
    <2>a. Target.contents \in SUBSET Urls /\ TargetShown.fileUrls \in SUBSET Urls
      BY <2>1, TargetTypes DEF SettledInv
    <2>5. ASSUME NEW a \in Atts, NEW p, <<a, p>> \in Target.contents \cup TargetShown.fileUrls
          PROVE  row'[a] = row[a]
      <3>1. a \in Named
        BY <2>a, <2>5, UrlFacts DEF Named
      <3> QED BY <2>3, <2>4, <3>1
    <2>6. \A a : Moving(a) => Moving(a)'
      BY <1>1 DEF Moving, Rewrites
    <2>7. ContentsAreLinked'
      BY <1>2, <2>1, <2>4, <2>5, <2>6 DEF SmoothInv, ContentsAreLinked
    <2>8. \A a \in Atts : Left(a)' => (Left(a) /\ ~Removing(j, a)) \/ a = Target.thumb
      BY <2>4 DEF Left, Removing, Removes
    <2> QED BY <2>4, <2>7, <2>8
  <1>8. ~Rewrites(j)
    BY DEF Rewrites
  <1> QED BY <1>1, <1>2, <1>4, <1>6, <1>7, JobEndsSettles

(* The contents after their files have moved: the same attachments.        *)
LEMMA ReplaceFacts ==
  ASSUME NEW body \in PostBody, NEW found \in SUBSET Urls
  PROVE  /\ AttsOf(Replace(body, found)) = AttsOf(body.contents)
         /\ \A a \in Atts, p \in Places :
              <<a, p>> \in Replace(body, found) <=>
                \/ <<a, p>> \in body.contents \ (found \ body.twice)
                \/ a \in AttsOf(body.contents \cap found) /\ p = "post"
  <1>a. body.contents \in SUBSET Urls
    BY DEF PostBody
  <1>1. body.contents \cap found \in SUBSET Urls
    BY <1>a
  <1>b. PICK as \in SUBSET Atts : as = AttsOf(body.contents \cap found)
    BY <1>1, UrlFacts
  <1>c. \A a, q : <<a, q>> \in At(as, "post") <=> a \in as /\ q = "post"
    BY AtFacts DEF Places
  <1>d. Replace(body, found) = (body.contents \ (found \ body.twice)) \cup At(as, "post")
    BY <1>a, <1>b DEF Replace
  <1>2. ASSUME NEW a, NEW p
        PROVE  <<a, p>> \in Replace(body, found) <=>
                 \/ <<a, p>> \in body.contents \ (found \ body.twice)
                 \/ a \in AttsOf(body.contents \cap found) /\ p = "post"
    BY <1>b, <1>c, <1>d
  <1>3. Replace(body, found) \in SUBSET Urls
    BY ReplaceTypes
  <1>4. ASSUME NEW a \in AttsOf(Replace(body, found)) PROVE a \in AttsOf(body.contents)
    <2>1. PICK p : <<a, p>> \in Replace(body, found)
      BY <1>3, UrlFacts
    <2>2. a \in AttsOf(body.contents \cap found) => a \in AttsOf(body.contents)
      BY DEF AttsOf
    <2> QED BY <1>2, <2>1, <2>2, <1>a, UrlFacts
  <1>5. ASSUME NEW a \in AttsOf(body.contents) PROVE a \in AttsOf(Replace(body, found))
    <2>1. PICK p : <<a, p>> \in body.contents
      BY <1>a, UrlFacts
    <2>2. CASE <<a, p>> \in found
      <3>1. a \in AttsOf(body.contents \cap found)
        BY <1>1, <2>1, <2>2, UrlFacts
      <3>2. <<a, "post">> \in Replace(body, found)
        BY <1>2, <3>1
      <3> QED BY <1>3, <3>2, UrlFacts
    <2>3. CASE <<a, p>> \notin found
      <3>1. <<a, p>> \in Replace(body, found)
        BY <1>2, <2>1, <2>3
      <3> QED BY <1>3, <3>1, UrlFacts
    <2> QED BY <2>2, <2>3
  <1>6. AttsOf(Replace(body, found)) = AttsOf(body.contents)
    BY ONLY <1>4, <1>5, Zenon
  <1>7. ASSUME NEW a \in Atts, NEW p \in Places
        PROVE  <<a, p>> \in Replace(body, found) <=>
                 \/ <<a, p>> \in body.contents \ (found \ body.twice)
                 \/ a \in AttsOf(body.contents \cap found) /\ p = "post"
    BY <1>2
  <1> QED BY <1>6, <1>7

(* The COMMIT that writes contents: those of the last request, with the    *)
(* urls it has moved.                                                      *)
LEMMA CommitContentsSettles ==
  ASSUME SettledInv, FilesInv', NEW j \in jobs, Rewrites(j), CommitContents(j)
  PROVE  SettledInv'
  <1>1. /\ j.pc = "commit" /\ jobs' = jobs \ {j} /\ post # None
        /\ author.pc # "commit"
        /\ links' = links \cup AttsOf(j.found)
        /\ post' = [post EXCEPT !.contents = Replace(j.body, j.found)]
        /\ UNCHANGED <<files, author, sent, shown, past>>
        /\ \A a \in Atts : row'[a] = IF a \in AttsOf(j.found) THEN "post" ELSE row[a]
    BY DEF CommitContents, Ends, PostUnlocked
  <1>2. /\ AttsOf(j.found) \in SUBSET Atts /\ j.found \in SUBSET Urls
        /\ j.body \in PostBody /\ j.body.contents \in SUBSET Urls
        /\ j.body.fileUrls \in SUBSET Urls
        /\ ~Removes(j) /\ JobOK(j) /\ j.does # "thumbOn"
    BY JobTypes DEF SettledInv, Rewrites, Removes
  <1>3. /\ post \in Post /\ post' \in Post
        /\ post'.contents = Replace(j.body, j.found) /\ post'.thumb = post.thumb
    <2>1. post \in Post
      BY <1>1 DEF SettledInv, FilesInv, FilesTypeOK
    <2>2. PICK c \in SUBSET Urls : c = Replace(j.body, j.found)
      BY <1>2, ReplaceTypes
    <2> QED BY <1>1, <2>1, <2>2 DEF Post
  <1>4. Target = post /\ Target' = post' /\ Target' # None
    BY <1>1, <1>3, NoneIsNoPost DEF Target
  <1>a. TargetShown = shown /\ TargetShown' = shown
    BY <1>1 DEF TargetShown
  <1>5. links \subseteq Atts /\ \A a \in links : row[a] = "post"
    BY DEF SettledInv, FilesInv, FilesTypeOK
  <1>6. (\A a \in links : row[a] = "post")'
    BY <1>1, <1>2, <1>5
  <1>7. ASSUME Clean
        PROVE  /\ CleanInv
               /\ j.body = shown
               /\ j.body.contents = post.contents
               /\ j.found \subseteq shown.fileUrls
               /\ \A a \in AttsOf(j.found) : <<a, "post">> \in files
    <2>1. CleanInv
      BY <1>7, HasTarget
    <2>2. /\ j.body = shown /\ j.body.contents = post.contents
          /\ j.found \subseteq shown.fileUrls
      BY <1>4, <1>a, <2>1 DEF CleanInv, JobsHaveTarget
    <2>3. \A a \in AttsOf(j.found) : <<a, "post">> \in files
      BY <1>1, <1>2, <2>1 DEF JobOK, CleanInv
    <2> QED BY <2>1, <2>2, <2>3
  <1>8. /\ AttsOf(post'.contents) = AttsOf(j.body.contents)
        /\ \A a \in Atts, p \in Places : <<a, p>> \in post'.contents =>
             \/ <<a, p>> \in j.body.contents \ (j.found \ j.body.twice)
             \/ a \in AttsOf(j.body.contents \cap j.found) /\ p = "post"
    <2>1. /\ AttsOf(Replace(j.body, j.found)) = AttsOf(j.body.contents)
          /\ \A a \in Atts, p \in Places :
               <<a, p>> \in Replace(j.body, j.found) <=>
                 \/ <<a, p>> \in j.body.contents \ (j.found \ j.body.twice)
                 \/ a \in AttsOf(j.body.contents \cap j.found) /\ p = "post"
      BY <1>2, ReplaceFacts
    <2>2. post'.contents = Replace(j.body, j.found)
      BY <1>3
    <2> QED BY ONLY <2>1, <2>2, Zenon
  <1>b. AttsOf(j.body.contents \cap j.found) \subseteq AttsOf(j.found)
    BY DEF AttsOf
  <1>9. ASSUME Clean'
        PROVE  /\ \A a \in Atts : row[a] \in {"post", "gone"} => row'[a] \in {"post", "gone"}
               /\ Uploaded' = Uploaded
               /\ Target' # None /\ Target'.thumb = Target.thumb
               /\ AttsOf(Target'.contents) = AttsOf(Target.contents)
               /\ Target'.contents \subseteq files
               /\ \A k \in jobs' : Removes(k) => Doomed(k) \cap Target'.contents = {}
    <2>1. Clean /\ CleanInv
      BY <1>1, <1>7, <1>9 DEF Clean
    <2>2. \A a \in Atts : row[a] \in {"post", "gone"} => row'[a] \in {"post", "gone"}
      BY <1>1
    <2>3. Uploaded' = Uploaded
      <3>1. AttsOf(j.found) \subseteq Uploaded
        BY <2>1 DEF CleanInv, JobsHaveTarget
      <3>2. \A a \in Atts : row'[a] = "new" <=> row[a] = "new"
        BY <1>1, <3>1 DEF Uploaded
      <3> QED BY <3>2 DEF Uploaded
    <2>4. AttsOf(Target'.contents) = AttsOf(Target.contents)
      BY <1>4, <1>7, <1>8, <2>1
    <2>5. Target'.contents \subseteq files
      <3> SUFFICES ASSUME NEW u \in post'.contents PROVE u \in files
        BY <1>4
      <3>1. PICK a \in Atts, p \in Places : u = <<a, p>>
        BY <1>3 DEF Post, Urls
      <3>2. \/ u \in post.contents
            \/ a \in AttsOf(j.found) /\ p = "post"
        BY <1>7, <1>8, <1>b, <2>1, <3>1
      <3> QED BY <1>4, <1>7, <2>1, <3>1, <3>2, <1>1 DEF CleanInv, FilesStay
    <2>6. ASSUME NEW k \in jobs', Removes(k), NEW u \in Doomed(k), u \in post'.contents
          PROVE  FALSE
      <3>1. PICK a \in Atts, p \in Places : u = <<a, p>>
        BY <1>3, <2>6 DEF Post, Urls
      <3>2. k \in jobs /\ a \in k.ids /\ p = "post"
        BY <1>1, <2>6, <3>1, JobTypes DEF SettledInv
      <3>3. /\ <<a, "temp">> \notin j.found
            /\ <<a, "post">> \notin post.contents
        BY <1>4, <2>1, <2>6, <3>1, <3>2 DEF CleanInv, RemoversSpare
      <3>4. a \in AttsOf(j.body.contents \cap j.found)
        BY <1>7, <1>8, <2>1, <2>6, <3>1, <3>2, <3>3
      <3>5. \/ <<a, "temp">> \in j.body.contents \cap j.found
            \/ <<a, "post">> \in j.body.contents \cap j.found
        <4>1. j.body.contents \cap j.found \in SUBSET Urls
          BY <1>2
        <4> QED BY <3>4, <4>1, UrlFacts
      <3> QED BY <1>7, <2>1, <3>3, <3>5
    <2> QED BY <1>3, <1>4, <2>2, <2>3, <2>4, <2>5, <2>6
  <1>10. ASSUME Smooth'
        PROVE  /\ ContentsAreLinked'
               /\ Target.thumb # None =>
                    /\ Target.thumb \notin links'
                    /\ row'[Target.thumb] = row[Target.thumb]
               /\ \A a \in Atts : Left(a)' => (Left(a) /\ ~Removing(j, a)) \/ a \in Named
    <2>1. Clean /\ Smooth /\ CleanInv /\ SmoothInv /\ Target # None
      BY <1>1, <1>4, <1>7, <1>10 DEF Clean, Smooth, SettledInv
    <2>2. AttsOf(j.found) \subseteq Named
      <3>1. AttsOf(j.found) \subseteq AttsOf(shown.fileUrls)
        BY <1>7, <2>1 DEF AttsOf
      <3> QED BY <1>a, <3>1 DEF Named
    <2>3. \A a \in Atts : Moving(a) => <<a, "temp">> \in j.found
      BY <1>1, <2>1 DEF CleanInv, JobsHaveTarget, Moving
    <2>4. ContentsAreLinked'
      <3>1. ASSUME NEW a \in Atts
            PROVE  /\ a \in links => a \in links'
                   /\ a \in AttsOf(j.found) => row'[a] = "post" /\ a \in links'
                   /\ row[a] = "post" => row'[a] = "post"
                   /\ row[a] = "temp" => row'[a] = "temp" \/ a \in links'
        BY <1>1
      <3>2. ASSUME NEW a \in Atts, <<a, "post">> \in post'.contents \cup shown.fileUrls
            PROVE  row'[a] = "post" /\ a \in links'
        <4>1. \/ <<a, "post">> \in post.contents \cup shown.fileUrls
              \/ a \in AttsOf(j.found)
          BY <1>7, <1>8, <1>b, <2>1, <3>2 DEF Places
        <4> QED BY <1>4, <1>a, <2>1, <3>1, <4>1 DEF SmoothInv, ContentsAreLinked
      <3>3. ASSUME NEW a \in Atts, <<a, "temp">> \in post'.contents
            PROVE  /\ <<a, "temp">> \in post.contents
                   /\ <<a, "temp">> \in j.found => <<a, "temp">> \in shown.twice
                   /\ row'[a] = "temp" \/ a \in links'
        <4>1. <<a, "temp">> \in j.body.contents \ (j.found \ j.body.twice)
          BY <1>8, <3>3 DEF Places
        <4>2. /\ <<a, "temp">> \in post.contents
              /\ <<a, "temp">> \in j.found => <<a, "temp">> \in shown.twice
          BY <1>7, <2>1, <4>1
        <4> QED BY <1>4, <2>1, <3>1, <4>2 DEF SmoothInv, ContentsAreLinked
      <3>4. ASSUME NEW a \in Atts, <<a, "temp">> \in shown.fileUrls
            PROVE  /\ a \in links'
                   /\ <<a, "temp">> \in post'.contents => <<a, "temp">> \in shown.twice
        <4>1. CASE Moving(a)
          <5>1. <<a, "temp">> \in j.found
            BY <2>3, <4>1
          <5>2. a \in AttsOf(j.found)
            BY <1>2, <5>1, UrlFacts
          <5> QED BY <3>1, <3>3, <5>1, <5>2
        <4>2. CASE ~Moving(a)
          BY <1>4, <1>a, <2>1, <3>1, <3>3, <3>4, <4>2 DEF SmoothInv, ContentsAreLinked
        <4> QED BY <4>1, <4>2
      <3> QED BY <1>4, <1>a, <3>2, <3>3, <3>4 DEF ContentsAreLinked
    <2>5. Target.thumb # None =>
            /\ Target.thumb \in Atts
            /\ Target.thumb \notin AttsOf(j.found) \cup links
      BY <1>3, <1>4, <2>1, <2>2 DEF SmoothInv, ThumbIsAlone, Post
    <2>6. ASSUME NEW a \in Atts, Left(a)'
          PROVE  (Left(a) /\ ~Removing(j, a)) \/ a \in Named
      BY <1>1, <1>2, <2>2, <2>6 DEF Left, Removing
    <2> QED BY <1>1, <2>4, <2>5, <2>6
  <1> QED BY <1>1, <1>2, <1>6, <1>9, <1>10, JobEndsSettles

(* A statement that is refused has left the rows alone; when nothing went  *)
(* wrong, none is refused that has something to do.                        *)
LEMMA RefuseJobSettles ==
  ASSUME SettledInv, FilesInv', NEW j \in jobs, RefuseJob(j)
  PROVE  SettledInv'
  <1>1. /\ Refused(j) /\ Ends(j)
        /\ past' = past \cup (IF post = None THEN {"rough"} ELSE {})
        /\ UNCHANGED <<row, files, links, post, author, sent, shown>>
    BY DEF RefuseJob
  <1>2. (Clean' => Clean) /\ (Smooth' => Smooth /\ Clean /\ post # None)
    BY <1>1 DEF Clean, Smooth
  <1>3. /\ j \in Job /\ row \in [Atts -> Places \cup {"new", "gone"}]
        /\ j.found \in SUBSET Urls
    BY JobTypes DEF SettledInv, FilesInv, FilesTypeOK
  <1>4. Smooth' => j.pc = "write" /\ j.does # "delete"
    BY <1>1, <1>2 DEF Refused
  <1>5. ASSUME Clean, j.does \in {"thumbOn", "thumbOff"}
        PROVE  ~(AttsOf(j.found) \subseteq Stored) /\ j.pc = "write"
    BY <1>1, <1>5 DEF Refused
  <1>6. ASSUME Clean, j.does = "thumbOn"
        PROVE  \A a \in j.ids : row[a] = "gone"
    <2>1. PICK t \in Uploaded : j.ids = {t} /\ AttsOf(j.found) = {t}
      BY <1>5, <1>6, HasTarget DEF CleanInv, ThumbIsMoved
    <2>2. t \in Atts /\ t \notin Stored /\ row[t] # "new"
      BY <1>5, <1>6, <2>1 DEF Uploaded
    <2> QED BY <1>3, <2>1, <2>2 DEF Stored
  <1>7. ASSUME Smooth', j.does = "thumbOn" PROVE FALSE
    <2>1. SmoothInv /\ j.ids = {Target.thumb} /\ Target # None
      BY <1>2, <1>7, HasTarget DEF SettledInv, SmoothInv, ThumbIsAlone
    <2>2. Target.thumb # None
      BY <2>1, JobTypes, NoneAssumption DEF SettledInv
    <2>3. row[Target.thumb] \in {"post", "temp"}
      BY <2>1, <2>2 DEF SmoothInv, ThumbIsAlone
    <2> QED BY <1>2, <1>6, <1>7, <2>1, <2>3
  <1>8. ASSUME Smooth', Rewrites(j) PROVE FALSE
    <2>1. SmoothInv /\ CleanInv /\ Target # None
      BY <1>2, <1>8, HasTarget DEF SettledInv
    <2>2. /\ j.found \subseteq TargetShown.fileUrls
          /\ AttsOf(j.found) \subseteq Uploaded
      BY <1>8, <2>1 DEF CleanInv, JobsHaveTarget
    <2>3. ASSUME NEW a \in AttsOf(j.found) PROVE a \in Stored
      <3>1. PICK p : <<a, p>> \in j.found
        BY <1>3, UrlFacts
      <3>2. <<a, p>> \in TargetShown.fileUrls /\ p \in Places /\ a \in Atts
        BY <1>3, <2>2, <3>1, UrlFacts
      <3>3. a \in links => row[a] = "post"
        BY DEF SettledInv
      <3>4. row[a] \in {"temp", "post"}
        BY <2>1, <3>2, <3>3 DEF SmoothInv, ContentsAreLinked, Places
      <3> QED BY <3>2, <3>4 DEF Stored, Places
    <2>4. j.found \cap Temps \subseteq files
      <3> SUFFICES ASSUME NEW u \in j.found \cap Temps PROVE u \in files
        OBVIOUS
      <3>1. PICK a \in Atts : u = <<a, "temp">>
        BY DEF Temps, At
      <3>2. a \in AttsOf(j.found)
        BY <1>3, <3>1, UrlFacts
      <3> QED BY <2>1, <2>2, <3>1, <3>2 DEF CleanInv, FilesStay
    <2> QED BY <1>1, <1>4, <1>8, <2>3, <2>4 DEF Refused
  <1>9. ASSUME Smooth', NEW a \in Atts, Left(a), Removing(j, a) PROVE FALSE
    <2>1. j.does = "thumbOff" /\ a \in j.ids
      BY <1>4, <1>9 DEF Removing, Removes
    <2>2. PICK t \in Atts : j.ids = {t}
      BY <1>2, <1>9, <2>1, HasTarget DEF CleanInv, RemoversSpare, Removes
    <2>3. PICK b \in AttsOf(j.found) : b \notin Stored
      BY <1>2, <1>5, <1>9, <2>1
    <2>4. b \in j.ids
      <3>1. j.found \subseteq Doomed(j)
        BY <1>2, <1>9, <2>1, HasTarget DEF CleanInv, RemoversSpare, Removes
      <3>2. PICK p : <<b, p>> \in j.found
        BY <1>3, UrlFacts
      <3> QED BY <3>1, <3>2, JobTypes DEF SettledInv
    <2> QED BY <1>9, <2>1, <2>2, <2>3, <2>4 DEF Left, Stored, Places
  <1>10. past \subseteq past' /\ ("undone" \in past' => "undone" \in past)
    BY <1>1
  <1> QED BY <1>1, <1>2, <1>6, <1>7, <1>8, <1>9, <1>10, JobStopsSettles

LEMMA FailJobSettles ==
  ASSUME SettledInv, FilesInv', NEW j \in jobs, FailJob(j)
  PROVE  SettledInv'
  <1>1. ~Clean' /\ ~Smooth'
    BY DEF FailJob, Clean, Smooth
  <1>2. /\ (\A a \in links : row[a] = "post")'
        /\ (author.pc = "idle" => author = Idle)'
    BY DEF FailJob, SettledInv
  <1> QED BY <1>1, <1>2 DEF SettledInv

(* A step of a job, and one of a request.                                  *)
LEMMA StepSettles ==
  ASSUME SettledInv, FilesInv', NEW j \in jobs, Step(j)
  PROVE  SettledInv'
  <1>1. CASE CreateContents(j)
    BY <1>1, FindContentsSettles, MoveContentsSettles, CommitContentsSettles
       DEF CreateContents, Rewrites
  <1>2. CASE UpdateContents(j)
    BY <1>2, FindContentsSettles, MoveContentsSettles, CommitContentsSettles
       DEF UpdateContents, Rewrites
  <1>3. CASE DeleteRemoved(j)
    BY <1>3, FindRemovedSettles, DeleteFilesSettles, CommitDeleteSettles
       DEF DeleteRemoved, Removes
  <1>4. CASE RemoveThumbnail(j)
    BY <1>4, FindThumbnailSettles, DeleteFilesSettles, CommitDeleteSettles
       DEF RemoveThumbnail, Removes
  <1>5. CASE SetThumbnail(j)
    BY <1>5, FindThumbnailSettles, MoveThumbnailSettles, CommitThumbnailSettles
       DEF SetThumbnail
  <1>6. CASE RefuseJob(j)
    BY <1>6, RefuseJobSettles
  <1> QED BY <1>1, <1>2, <1>3, <1>4, <1>5, <1>6 DEF Step

LEMMA NewRequestSettles ==
  ASSUME SettledInv, FilesInv', NewRequest
  PROVE  SettledInv'
  <1>1. CASE \E a \in Atts : Upload(a)
    BY <1>1, UploadSettles
  <1>2. CASE \E b \in Bodies : \E t \in Thumbs(b) : CreateRead(b, t)
    BY <1>2, CreateReadSettles
  <1>3. CASE \E b \in Bodies : \E t \in Thumbs(b), g, r \in BOOLEAN :
               /\ g \/ b = Bare
               /\ r \/ t = None
               /\ PatchRead(g, b, r, t)
    <2>1. PICK b \in Bodies : \E t \in Thumbs(b), g, r \in BOOLEAN :
            (g \/ b = Bare) /\ (r \/ t = None) /\ PatchRead(g, b, r, t)
      BY <1>3
    <2>2. PICK t \in Thumbs(b), g \in BOOLEAN, r \in BOOLEAN :
            (g \/ b = Bare) /\ (r \/ t = None) /\ PatchRead(g, b, r, t)
      BY <2>1
    <2> QED BY <2>2, PatchReadSettles
  <1> QED BY <1>1, <1>2, <1>3 DEF NewRequest

(* Every step keeps the invariant.                                         *)
LEMMA NextSettled == SettledInv /\ [FilesNext]_filesVars => SettledInv'
  <1> SUFFICES ASSUME SettledInv, [FilesNext]_filesVars PROVE SettledInv'
    OBVIOUS
  <1>0. FilesInv'
    BY NextFiles DEF SettledInv
  <1>1. CASE NewRequest
    BY <1>0, <1>1, NewRequestSettles
  <1>2. CASE RequestStep
    BY <1>0, <1>2, CreateInsertSettles, PatchUpdateSettles, PostCommitSettles
       DEF RequestStep
  <1>3. CASE FailRequest
    BY <1>0, <1>3, FailRequestSettles
  <1>4. ASSUME NEW j \in jobs, Step(j) \/ FailJob(j) PROVE SettledInv'
    BY <1>0, <1>4, StepSettles, FailJobSettles
  <1>5. CASE UNCHANGED filesVars
    <2>1. UNCHANGED <<row, files, links, jobs, author, post, shown, past>>
      BY <1>5 DEF filesVars
    <2>2. /\ Target' = Target /\ TargetShown' = TargetShown
          /\ author'.pc = "idle" => author' = Idle
      BY <2>1 DEF Target, TargetShown, SettledInv
    <2>3. Clean' => WriteIsFresh' /\ (author'.pc = "write" => jobs = {})
      BY <2>1 DEF Clean, SettledInv, CleanInv, WriteIsFresh, JobsHaveTarget, Uploaded
    <2>4. Smooth' => WriteIsSmooth'
      BY <2>1 DEF Smooth, SettledInv, SmoothInv, WriteIsSmooth
    <2> QED BY <1>0, <2>1, <2>2, <2>3, <2>4, AuthorSettles
  <1> QED BY <1>1, <1>2, <1>3, <1>4, <1>5 DEF FilesNext

(* So it holds in every state.                                             *)
LEMMA SettledInvariant == FilesSpec => []SettledInv
  BY InitSettled, NextSettled, PTL DEF FilesSpec

(* Once the jobs are through, the post is what they worked towards.        *)
LEMMA SettledTarget ==
  ASSUME SettledInv, Settled
  PROVE  Target = post /\ TargetShown = shown /\ post # None /\ jobs = {}
         /\ post \in Post
  BY DEF Settled, Idle, Target, TargetShown, SettledInv, FilesInv, FilesTypeOK
-----------------------------------------------------------------------------
(* Once the handlers are through, every file the contents name is in S3,   *)
(* unless a patch overlapped them, a file was used twice, or something     *)
(* failed: no handler deletes what another one moves, or what stays.       *)
THEOREM ContentsKeepFiles == FilesSpec => []ContentsHaveFiles
  <1>1. SettledInv => ContentsHaveFiles
    BY SettledTarget DEF ContentsHaveFiles, Clean, SettledInv, CleanInv, FilesStay
  <1> QED BY <1>1, SettledInvariant, PTL

(* Once the handlers are through, the contents are those of the last patch *)
(* that committed: no detached handler brings older ones back.             *)
THEOREM LastPatchStays == FilesSpec => []LastPatchShows
  <1>1. SettledInv => LastPatchShows
    BY SettledTarget DEF LastPatchShows, Clean, SettledInv, CleanInv, TargetIsShown
  <1> QED BY <1>1, SettledInvariant, PTL

(* When nothing went wrong, the handlers have moved and linked every file  *)
(* fileUrls list, in the contents or not, and each url of the contents     *)
(* that is one of posts; an old url stays of a file that was not listed,   *)
(* or that was mentioned twice.                                            *)
THEOREM ListedAreMoved == FilesSpec => []ListedAreLinked
  <1>1. ASSUME SettledInv, Settled, past = {}
        PROVE  /\ Target = post /\ post # None /\ TargetShown = shown
               /\ ContentsAreLinked /\ jobs = {}
               /\ post.contents \in SUBSET Urls /\ shown.fileUrls \in SUBSET Urls
    BY <1>1, SettledTarget, TargetTypes DEF SettledInv, Smooth, SmoothInv, Post
  <1>2. ASSUME SettledInv, Settled, past = {}, NEW a \in Atts
        PROVE  /\ <<a, "post">> \in post.contents \cup shown.fileUrls => a \in links
               /\ <<a, "temp">> \in shown.fileUrls =>
                    /\ a \in links
                    /\ <<a, "temp">> \in post.contents => <<a, "temp">> \in shown.twice
    BY <1>1, <1>2 DEF ContentsAreLinked, Moving
  <1>3. ASSUME SettledInv, Settled, past = {},
               NEW a \in AttsOf(shown.fileUrls \cup (post.contents \ Temps))
        PROVE  row[a] = "post" /\ a \in links
    <2>1. shown.fileUrls \cup (post.contents \ Temps) \in SUBSET Urls
      BY <1>1, <1>3
    <2>2. a \in Atts /\ <<a, "temp">> \in Temps
      BY <2>1, UrlFacts, AtFacts DEF Temps, Places
    <2>3. \/ <<a, "post">> \in post.contents \cup shown.fileUrls
          \/ <<a, "temp">> \in shown.fileUrls
      BY <1>3, <2>1, <2>2, UrlFacts
    <2> QED BY <1>2, <1>3, <2>2, <2>3 DEF SettledInv
  <1>4. ASSUME SettledInv, Settled, past = {},
               NEW u \in post.contents \cap Temps \cap shown.fileUrls
        PROVE  u \in shown.twice
    <2>1. PICK a \in Atts : u = <<a, "temp">>
      BY <1>4 DEF Temps, At
    <2> QED BY <1>2, <1>4, <2>1
  <1>5. SettledInv => ListedAreLinked
    BY <1>3, <1>4 DEF ListedAreLinked
  <1> QED BY <1>5, SettledInvariant, PTL

(* When nothing went wrong, no image and no thumbnail is left over, but    *)
(* for what fileUrls list.                                                 *)
THEOREM RestIsGone == FilesSpec => []NothingIsLeft
  <1>1. ASSUME SettledInv, Settled, past = {}, NEW a \in Atts, Left(a)
        PROVE  a \in AttsOf(post.contents \cup shown.fileUrls) \cup {post.thumb}
    <2>1. a \in Named \cup {post.thumb} /\ Target = post /\ TargetShown = shown
      BY <1>1, SettledTarget DEF SettledInv, Smooth, SmoothInv, RestIsRemoved
    <2>2. AttsOf(post.contents \cup shown.fileUrls) =
            AttsOf(post.contents) \cup AttsOf(shown.fileUrls)
      BY DEF AttsOf
    <2> QED BY <2>1, <2>2 DEF Named
  <1>2. SettledInv => NothingIsLeft
    BY <1>1 DEF NothingIsLeft, Left
  <1> QED BY <1>2, SettledInvariant, PTL

(* When nothing went wrong, the thumbnail has its row and its file.        *)
THEOREM ThumbnailKeepsFile == FilesSpec => []ThumbnailHasFile
  <1>1. ASSUME SettledInv, Settled, past = {}, post.thumb # None
        PROVE  <<post.thumb, "post">> \in files /\ row[post.thumb] = "post"
    <2>1. Target = post /\ post # None /\ jobs = {} /\ ThumbIsAlone /\ post \in Post
      BY <1>1, SettledTarget DEF SettledInv, Smooth, SmoothInv
    <2>2. row[post.thumb] = "post" /\ post.thumb \in Atts
      BY <1>1, <2>1 DEF ThumbIsAlone, Post
    <2>3. post.thumb \in Stored \ Deleting
      BY <2>1, <2>2 DEF Stored, Places, Deleting
    <2> QED BY <1>1, <2>2, <2>3 DEF SettledInv, FilesInv, RowHasFile
  <1>2. SettledInv => ThumbnailHasFile
    BY <1>1 DEF ThumbnailHasFile
  <1> QED BY <1>2, SettledInvariant, PTL
=============================================================================
