------------------------------ MODULE Comments ------------------------------
(***************************************************************************)
(* The comments of one blog post, the requests that change them, and a     *)
(* reader who walks through their pages meanwhile.                         *)
(*                                                                         *)
(* The find of comments stands for the other paginated queries too (posts, *)
(* users, messages): same base class, same builder, same statements.       *)
(***************************************************************************)
EXTENDS Naturals, FiniteSets

CONSTANTS
  Writers,       \* requests that change comments at the same time
  MaxComments,   \* bound: comments ever written
  MaxChanges,    \* bound: requests that change comments during the walk
  Limit          \* limit of the query: comments per page

ASSUME LimitAssumption == Limit \in Nat \ {0}
ASSUME CommentBoundsAssumption == MaxComments \in Nat /\ MaxChanges \in Nat

VARIABLES
  blogPost,      \* its deletedAt: "live" or "deleted"
  comments,      \* comments[c]: the row of c
  stamp,         \* stamp[c]: its updated_at
  clock,         \* the time
  next,          \* the next id the server gives
  writer,        \* the requests that change comments
  changes,       \* requests begun so far
  walk           \* the reader

commentVars == <<blogPost, comments, stamp, clock, next, writer, changes, walk>>

(* An id of a later comment is greater: a time-sorted id of one server.    *)
Ids == 1 .. MaxComments

Rest == [does |-> "nothing", id |-> 0, copy |-> "none"]

(* times[c]: how often the reader has seen c; stays: the comments that     *)
(* have been there ever since it began; stale: pages asked for with a      *)
(* cursor that was deleted; left, come: comments that went and came during *)
(* the walk; torn: those that came after a page was counted and before it  *)
(* was read.  With the pages in the order of updated_at, moved: the        *)
(* comments that an UPDATE has given another place, by which they both go  *)
(* and come; strayed: a cursor was one of them before its page was read.   *)
Walk ==
  [by : {"cursor", "offset"}, orderBy : {"id", "updatedAt"}, order : {"desc", "asc"},
   at : {"page", "done", "gone"}, cursor : {0} \cup Ids, page : Nat,
   found : BOOLEAN, counted : BOOLEAN, count : Nat,
   times : [Ids -> Nat], stays : SUBSET Ids, moved : SUBSET Ids, strayed : BOOLEAN,
   stale : Nat, left : Nat, come : Nat, torn : Nat]

(* PaginationInterceptor: by page if there is a page and no cursor.        *)
PaginationBy(cursor, page) ==
  IF cursor = 0 /\ page # 0 THEN "offset" ELSE "cursor"

(* The order of createdAt is that of the id: a server sets both when it    *)
(* makes the comment, and neither changes.                                 *)
CommentsInit ==
  \E n \in 0 .. MaxComments, page \in {0, 1} :
  \E by \in {"id", "updatedAt"}, o \in {"desc", "asc"} :
    /\ blogPost = "live"
    /\ comments = [c \in Ids |-> IF c <= n THEN "live" ELSE "none"]
    /\ stamp = [c \in Ids |-> c]
    /\ clock = MaxComments
    /\ next = n + 1
    /\ writer = [w \in Writers |-> Rest]
    /\ changes = 0
    /\ walk = [by |-> PaginationBy(0, page), orderBy |-> by, order |-> o,
               at |-> "page", cursor |-> 0, page |-> page,
               found |-> FALSE, counted |-> FALSE, count |-> 0,
               times |-> [c \in Ids |-> 0], stays |-> 1 .. n,
               moved |-> {}, strayed |-> FALSE,
               stale |-> 0, left |-> 0, come |-> 0, torn |-> 0]

Live == {c \in Ids : comments[c] = "live"}
-----------------------------------------------------------------------------
(* Requests that change comments.  Each reads, then writes one row; that   *)
(* the caller may (its email, its membership, its own comment) is Requests.*)
Begin(w, request) ==
  /\ writer[w] = Rest
  /\ changes < MaxChanges
  /\ blogPost = "live"
  /\ changes' = changes + 1
  /\ writer' = [writer EXCEPT ![w] = request]
  /\ UNCHANGED <<blogPost, comments, walk>>

(* The entity has its id, its createdAt and its updatedAt from the server. *)
CreateCommentRead(w) ==
  /\ next \in Ids
  /\ Begin(w, [does |-> "create", id |-> next, copy |-> "live"])
  /\ next' = next + 1
  /\ clock' = clock + 1
  /\ stamp' = [stamp EXCEPT ![next] = clock']

(* The query of a comment does not look at its deletedAt.                  *)
FindComment(c) == comments[c] # "none"

PatchCommentRead(w, c) ==
  /\ FindComment(c)
  /\ Begin(w, [does |-> "patch", id |-> c, copy |-> comments[c]])
  /\ UNCHANGED <<next, clock, stamp>>

DeleteCommentRead(w, c) ==
  /\ FindComment(c)
  /\ Begin(w, [does |-> "delete", id |-> c, copy |-> comments[c]])
  /\ UNCHANGED <<next, clock, stamp>>

(* The row, and what the reader's history makes of it.                     *)
WriteComment(w, to, moves) ==
  LET c == writer[w].id
      goes == comments[c] = "live" /\ (to # "live" \/ moves)
      comes == to = "live" /\ (comments[c] # "live" \/ moves)
  IN  /\ comments' = [comments EXCEPT ![c] = to]
      /\ walk' = [walk EXCEPT
           !.stays = IF to = "live" THEN @ ELSE @ \ {c},
           !.moved = IF moves THEN @ \cup {c} ELSE @,
           !.strayed = @ \/ (moves /\ walk.cursor = c),
           !.left = IF goes THEN @ + 1 ELSE @,
           !.come = IF comes THEN @ + 1 ELSE @,
           !.torn = IF comments[c] # "live" /\ to = "live"
                       /\ walk.counted /\ ~walk.found THEN @ + 1 ELSE @]
      /\ writer' = [writer EXCEPT ![w] = Rest]
      /\ UNCHANGED <<blogPost, next, changes>>

CreateCommentInsert(w) ==
  /\ writer[w].does = "create"
  /\ WriteComment(w, "live", FALSE)
  /\ UNCHANGED <<clock, stamp>>

(* A trigger sets updated_at on every UPDATE.                              *)
UpdateComment(w, to) ==
  /\ WriteComment(w, to, walk.orderBy = "updatedAt")
  /\ clock' = clock + 1
  /\ stamp' = [stamp EXCEPT ![writer[w].id] = clock']

(* The whole row of the copy, its deletedAt with it: a patch that overlaps *)
(* the deletion brings the comment back.                                   *)
PatchCommentWrite(w) ==
  writer[w].does = "patch" /\ UpdateComment(w, writer[w].copy)

DeleteCommentWrite(w) ==
  writer[w].does = "delete" /\ UpdateComment(w, "deleted")

EndWriter(w) ==
  /\ writer[w] # Rest
  /\ writer' = [writer EXCEPT ![w] = Rest]
  /\ UNCHANGED <<blogPost, comments, stamp, clock, next, changes, walk>>

(* Its comments stay; who reads or changes them now is answered by a 404.  *)
RemovePost ==
  /\ blogPost = "live"
  /\ blogPost' = "deleted"
  /\ UNCHANGED <<comments, stamp, clock, next, writer, changes, walk>>
-----------------------------------------------------------------------------
(* One page *)
(* orderBy: what the rows are compared by, and which way.  Of several that *)
(* a client sends the first counts, without any it is the id; no two rows  *)
(* are equal in it.                                                        *)
Sorting ==
  [order |-> walk.order,
   key |-> IF walk.orderBy = "id" THEN [c \in Ids |-> c] ELSE stamp]

Before(o, a, b) ==
  IF o.order = "desc" THEN o.key[a] > o.key[b] ELSE o.key[a] < o.key[b]

Position(o, c, set) == Cardinality({d \in set : d = c \/ Before(o, d, c)})

(* skip and take *)
Slice(o, set, skip) ==
  {c \in set : Position(o, c, set) \in (skip + 1) .. (skip + Limit)}

Last(o, set) == CHOOSE c \in set : \A d \in set \ {c} : Before(o, d, c)

(* The range of a cursor begins with the row of the cursor, where it is    *)
(* now, if the filter lets it through.                                     *)
FromCursor(o, cursor) ==
  IF cursor = 0 THEN Live
  ELSE {c \in Live : c = cursor \/ Before(o, cursor, c)}

(* Mutant: the row of the cursor is not skipped.                           *)
SkipOfCursor_zero(cursor) == 0

(* The constructor of PaginatedQueryBase: with a cursor the skip is 1.     *)
SkipOfCursor(cursor) == IF cursor = 0 THEN 0 ELSE 1

(* Mutant: the page is not made zero-based.                                *)
SkipOfPage_rawPage(page) == page * Limit

(* transformPage, and the constructor again.                               *)
SkipOfPage(page) == (page - 1) * Limit

See(set) == [c \in Ids |-> IF c \in set THEN walk.times[c] + 1 ELSE walk.times[c]]

FindDeletedPost ==
  /\ walk.at = "page"
  /\ ~walk.found /\ ~walk.counted
  /\ blogPost = "deleted"
  /\ walk' = [walk EXCEPT !.at = "gone"]
  /\ UNCHANGED <<blogPost, comments, stamp, clock, next, writer, changes>>

(* findMany, and cursorPaginationResponseBuild: a page that is not full is *)
(* the last one.  The count beside it only goes into totalCount.           *)
CursorPage ==
  /\ walk.at = "page"
  /\ walk.by = "cursor"
  /\ blogPost = "live"
  /\ LET page == Slice(Sorting, FromCursor(Sorting, walk.cursor),
                       SkipOfCursor(walk.cursor))
         full == Cardinality(page) >= Limit
     IN  walk' = [walk EXCEPT
           !.times = See(page),
           !.stale = IF walk.cursor # 0 /\ walk.cursor \notin Live THEN @ + 1 ELSE @,
           !.at = IF full THEN "page" ELSE "done",
           !.cursor = IF full THEN Last(Sorting, page) ELSE 0]
  /\ UNCHANGED <<blogPost, comments, stamp, clock, next, writer, changes>>

(* findMany and count run beside each other, in any order.                 *)
OffsetFind ==
  /\ walk.at = "page"
  /\ walk.by = "offset"
  /\ ~walk.found
  /\ blogPost = "live" \/ walk.counted
  /\ walk' = [walk EXCEPT !.found = TRUE,
                !.times = See(Slice(Sorting, Live, SkipOfPage(walk.page)))]
  /\ UNCHANGED <<blogPost, comments, stamp, clock, next, writer, changes>>

OffsetCount ==
  /\ walk.at = "page"
  /\ walk.by = "offset"
  /\ ~walk.counted
  /\ blogPost = "live" \/ walk.found
  /\ walk' = [walk EXCEPT !.counted = TRUE, !.count = Cardinality(Live)]
  /\ UNCHANGED <<blogPost, comments, stamp, clock, next, writer, changes>>

(* offsetPaginationResponseBuild *)
OffsetAnswer ==
  /\ walk.found /\ walk.counted
  /\ LET hasNext == Limit * walk.page < walk.count
     IN  walk' = [walk EXCEPT
           !.found = FALSE, !.counted = FALSE, !.count = 0,
           !.at = IF hasNext THEN "page" ELSE "done",
           !.page = IF hasNext THEN @ + 1 ELSE @]
  /\ UNCHANGED <<blogPost, comments, stamp, clock, next, writer, changes>>

Write(w) ==
  \/ CreateCommentInsert(w) \/ PatchCommentWrite(w) \/ DeleteCommentWrite(w)
  \/ EndWriter(w)

CommentsNext ==
  \/ \E w \in Writers :
       \/ CreateCommentRead(w)
       \/ \E c \in Ids : PatchCommentRead(w, c) \/ DeleteCommentRead(w, c)
       \/ Write(w)
  \/ RemovePost
  \/ FindDeletedPost \/ CursorPage \/ OffsetFind \/ OffsetCount \/ OffsetAnswer

CommentsSpec == CommentsInit /\ [][CommentsNext]_commentVars
-----------------------------------------------------------------------------
(* The types of the rows, the requests and the walk of the reader.         *)
CommentsTypeOK ==
  /\ blogPost \in {"live", "deleted"}
  /\ comments \in [Ids -> {"none", "live", "deleted"}]
  /\ stamp \in [Ids -> Nat]
  /\ clock \in Nat
  /\ next \in 1 .. MaxComments + 1
  /\ writer \in [Writers -> [does : {"nothing", "create", "patch", "delete"},
                             id : {0} \cup Ids, copy : {"none", "live", "deleted"}]]
  /\ changes \in 0 .. MaxChanges
  /\ walk \in Walk

Missed == {c \in walk.stays : walk.times[c] = 0}

(* Walking through the pages by cursor shows every comment that stays, and *)
(* none twice, whatever is written meanwhile: all it may lose is one       *)
(* comment per page whose cursor had been deleted, the first of the page.  *)
(* By updated_at a comment that is updated meanwhile goes to one end of    *)
(* the order: it may be shown again there if that is the last, and be lost *)
(* if it is the first.  If it is the cursor itself, all that is left may   *)
(* be lost, or shown again; nothing is claimed then.                       *)
CursorWalkIsComplete ==
  walk.by = "cursor" /\ ~walk.strayed =>
    /\ \A c \in Ids :
         walk.times[c] > 1 => c \in walk.moved /\ walk.order = "asc"
    /\ walk.at = "done" =>
         Cardinality(IF walk.order = "asc" THEN Missed ELSE Missed \ walk.moved)
           <= walk.stale

(* Walking by page number shows every comment that stays but for one per   *)
(* comment deleted meanwhile, and per comment that came between the count  *)
(* of a page and the page; it repeats at most one per comment that came.   *)
(* By updated_at every UPDATE counts as both.                              *)
OffsetWalkIsComplete ==
  walk.by = "offset" =>
    /\ Cardinality({c \in Ids : walk.times[c] > 1}) <= walk.come
    /\ walk.at = "done" => Cardinality(Missed) <= walk.left + walk.torn
=============================================================================
