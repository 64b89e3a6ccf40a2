----------------------------- MODULE CoupleSpace -----------------------------
(***************************************************************************)
(* What two connected users share: the blog of their connection with its   *)
(* posts, and its chat room with the messages.  The module composes the    *)
(* handlers of these features with UserConnection: the transaction that    *)
(* disconnects publishes UserConnectionDisconnected, and the awaited event *)
(* handlers of blog, blog post, chat room and chat message run inside it.  *)
(*                                                                         *)
(* blogs.connection_id and chat_rooms.connection_id are unique and rows    *)
(* are only soft-deleted, so a connection names its blog and its room.     *)
(* The requests of these features have handlers of their own (Handlers);   *)
(* create and patch blog and create and patch post run in a transaction    *)
(* that writes last, the others without one.                               *)
(***************************************************************************)
EXTENDS UserConnection

CONSTANTS
  Posts,        \* identities new rows of blog_posts can take
  Messages,     \* identities new rows of chat_messages can take
  Handlers,     \* requests to these features in flight at the same time
  MaxInFlight   \* bound: requests in flight over Workers and Handlers

VARIABLES
  blog,         \* blog[c]: the row of blogs of connection c
  room,         \* room[c]: the row of chat_rooms of connection c
  posts,        \* posts[p]: the row of blog_posts, or None
  messages,     \* messages[m]: the row of chat_messages, or None
  found,        \* found[w]: what the event handlers of w's transaction found
  act           \* act[h]: the request handler h is running

space == <<blog, room, posts, messages>>
spaceVars == <<blog, room, posts, messages, found, act, vars>>

Presence == {"none", "live", "deleted"}

(* A post belongs to the blog, a message to the room, of connection conn.  *)
ItemRow == [conn : Conns, author : Users, deleted : BOOLEAN]

ASSUME NoneIsNoItem == None \notin ItemRow

(* null until the handlers of the event have run                           *)
Found == [blog : BOOLEAN, posts : SUBSET Posts, blogDone : BOOLEAN,
          room : BOOLEAN, messages : SUBSET Messages, roomDone : BOOLEAN]

NotRun == [blog |-> FALSE, posts |-> {}, blogDone |-> FALSE,
           room |-> FALSE, messages |-> {}, roomDone |-> FALSE]

Activity ==
  [pc : {"idle", "blogCheck", "blogInsert", "blogWrite",
         "roomCheck", "roomInsert", "messageCheck", "messageInsert",
         "postInsert", "postReread", "postWrite", "postDelete"},
   user : Users \cup {None},
   conn : Conns \cup {None},     \* whose blog or room
   post : Posts \cup {None},     \* patch, delete: the post
   deletes : BOOLEAN]            \* the post is to be deleted

Rest == [pc |-> "idle", user |-> None, conn |-> None, post |-> None,
         deletes |-> FALSE]

SpaceInit ==
  /\ Init
  /\ blog = [c \in Conns |-> "none"]
  /\ room = [c \in Conns |-> "none"]
  /\ posts = [p \in Posts |-> None]
  /\ messages = [m \in Messages |-> None]
  /\ found = [w \in Workers |-> NotRun]
  /\ act = [h \in Handlers |-> Rest]
-----------------------------------------------------------------------------
InFlight == Cardinality({w \in Workers : req[w] # Idle})
            + Cardinality({h \in Handlers : act[h] # Rest})

Slot == InFlight < MaxInFlight

(* Bounds: a create starts only while a row identity is left for it.       *)
Creating(pc) == Cardinality({h \in Handlers : act[h].pc = pc})

PostsLeft ==
  Creating("postInsert") < Cardinality({p \in Posts : posts[p] = None})

MessagesLeft ==
  Creating("messageCheck") + Creating("messageInsert")
    < Cardinality({m \in Messages : messages[m] = None})

(* Mutant: membership is not checked.                                      *)
isMember_always(c, u) == TRUE

(* blog.memberIds is copied from the connection when the blog is created.  *)
isMember(c, u) == isPartOfConnection(c, u)

LivePostsOf(c) ==
  {p \in Posts : posts[p] # None /\ posts[p].conn = c /\ ~posts[p].deleted}

LiveMessagesOf(c) ==
  {m \in Messages :
     messages[m] # None /\ messages[m].conn = c /\ ~messages[m].deleted}

(* The rows an open disconnect transaction has updated and not committed.  *)
BlogRowFree(c) ==
  \A w \in Workers : req[w].pc = "commit" /\ req[w].conn = c => ~found[w].blog

PostRowFree(p) == \A w \in Workers : p \notin found[w].posts

(* Handler h starts a request, goes on with it, or ends it.                *)
Begin(h, a) ==
  /\ act[h] = Rest
  /\ Slot
  /\ act' = [act EXCEPT ![h] = a]
  /\ UNCHANGED <<vars, space, found>>

Go(h, from, to) ==
  /\ act[h].pc = from
  /\ act' = [act EXCEPT ![h] = IF to = "idle" THEN Rest
                               ELSE [act[h] EXCEPT !.pc = to]]
  /\ UNCHANGED <<vars, space, found>>

Finish(h, from) ==
  /\ act[h].pc = from
  /\ act' = [act EXCEPT ![h] = Rest]
  /\ UNCHANGED <<vars, found>>
-----------------------------------------------------------------------------
(* CreateBlogCommandHandler and BlogDomainService.create *)

BlogRead(h, u, c) ==
  /\ u \in live
  /\ c \in acceptedConnections(u)
  /\ Begin(h, [Rest EXCEPT !.pc = "blogCheck", !.user = u, !.conn = c])

BlogCheck(h) ==
  Go(h, "blogCheck", IF blog[act[h].conn] = "live" THEN "idle"
                     ELSE "blogInsert")

(* The unique index refuses a second row, of a deleted blog too.           *)
BlogInsert(h) ==
  /\ Finish(h, "blogInsert")
  /\ blog' = [blog EXCEPT ![act[h].conn] = IF @ = "none" THEN "live" ELSE @]
  /\ UNCHANGED <<room, posts, messages>>

(* PatchUpdateBlogCommandHandler: the blog is read live and written whole, *)
(* with the deletedAt of the copy.                                         *)
PatchBlogRead(h, u, c) ==
  /\ blog[c] = "live"
  /\ isMember(c, u)
  /\ Begin(h, [Rest EXCEPT !.pc = "blogWrite", !.user = u, !.conn = c])

PatchBlogWrite(h) ==
  /\ Finish(h, "blogWrite")
  /\ BlogRowFree(act[h].conn)
  /\ blog' = [blog EXCEPT ![act[h].conn] = "live"]
  /\ UNCHANGED <<room, posts, messages>>
-----------------------------------------------------------------------------
(* CreateChatRoomCommandHandler *)

RoomRead(h, u, c) ==
  /\ u \in live
  /\ c \in acceptedConnections(u)
  /\ Begin(h, [Rest EXCEPT !.pc = "roomCheck", !.user = u, !.conn = c])

RoomCheck(h) ==
  Go(h, "roomCheck", IF room[act[h].conn] = "live" THEN "idle"
                     ELSE "roomInsert")

RoomInsert(h) ==
  /\ Finish(h, "roomInsert")
  /\ room' = [room EXCEPT ![act[h].conn] = IF @ = "none" THEN "live" ELSE @]
  /\ UNCHANGED <<blog, posts, messages>>

(* CreateChatMessageCommandHandler: the room, then an accepted connection  *)
(* of the sender, which must be the room's.                                *)
MessageRead(h, u, c) ==
  /\ MessagesLeft
  /\ room[c] = "live"
  /\ Begin(h, [Rest EXCEPT !.pc = "messageCheck", !.user = u, !.conn = c])

findOneByUserIdAndStatus(u, s) ==
  {c \in Rows(s) : isPartOfConnection(c, u) /\ ~conns[c].deleted}

MessageCheck(h) ==
  \/ /\ act[h].conn \in findOneByUserIdAndStatus(act[h].user, "ACCEPTED")
     /\ Go(h, "messageCheck", "messageInsert")
  \/ /\ findOneByUserIdAndStatus(act[h].user, "ACCEPTED") # {act[h].conn}
     /\ Go(h, "messageCheck", "idle")

(* Mutant: the id of a post is stored for the sender.                      *)
MessageInsert_swapped(h, m) ==
  /\ Finish(h, "messageInsert")
  /\ messages[m] = None
  /\ messages' = [messages EXCEPT ![m] =
        [conn |-> act[h].conn, author |-> act[h].post, deleted |-> FALSE]]
  /\ UNCHANGED <<blog, room, posts>>

MessageInsert(h, m) ==
  /\ Finish(h, "messageInsert")
  /\ messages[m] = None
  /\ messages' = [messages EXCEPT ![m] =
        [conn |-> act[h].conn, author |-> act[h].user, deleted |-> FALSE]]
  /\ UNCHANGED <<blog, room, posts>>
-----------------------------------------------------------------------------
(* CreateBlogPostCommandHandler *)

PostRead(h, u, c) ==
  /\ PostsLeft
  /\ blog[c] = "live"
  /\ isMember(c, u)
  /\ Begin(h, [Rest EXCEPT !.pc = "postInsert", !.user = u, !.conn = c])

PostInsert(h, p) ==
  /\ Finish(h, "postInsert")
  /\ posts[p] = None
  /\ posts' = [posts EXCEPT ![p] =
        [conn |-> act[h].conn, author |-> act[h].user, deleted |-> FALSE]]
  /\ UNCHANGED <<blog, room, messages>>

(* PatchUpdateBlogPostCommandHandler and DeleteBlogPostCommandHandler: the *)
(* blog of the path, live and the user's; then the post of the path, live. *)
EditRead(h, u, c, p, deletes) ==
  /\ blog[c] = "live"
  /\ isMember(c, u)
  /\ Begin(h, [pc |-> "postReread", user |-> u, conn |-> c, post |-> p,
               deletes |-> deletes])

(* Mutant: the post is read without "deletedAt: null".                     *)
PostReread_anyRow(h) ==
  Go(h, "postReread",
     IF posts[act[h].post] = None THEN "idle"
     ELSE IF act[h].deletes THEN "postDelete" ELSE "postWrite")

PostReread(h) ==
  Go(h, "postReread",
     IF posts[act[h].post] = None \/ posts[act[h].post].deleted THEN "idle"
     ELSE IF act[h].deletes THEN "postDelete" ELSE "postWrite")

(* Patch writes the whole row, with the deletedAt of the copy: null.       *)
PatchPostWrite(h) ==
  /\ Finish(h, "postWrite")
  /\ PostRowFree(act[h].post)
  /\ posts' = [posts EXCEPT ![act[h].post].deleted = FALSE]
  /\ UNCHANGED <<blog, room, messages>>

DeletePostWrite(h) ==
  /\ Finish(h, "postDelete")
  /\ PostRowFree(act[h].post)
  /\ posts' = [posts EXCEPT ![act[h].post].deleted = TRUE]
  /\ UNCHANGED <<blog, room, messages>>

(* A request ends before its next statement (see UserConnection!Abort).    *)
HandlerAbort(h) ==
  /\ act[h] # Rest
  /\ act' = [act EXCEPT ![h] = Rest]
  /\ UNCHANGED <<vars, space, found>>
-----------------------------------------------------------------------------
(* The event handlers of a disconnect, between its UPDATE and its COMMIT.  *)
(* Promise.all starts both; their statements may come in either order.     *)
Disconnecting(w) == req[w].pc = "commit" /\ req[w].conn # None

(* Mutant: the blog handler has a transaction of its own, which commits.   *)
CascadeBlog_ownTransaction(w) ==
  /\ Disconnecting(w)
  /\ ~found[w].blogDone
  /\ found' = [found EXCEPT ![w].blogDone = TRUE]
  /\ blog' = [blog EXCEPT ![req[w].conn] =
                IF @ = "live" THEN "deleted" ELSE @]
  /\ UNCHANGED <<vars, room, posts, messages, act>>

(* Mutant: the deleted blog publishes no BlogDeleted.                      *)
CascadeBlog_noEvent(w) ==
  /\ Disconnecting(w)
  /\ ~found[w].blogDone
  /\ found' = [found EXCEPT ![w].blogDone = TRUE,
                            ![w].blog = blog[req[w].conn] = "live"]
  /\ UNCHANGED <<vars, space, act>>

(* BlogUserConnectionDisconnect..., then BlogPostBlogDeleted... *)
CascadeBlog(w) ==
  /\ Disconnecting(w)
  /\ ~found[w].blogDone
  /\ LET c == req[w].conn
     IN  found' = [found EXCEPT
           ![w].blogDone = TRUE,
           ![w].blog = blog[c] = "live",
           ![w].posts = IF blog[c] = "live" THEN LivePostsOf(c) ELSE {}]
  /\ UNCHANGED <<vars, space, act>>

(* Mutant: the chat room does not listen to UserConnectionDisconnected.    *)
CascadeRoom_notListening(w) ==
  /\ Disconnecting(w)
  /\ ~found[w].roomDone
  /\ found' = [found EXCEPT ![w].roomDone = TRUE]
  /\ UNCHANGED <<vars, space, act>>

(* Mutant: the deleted room publishes no ChatRoomDeleted.                  *)
CascadeRoom_noEvent(w) ==
  /\ Disconnecting(w)
  /\ ~found[w].roomDone
  /\ found' = [found EXCEPT ![w].roomDone = TRUE,
                            ![w].room = room[req[w].conn] = "live"]
  /\ UNCHANGED <<vars, space, act>>

(* Mutant: without a room the handler never answers.                       *)
CascadeRoom_noEarlyReturn(w) ==
  /\ Disconnecting(w)
  /\ ~found[w].roomDone
  /\ room[req[w].conn] = "live"
  /\ found' = [found EXCEPT ![w].roomDone = TRUE, ![w].room = TRUE,
                            ![w].messages = LiveMessagesOf(req[w].conn)]
  /\ UNCHANGED <<vars, space, act>>

(* ChatRoomUserConnectionDisconnect..., then ChatMessageChatRoomDeleted... *)
CascadeRoom(w) ==
  /\ Disconnecting(w)
  /\ ~found[w].roomDone
  /\ LET c == req[w].conn
     IN  found' = [found EXCEPT
           ![w].roomDone = TRUE,
           ![w].room = room[c] = "live",
           ![w].messages = IF room[c] = "live" THEN LiveMessagesOf(c) ELSE {}]
  /\ UNCHANGED <<vars, space, act>>

Removed(rows, S) ==
  [i \in DOMAIN rows |-> IF i \in S THEN [rows[i] EXCEPT !.deleted = TRUE]
                         ELSE rows[i]]

(* The commit makes the updates of the handlers visible with its own.      *)
SpaceCommit(w) ==
  /\ TxCommit(w)
  /\ Disconnecting(w) => found[w].blogDone /\ found[w].roomDone
  /\ LET c == req[w].conn
     IN  /\ blog' = IF found[w].blog THEN [blog EXCEPT ![c] = "deleted"]
                    ELSE blog
         /\ room' = IF found[w].room THEN [room EXCEPT ![c] = "deleted"]
                    ELSE room
  /\ posts' = Removed(posts, found[w].posts)
  /\ messages' = Removed(messages, found[w].messages)
  /\ found' = [found EXCEPT ![w] = NotRun]
  /\ UNCHANGED act

(* Mutant: no transaction, so the UPDATE of the connection stays.          *)
SpaceAbort_autocommit(w) ==
  /\ req[w] # Idle
  /\ req' = [req EXCEPT ![w] = Idle]
  /\ conns' = IF Disconnecting(w)
              THEN [conns EXCEPT ![req[w].conn] = WithStatus(@, "DISCONNECTED")]
              ELSE conns
  /\ found' = [found EXCEPT ![w] = NotRun]
  /\ UNCHANGED <<live, space, act>>

(* Mutant: a transaction cut short is left open, its locks with it.        *)
SpaceAbort_leftOpen(w) ==
  /\ Abort(w)
  /\ UNCHANGED <<space, found, act>>

SpaceAbort(w) ==
  /\ Abort(w)
  /\ found' = [found EXCEPT ![w] = NotRun]
  /\ UNCHANGED <<space, act>>
-----------------------------------------------------------------------------
(* The other steps of UserConnection leave the space alone.                *)
ConnStart(w) == Slot /\ Start(w) /\ UNCHANGED <<space, found, act>>

ConnStep(w) ==
  /\ req[w].pc # "commit"
  /\ Step(w)
  /\ UNCHANGED <<space, found, act>>

HandlerStart(h) ==
  \E u \in Users, c \in Conns :
    \/ BlogRead(h, u, c)
    \/ PatchBlogRead(h, u, c)
    \/ RoomRead(h, u, c)
    \/ MessageRead(h, u, c)
    \/ PostRead(h, u, c)
    \/ \E p \in Posts, deletes \in BOOLEAN : EditRead(h, u, c, p, deletes)

HandlerStep(h) ==
  \/ BlogCheck(h)
  \/ BlogInsert(h)
  \/ PatchBlogWrite(h)
  \/ RoomCheck(h)
  \/ RoomInsert(h)
  \/ MessageCheck(h)
  \/ \E m \in Messages : MessageInsert(h, m)
  \/ \E p \in Posts : PostInsert(h, p)
  \/ PostReread(h)
  \/ PatchPostWrite(h)
  \/ DeletePostWrite(h)

WorkerStep(w) ==
  ConnStep(w) \/ CascadeBlog(w) \/ CascadeRoom(w) \/ SpaceCommit(w)

SpaceNext ==
  \/ \E w \in Workers : ConnStart(w) \/ WorkerStep(w) \/ SpaceAbort(w)
  \/ \E h \in Handlers : HandlerStart(h) \/ HandlerStep(h) \/ HandlerAbort(h)

SpaceSpec == SpaceInit /\ [][SpaceNext]_spaceVars

(* The server goes on with every request it has started.  Strong fairness  *)
(* is needed by the statements that wait for a row lock and justified by   *)
(* the lock queue of the database, which serves the waiting in turn; for   *)
(* the other statements, never disabled, it says no more than weak.        *)
SpaceFairSpec ==
  /\ SpaceSpec
  /\ \A w \in Workers : SF_spaceVars(WorkerStep(w))
  /\ \A h \in Handlers : SF_spaceVars(HandlerStep(h))
-----------------------------------------------------------------------------
(* The types of the rows of the space and of what the requests and the     *)
(* handlers of the cascade have found.                                     *)
SpaceTypeOK ==
  /\ blog \in [Conns -> Presence]
  /\ room \in [Conns -> Presence]
  /\ posts \in [Posts -> ItemRow \cup {None}]
  /\ messages \in [Messages -> ItemRow \cup {None}]
  /\ found \in [Workers -> Found]
  /\ act \in [Handlers -> Activity]

(* However stale the read that let it through, no blog or chat room exists *)
(* for a request that was never answered: acceptedConnection was true once.*)
SpaceNeedsConnection ==
  \A c \in Conns :
    blog[c] # "none" \/ room[c] # "none" =>
      conns[c] # None /\ conns[c].status # "PENDING"

(* Posts and messages are written by the two users of the connection only, *)
(* in a blog or room that has a row.                                       *)
AuthorsAreParties ==
  /\ \A p \in Posts : posts[p] # None =>
       /\ blog[posts[p].conn] # "none"
       /\ isPartOfConnection(posts[p].conn, posts[p].author)
  /\ \A m \in Messages : messages[m] # None =>
       /\ room[messages[m].conn] # "none"
       /\ isPartOfConnection(messages[m].conn, messages[m].author)

(* The cascade is all or nothing: a blog, a room or a message disappears   *)
(* only in the step that makes its connection DISCONNECTED, and a blog     *)
(* takes with it every post its handler found.                             *)
CascadeStep ==
  /\ \A c \in Conns :
       (blog[c] # "deleted" /\ blog'[c] = "deleted")
         \/ (room[c] # "deleted" /\ room'[c] = "deleted") =>
       conns'[c].status = "DISCONNECTED" /\ conns'[c].deleted
  /\ \A m \in Messages :
       messages[m] # None /\ ~messages[m].deleted /\ messages'[m].deleted =>
         room'[messages[m].conn] = "deleted"
  /\ \A w \in Workers :
       found[w].blog /\ found'[w] = NotRun /\ conns' # conns =>
         \A p \in found[w].posts : posts'[p].deleted

CascadeIsAtomic == [][CascadeStep]_spaceVars

(* A live blog or chat room belongs to an accepted connection, ...         *)
LiveSpaceHasConnection ==
  \A c \in Conns :
    blog[c] = "live" \/ room[c] = "live" => conns[c].status = "ACCEPTED"

(* ... a live message to a live room, and a live post to a live blog:      *)
(* "BlogPost exists but its Blog does not" is the error of the create      *)
(* comment handler.                                                        *)
LivePostHasBlog ==
  \A p \in Posts :
    posts[p] # None /\ ~posts[p].deleted => blog[posts[p].conn] = "live"

LiveMessageHasRoom ==
  \A m \in Messages :
    messages[m] # None /\ ~messages[m].deleted => room[messages[m].conn] = "live"

(* What a disconnect or a delete removed stays removed.                    *)
NothingRevives ==
  [][/\ \A c \in Conns : blog[c] = "deleted" => blog'[c] = "deleted"
     /\ \A c \in Conns : room[c] = "deleted" => room'[c] = "deleted"
     /\ \A p \in Posts :
          posts[p] # None /\ posts[p].deleted => posts'[p].deleted]_space

(* Every request ends: a patch or a delete that waits for a blog or a post *)
(* the cascade of a disconnect has locked, whether that commits or is cut  *)
(* short, and the disconnect itself, with or without a blog and a room.    *)
EverySpaceRequestEnds ==
  /\ \A w \in Workers : req[w] # Idle ~> req[w] = Idle
  /\ \A h \in Handlers : act[h] # Rest ~> act[h] = Rest

(* Seen without the space, the connections still behave as UserConnection. *)
ImplementsUserConnection == Spec
=============================================================================
