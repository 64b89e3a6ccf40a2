-------------------------- MODULE CoupleSpaceProofs --------------------------
(***************************************************************************)
(* The composition of connections and their space is still UserConnection: *)
(* whatever the handlers of blog, post, room and message and the event     *)
(* handlers of the cascade do, what is proved of the connections holds.    *)
(*                                                                         *)
(* The invariant of the space is inductive because what it says of the     *)
(* reads of a request are facts no step takes back: rows are only          *)
(* soft-deleted and keep their users and their place, and a connection     *)
(* does not become PENDING again.                                          *)
(*                                                                         *)
(* The last part is about one request in flight at a time.  Only then does *)
(* what is live stay so from the read to the write, and the cascade take   *)
(* all that is live with it.                                               *)
(***************************************************************************)
EXTENDS CoupleSpace, UserConnectionProofs, FiniteSetTheorems

(* A step of a request to the space leaves the connections alone.          *)
LEMMA HandlersLeaveConnections ==
  ASSUME NEW h \in Handlers,
         HandlerStart(h) \/ HandlerStep(h) \/ HandlerAbort(h)
  PROVE  UNCHANGED vars
  <1>1. CASE HandlerStart(h)
    BY <1>1 DEF HandlerStart, BlogRead, PatchBlogRead, RoomRead, MessageRead,
                PostRead, EditRead, Begin
  <1>2. CASE HandlerStep(h)
    <2>1. CASE BlogCheck(h) \/ RoomCheck(h) \/ MessageCheck(h) \/ PostReread(h)
      BY <2>1 DEF BlogCheck, RoomCheck, MessageCheck, PostReread, Go
    <2>2. CASE BlogInsert(h) \/ PatchBlogWrite(h) \/ RoomInsert(h)
      BY <2>2 DEF BlogInsert, PatchBlogWrite, RoomInsert, Finish
    <2>3. CASE \E m \in Messages : MessageInsert(h, m)
      BY <2>3 DEF MessageInsert, Finish
    <2>4. CASE \E p \in Posts : PostInsert(h, p)
      BY <2>4 DEF PostInsert, Finish
    <2>5. CASE PatchPostWrite(h) \/ DeletePostWrite(h)
      BY <2>5 DEF PatchPostWrite, DeletePostWrite, Finish
    <2> QED BY <1>2, <2>1, <2>2, <2>3, <2>4, <2>5 DEF HandlerStep
  <1>3. CASE HandlerAbort(h)
    BY <1>3 DEF HandlerAbort
  <1> QED BY <1>1, <1>2, <1>3

(* A step of a worker is a step of UserConnection or leaves it alone.      *)
LEMMA WorkersFollow ==
  ASSUME NEW w \in Workers, ConnStart(w) \/ WorkerStep(w) \/ SpaceAbort(w)
  PROVE  [Next]_vars
  <1>1. CASE ConnStart(w)
    BY <1>1 DEF ConnStart, Next
  <1>2. CASE ConnStep(w)
    BY <1>2 DEF ConnStep, Next
  <1>3. CASE CascadeBlog(w) \/ CascadeRoom(w)
    BY <1>3 DEF CascadeBlog, CascadeRoom
  <1>4. CASE SpaceCommit(w)
    BY <1>4 DEF SpaceCommit, Next, Step
  <1>5. CASE SpaceAbort(w)
    BY <1>5 DEF SpaceAbort, Next
  <1> QED BY <1>1, <1>2, <1>3, <1>4, <1>5 DEF WorkerStep

(* A step of the composition is a step of UserConnection or leaves it.     *)
LEMMA SpaceNextFollows == [SpaceNext]_spaceVars => [Next]_vars
  <1> SUFFICES ASSUME [SpaceNext]_spaceVars PROVE [Next]_vars
    OBVIOUS
  <1>1. CASE \E w \in Workers : ConnStart(w) \/ WorkerStep(w) \/ SpaceAbort(w)
    BY <1>1, WorkersFollow
  <1>2. CASE \E h \in Handlers :
               HandlerStart(h) \/ HandlerStep(h) \/ HandlerAbort(h)
    BY <1>2, HandlersLeaveConnections
  <1>3. CASE UNCHANGED spaceVars
    BY <1>3 DEF spaceVars
  <1> QED BY <1>1, <1>2, <1>3 DEF SpaceNext

(* For any users, rows and requests in flight, the connections of the      *)
(* composed system behave as UserConnection allows: the cascade adds steps *)
(* between the UPDATE and the COMMIT of a disconnect and changes no other. *)
THEOREM SpaceImplements == SpaceSpec => ImplementsUserConnection
  <1>1. SpaceInit => Init
    BY DEF SpaceInit
  <1> QED
    BY <1>1, SpaceNextFollows, PTL DEF SpaceSpec, ImplementsUserConnection, Spec

(* So a request of the composed system that is about to write a row is     *)
(* entitled to it, and the cascade runs for a connection that has a row.   *)
THEOREM SpaceEntitled == SpaceSpec => []RequestsAreEntitled
  BY SpaceImplements, Entitled, PTL DEF ImplementsUserConnection
-----------------------------------------------------------------------------
(* The inductive invariant of the space.  A handler writes what it read    *)
(* some statements ago, so the invariant says of every statement what the  *)
(* reads before it have left true whatever ran in between: ...             *)
Answered(c) ==
  c \in Conns /\ conns[c] # None /\ conns[c].status # "PENDING"

HasBlog(c) == c \in Conns /\ blog[c] # "none"

HasRoom(c) == c \in Conns /\ room[c] # "none"

KnowsItsRows(h) ==
  LET a == act[h]
  IN  /\ a.pc \in {"blogCheck", "blogInsert", "roomCheck", "roomInsert"} =>
           Answered(a.conn)
      /\ a.pc = "blogWrite" => HasBlog(a.conn)
      /\ a.pc \in {"messageCheck", "messageInsert"} =>
           a.user \in Users /\ HasRoom(a.conn)
      /\ a.pc = "postInsert" => a.user \in Users /\ HasBlog(a.conn)
      /\ a.pc \in {"messageInsert", "postInsert"} =>
           isPartOfConnection(a.conn, a.user)
      /\ a.pc \in {"postReread", "postWrite", "postDelete"} =>
           a.post \in Posts
      /\ a.pc \in {"postWrite", "postDelete"} => posts[a.post] # None

(* ... and of an open disconnect what its event handlers have found.       *)
FoundIsThere(w) ==
  LET f == found[w]
      c == req[w].conn
  IN  /\ f.blog \/ f.posts # {} => Disconnecting(w) /\ f.blog /\ HasBlog(c)
      /\ f.room \/ f.messages # {} =>
           Disconnecting(w) /\ f.room /\ HasRoom(c)
      /\ \A p \in f.posts : posts[p] # None
      /\ \A m \in f.messages : messages[m] # None /\ messages[m].conn = c

SpaceInv ==
  /\ IInv
  /\ SpaceTypeOK
  /\ SpaceNeedsConnection
  /\ AuthorsAreParties
  /\ \A h \in Handlers : KnowsItsRows(h)
  /\ \A w \in Workers : FoundIsThere(w)
-----------------------------------------------------------------------------
(* What no step takes back: a row stays, with its users and its place, and *)
(* a connection does not become PENDING again.                             *)
ConnsStay ==
  \A c \in Conns : conns[c] # None =>
    /\ conns'[c] # None
    /\ conns'[c].requester = conns[c].requester
    /\ conns'[c].requested = conns[c].requested
    /\ conns[c].status # "PENDING" => conns'[c].status # "PENDING"

SpaceStays ==
  /\ \A c \in Conns : /\ blog[c] # "none" => blog'[c] # "none"
                      /\ room[c] # "none" => room'[c] # "none"
  /\ \A p \in Posts : posts[p] # None =>
       /\ posts'[p] # None
       /\ posts'[p].conn = posts[p].conn
       /\ posts'[p].author = posts[p].author
  /\ \A m \in Messages : messages[m] # None =>
       /\ messages'[m] # None
       /\ messages'[m].conn = messages[m].conn
       /\ messages'[m].author = messages[m].author

LEMMA NextConnsStay == IInv /\ [Next]_vars => ConnsStay
  <1> SUFFICES ASSUME IInv, [Next]_vars,
                      NEW c \in Conns, conns[c] # None, conns'[c] # conns[c]
               PROVE  /\ conns'[c] # None
                      /\ conns'[c].requester = conns[c].requester
                      /\ conns'[c].requested = conns[c].requested
                      /\ conns'[c].status # "PENDING"
    BY DEF ConnsStay
  <1>1. Next
    BY DEF vars
  <1>2. /\ conns'[c].requester = conns[c].requester
        /\ conns'[c].requested = conns[c].requested
        /\ conns'[c].status # "PENDING"
    BY <1>1, NextEntitledMoves DEF EntitledMoves, EntitledMove
  <1>3. PICK w \in Workers : UpdateWrite(w) \/ TxCommit(w)
    BY <1>1, WhoWrites DEF IInv
  <1>4. CASE UpdateWrite(w)
    <2> DEFINE d == req[w].conn
               row == WithStatus(conns[d], req[w].to)
    <2>1. d \in Conns /\ row \in ConnRow /\ conns' = [conns EXCEPT ![d] = row]
      BY <1>4, UpdateWriteMoves
    <2> HIDE DEF d, row
    <2>2. conns'[c] = row
      BY <2>1 DEF IInv, TypeOK
    <2> QED BY <1>2, <2>1, <2>2, NoneIsNoRow
  <1>5. CASE TxCommit(w)
    <2> DEFINE d == req[w].conn
               row == WithStatus(conns[d], "DISCONNECTED")
    <2>1. d # None
      BY <1>5 DEF TxCommit
    <2>2. d \in Conns /\ row \in ConnRow /\ conns' = [conns EXCEPT ![d] = row]
      BY <1>5, <2>1, TxCommitMoves
    <2> HIDE DEF d, row
    <2>3. conns'[c] = row
      BY <2>2 DEF IInv, TypeOK
    <2> QED BY <1>2, <2>2, <2>3, NoneIsNoRow
  <1> QED BY <1>3, <1>4, <1>5

(* What follows for the parts of the invariant when a step stays.          *)
LEMMA NeedsCarried ==
  ASSUME SpaceInv, ConnsStay,
         \A c \in Conns : blog'[c] # "none" \/ room'[c] # "none" =>
           blog[c] # "none" \/ room[c] # "none" \/ Answered(c)
  PROVE  SpaceNeedsConnection'
  BY DEF SpaceInv, SpaceNeedsConnection, ConnsStay, Answered

LEMMA AuthorsCarried ==
  ASSUME SpaceInv, ConnsStay, SpaceStays,
         \A p \in Posts : posts'[p] # None =>
           \/ posts[p] # None
           \/ /\ posts'[p].conn \in Conns
              /\ blog[posts'[p].conn] # "none"
              /\ isPartOfConnection(posts'[p].conn, posts'[p].author),
         \A m \in Messages : messages'[m] # None =>
           \/ messages[m] # None
           \/ /\ messages'[m].conn \in Conns
              /\ room[messages'[m].conn] # "none"
              /\ isPartOfConnection(messages'[m].conn, messages'[m].author)
  PROVE  AuthorsAreParties'
  <1>1. ASSUME NEW c \in Conns, blog[c] # "none" \/ room[c] # "none"
        PROVE  /\ conns'[c].requester = conns[c].requester
               /\ conns'[c].requested = conns[c].requested
    BY <1>1 DEF SpaceInv, SpaceNeedsConnection, ConnsStay
  <1>2. ASSUME NEW p \in Posts, posts'[p] # None
        PROVE  /\ blog'[posts'[p].conn] # "none"
               /\ posts'[p].author \in {conns'[posts'[p].conn].requester,
                                        conns'[posts'[p].conn].requested}
    <2> DEFINE c == posts'[p].conn
    <2>1. /\ c \in Conns
          /\ blog[c] # "none"
          /\ posts'[p].author \in {conns[c].requester, conns[c].requested}
      <3>1. CASE posts[p] # None
        BY <3>1 DEF SpaceInv, SpaceTypeOK, ItemRow, AuthorsAreParties,
                    SpaceStays, isPartOfConnection
      <3>2. CASE posts[p] = None
        BY <1>2, <3>2 DEF isPartOfConnection
      <3> QED BY <3>1, <3>2
    <2>2. blog'[c] # "none"
      BY <2>1 DEF SpaceStays
    <2> QED BY <1>1, <2>1, <2>2
  <1>3. ASSUME NEW m \in Messages, messages'[m] # None
        PROVE  /\ room'[messages'[m].conn] # "none"
               /\ messages'[m].author \in {conns'[messages'[m].conn].requester,
                                        conns'[messages'[m].conn].requested}
    <2> DEFINE c == messages'[m].conn
    <2>1. /\ c \in Conns
          /\ room[c] # "none"
          /\ messages'[m].author \in {conns[c].requester, conns[c].requested}
      <3>1. CASE messages[m] # None
        BY <3>1 DEF SpaceInv, SpaceTypeOK, ItemRow, AuthorsAreParties,
                    SpaceStays, isPartOfConnection
      <3>2. CASE messages[m] = None
        BY <1>3, <3>2 DEF isPartOfConnection
      <3> QED BY <3>1, <3>2
    <2>2. room'[c] # "none"
      BY <2>1 DEF SpaceStays
    <2> QED BY <1>1, <2>1, <2>2
  <1> QED BY <1>2, <1>3 DEF AuthorsAreParties, isPartOfConnection

LEMMA KnowledgeCarried ==
  ASSUME SpaceInv, ConnsStay, SpaceStays, NEW h \in Handlers, act'[h] = act[h]
  PROVE  KnowsItsRows(h)'
  <1>1. KnowsItsRows(h)
    BY DEF SpaceInv
  <1>2. ASSUME NEW c, Answered(c) PROVE Answered(c)'
    BY <1>2 DEF Answered, ConnsStay
  <1>3. ASSUME NEW c, HasBlog(c) PROVE HasBlog(c)'
    BY <1>3 DEF HasBlog, SpaceStays
  <1>4. ASSUME NEW c, HasRoom(c) PROVE HasRoom(c)'
    BY <1>4 DEF HasRoom, SpaceStays
  <1>5. ASSUME NEW c, NEW u, HasBlog(c) \/ HasRoom(c), isPartOfConnection(c, u)
        PROVE  isPartOfConnection(c, u)'
    BY <1>5 DEF HasBlog, HasRoom, SpaceInv, SpaceNeedsConnection, ConnsStay,
                isPartOfConnection
  <1>6. \A p \in Posts : posts[p] # None => posts'[p] # None
    BY DEF SpaceStays
  <1> DEFINE a == act[h]
  <1>7. /\ a.pc \in {"blogCheck", "blogInsert", "roomCheck", "roomInsert"} =>
             Answered(a.conn)'
        /\ a.pc = "blogWrite" => HasBlog(a.conn)'
    BY <1>1, <1>2, <1>3 DEF KnowsItsRows
  <1>8. /\ a.pc \in {"messageCheck", "messageInsert"} =>
             a.user \in Users /\ HasRoom(a.conn)'
        /\ a.pc = "postInsert" => a.user \in Users /\ HasBlog(a.conn)'
    BY <1>1, <1>3, <1>4 DEF KnowsItsRows
  <1>9. a.pc \in {"messageInsert", "postInsert"} =>
          isPartOfConnection(a.conn, a.user)'
    BY <1>1, <1>5 DEF KnowsItsRows
  <1>10. /\ a.pc \in {"postReread", "postWrite", "postDelete"} =>
              a.post \in Posts
         /\ a.pc \in {"postWrite", "postDelete"} => posts'[a.post] # None
    BY <1>1, <1>6 DEF KnowsItsRows
  <1>11. act'[h] = a
    OBVIOUS
  <1> QED
    BY <1>7, <1>8, <1>9, <1>10, <1>11
    DEF KnowsItsRows, Answered, HasBlog, HasRoom, isPartOfConnection

LEMMA FoundCarried ==
  ASSUME SpaceInv, SpaceStays, NEW w \in Workers, found'[w] = found[w],
         req'[w] = req[w] \/ ~Disconnecting(w)
  PROVE  FoundIsThere(w)'
  <1>1. FoundIsThere(w)
    BY DEF SpaceInv
  <1>2. found[w] \in Found
    BY DEF SpaceInv, SpaceTypeOK
  <1>3. CASE ~Disconnecting(w)
    BY <1>1, <1>2, <1>3 DEF FoundIsThere, Found
  <1>4. CASE req'[w] = req[w]
    BY <1>1, <1>2, <1>4
    DEF FoundIsThere, Found, Disconnecting, HasBlog, HasRoom, SpaceStays
  <1> QED BY <1>3, <1>4
-----------------------------------------------------------------------------
(* A statement of a request that writes nothing keeps the invariant if the *)
(* request knows its rows afterwards.                                      *)
LEMMA ReadStep ==
  ASSUME SpaceInv, NEW h \in Handlers, NEW a \in Activity,
         UNCHANGED <<vars, space, found>>,
         act' = [act EXCEPT ![h] = a], KnowsItsRows(h)'
  PROVE  SpaceInv'
  <1>1. IInv' /\ ConnsStay /\ SpaceStays
    BY NextIInv, NextConnsStay DEF SpaceInv, SpaceStays, space
  <1>2. SpaceTypeOK'
    BY DEF SpaceInv, SpaceTypeOK, space
  <1>3. SpaceNeedsConnection'
    BY <1>1, NeedsCarried DEF space
  <1>4. AuthorsAreParties'
    BY <1>1, AuthorsCarried DEF space
  <1>5. ASSUME NEW g \in Handlers PROVE KnowsItsRows(g)'
    <2>1. CASE g = h
      BY <2>1
    <2>2. CASE g # h
      <3>1. act'[g] = act[g]
        BY <2>2 DEF SpaceInv, SpaceTypeOK
      <3> QED BY <1>1, <3>1, KnowledgeCarried
    <2> QED BY <2>1, <2>2
  <1>6. ASSUME NEW w \in Workers PROVE FoundIsThere(w)'
    BY <1>1, FoundCarried DEF vars
  <1> QED BY <1>1, <1>2, <1>3, <1>4, <1>5, <1>6 DEF SpaceInv

(* The last statement of a request keeps it if what it writes stays typed, *)
(* takes no row back and adds only rows that belong.                       *)
LEMMA WriteStep ==
  ASSUME SpaceInv, NEW h \in Handlers,
         UNCHANGED <<vars, found>>, act' = [act EXCEPT ![h] = Rest],
         blog' \in [Conns -> Presence], room' \in [Conns -> Presence],
         posts' \in [Posts -> ItemRow \cup {None}],
         messages' \in [Messages -> ItemRow \cup {None}],
         SpaceStays, SpaceNeedsConnection', AuthorsAreParties'
  PROVE  SpaceInv'
  <1>1. IInv' /\ ConnsStay
    BY NextIInv, NextConnsStay DEF SpaceInv
  <1>2. SpaceTypeOK'
    BY DEF SpaceInv, SpaceTypeOK, Activity, Rest
  <1>3. ASSUME NEW g \in Handlers PROVE KnowsItsRows(g)'
    <2>1. CASE g = h
      <3>1. act'[g] = Rest
        BY <2>1 DEF SpaceInv, SpaceTypeOK
      <3> QED BY <3>1 DEF KnowsItsRows, Rest
    <2>2. CASE g # h
      <3>1. act'[g] = act[g]
        BY <2>2 DEF SpaceInv, SpaceTypeOK
      <3> QED BY <1>1, <3>1, KnowledgeCarried
    <2> QED BY <2>1, <2>2
  <1>4. ASSUME NEW w \in Workers PROVE FoundIsThere(w)'
    BY FoundCarried DEF vars
  <1> QED BY <1>1, <1>2, <1>3, <1>4 DEF SpaceInv

(* The reads a request of the space starts with let it know its rows.      *)
LEMMA StartKeeps ==
  ASSUME SpaceInv, NEW h \in Handlers, HandlerStart(h)
  PROVE  SpaceInv'
  <1> USE DEF Begin
  <1>1. PICK u \in Users, c \in Conns :
          \/ BlogRead(h, u, c)
          \/ PatchBlogRead(h, u, c)
          \/ RoomRead(h, u, c)
          \/ MessageRead(h, u, c)
          \/ PostRead(h, u, c)
          \/ \E p \in Posts, deletes \in BOOLEAN :
               EditRead(h, u, c, p, deletes)
    BY DEF HandlerStart
  <1>2. ASSUME NEW a \in Activity, act' = [act EXCEPT ![h] = a]
        PROVE  act'[h] = a
    BY <1>2 DEF SpaceInv, SpaceTypeOK
  <1>3. ASSUME NEW pc \in {"blogCheck", "roomCheck"},
               c \in acceptedConnections(u),
               Begin(h, [Rest EXCEPT !.pc = pc, !.user = u, !.conn = c])
        PROVE  SpaceInv'
    <2> DEFINE a == [Rest EXCEPT !.pc = pc, !.user = u, !.conn = c]
    <2>1. a \in Activity /\ a.pc = pc /\ a.user = u /\ a.conn = c
      BY DEF Activity, Rest
    <2>2. Answered(c)
      BY <1>3 DEF acceptedConnections, Rows, Answered
    <2> HIDE DEF a
    <2>3. act'[h] = a
      BY <1>2, <1>3, <2>1 DEF a
    <2>4. KnowsItsRows(h)'
      BY <1>3, <2>1, <2>2, <2>3 DEF KnowsItsRows, Answered, vars
    <2> QED BY <1>3, <2>1, <2>4, ReadStep DEF a
  <1>4. ASSUME NEW pc \in {"blogWrite", "messageCheck", "postInsert"},
               pc = "messageCheck" => room[c] = "live",
               pc # "messageCheck" => blog[c] = "live" /\ isMember(c, u),
               Begin(h, [Rest EXCEPT !.pc = pc, !.user = u, !.conn = c])
        PROVE  SpaceInv'
    <2> DEFINE a == [Rest EXCEPT !.pc = pc, !.user = u, !.conn = c]
    <2>1. a \in Activity /\ a.pc = pc /\ a.user = u /\ a.conn = c
      BY DEF Activity, Rest
    <2> HIDE DEF a
    <2>2. act'[h] = a
      BY <1>2, <1>4, <2>1 DEF a
    <2>3. KnowsItsRows(h)'
      BY <1>4, <2>1, <2>2
      DEF KnowsItsRows, HasBlog, HasRoom, isMember, isPartOfConnection,
          vars, space
    <2> QED BY <1>4, <2>1, <2>3, ReadStep DEF a
  <1>5. ASSUME NEW p \in Posts, NEW deletes \in BOOLEAN,
               EditRead(h, u, c, p, deletes)
        PROVE  SpaceInv'
    <2> DEFINE a == [pc |-> "postReread", user |-> u, conn |-> c, post |-> p,
                     deletes |-> deletes]
    <2>1. a \in Activity /\ a.pc = "postReread" /\ a.post = p
      BY DEF Activity
    <2>2. act' = [act EXCEPT ![h] = a] /\ UNCHANGED <<vars, space, found>>
      BY <1>5 DEF EditRead
    <2> HIDE DEF a
    <2>3. KnowsItsRows(h)'
      BY <1>2, <2>1, <2>2 DEF KnowsItsRows
    <2> QED BY <2>1, <2>2, <2>3, ReadStep
  <1>6. CASE BlogRead(h, u, c) \/ RoomRead(h, u, c)
    BY <1>3, <1>6 DEF BlogRead, RoomRead
  <1>7. CASE PatchBlogRead(h, u, c) \/ MessageRead(h, u, c) \/ PostRead(h, u, c)
    BY <1>4, <1>7 DEF PatchBlogRead, MessageRead, PostRead
  <1> QED BY <1>1, <1>5, <1>6, <1>7

(* A statement that only reads either ends the request or leaves it with   *)
(* what the statement has just found.                                      *)
LEMMA GoKeeps ==
  ASSUME SpaceInv, NEW h \in Handlers, NEW from, NEW to, Go(h, from, to),
         to \in {"idle", "blogInsert", "roomInsert", "messageInsert",
                "postWrite", "postDelete"},
         to = "blogInsert" => from = "blogCheck",
         to = "roomInsert" => from = "roomCheck",
         to = "messageInsert" =>
           /\ from = "messageCheck"
           /\ isPartOfConnection(act[h].conn, act[h].user),
         to \in {"postWrite", "postDelete"} =>
           /\ from = "postReread"
           /\ posts[act[h].post] # None
  PROVE  SpaceInv'
  <1>1. /\ act[h] \in Activity /\ KnowsItsRows(h) /\ act[h].pc = from
        /\ UNCHANGED <<vars, space, found>>
    BY DEF Go, SpaceInv, SpaceTypeOK
  <1>2. CASE to = "idle"
    <2>1. act' = [act EXCEPT ![h] = Rest]
      BY <1>2 DEF Go
    <2>2. Rest \in Activity /\ act'[h] = Rest
      BY <2>1 DEF Rest, Activity, SpaceInv, SpaceTypeOK
    <2>3. KnowsItsRows(h)'
      BY <2>2 DEF KnowsItsRows, Rest
    <2> QED BY <1>1, <2>1, <2>2, <2>3, ReadStep
  <1>3. CASE to # "idle"
    <2> DEFINE a == [act[h] EXCEPT !.pc = to]
    <2>1. act' = [act EXCEPT ![h] = a]
      BY <1>3 DEF Go
    <2>2. /\ a \in Activity /\ a.pc = to
          /\ a.user = act[h].user /\ a.conn = act[h].conn
          /\ a.post = act[h].post
      BY <1>1 DEF Activity
    <2> HIDE DEF a
    <2>3. act'[h] = a
      BY <2>1 DEF SpaceInv, SpaceTypeOK
    <2>4. UNCHANGED <<conns, blog, room, posts>>
      BY <1>1 DEF vars, space
    <2>5. KnowsItsRows(h)'
      BY <1>1, <1>3, <2>2, <2>3, <2>4
      DEF KnowsItsRows, Answered, HasBlog, HasRoom, isPartOfConnection
    <2> QED BY <1>1, <2>1, <2>2, <2>5, ReadStep
  <1> QED BY <1>2, <1>3

(* The statements of the requests of the space keep the invariant.         *)
LEMMA HandlerKeeps ==
  ASSUME SpaceInv, NEW h \in Handlers, HandlerStep(h)
  PROVE  SpaceInv'
  <1> DEFINE a == act[h]
  <1>1. KnowsItsRows(h) /\ SpaceTypeOK /\ SpaceNeedsConnection
    BY DEF SpaceInv
  <1>2. IInv /\ [Next]_vars => ConnsStay
    BY NextConnsStay
  <1>3. ASSUME UNCHANGED vars PROVE ConnsStay
    BY <1>2, <1>3 DEF SpaceInv
  <1>4. CASE BlogCheck(h) \/ RoomCheck(h)
    <2>1. PICK to \in {"idle", "blogInsert", "roomInsert"} :
            \/ Go(h, "blogCheck", to) /\ to # "roomInsert"
            \/ Go(h, "roomCheck", to) /\ to # "blogInsert"
      BY <1>4 DEF BlogCheck, RoomCheck
    <2> QED BY <2>1, GoKeeps
  <1>5. CASE MessageCheck(h)
    <2>1. CASE Go(h, "messageCheck", "idle")
      BY <2>1, GoKeeps
    <2>2. CASE /\ a.conn \in findOneByUserIdAndStatus(a.user, "ACCEPTED")
               /\ Go(h, "messageCheck", "messageInsert")
      BY <2>2, GoKeeps DEF findOneByUserIdAndStatus
    <2> QED BY <1>5, <2>1, <2>2 DEF MessageCheck
  <1>6. CASE PostReread(h)
    <2>1. CASE Go(h, "postReread", "idle")
      BY <2>1, GoKeeps
    <2>2. ASSUME NEW to \in {"postWrite", "postDelete"},
                 posts[a.post] # None, Go(h, "postReread", to)
          PROVE  SpaceInv'
      BY <2>2, GoKeeps
    <2> QED BY <1>6, <2>1, <2>2 DEF PostReread
  <1>7. CASE BlogInsert(h) \/ PatchBlogWrite(h) \/ RoomInsert(h)
    <2>1. /\ UNCHANGED <<vars, found, posts, messages>>
          /\ act' = [act EXCEPT ![h] = Rest]
          /\ a.pc \in {"blogInsert", "blogWrite", "roomInsert"}
      BY <1>7 DEF BlogInsert, PatchBlogWrite, RoomInsert, Finish
    <2>2. \/ /\ room' = room
             /\ blog' \in {blog, [blog EXCEPT ![a.conn] = "live"]}
             /\ a.pc # "roomInsert"
          \/ /\ blog' = blog
             /\ room' \in {room, [room EXCEPT ![a.conn] = "live"]}
             /\ a.pc = "roomInsert"
      BY <1>1, <1>7 DEF BlogInsert, PatchBlogWrite, RoomInsert, Finish,
         SpaceTypeOK
    <2>3. Answered(a.conn)
      BY <1>1, <2>1 DEF KnowsItsRows, HasBlog, SpaceNeedsConnection, Answered
    <2>4. blog' \in [Conns -> Presence] /\ room' \in [Conns -> Presence]
      BY <1>1, <2>2 DEF SpaceTypeOK, Presence
    <2>5. SpaceStays
      BY <1>1, <2>1, <2>2 DEF SpaceStays, SpaceTypeOK
    <2>6. \A c \in Conns : blog'[c] # "none" \/ room'[c] # "none" =>
            blog[c] # "none" \/ room[c] # "none" \/ Answered(c)
      BY <1>1, <2>2, <2>3 DEF SpaceTypeOK
    <2>7. SpaceNeedsConnection'
      BY <1>3, <2>1, <2>6, NeedsCarried
    <2>8. AuthorsAreParties'
      BY <1>3, <2>1, <2>5, AuthorsCarried
    <2> QED
      BY <1>1, <2>1, <2>4, <2>5, <2>7, <2>8, WriteStep DEF SpaceTypeOK
  <1>8. ASSUME NEW m \in Messages, MessageInsert(h, m)
        PROVE  SpaceInv'
    <2> DEFINE row == [conn |-> a.conn, author |-> a.user, deleted |-> FALSE]
    <2>1. /\ UNCHANGED <<vars, found, blog, room, posts>>
          /\ act' = [act EXCEPT ![h] = Rest]
          /\ a.pc = "messageInsert" /\ messages[m] = None
          /\ messages' = [messages EXCEPT ![m] = row]
      BY <1>8 DEF MessageInsert, Finish
    <2>2. /\ a.user \in Users /\ HasRoom(a.conn)
          /\ isPartOfConnection(a.conn, a.user)
      BY <1>1, <2>1 DEF KnowsItsRows
    <2>3. row \in ItemRow /\ row.conn = a.conn /\ row.author = a.user
      BY <2>2 DEF ItemRow, HasRoom
    <2> HIDE DEF row
    <2>4. messages' \in [Messages -> ItemRow \cup {None}]
      BY <1>1, <2>1, <2>3 DEF SpaceTypeOK
    <2>5. SpaceStays
      BY <1>1, <2>1 DEF SpaceStays, SpaceTypeOK
    <2>6. SpaceNeedsConnection'
      BY <1>3, <2>1, NeedsCarried
    <2>7. \A n \in Messages : n # m => messages'[n] = messages[n]
      BY <1>1, <2>1 DEF SpaceTypeOK
    <2>8. messages'[m] = row
      BY <1>1, <2>1 DEF SpaceTypeOK
    <2>9. AuthorsAreParties'
      BY <1>3, <2>1, <2>2, <2>3, <2>5, <2>7, <2>8, AuthorsCarried
      DEF HasRoom, isPartOfConnection
    <2> QED
      BY <1>1, <2>1, <2>4, <2>5, <2>6, <2>9, WriteStep DEF SpaceTypeOK
  <1>9. ASSUME NEW p \in Posts, PostInsert(h, p)
        PROVE  SpaceInv'
    <2> DEFINE row == [conn |-> a.conn, author |-> a.user, deleted |-> FALSE]
    <2>1. /\ UNCHANGED <<vars, found, blog, room, messages>>
          /\ act' = [act EXCEPT ![h] = Rest]
          /\ a.pc = "postInsert" /\ posts[p] = None
          /\ posts' = [posts EXCEPT ![p] = row]
      BY <1>9 DEF PostInsert, Finish
    <2>2. /\ a.user \in Users /\ HasBlog(a.conn)
          /\ isPartOfConnection(a.conn, a.user)
      BY <1>1, <2>1 DEF KnowsItsRows
    <2>3. row \in ItemRow /\ row.conn = a.conn /\ row.author = a.user
      BY <2>2 DEF ItemRow, HasBlog
    <2> HIDE DEF row
    <2>4. posts' \in [Posts -> ItemRow \cup {None}]
      BY <1>1, <2>1, <2>3 DEF SpaceTypeOK
    <2>5. SpaceStays
      BY <1>1, <2>1 DEF SpaceStays, SpaceTypeOK
    <2>6. SpaceNeedsConnection'
      BY <1>3, <2>1, NeedsCarried
    <2>7. \A q \in Posts : q # p => posts'[q] = posts[q]
      BY <1>1, <2>1 DEF SpaceTypeOK
    <2>8. posts'[p] = row
      BY <1>1, <2>1 DEF SpaceTypeOK
    <2>9. AuthorsAreParties'
      BY <1>3, <2>1, <2>2, <2>3, <2>5, <2>7, <2>8, AuthorsCarried
      DEF HasBlog, isPartOfConnection
    <2> QED
      BY <1>1, <2>1, <2>4, <2>5, <2>6, <2>9, WriteStep DEF SpaceTypeOK
  <1>10. CASE PatchPostWrite(h) \/ DeletePostWrite(h)
    <2> DEFINE p == a.post
    <2>1. PICK d \in BOOLEAN :
            /\ UNCHANGED <<vars, found, blog, room, messages>>
            /\ act' = [act EXCEPT ![h] = Rest]
            /\ a.pc \in {"postWrite", "postDelete"}
            /\ posts' = [posts EXCEPT ![p].deleted = d]
      BY <1>10 DEF PatchPostWrite, DeletePostWrite, Finish
    <2>2. p \in Posts /\ posts[p] # None
      BY <1>1, <2>1 DEF KnowsItsRows
    <2> DEFINE row == [posts[p] EXCEPT !.deleted = d]
    <2>3. /\ row \in ItemRow /\ row.conn = posts[p].conn
          /\ row.author = posts[p].author
      BY <1>1, <2>2 DEF SpaceTypeOK, ItemRow
    <2>4. posts' = [posts EXCEPT ![p] = row]
      BY <2>1
    <2> HIDE DEF row, p
    <2>5. posts' \in [Posts -> ItemRow \cup {None}]
      BY <1>1, <2>2, <2>3, <2>4 DEF SpaceTypeOK
    <2>6. SpaceStays
      BY <1>1, <2>1, <2>2, <2>3, <2>4, NoneIsNoItem DEF SpaceStays, SpaceTypeOK
    <2>7. SpaceNeedsConnection'
      BY <1>3, <2>1, NeedsCarried
    <2>8. \A q \in Posts : posts'[q] # None => posts[q] # None
      BY <1>1, <2>2, <2>4 DEF SpaceTypeOK
    <2>9. AuthorsAreParties'
      BY <1>3, <2>1, <2>6, <2>8, AuthorsCarried
    <2> QED
      BY <1>1, <2>1, <2>5, <2>6, <2>7, <2>9, WriteStep DEF SpaceTypeOK
  <1> QED
    BY <1>4, <1>5, <1>6, <1>7, <1>8, <1>9, <1>10 DEF HandlerStep
-----------------------------------------------------------------------------
(* A step of one worker leaves the requests of the others.                 *)
LEMMA OthersWait ==
  ASSUME TypeOK, NEW w \in Workers, Start(w) \/ Step(w) \/ Abort(w),
         NEW v \in Workers, v # w
  PROVE  req'[v] = req[v]
  <1>1. CASE Start(w)
    BY <1>1 DEF TypeOK, Start, CreateRead, UpdateRead, DisconnectRead, DeleteRead
  <1>2. CASE Step(w) \/ Abort(w)
    BY <1>2 DEF TypeOK, Step, CreateInsert, UpdateReread, UpdateWrite,
                DisconnectFind, TxLock, TxCommit, Abort
  <1> QED BY <1>1, <1>2

(* A step of a worker keeps the invariant if it leaves the requests of the *)
(* space, takes no row back, adds none, and leaves in found[w] what is     *)
(* there.                                                                  *)
LEMMA WorkerKeeps ==
  ASSUME SpaceInv, NEW w \in Workers, [Next]_vars, UNCHANGED act,
         NEW f \in Found, found' = [found EXCEPT ![w] = f],
         \A v \in Workers : v # w => req'[v] = req[v],
         blog' \in [Conns -> Presence], room' \in [Conns -> Presence],
         posts' \in [Posts -> ItemRow \cup {None}],
         messages' \in [Messages -> ItemRow \cup {None}],
         SpaceStays,
         \A c \in Conns : blog'[c] # "none" => blog[c] # "none",
         \A c \in Conns : room'[c] # "none" => room[c] # "none",
         \A p \in Posts : posts'[p] # None => posts[p] # None,
         \A m \in Messages : messages'[m] # None => messages[m] # None,
         FoundIsThere(w)'
  PROVE  SpaceInv'
  <1>1. IInv' /\ ConnsStay
    BY NextIInv, NextConnsStay DEF SpaceInv
  <1>2. SpaceTypeOK'
    BY DEF SpaceInv, SpaceTypeOK
  <1>3. SpaceNeedsConnection'
    BY <1>1, NeedsCarried
  <1>4. AuthorsAreParties'
    BY <1>1, AuthorsCarried
  <1>5. ASSUME NEW h \in Handlers PROVE KnowsItsRows(h)'
    BY <1>1, KnowledgeCarried
  <1>6. ASSUME NEW v \in Workers PROVE FoundIsThere(v)'
    <2>1. CASE v = w
      BY <2>1
    <2>2. CASE v # w
      <3>1. found'[v] = found[v]
        BY <2>2 DEF SpaceInv, SpaceTypeOK
      <3> QED BY <2>2, <3>1, FoundCarried
    <2> QED BY <2>1, <2>2
  <1> QED BY <1>1, <1>2, <1>3, <1>4, <1>5, <1>6 DEF SpaceInv

(* What removing rows does to a table of them.                             *)
LEMMA RemovedRows ==
  ASSUME NEW I, NEW rows \in [I -> ItemRow \cup {None}], NEW S,
         \A i \in S : rows[i] # None
  PROVE  /\ Removed(rows, S) \in [I -> ItemRow \cup {None}]
         /\ \A i \in I : i \in S => Removed(rows, S)[i].deleted
         /\ \A i \in I : i \notin S => Removed(rows, S)[i] = rows[i]
         /\ \A i \in I : rows[i] = None => Removed(rows, S)[i] = None
         /\ \A i \in I : rows[i] # None =>
              /\ Removed(rows, S)[i] # None
              /\ Removed(rows, S)[i].conn = rows[i].conn
              /\ Removed(rows, S)[i].author = rows[i].author
  <1>1. ASSUME NEW r \in ItemRow
        PROVE  /\ [r EXCEPT !.deleted = TRUE] \in ItemRow
               /\ [r EXCEPT !.deleted = TRUE].conn = r.conn
               /\ [r EXCEPT !.deleted = TRUE].author = r.author
               /\ [r EXCEPT !.deleted = TRUE].deleted
    BY DEF ItemRow
  <1>2. ASSUME NEW i \in I
        PROVE  Removed(rows, S)[i] = IF i \in S
                                     THEN [rows[i] EXCEPT !.deleted = TRUE]
                                     ELSE rows[i]
    BY DEF Removed
  <1>3. ASSUME NEW i \in I, rows[i] # None
        PROVE  rows[i] \in ItemRow
    BY <1>3
  <1>4. ASSUME NEW i \in I
        PROVE  Removed(rows, S)[i] \in ItemRow \cup {None}
    BY <1>1, <1>2, <1>3
  <1>5. Removed(rows, S) \in [I -> ItemRow \cup {None}]
    BY <1>4 DEF Removed
  <1>6. ASSUME NEW i \in I, rows[i] # None
        PROVE  /\ Removed(rows, S)[i] # None
               /\ Removed(rows, S)[i].conn = rows[i].conn
               /\ Removed(rows, S)[i].author = rows[i].author
    BY <1>1, <1>2, <1>3, <1>6, NoneIsNoItem
  <1>7. ASSUME NEW i \in I, i \in S
        PROVE  Removed(rows, S)[i].deleted
    BY <1>1, <1>2, <1>3, <1>7
  <1>8. ASSUME NEW i \in I, i \notin S
        PROVE  Removed(rows, S)[i] = rows[i]
    BY <1>2, <1>8
  <1>9. ASSUME NEW i \in I, rows[i] = None
        PROVE  Removed(rows, S)[i] = None
    BY <1>8, <1>9
  <1> QED BY <1>5, <1>6, <1>7, <1>8, <1>9

(* The same for a step that leaves the space alone.                        *)
LEMMA WorkerReads ==
  ASSUME SpaceInv, NEW w \in Workers, [Next]_vars, UNCHANGED <<space, act>>,
         NEW f \in Found, found' = [found EXCEPT ![w] = f],
         \A v \in Workers : v # w => req'[v] = req[v],
         FoundIsThere(w)'
  PROVE  SpaceInv'
  <1>1. UNCHANGED <<blog, room, posts, messages, act>>
    BY DEF space
  <1>2. /\ blog \in [Conns -> Presence] /\ room \in [Conns -> Presence]
        /\ posts \in [Posts -> ItemRow \cup {None}]
        /\ messages \in [Messages -> ItemRow \cup {None}]
    BY DEF SpaceInv, SpaceTypeOK
  <1>3. SpaceStays
    BY <1>1 DEF SpaceStays
  <1> QED BY <1>1, <1>2, <1>3, WorkerKeeps

(* A request of UserConnection, its start, its statements and its end.     *)
LEMMA ConnectionsKeep ==
  ASSUME SpaceInv, NEW w \in Workers,
         ConnStart(w) \/ ConnStep(w) \/ SpaceAbort(w)
  PROVE  SpaceInv'
  <1>1. /\ TypeOK /\ found[w] \in Found
        /\ found = [found EXCEPT ![w] = found[w]]
    BY DEF SpaceInv, IInv, SpaceTypeOK
  <1>2. CASE ConnStart(w) \/ ConnStep(w)
    <2>1. /\ UNCHANGED <<space, found, act>>
          /\ Start(w) \/ Step(w)
      BY <1>2 DEF ConnStart, ConnStep
    <2>2. ~Disconnecting(w)
      <3>1. Start(w) => req[w] = Idle
        BY DEF Start, CreateRead, UpdateRead, DisconnectRead, DeleteRead
      <3>2. Idle.pc # "commit"
        BY DEF Idle
      <3> QED BY <1>2, <3>1, <3>2 DEF ConnStart, ConnStep, Disconnecting
    <2>3. [Next]_vars
      BY <2>1 DEF Next
    <2>4. SpaceStays
      BY <2>1 DEF SpaceStays, space
    <2>5. FoundIsThere(w)'
      BY <2>1, <2>2, <2>4, FoundCarried
    <2>6. \A v \in Workers : v # w => req'[v] = req[v]
      BY <1>1, <2>1, OthersWait
    <2>7. found' = [found EXCEPT ![w] = found[w]]
      BY <1>1, <2>1
    <2> QED BY <1>1, <2>1, <2>3, <2>5, <2>6, <2>7, WorkerReads
  <1>3. CASE SpaceAbort(w)
    <2>1. /\ UNCHANGED <<space, act>> /\ Abort(w)
          /\ found' = [found EXCEPT ![w] = NotRun]
      BY <1>3 DEF SpaceAbort
    <2>2. NotRun \in Found
      BY DEF NotRun, Found
    <2>3. found'[w] = NotRun
      BY <2>1 DEF SpaceInv, SpaceTypeOK
    <2>4. FoundIsThere(w)'
      BY <2>3 DEF FoundIsThere, NotRun
    <2>5. \A v \in Workers : v # w => req'[v] = req[v]
      BY <1>1, <2>1, OthersWait
    <2>6. [Next]_vars
      BY <2>1 DEF Next
    <2> QED BY <2>1, <2>2, <2>4, <2>5, <2>6, WorkerReads
  <1> QED BY <1>2, <1>3

(* The event handlers of a disconnect.                                     *)
LEMMA CascadeKeeps ==
  ASSUME SpaceInv, NEW w \in Workers, CascadeBlog(w) \/ CascadeRoom(w)
  PROVE  SpaceInv'
  <1> DEFINE c == req[w].conn
  <1>1. /\ Disconnecting(w) /\ UNCHANGED <<vars, space, act>>
        /\ UNCHANGED <<live, conns, req, blog, room, posts, messages>>
    BY DEF CascadeBlog, CascadeRoom, vars, space
  <1>2. c \in Conns
    BY <1>1 DEF Disconnecting, SpaceInv, IInv, TypeOK, Request
  <1>3. found[w] \in Found /\ FoundIsThere(w)
    BY DEF SpaceInv, SpaceTypeOK
  <1>4. CASE CascadeBlog(w)
    <2> DEFINE f == [found[w] EXCEPT
                       !.blogDone = TRUE,
                       !.blog = blog[c] = "live",
                       !.posts = IF blog[c] = "live" THEN LivePostsOf(c)
                                 ELSE {}]
    <2>1. found' = [found EXCEPT ![w] = f]
      BY <1>4 DEF CascadeBlog
    <2>2. /\ f \in Found
          /\ f.blog = (blog[c] = "live")
          /\ f.posts = IF blog[c] = "live" THEN LivePostsOf(c) ELSE {}
          /\ f.room = found[w].room /\ f.messages = found[w].messages
      BY <1>3 DEF Found, LivePostsOf
    <2> HIDE DEF f
    <2>3. found'[w] = f
      BY <2>1 DEF SpaceInv, SpaceTypeOK
    <2>4. FoundIsThere(w)'
      BY <1>1, <1>2, <1>3, <2>2, <2>3
      DEF FoundIsThere, Disconnecting, HasBlog, HasRoom, LivePostsOf
    <2> QED BY <1>1, <2>1, <2>2, <2>4, WorkerReads
  <1>5. CASE CascadeRoom(w)
    <2> DEFINE f == [found[w] EXCEPT
                       !.roomDone = TRUE,
                       !.room = room[c] = "live",
                       !.messages = IF room[c] = "live" THEN LiveMessagesOf(c)
                                    ELSE {}]
    <2>1. found' = [found EXCEPT ![w] = f]
      BY <1>5 DEF CascadeRoom
    <2>2. /\ f \in Found
          /\ f.room = (room[c] = "live")
          /\ f.messages = IF room[c] = "live" THEN LiveMessagesOf(c) ELSE {}
          /\ f.blog = found[w].blog /\ f.posts = found[w].posts
      BY <1>3 DEF Found, LiveMessagesOf
    <2> HIDE DEF f
    <2>3. found'[w] = f
      BY <2>1 DEF SpaceInv, SpaceTypeOK
    <2>4. FoundIsThere(w)'
      BY <1>1, <1>2, <1>3, <2>2, <2>3
      DEF FoundIsThere, Disconnecting, HasBlog, HasRoom, LiveMessagesOf
    <2> QED BY <1>1, <2>1, <2>2, <2>4, WorkerReads
  <1> QED BY <1>4, <1>5

(* The commit removes what the handlers found.                             *)
LEMMA CommitRemoves ==
  ASSUME SpaceInv, NEW w \in Workers, SpaceCommit(w)
  PROVE  /\ SpaceInv'
         /\ \A d \in Conns :
              (blog[d] # "deleted" /\ blog'[d] = "deleted")
                \/ (room[d] # "deleted" /\ room'[d] = "deleted") =>
              Disconnecting(w) /\ d = req[w].conn
         /\ \A m \in Messages : messages[m] # None /\ ~messages[m].deleted
                                 /\ messages'[m].deleted =>
              room'[messages[m].conn] = "deleted"
         /\ \A p \in found[w].posts : posts'[p].deleted
         /\ \A v \in Workers : v # w => found'[v] = found[v]
  <1> DEFINE c == req[w].conn
             f == found[w]
  <1>1. f \in Found /\ FoundIsThere(w)
    BY DEF SpaceInv, SpaceTypeOK
  <1>2. SpaceTypeOK /\ TypeOK
    BY DEF SpaceInv, IInv
  <1>3. /\ TxCommit(w) /\ UNCHANGED act
        /\ blog' = IF f.blog THEN [blog EXCEPT ![c] = "deleted"] ELSE blog
        /\ room' = IF f.room THEN [room EXCEPT ![c] = "deleted"] ELSE room
        /\ posts' = Removed(posts, f.posts)
        /\ messages' = Removed(messages, f.messages)
        /\ found' = [found EXCEPT ![w] = NotRun]
    BY DEF SpaceCommit
  <1>4. /\ f.blog => Disconnecting(w) /\ HasBlog(c)
        /\ f.room => Disconnecting(w) /\ HasRoom(c)
        /\ f.posts \subseteq Posts /\ f.messages \subseteq Messages
        /\ \A p \in f.posts : posts[p] # None
        /\ \A m \in f.messages : f.room /\ messages[m] # None
                                  /\ messages[m].conn = c
    BY <1>1 DEF FoundIsThere, Found
  <1> HIDE DEF c, f
  <1>5. /\ blog' \in [Conns -> Presence]
        /\ room' \in [Conns -> Presence]
        /\ \A d \in Conns : (blog'[d] # "none") = (blog[d] # "none")
        /\ \A d \in Conns : (room'[d] # "none") = (room[d] # "none")
    BY <1>2, <1>3, <1>4 DEF SpaceTypeOK, Presence, HasBlog, HasRoom
  <1>6. /\ posts' \in [Posts -> ItemRow \cup {None}]
        /\ \A p \in f.posts : posts'[p].deleted
        /\ \A p \in Posts : posts'[p] # None => posts[p] # None
        /\ \A p \in Posts : posts[p] # None =>
             /\ posts'[p] # None
             /\ posts'[p].conn = posts[p].conn
             /\ posts'[p].author = posts[p].author
    BY <1>2, <1>3, <1>4, RemovedRows DEF SpaceTypeOK
  <1>7. /\ messages' \in [Messages -> ItemRow \cup {None}]
        /\ \A m \in Messages : messages'[m] # None => messages[m] # None
        /\ \A m \in Messages : m \notin f.messages => messages'[m] = messages[m]
        /\ \A m \in Messages : messages[m] # None =>
             /\ messages'[m] # None
             /\ messages'[m].conn = messages[m].conn
             /\ messages'[m].author = messages[m].author
    BY <1>2, <1>3, <1>4, RemovedRows DEF SpaceTypeOK
  <1>8. SpaceStays
    BY <1>5, <1>6, <1>7 DEF SpaceStays
  <1>9. SpaceInv'
    <2>1. NotRun \in Found
      BY DEF NotRun, Found
    <2>2. found'[w] = NotRun
      BY <1>2, <1>3 DEF SpaceTypeOK
    <2>3. FoundIsThere(w)'
      BY <2>2 DEF FoundIsThere, NotRun
    <2>4. [Next]_vars
      BY <1>3 DEF Next, Step
    <2>5. \A v \in Workers : v # w => req'[v] = req[v]
      BY <1>2, <1>3, OthersWait DEF Step
    <2> QED
      BY <1>3, <1>5, <1>6, <1>7, <1>8, <2>1, <2>3, <2>4, <2>5, WorkerKeeps
  <1>10. \A d \in Conns :
           (blog[d] # "deleted" /\ blog'[d] = "deleted")
             \/ (room[d] # "deleted" /\ room'[d] = "deleted") =>
           Disconnecting(w) /\ d = c
    BY <1>2, <1>3, <1>4 DEF SpaceTypeOK
  <1>11. ASSUME NEW m \in Messages, messages[m] # None, ~messages[m].deleted,
                messages'[m].deleted
         PROVE  room'[messages[m].conn] = "deleted"
    <2>1. m \in f.messages
      BY <1>7, <1>11
    <2> QED BY <1>2, <1>3, <1>4, <2>1 DEF SpaceTypeOK, HasRoom
  <1>12. \A v \in Workers : v # w => found'[v] = found[v]
    BY <1>2, <1>3 DEF SpaceTypeOK
  <1> QED BY <1>6, <1>9, <1>10, <1>11, <1>12 DEF c, f
-----------------------------------------------------------------------------
LEMMA InitSpaceInv == SpaceInit => SpaceInv
  <1> SUFFICES ASSUME SpaceInit PROVE SpaceInv
    OBVIOUS
  <1>1. IInv
    BY InitIInv DEF SpaceInit
  <1>2. Rest \in Activity /\ NotRun \in Found
    BY DEF Rest, Activity, NotRun, Found
  <1>3. SpaceTypeOK
    BY <1>2 DEF SpaceInit, SpaceTypeOK, Presence
  <1>4. SpaceNeedsConnection /\ AuthorsAreParties
    BY DEF SpaceInit, SpaceNeedsConnection, AuthorsAreParties
  <1>5. \A h \in Handlers : KnowsItsRows(h)
    BY DEF SpaceInit, KnowsItsRows, Rest
  <1>6. \A w \in Workers : FoundIsThere(w)
    BY DEF SpaceInit, FoundIsThere, NotRun
  <1> QED BY <1>1, <1>3, <1>4, <1>5, <1>6 DEF SpaceInv

LEMMA NextSpaceInv == SpaceInv /\ [SpaceNext]_spaceVars => SpaceInv'
  <1> SUFFICES ASSUME SpaceInv, [SpaceNext]_spaceVars PROVE SpaceInv'
    OBVIOUS
  <1>1. ASSUME NEW w \in Workers, ConnStart(w) \/ WorkerStep(w) \/ SpaceAbort(w)
        PROVE  SpaceInv'
    BY <1>1, ConnectionsKeep, CascadeKeeps, CommitRemoves DEF WorkerStep
  <1>2. ASSUME NEW h \in Handlers, HandlerStart(h) \/ HandlerStep(h)
        PROVE  SpaceInv'
    BY <1>2, StartKeeps, HandlerKeeps
  <1>3. ASSUME NEW h \in Handlers, HandlerAbort(h)
        PROVE  SpaceInv'
    <2>1. /\ act' = [act EXCEPT ![h] = Rest]
          /\ UNCHANGED <<vars, space, found>>
      BY <1>3 DEF HandlerAbort
    <2>2. Rest \in Activity /\ act'[h] = Rest
      BY <2>1 DEF Rest, Activity, SpaceInv, SpaceTypeOK
    <2>3. KnowsItsRows(h)'
      BY <2>2 DEF KnowsItsRows, Rest
    <2> QED BY <2>1, <2>2, <2>3, ReadStep
  <1>4. CASE UNCHANGED spaceVars
    <2>1. IInv'
      BY <1>4, NextIInv DEF SpaceInv, spaceVars
    <2>2. UNCHANGED <<blog, room, posts, messages, found, act, conns, req>>
      BY <1>4 DEF spaceVars, vars
    <2>3. (SpaceTypeOK /\ SpaceNeedsConnection /\ AuthorsAreParties)'
      BY <2>2 DEF SpaceInv, SpaceTypeOK, SpaceNeedsConnection,
                  AuthorsAreParties, isPartOfConnection
    <2>4. ASSUME NEW h \in Handlers PROVE KnowsItsRows(h)'
      BY <2>2 DEF SpaceInv, KnowsItsRows, Answered, HasBlog, HasRoom,
                  isPartOfConnection
    <2>5. ASSUME NEW w \in Workers PROVE FoundIsThere(w)'
      BY <2>2 DEF SpaceInv, FoundIsThere, Disconnecting, HasBlog, HasRoom
    <2> QED BY <2>1, <2>3, <2>4, <2>5 DEF SpaceInv
  <1> QED BY <1>1, <1>2, <1>3, <1>4 DEF SpaceNext

(* For any users, rows and requests in flight, every reachable state of    *)
(* the composed system satisfies the inductive invariant.                  *)
THEOREM SpaceInvariantHolds == SpaceSpec => []SpaceInv
  BY InitSpaceInv, NextSpaceInv, PTL DEF SpaceSpec

(* For any number of requests in flight the rows, the requests and what    *)
(* the event handlers found keep their types: no request writes a row that *)
(* is not there.                                                           *)
THEOREM SpaceTypeCorrect == SpaceSpec => []SpaceTypeOK
  <1>1. SpaceInv => SpaceTypeOK
    BY DEF SpaceInv
  <1> QED BY <1>1, SpaceInvariantHolds, PTL

(* For any number of requests in flight, no blog or chat room exists for a *)
(* request to connect that was never accepted or refused.                  *)
THEOREM SpaceOnlyAfterAnswer == SpaceSpec => []SpaceNeedsConnection
  <1>1. SpaceInv => SpaceNeedsConnection
    BY DEF SpaceInv
  <1> QED BY <1>1, SpaceInvariantHolds, PTL

(* For any number of requests in flight, posts and messages are by the two *)
(* users of the connection, although the row of the connection is written  *)
(* by others between the check and the INSERT.                             *)
THEOREM AuthorsBelong == SpaceSpec => []AuthorsAreParties
  <1>1. SpaceInv => AuthorsAreParties
    BY DEF SpaceInv
  <1> QED BY <1>1, SpaceInvariantHolds, PTL

(* What a step removes, it removes with its connection.                    *)
LEMMA NextCascadeStep == SpaceInv /\ [SpaceNext]_spaceVars => [CascadeStep]_spaceVars
  <1> SUFFICES ASSUME SpaceInv, SpaceNext PROVE CascadeStep
    OBVIOUS
  <1>1. ASSUME NEW w \in Workers, SpaceCommit(w)
        PROVE  CascadeStep
    <2>1. ASSUME NEW d \in Conns, Disconnecting(w), d = req[w].conn
          PROVE  conns'[d].status = "DISCONNECTED" /\ conns'[d].deleted
      <3> DEFINE row == WithStatus(conns[d], "DISCONNECTED")
      <3>1. /\ conns[d] \in ConnRow
            /\ conns' = [conns EXCEPT ![d] = row]
        BY <1>1, <2>1, TxCommitMoves DEF SpaceCommit, Disconnecting, SpaceInv
      <3>2. "DISCONNECTED" \in Status /\ "DISCONNECTED" \in Terminal
        BY DEF Status, Terminal
      <3>3. row.status = "DISCONNECTED" /\ row.deleted
        BY <3>1, <3>2, WithStatusRow
      <3> HIDE DEF row
      <3>4. conns'[d] = row
        BY <3>1 DEF SpaceInv, IInv, TypeOK
      <3> QED BY <3>3, <3>4
    <2>2. ASSUME NEW v \in Workers, found[v].blog, found'[v] = NotRun
          PROVE  v = w
      BY <1>1, <2>2, CommitRemoves DEF NotRun
    <2> QED BY <1>1, <2>1, <2>2, CommitRemoves DEF CascadeStep
  <1>2. ASSUME NEW w \in Workers,
               ConnStart(w) \/ ConnStep(w) \/ CascadeBlog(w)
                 \/ CascadeRoom(w) \/ SpaceAbort(w)
        PROVE  CascadeStep
    <2>1. UNCHANGED <<blog, room, posts, messages>>
      BY <1>2 DEF ConnStart, ConnStep, CascadeBlog, CascadeRoom, SpaceAbort,
                  space
    <2>2. UNCHANGED found \/ UNCHANGED conns
      BY <1>2 DEF ConnStart, ConnStep, CascadeBlog, CascadeRoom, SpaceAbort,
                  Abort, vars
    <2>3. ~NotRun.blog
      BY DEF NotRun
    <2> QED BY <2>1, <2>2, <2>3 DEF CascadeStep
  <1>3. ASSUME NEW h \in Handlers,
               HandlerStart(h) \/ HandlerStep(h) \/ HandlerAbort(h)
        PROVE  CascadeStep
    <2>1. UNCHANGED conns
      BY <1>3, HandlersLeaveConnections DEF vars
    <2>2. ASSUME NEW c \in Conns
          PROVE  /\ blog'[c] \in {blog[c], "live"}
                 /\ room'[c] \in {room[c], "live"}
      <3>1. CASE HandlerStart(h) \/ HandlerAbort(h)
        BY <3>1 DEF HandlerStart, BlogRead, PatchBlogRead, RoomRead,
                    MessageRead, PostRead, EditRead, Begin, HandlerAbort, space
      <3>2. CASE BlogCheck(h) \/ RoomCheck(h) \/ MessageCheck(h) \/ PostReread(h)
        BY <3>2 DEF BlogCheck, RoomCheck, MessageCheck, PostReread, Go, space
      <3>3. CASE BlogInsert(h) \/ PatchBlogWrite(h) \/ RoomInsert(h)
        BY <3>3 DEF BlogInsert, PatchBlogWrite, RoomInsert, SpaceInv, SpaceTypeOK
      <3>4. CASE \/ \E p \in Posts : PostInsert(h, p)
                 \/ \E n \in Messages : MessageInsert(h, n)
        BY <3>4 DEF PostInsert, MessageInsert, SpaceInv, SpaceTypeOK
      <3>5. CASE PatchPostWrite(h) \/ DeletePostWrite(h)
        BY <3>5 DEF PatchPostWrite, DeletePostWrite
      <3> QED BY <1>3, <3>1, <3>2, <3>3, <3>4, <3>5 DEF HandlerStep
    <2>3. ASSUME NEW m \in Messages, messages[m] # None
          PROVE  messages'[m] = messages[m]
      <3>1. CASE HandlerStart(h) \/ HandlerAbort(h)
        BY <3>1 DEF HandlerStart, BlogRead, PatchBlogRead, RoomRead,
                    MessageRead, PostRead, EditRead, Begin, HandlerAbort, space
      <3>2. CASE BlogCheck(h) \/ RoomCheck(h) \/ MessageCheck(h) \/ PostReread(h)
        BY <3>2 DEF BlogCheck, RoomCheck, MessageCheck, PostReread, Go, space
      <3>3. CASE BlogInsert(h) \/ PatchBlogWrite(h) \/ RoomInsert(h)
        BY <3>3 DEF BlogInsert, PatchBlogWrite, RoomInsert, SpaceInv, SpaceTypeOK
      <3>4. CASE \/ \E p \in Posts : PostInsert(h, p)
                 \/ \E n \in Messages : MessageInsert(h, n)
        BY <2>3, <3>4 DEF PostInsert, MessageInsert, SpaceInv, SpaceTypeOK
      <3>5. CASE PatchPostWrite(h) \/ DeletePostWrite(h)
        BY <3>5 DEF PatchPostWrite, DeletePostWrite
      <3> QED BY <1>3, <3>1, <3>2, <3>3, <3>4, <3>5 DEF HandlerStep
    <2> QED BY <2>1, <2>2, <2>3 DEF CascadeStep
  <1> QED BY <1>1, <1>2, <1>3 DEF SpaceNext, WorkerStep

(* For any number of requests in flight the cascade is all or nothing: no  *)
(* blog, room or message disappears without its connection, whichever      *)
(* requests run between the event handlers and the COMMIT.                 *)
THEOREM CascadeAllOrNothing == SpaceSpec => CascadeIsAtomic
  BY SpaceInvariantHolds, NextCascadeStep, PTL DEF SpaceSpec, CascadeIsAtomic
-----------------------------------------------------------------------------
(* When one request is in flight at a time, what it has read is true until *)
(* it ends, and the rows the event handlers of a disconnect have found are *)
(* the live ones when it commits.                                          *)
Alone ==
  /\ \A v, w \in Workers : req[v] # Idle /\ req[w] # Idle => v = w
  /\ \A g, h \in Handlers : act[g] # Rest /\ act[h] # Rest => g = h
  /\ \A w \in Workers, h \in Handlers : req[w] = Idle \/ act[h] = Rest

WorkerKnows(w) ==
  LET r == req[w]
      c == r.conn
      f == found[w]
  IN  /\ r.pc \in {"reread", "write"} => conns[c].status = "PENDING"
      /\ r.pc = "lock" \/ Disconnecting(w) => conns[c].status = "ACCEPTED"
      /\ ~Disconnecting(w) => f = NotRun
      /\ f.blogDone /\ blog[c] = "live" =>
           f.blog /\ LivePostsOf(c) \subseteq f.posts
      /\ f.roomDone /\ room[c] = "live" =>
           f.room /\ LiveMessagesOf(c) \subseteq f.messages

HandlerKnows(h) ==
  LET a == act[h]
  IN  /\ a.pc \in {"blogCheck", "blogInsert", "roomCheck", "roomInsert"} =>
           conns[a.conn].status = "ACCEPTED"
      /\ a.pc \in {"blogWrite", "postInsert"} => blog[a.conn] = "live"
      /\ a.pc \in {"messageCheck", "messageInsert"} => room[a.conn] = "live"
      /\ a.pc = "postWrite" => ~posts[a.post].deleted

AllLive == LiveSpaceHasConnection /\ LivePostHasBlog /\ LiveMessageHasRoom

SerialSpace ==
  /\ Alone
  /\ \A w \in Workers : WorkerKnows(w)
  /\ \A h \in Handlers : HandlerKnows(h)
  /\ AllLive

NoneRevives ==
  /\ \A c \in Conns : blog[c] = "deleted" => blog'[c] = "deleted"
  /\ \A c \in Conns : room[c] = "deleted" => room'[c] = "deleted"
  /\ \A p \in Posts :
       posts[p] # None /\ posts[p].deleted => posts'[p].deleted

(* A slot is free only when nothing is in flight.                          *)
LEMMA SlotIsFree ==
  ASSUME MaxInFlight = 1, IsFiniteSet(Workers), IsFiniteSet(Handlers), Slot
  PROVE  (\A w \in Workers : req[w] = Idle) /\ (\A h \in Handlers : act[h] = Rest)
  <1> DEFINE W == {w \in Workers : req[w] # Idle}
             H == {h \in Handlers : act[h] # Rest}
  <1>1. IsFiniteSet(W) /\ IsFiniteSet(H)
    BY FS_Subset
  <1>2. Cardinality(W) \in Nat /\ Cardinality(H) \in Nat
    BY <1>1, FS_CardinalityType
  <1>3. Cardinality(W) + Cardinality(H) < 1
    BY DEF Slot, InFlight
  <1>4. Cardinality(W) = 0 /\ Cardinality(H) = 0
    BY <1>2, <1>3
  <1>5. W = {} /\ H = {}
    BY <1>1, <1>4, FS_EmptySet
  <1> QED BY <1>5

(* A step of the one worker in flight.                                     *)
LEMMA WorkerAlone ==
  ASSUME SerialSpace, NEW w \in Workers, UNCHANGED act,
         \A v \in Workers : v # w =>
           req[v] = Idle /\ req'[v] = Idle /\ found'[v] = found[v],
         \A h \in Handlers : act[h] = Rest,
         WorkerKnows(w)', AllLive'
  PROVE  SerialSpace'
  <1>1. Alone'
    BY DEF Alone
  <1>2. ASSUME NEW v \in Workers, v # w PROVE WorkerKnows(v)'
    <2>1. req[v].pc = "idle" /\ req'[v].pc = "idle"
      BY <1>2 DEF Idle
    <2>2. found'[v] = NotRun
      BY <1>2, <2>1 DEF SerialSpace, WorkerKnows, Disconnecting
    <2> QED BY <2>1, <2>2 DEF WorkerKnows, Disconnecting, NotRun
  <1>3. ASSUME NEW h \in Handlers PROVE HandlerKnows(h)'
    BY DEF HandlerKnows, Rest
  <1> QED BY <1>1, <1>2, <1>3 DEF SerialSpace

(* A step of the one request to the space in flight.                       *)
LEMMA HandlerAlone ==
  ASSUME SerialSpace, NEW h \in Handlers, UNCHANGED <<vars, found>>,
         \A w \in Workers : req[w] = Idle,
         \A g \in Handlers : g # h => act[g] = Rest /\ act'[g] = Rest,
         HandlerKnows(h)', AllLive'
  PROVE  SerialSpace'
  <1>1. Alone'
    BY DEF Alone, vars
  <1>2. ASSUME NEW w \in Workers PROVE WorkerKnows(w)'
    <2>1. req[w].pc = "idle" /\ req'[w].pc = "idle"
      BY DEF Idle, vars
    <2>2. found'[w] = NotRun
      BY <2>1 DEF SerialSpace, WorkerKnows, Disconnecting
    <2> QED BY <2>1, <2>2 DEF WorkerKnows, Disconnecting, NotRun
  <1>3. ASSUME NEW g \in Handlers, g # h PROVE HandlerKnows(g)'
    BY <1>3 DEF HandlerKnows, Rest
  <1> QED BY <1>1, <1>2, <1>3 DEF SerialSpace

(* What is live stays with its connection while the space is not written.  *)
LEMMA LiveKept ==
  ASSUME SpaceInv, SerialSpace, UNCHANGED space,
         \A c \in Conns : conns[c] # None /\ conns[c].status = "ACCEPTED" =>
           conns'[c].status = "ACCEPTED"
  PROVE  AllLive' /\ NoneRevives
  <1>1. UNCHANGED <<blog, room, posts, messages>>
    BY DEF space
  <1>2. LiveSpaceHasConnection'
    BY <1>1 DEF SpaceInv, SpaceNeedsConnection, SerialSpace, AllLive,
                LiveSpaceHasConnection
  <1>3. LivePostHasBlog' /\ LiveMessageHasRoom'
    BY <1>1 DEF SerialSpace, AllLive, LivePostHasBlog, LiveMessageHasRoom
  <1>4. NoneRevives
    BY <1>1 DEF NoneRevives
  <1> QED BY <1>2, <1>3, <1>4 DEF AllLive

LEMMA EndKnows ==
  ASSUME SpaceInv, NEW w \in Workers, req' = [req EXCEPT ![w] = Idle],
         found'[w] = NotRun
  PROVE  WorkerKnows(w)'
  <1>1. req'[w] = Idle
    BY DEF SpaceInv, IInv, TypeOK
  <1> QED BY <1>1 DEF WorkerKnows, Disconnecting, Idle, NotRun

LEMMA StartAlone ==
  ASSUME MaxInFlight = 1, IsFiniteSet(Workers), IsFiniteSet(Handlers),
         SpaceInv, SerialSpace, NEW w \in Workers, ConnStart(w)
  PROVE  SerialSpace' /\ NoneRevives
  <1>1. /\ Start(w) /\ UNCHANGED <<space, found, act>>
        /\ \A v \in Workers : req[v] = Idle
        /\ \A h \in Handlers : act[h] = Rest
    BY SlotIsFree DEF ConnStart
  <1>2. conns' = conns
    BY <1>1 DEF Start, CreateRead, UpdateRead, DisconnectRead, DeleteRead
  <1>3. \A v \in Workers : v # w => req'[v] = Idle
    BY <1>1, OthersWait DEF SpaceInv, IInv
  <1>4. found[w] = NotRun
    BY <1>1 DEF SerialSpace, WorkerKnows, Disconnecting, Idle
  <1>5. /\ req'[w].pc # "write"
        /\ req'[w].pc = "reread" => conns[req'[w].conn].status = "PENDING"
        /\ req'[w].pc = "lock" => conns[req'[w].conn].status = "ACCEPTED"
        /\ req'[w].pc = "commit" => req'[w].conn = None
    <2>1. ASSUME NEW r, req' = [req EXCEPT ![w] = r] PROVE req'[w] = r
      BY <2>1 DEF SpaceInv, IInv, TypeOK
    <2>2. PICK u \in Users :
            \/ \E p \in Users : CreateRead(w, u, p)
            \/ \E c \in Conns, s \in Answers : UpdateRead(w, u, c, s)
            \/ \E c \in Conns : DisconnectRead(w, u, c)
            \/ DeleteRead(w, u)
      BY <1>1 DEF Start
    <2>3. CASE \E p \in Users : CreateRead(w, u, p)
      <3>1. req'[w].pc = "insert"
        BY <2>1, <2>3 DEF CreateRead, Idle
      <3> QED BY <3>1
    <2>4. CASE \E c \in Conns : DisconnectRead(w, u, c)
      <3>1. req'[w].pc = "find"
        BY <2>1, <2>4 DEF DisconnectRead, Idle
      <3> QED BY <3>1
    <2>5. ASSUME NEW c \in Conns, NEW s \in Answers, UpdateRead(w, u, c, s)
          PROVE  /\ req'[w].pc = "reread" /\ req'[w].conn = c
                 /\ conns[c].status = "PENDING"
      BY <2>1, <2>5 DEF UpdateRead, Idle, requestedPendingConnections,
                        sentPendingConnections, Rows
    <2>6. CASE DeleteRead(w, u)
      <3>1. \/ req'[w].pc = "commit" /\ req'[w].conn = None
            \/ \E c \in acceptedConnections(u) :
                 req'[w].pc = "lock" /\ req'[w].conn = c
        BY <2>1, <2>6 DEF DeleteRead, Idle
      <3> QED BY <3>1 DEF acceptedConnections, Rows
    <2> QED BY <2>2, <2>3, <2>4, <2>5, <2>6
  <1>6. WorkerKnows(w)'
    BY <1>1, <1>2, <1>4, <1>5 DEF WorkerKnows, Disconnecting, NotRun
  <1>7. AllLive' /\ NoneRevives
    BY <1>1, <1>2, LiveKept
  <1> QED BY <1>1, <1>3, <1>6, <1>7, WorkerAlone

LEMMA OnlyWorker ==
  ASSUME SpaceInv, SerialSpace, NEW w \in Workers, WorkerStep(w) \/ SpaceAbort(w)
  PROVE  /\ UNCHANGED act
         /\ \A v \in Workers : v # w =>
              req[v] = Idle /\ req'[v] = Idle /\ found'[v] = found[v]
         /\ \A h \in Handlers : act[h] = Rest
  <1>1. req[w] # Idle
    <2>1. CASE ConnStep(w) \/ SpaceCommit(w)
      BY <2>1 DEF ConnStep, SpaceCommit, Step, CreateInsert, UpdateReread,
                  UpdateWrite, DisconnectFind, TxLock, TxCommit, Idle
    <2>2. CASE CascadeBlog(w) \/ CascadeRoom(w)
      BY <2>2 DEF CascadeBlog, CascadeRoom, Disconnecting, Idle
    <2>3. CASE SpaceAbort(w)
      BY <2>3 DEF SpaceAbort, Abort
    <2> QED BY <2>1, <2>2, <2>3 DEF WorkerStep
  <1>2. \A v \in Workers : v # w => req[v] = Idle
    BY <1>1 DEF SerialSpace, Alone
  <1>3. \A h \in Handlers : act[h] = Rest
    BY <1>1 DEF SerialSpace, Alone
  <1>4. \A v \in Workers : v # w => req'[v] = req[v]
    <2>1. CASE ConnStep(w) \/ SpaceCommit(w) \/ SpaceAbort(w)
      <3>1. Step(w) \/ Abort(w)
        BY <2>1 DEF ConnStep, SpaceCommit, SpaceAbort, Step
      <3> QED BY <3>1, OthersWait DEF SpaceInv, IInv
    <2>2. CASE CascadeBlog(w) \/ CascadeRoom(w)
      BY <2>2 DEF CascadeBlog, CascadeRoom, vars
    <2> QED BY <2>1, <2>2 DEF WorkerStep
  <1>5. UNCHANGED act /\ \A v \in Workers : v # w => found'[v] = found[v]
    BY DEF WorkerStep, ConnStep, SpaceCommit, CascadeBlog, CascadeRoom,
           SpaceAbort, SpaceInv, SpaceTypeOK
  <1> QED BY <1>2, <1>3, <1>4, <1>5

LEMMA ConnStepAlone ==
  ASSUME SpaceInv, SerialSpace, NEW w \in Workers, ConnStep(w)
  PROVE  SerialSpace' /\ NoneRevives
  <1> DEFINE c == req[w].conn
  <1>1. Step(w) /\ req[w].pc # "commit" /\ UNCHANGED <<space, found, act>>
    BY DEF ConnStep
  <1>2. found[w] = NotRun /\ found'[w] = NotRun
    BY <1>1 DEF SerialSpace, WorkerKnows, Disconnecting
  <1>3. \A x : req' = [req EXCEPT ![w] = x] => req'[w] = x
    BY DEF SpaceInv, IInv, TypeOK
  <1>4. CASE UpdateReread(w) \/ DisconnectFind(w) \/ TxLock(w)
    <2>1. conns' = conns
      BY <1>4 DEF UpdateReread, DisconnectFind, TxLock
    <2>2. \/ req'[w] = Idle
          \/ /\ req'[w].pc = "write" /\ req'[w].conn = c
             /\ conns[c].status = "PENDING"
          \/ /\ req'[w].pc \in {"lock", "commit"} /\ req'[w].conn = c
             /\ conns[c].status = "ACCEPTED"
      <3>1. req[w] \in Request
        BY DEF SpaceInv, IInv, TypeOK
      <3>2. CASE UpdateReread(w)
        <4>1. \/ req' = [req EXCEPT ![w] = Idle]
              \/ /\ req' = [req EXCEPT ![w] = [req[w] EXCEPT !.pc = "write"]]
                 /\ conns[c].status = "PENDING"
          BY <3>2 DEF UpdateReread, findOneByIdAndStatus, Rows
        <4> QED BY <1>3, <3>1, <4>1 DEF Request
      <3>3. CASE DisconnectFind(w)
        <4>1. \/ req' = [req EXCEPT ![w] = Idle]
              \/ /\ req' = [req EXCEPT ![w] = [req[w] EXCEPT !.pc = "lock"]]
                 /\ conns[c].status = "ACCEPTED"
          BY <3>3 DEF DisconnectFind, findOneByIdAndStatus, Rows
        <4> QED BY <1>3, <3>1, <4>1 DEF Request
      <3>4. CASE TxLock(w)
        <4>1. conns[c].status = "ACCEPTED"
          BY <3>4 DEF TxLock, SerialSpace, WorkerKnows
        <4> QED BY <1>3, <3>1, <3>4, <4>1 DEF TxLock, Request
      <3> QED BY <1>4, <3>2, <3>3, <3>4
    <2>3. WorkerKnows(w)'
      BY <1>2, <2>1, <2>2 DEF WorkerKnows, Disconnecting, NotRun, Idle
    <2>4. AllLive' /\ NoneRevives
      BY <1>1, <2>1, LiveKept
    <2> QED BY <2>3, <2>4, OnlyWorker, WorkerAlone DEF WorkerStep
  <1>5. ASSUME req' = [req EXCEPT ![w] = Idle],
               \A d \in Conns : conns[d] # None /\ conns[d].status = "ACCEPTED" =>
                 conns'[d].status = "ACCEPTED"
        PROVE  SerialSpace' /\ NoneRevives
    <2>1. WorkerKnows(w)'
      BY <1>2, <1>5, EndKnows
    <2>2. AllLive' /\ NoneRevives
      BY <1>1, <1>5, LiveKept
    <2> QED BY <2>1, <2>2, OnlyWorker, WorkerAlone DEF WorkerStep
  <1>6. CASE \E d \in Conns : CreateInsert(w, d)
    <2>1. \A d \in Conns : conns[d] # None => conns'[d] = conns[d]
      BY <1>6 DEF CreateInsert, SpaceInv, IInv, TypeOK
    <2> QED BY <1>5, <1>6, <2>1 DEF CreateInsert
  <1>7. CASE UpdateWrite(w)
    <2>1. conns[c].status = "PENDING"
      BY <1>7 DEF UpdateWrite, SerialSpace, WorkerKnows
    <2>2. \A d \in Conns : d # c => conns'[d] = conns[d]
      BY <1>7 DEF UpdateWrite, SpaceInv, IInv, TypeOK
    <2> QED BY <1>5, <1>7, <2>1, <2>2 DEF UpdateWrite
  <1>8. ~TxCommit(w)
    BY <1>1 DEF TxCommit
  <1> QED BY <1>1, <1>4, <1>6, <1>7, <1>8 DEF Step

LEMMA CascadeAlone ==
  ASSUME SpaceInv, SerialSpace, NEW w \in Workers,
         CascadeBlog(w) \/ CascadeRoom(w)
  PROVE  SerialSpace' /\ NoneRevives
  <1> DEFINE c == req[w].conn
  <1>1. /\ Disconnecting(w) /\ UNCHANGED <<vars, space, act>>
        /\ UNCHANGED <<live, conns, req, blog, room, posts, messages>>
    BY DEF CascadeBlog, CascadeRoom, vars, space
  <1>2. found[w] \in Found /\ WorkerKnows(w)
    BY DEF SpaceInv, SpaceTypeOK, SerialSpace
  <1>3. CASE CascadeBlog(w)
    <2>1. /\ blog[c] = "live" =>
               found'[w].blog /\ found'[w].posts = LivePostsOf(c)
          /\ found'[w].roomDone = found[w].roomDone
          /\ found'[w].room = found[w].room
          /\ found'[w].messages = found[w].messages
      BY <1>2, <1>3 DEF CascadeBlog, Found, SpaceInv, SpaceTypeOK
    <2>2. WorkerKnows(w)'
      BY <1>1, <1>2, <2>1
         DEF WorkerKnows, Disconnecting, LivePostsOf, LiveMessagesOf
    <2> QED BY <1>1, <1>3, <2>2, LiveKept, OnlyWorker, WorkerAlone DEF WorkerStep
  <1>4. CASE CascadeRoom(w)
    <2>1. /\ room[c] = "live" =>
               found'[w].room /\ found'[w].messages = LiveMessagesOf(c)
          /\ found'[w].blogDone = found[w].blogDone
          /\ found'[w].blog = found[w].blog
          /\ found'[w].posts = found[w].posts
      BY <1>2, <1>4 DEF CascadeRoom, Found, SpaceInv, SpaceTypeOK
    <2>2. WorkerKnows(w)'
      BY <1>1, <1>2, <2>1
         DEF WorkerKnows, Disconnecting, LivePostsOf, LiveMessagesOf
    <2> QED BY <1>1, <1>4, <2>2, LiveKept, OnlyWorker, WorkerAlone DEF WorkerStep
  <1> QED BY <1>3, <1>4

(* What is live before the commit and not of its connection stays live.    *)
LEMMA CommitAlone ==
  ASSUME SpaceInv, SerialSpace, NEW w \in Workers, SpaceCommit(w)
  PROVE  SerialSpace' /\ NoneRevives
  <1> DEFINE c == req[w].conn
             f == found[w]
  <1>1. f \in Found /\ FoundIsThere(w) /\ WorkerKnows(w) /\ SpaceTypeOK /\ TypeOK
    BY DEF SpaceInv, SpaceTypeOK, SerialSpace, IInv
  <1>2. /\ TxCommit(w)
        /\ Disconnecting(w) => f.blogDone /\ f.roomDone
        /\ blog' = IF f.blog THEN [blog EXCEPT ![c] = "deleted"] ELSE blog
        /\ room' = IF f.room THEN [room EXCEPT ![c] = "deleted"] ELSE room
        /\ posts' = Removed(posts, f.posts)
        /\ messages' = Removed(messages, f.messages)
        /\ found' = [found EXCEPT ![w] = NotRun]
    BY DEF SpaceCommit
  <1>3. /\ req' = [req EXCEPT ![w] = Idle] /\ found'[w] = NotRun
    BY <1>1, <1>2 DEF TxCommit, SpaceTypeOK
  <1>4. WorkerKnows(w)'
    BY <1>3, EndKnows
  <1>5. /\ \A p \in f.posts : posts[p] # None
        /\ \A m \in f.messages : messages[m] # None
        /\ f.posts \subseteq Posts /\ f.messages \subseteq Messages
    BY <1>1 DEF FoundIsThere, Found
  <1>6. CASE ~Disconnecting(w)
    <2>1. f = NotRun
      BY <1>1, <1>6 DEF WorkerKnows
    <2>2. conns' = conns /\ blog' = blog /\ room' = room
      BY <1>2, <1>6, <2>1 DEF TxCommit, Disconnecting, NotRun
    <2>3. f.posts = {} /\ f.messages = {}
      BY <2>1 DEF NotRun
    <2>4. posts' = posts /\ messages' = messages
      BY <1>1, <1>2, <2>3 DEF Removed, SpaceTypeOK
    <2> QED BY <1>4, <2>2, <2>4, LiveKept, OnlyWorker, WorkerAlone
            DEF WorkerStep, space
  <1>7. CASE Disconnecting(w)
    <2>1. /\ blog[c] = "live" => f.blog /\ LivePostsOf(c) \subseteq f.posts
          /\ room[c] = "live" => f.room /\ LiveMessagesOf(c) \subseteq f.messages
          /\ c \in Conns
      BY <1>1, <1>2, <1>7 DEF WorkerKnows, Disconnecting, TypeOK, Request
    <2> HIDE DEF c, f
    <2>2. /\ \A d \in Conns : d # c => conns'[d] = conns[d]
          /\ \A d \in Conns : d # c => blog'[d] = blog[d] /\ room'[d] = room[d]
          /\ blog'[c] # "live" /\ room'[c] # "live"
          /\ blog[c] = "deleted" => blog'[c] = "deleted"
          /\ room[c] = "deleted" => room'[c] = "deleted"
      BY <1>1, <1>2, <2>1 DEF TxCommit, TypeOK, SpaceTypeOK, c
    <2>3. /\ \A p \in Posts : posts'[p] # None /\ ~posts'[p].deleted =>
               p \notin f.posts /\ posts'[p] = posts[p]
          /\ \A p \in Posts : posts[p] # None /\ posts[p].deleted =>
               posts'[p].deleted
      BY <1>1, <1>2, <1>5, RemovedRows DEF SpaceTypeOK
    <2>4. \A m \in Messages : messages'[m] # None /\ ~messages'[m].deleted =>
            m \notin f.messages /\ messages'[m] = messages[m]
      BY <1>1, <1>2, <1>5, RemovedRows DEF SpaceTypeOK
    <2>5. LiveSpaceHasConnection'
      BY <2>2 DEF SerialSpace, AllLive, LiveSpaceHasConnection
    <2>6. ASSUME NEW p \in Posts, posts'[p] # None, ~posts'[p].deleted
          PROVE  blog'[posts'[p].conn] = "live"
      <3>1. /\ posts[p] = posts'[p] /\ posts[p].conn \in Conns
            /\ blog[posts[p].conn] = "live" /\ p \notin f.posts
        BY <1>1, <2>3, <2>6 DEF SpaceTypeOK, ItemRow, SerialSpace, AllLive,
                                LivePostHasBlog
      <3>2. posts[p].conn # c
        BY <2>1, <2>6, <3>1 DEF LivePostsOf
      <3> QED BY <2>2, <3>1, <3>2
    <2>7. ASSUME NEW m \in Messages, messages'[m] # None, ~messages'[m].deleted
          PROVE  room'[messages'[m].conn] = "live"
      <3>1. /\ messages[m] = messages'[m] /\ messages[m].conn \in Conns
            /\ room[messages[m].conn] = "live" /\ m \notin f.messages
        BY <1>1, <2>4, <2>7 DEF SpaceTypeOK, ItemRow, SerialSpace, AllLive,
                                LiveMessageHasRoom
      <3>2. messages[m].conn # c
        BY <2>1, <2>7, <3>1 DEF LiveMessagesOf
      <3> QED BY <2>2, <3>1, <3>2
    <2>8. AllLive' /\ NoneRevives
      BY <2>2, <2>3, <2>5, <2>6, <2>7
         DEF AllLive, LivePostHasBlog, LiveMessageHasRoom, NoneRevives
    <2> QED BY <1>4, <2>8, OnlyWorker, WorkerAlone DEF WorkerStep
  <1> QED BY <1>6, <1>7

LEMMA AbortAlone ==
  ASSUME SpaceInv, SerialSpace, NEW w \in Workers, SpaceAbort(w)
  PROVE  SerialSpace' /\ NoneRevives
  <1>1. /\ req' = [req EXCEPT ![w] = Idle] /\ conns' = conns
        /\ UNCHANGED space /\ found'[w] = NotRun
    BY DEF SpaceAbort, Abort, SpaceInv, SpaceTypeOK
  <1> QED BY <1>1, EndKnows, LiveKept, OnlyWorker, WorkerAlone
-----------------------------------------------------------------------------
(* The requests to the space.                                              *)
LEMMA HandlerStartAlone ==
  ASSUME MaxInFlight = 1, IsFiniteSet(Workers), IsFiniteSet(Handlers),
         SpaceInv, SerialSpace, NEW h \in Handlers, HandlerStart(h)
  PROVE  SerialSpace' /\ NoneRevives
  <1>1. PICK u \in Users, c \in Conns :
          \/ BlogRead(h, u, c)
          \/ PatchBlogRead(h, u, c)
          \/ RoomRead(h, u, c)
          \/ MessageRead(h, u, c)
          \/ PostRead(h, u, c)
          \/ \E p \in Posts, deletes \in BOOLEAN :
               EditRead(h, u, c, p, deletes)
    BY DEF HandlerStart
  <1>2. Slot /\ UNCHANGED <<vars, space, found>>
    BY <1>1 DEF BlogRead, PatchBlogRead, RoomRead, MessageRead, PostRead,
                EditRead, Begin
  <1>3. /\ \A w \in Workers : req[w] = Idle
        /\ \A g \in Handlers : act[g] = Rest
    BY <1>2, SlotIsFree
  <1>4. PICK a : act' = [act EXCEPT ![h] = a]
    BY <1>1 DEF BlogRead, PatchBlogRead, RoomRead, MessageRead, PostRead,
                EditRead, Begin
  <1>5. \A g \in Handlers : g # h => act'[g] = Rest
    BY <1>3, <1>4 DEF SpaceInv, SpaceTypeOK
  <1>6. ASSUME NEW x, Begin(h, x) PROVE act'[h] = x
    BY <1>6 DEF Begin, SpaceInv, SpaceTypeOK
  <1>7. UNCHANGED <<conns, blog, room, posts, messages>>
    BY <1>2 DEF vars, space
  <1>8. HandlerKnows(h)'
    <2>1. CASE BlogRead(h, u, c) \/ RoomRead(h, u, c)
      <3>1. /\ act'[h].pc \in {"blogCheck", "roomCheck"} /\ act'[h].conn = c
            /\ conns[c].status = "ACCEPTED"
        BY <1>6, <2>1 DEF BlogRead, RoomRead, acceptedConnections, Rows, Rest
      <3> QED BY <1>7, <3>1 DEF HandlerKnows
    <2>2. CASE PatchBlogRead(h, u, c) \/ PostRead(h, u, c)
      <3>1. /\ act'[h].pc \in {"blogWrite", "postInsert"} /\ act'[h].conn = c
            /\ blog[c] = "live"
        BY <1>6, <2>2 DEF PatchBlogRead, PostRead, Rest
      <3> QED BY <1>7, <3>1 DEF HandlerKnows
    <2>3. CASE MessageRead(h, u, c)
      <3>1. act'[h].pc = "messageCheck" /\ act'[h].conn = c /\ room[c] = "live"
        BY <1>6, <2>3 DEF MessageRead, Rest
      <3> QED BY <1>7, <3>1 DEF HandlerKnows
    <2>4. CASE \E p \in Posts, deletes \in BOOLEAN :
                 EditRead(h, u, c, p, deletes)
      <3>1. act'[h].pc = "postReread"
        BY <1>6, <2>4 DEF EditRead
      <3> QED BY <3>1 DEF HandlerKnows
    <2> QED BY <1>1, <2>1, <2>2, <2>3, <2>4
  <1>9. AllLive' /\ NoneRevives
    BY <1>2, <1>7, LiveKept
  <1> QED BY <1>2, <1>3, <1>5, <1>8, <1>9, HandlerAlone

LEMMA OnlyHandler ==
  ASSUME SpaceInv, SerialSpace, NEW h \in Handlers, act[h] # Rest,
         NEW a, act' = [act EXCEPT ![h] = a]
  PROVE  /\ \A w \in Workers : req[w] = Idle
         /\ \A g \in Handlers : g # h => act[g] = Rest /\ act'[g] = Rest
         /\ act'[h] = a
  BY DEF SpaceInv, SpaceTypeOK, SerialSpace, Alone

(* One that ends.                                                          *)
LEMMA HandlerEndAlone ==
  ASSUME SpaceInv, SerialSpace, NEW h \in Handlers, act[h] # Rest,
         act' = [act EXCEPT ![h] = Rest], UNCHANGED <<vars, found>>, AllLive'
  PROVE  SerialSpace'
  <1>1. act'[h] = Rest
    BY OnlyHandler
  <1>2. HandlerKnows(h)'
    BY <1>1 DEF HandlerKnows, Rest
  <1> QED BY <1>2, OnlyHandler, HandlerAlone

LEMMA GoAlone ==
  ASSUME SpaceInv, SerialSpace, NEW h \in Handlers,
         BlogCheck(h) \/ RoomCheck(h) \/ MessageCheck(h) \/ PostReread(h)
  PROVE  SerialSpace' /\ NoneRevives
  <1> DEFINE a == act[h]
  <1>1. PICK from \in {"blogCheck", "roomCheck", "messageCheck", "postReread"},
             to \in {"idle", "blogInsert", "roomInsert", "messageInsert",
                     "postWrite", "postDelete"} :
          /\ Go(h, from, to)
          /\ to = "blogInsert" => from = "blogCheck"
          /\ to = "roomInsert" => from = "roomCheck"
          /\ to = "messageInsert" => from = "messageCheck"
          /\ to = "postWrite" => ~posts[a.post].deleted
    BY DEF BlogCheck, RoomCheck, MessageCheck, PostReread
  <1>2. a.pc = from /\ UNCHANGED <<vars, space, found>> /\ a # Rest
    BY <1>1 DEF Go, Rest
  <1>3. AllLive' /\ NoneRevives
    BY <1>2, LiveKept DEF vars
  <1>4. CASE to = "idle"
    <2>1. act' = [act EXCEPT ![h] = Rest]
      BY <1>1, <1>4 DEF Go
    <2> QED BY <1>2, <1>3, <2>1, HandlerEndAlone
  <1>5. CASE to # "idle"
    <2>1. PICK b : b = [a EXCEPT !.pc = to]
      OBVIOUS
    <2>2. act' = [act EXCEPT ![h] = b]
      BY <1>1, <1>5, <2>1 DEF Go
    <2>3. b.pc = to /\ b.conn = a.conn /\ b.post = a.post
      BY <2>1 DEF SpaceInv, SpaceTypeOK, Activity
    <2>4. /\ act'[h] = b /\ \A w \in Workers : req[w] = Idle
          /\ \A g \in Handlers : g # h => act[g] = Rest /\ act'[g] = Rest
      BY <1>2, <2>2, OnlyHandler
    <2>5. HandlerKnows(h) /\ UNCHANGED <<conns, blog, room, posts>>
      BY <1>2 DEF SerialSpace, vars, space
    <2>6. HandlerKnows(h)'
      BY <1>1, <1>2, <1>5, <2>3, <2>4, <2>5 DEF HandlerKnows
    <2> QED BY <1>2, <1>3, <2>4, <2>6, HandlerAlone
  <1> QED BY <1>3, <1>4, <1>5

LEMMA SpaceWriteAlone ==
  ASSUME SpaceInv, SerialSpace, NEW h \in Handlers,
         BlogInsert(h) \/ PatchBlogWrite(h) \/ RoomInsert(h)
  PROVE  SerialSpace' /\ NoneRevives
  <1> DEFINE c == act[h].conn
  <1>1. /\ UNCHANGED <<vars, found, posts, messages>>
        /\ act' = [act EXCEPT ![h] = Rest]
        /\ act[h].pc \in {"blogInsert", "blogWrite", "roomInsert"}
    BY DEF BlogInsert, PatchBlogWrite, RoomInsert, Finish
  <1>2. /\ HandlerKnows(h) /\ SpaceTypeOK /\ AllLive /\ act[h] # Rest
        /\ c \in Conns /\ conns' = conns
    BY <1>1 DEF SerialSpace, SpaceInv, KnowsItsRows, Answered, HasBlog, Rest, vars
  <1>3. conns[c].status = "ACCEPTED"
    BY <1>1, <1>2 DEF HandlerKnows, AllLive, LiveSpaceHasConnection
  <1>4. /\ \A d \in Conns : blog'[d] = blog[d]
             \/ (d = c /\ blog[d] # "deleted" /\ blog'[d] = "live")
        /\ \A d \in Conns : room'[d] = room[d]
             \/ (d = c /\ room[d] # "deleted" /\ room'[d] = "live")
    <2>1. CASE BlogInsert(h)
      BY <1>2, <2>1 DEF BlogInsert, SpaceTypeOK
    <2>2. CASE PatchBlogWrite(h)
      <3>1. blog[c] = "live"
        BY <1>2, <2>2 DEF PatchBlogWrite, Finish, HandlerKnows
      <3> QED BY <1>2, <2>2, <3>1 DEF PatchBlogWrite, SpaceTypeOK
    <2>3. CASE RoomInsert(h)
      BY <1>2, <2>3 DEF RoomInsert, SpaceTypeOK
    <2> QED BY <2>1, <2>2, <2>3
  <1>5. NoneRevives
    BY <1>1, <1>4 DEF NoneRevives
  <1>6. LiveSpaceHasConnection'
    BY <1>2, <1>3, <1>4 DEF AllLive, LiveSpaceHasConnection
  <1>7. LivePostHasBlog'
    <2>1. \A p \in Posts : posts[p] # None => posts[p].conn \in Conns
      BY <1>2 DEF SpaceTypeOK, ItemRow
    <2> QED BY <1>1, <1>2, <1>4, <2>1 DEF AllLive, LivePostHasBlog
  <1>8. LiveMessageHasRoom'
    <2>1. \A m \in Messages : messages[m] # None => messages[m].conn \in Conns
      BY <1>2 DEF SpaceTypeOK, ItemRow
    <2> QED BY <1>1, <1>2, <1>4, <2>1 DEF AllLive, LiveMessageHasRoom
  <1> QED BY <1>1, <1>2, <1>5, <1>6, <1>7, <1>8, HandlerEndAlone DEF AllLive

LEMMA ItemWriteAlone ==
  ASSUME SpaceInv, SerialSpace, NEW h \in Handlers,
         \/ \E m \in Messages : MessageInsert(h, m)
         \/ \E p \in Posts : PostInsert(h, p)
         \/ PatchPostWrite(h) \/ DeletePostWrite(h)
  PROVE  SerialSpace' /\ NoneRevives
  <1> DEFINE a == act[h]
  <1>1. /\ UNCHANGED <<vars, found, blog, room>> /\ conns' = conns
        /\ act' = [act EXCEPT ![h] = Rest]
        /\ a.pc \in {"messageInsert", "postInsert", "postWrite", "postDelete"}
    BY DEF MessageInsert, PostInsert, PatchPostWrite, DeletePostWrite, Finish,
           vars
  <1>2. /\ HandlerKnows(h) /\ KnowsItsRows(h) /\ SpaceTypeOK /\ AllLive
        /\ a # Rest
    BY <1>1 DEF SerialSpace, SpaceInv, Rest
  <1>3. LiveSpaceHasConnection'
    BY <1>1, <1>2 DEF AllLive, LiveSpaceHasConnection
  <1>4. CASE \E m \in Messages : MessageInsert(h, m)
    <2>1. PICK m \in Messages : MessageInsert(h, m)
      BY <1>4
    <2>2. /\ room[a.conn] = "live" /\ posts' = posts
          /\ messages'[m].conn = a.conn
          /\ \A n \in Messages : n # m => messages'[n] = messages[n]
      BY <1>2, <2>1 DEF MessageInsert, Finish, HandlerKnows, SpaceTypeOK
    <2>3. LiveMessageHasRoom'
      BY <1>1, <1>2, <2>2 DEF AllLive, LiveMessageHasRoom
    <2>4. LivePostHasBlog' /\ NoneRevives
      BY <1>1, <1>2, <2>2 DEF AllLive, LivePostHasBlog, NoneRevives
    <2> QED BY <1>1, <1>2, <1>3, <2>3, <2>4, HandlerEndAlone DEF AllLive
  <1>5. CASE \/ \E p \in Posts : PostInsert(h, p)
             \/ PatchPostWrite(h) \/ DeletePostWrite(h)
    <2>1. messages' = messages
      BY <1>5 DEF PostInsert, PatchPostWrite, DeletePostWrite
    <2>2. LiveMessageHasRoom'
      BY <1>1, <1>2, <2>1 DEF AllLive, LiveMessageHasRoom
    <2>3. \A p \in Posts :
            \/ posts'[p] = posts[p]
            \/ posts'[p].deleted
            \/ /\ posts[p] = None \/ ~posts[p].deleted
               /\ blog[posts'[p].conn] = "live"
      <3>1. CASE \E p \in Posts : PostInsert(h, p)
        BY <1>2, <3>1 DEF PostInsert, Finish, HandlerKnows, SpaceTypeOK
      <3>2. CASE PatchPostWrite(h)
        <4>1. /\ a.post \in Posts /\ posts[a.post] \in ItemRow
              /\ posts[a.post] # None /\ ~posts[a.post].deleted
          BY <1>2, <3>2
             DEF PatchPostWrite, Finish, HandlerKnows, KnowsItsRows, SpaceTypeOK
        <4>2. blog[posts[a.post].conn] = "live"
          BY <1>2, <4>1 DEF AllLive, LivePostHasBlog
        <4>3. posts'[a.post].conn = posts[a.post].conn
          BY <1>2, <3>2, <4>1 DEF PatchPostWrite, SpaceTypeOK, ItemRow
        <4>4. \A p \in Posts : p # a.post => posts'[p] = posts[p]
          BY <1>2, <3>2 DEF PatchPostWrite, SpaceTypeOK
        <4> QED BY <4>1, <4>2, <4>3, <4>4
      <3>3. CASE DeletePostWrite(h)
        <4>1. a.post \in Posts /\ posts[a.post] \in ItemRow
          BY <1>2, <3>3 DEF DeletePostWrite, Finish, KnowsItsRows, SpaceTypeOK
        <4>2. posts'[a.post].deleted
          BY <1>2, <3>3, <4>1 DEF DeletePostWrite, SpaceTypeOK, ItemRow
        <4>3. \A p \in Posts : p # a.post => posts'[p] = posts[p]
          BY <1>2, <3>3 DEF DeletePostWrite, SpaceTypeOK
        <4> QED BY <4>2, <4>3
      <3> QED BY <1>5, <3>1, <3>2, <3>3
    <2>4. LivePostHasBlog'
      BY <1>1, <1>2, <2>3 DEF AllLive, LivePostHasBlog
    <2>5. NoneRevives
      BY <1>1, <2>3 DEF NoneRevives
    <2> QED BY <1>1, <1>2, <1>3, <2>2, <2>4, <2>5, HandlerEndAlone DEF AllLive
  <1> QED BY <1>4, <1>5

LEMMA HandlerAbortAlone ==
  ASSUME SpaceInv, SerialSpace, NEW h \in Handlers, HandlerAbort(h)
  PROVE  SerialSpace' /\ NoneRevives
  <1>1. /\ act[h] # Rest /\ act' = [act EXCEPT ![h] = Rest]
        /\ UNCHANGED <<vars, space, found>> /\ conns' = conns
    BY DEF HandlerAbort, vars
  <1> QED BY <1>1, LiveKept, HandlerEndAlone
-----------------------------------------------------------------------------
LEMMA InitSerialSpace == SpaceInit => SerialSpace
  <1> SUFFICES ASSUME SpaceInit PROVE SerialSpace
    OBVIOUS
  <1>1. Alone /\ AllLive
    BY DEF SpaceInit, Init, Alone, AllLive, LiveSpaceHasConnection,
           LivePostHasBlog, LiveMessageHasRoom
  <1>2. \A w \in Workers : WorkerKnows(w)
    BY DEF SpaceInit, Init, WorkerKnows, Disconnecting, Idle, NotRun
  <1>3. \A h \in Handlers : HandlerKnows(h)
    BY DEF SpaceInit, HandlerKnows, Rest
  <1> QED BY <1>1, <1>2, <1>3 DEF SerialSpace

LEMMA NextSerialSpace ==
  ASSUME MaxInFlight = 1, IsFiniteSet(Workers), IsFiniteSet(Handlers),
         SpaceInv, SerialSpace, [SpaceNext]_spaceVars
  PROVE  SerialSpace' /\ NoneRevives
  <1>1. ASSUME NEW w \in Workers, ConnStart(w) \/ WorkerStep(w) \/ SpaceAbort(w)
        PROVE  SerialSpace' /\ NoneRevives
    BY <1>1, StartAlone, ConnStepAlone, CascadeAlone, CommitAlone, AbortAlone
       DEF WorkerStep
  <1>2. ASSUME NEW h \in Handlers,
               HandlerStart(h) \/ HandlerStep(h) \/ HandlerAbort(h)
        PROVE  SerialSpace' /\ NoneRevives
    BY <1>2, HandlerStartAlone, GoAlone, SpaceWriteAlone, ItemWriteAlone,
       HandlerAbortAlone DEF HandlerStep
  <1>3. CASE UNCHANGED spaceVars
    <2>1. UNCHANGED <<blog, room, posts, messages, found, act, conns, req, space>>
      BY <1>3 DEF spaceVars, vars, space
    <2>2. AllLive' /\ NoneRevives
      BY <2>1, LiveKept
    <2>3. Alone'
      BY <2>1 DEF SerialSpace, Alone
    <2>4. ASSUME NEW w \in Workers PROVE WorkerKnows(w)'
      BY <2>1 DEF SerialSpace, WorkerKnows, Disconnecting, LivePostsOf,
                  LiveMessagesOf
    <2>5. ASSUME NEW h \in Handlers PROVE HandlerKnows(h)'
      BY <2>1 DEF SerialSpace, HandlerKnows
    <2> QED BY <2>2, <2>3, <2>4, <2>5 DEF SerialSpace
  <1> QED BY <1>1, <1>2, <1>3 DEF SpaceNext

LEMMA SerialSpaceHolds ==
  ASSUME MaxInFlight = 1, IsFiniteSet(Workers), IsFiniteSet(Handlers)
  PROVE  SpaceSpec => [](SpaceInv /\ SerialSpace)
  <1>1. SpaceInit => SpaceInv /\ SerialSpace
    BY InitSpaceInv, InitSerialSpace
  <1>2. SpaceInv /\ SerialSpace /\ [SpaceNext]_spaceVars =>
          (SpaceInv /\ SerialSpace)'
    BY NextSpaceInv, NextSerialSpace
  <1> QED BY <1>1, <1>2, PTL DEF SpaceSpec

(* With one request in flight at a time, a live blog or chat room belongs  *)
(* to an accepted connection: the disconnect takes both with it.           *)
THEOREM SerialLiveSpace ==
  ASSUME MaxInFlight = 1, IsFiniteSet(Workers), IsFiniteSet(Handlers)
  PROVE  SpaceSpec => []LiveSpaceHasConnection
  <1>1. SerialSpace => LiveSpaceHasConnection
    BY DEF SerialSpace, AllLive
  <1> QED BY <1>1, SerialSpaceHolds, PTL

(* With one request in flight at a time, no live post is left behind in a  *)
(* blog that is not live: the handler of BlogDeleted finds them all.       *)
THEOREM SerialPostHasBlog ==
  ASSUME MaxInFlight = 1, IsFiniteSet(Workers), IsFiniteSet(Handlers)
  PROVE  SpaceSpec => []LivePostHasBlog
  <1>1. SerialSpace => LivePostHasBlog
    BY DEF SerialSpace, AllLive
  <1> QED BY <1>1, SerialSpaceHolds, PTL

(* With one request in flight at a time, no live message is left behind in *)
(* a chat room that is not live: its event handler finds them all.         *)
THEOREM SerialMessageHasRoom ==
  ASSUME MaxInFlight = 1, IsFiniteSet(Workers), IsFiniteSet(Handlers)
  PROVE  SpaceSpec => []LiveMessageHasRoom
  <1>1. SerialSpace => LiveMessageHasRoom
    BY DEF SerialSpace, AllLive
  <1> QED BY <1>1, SerialSpaceHolds, PTL

(* With one request in flight at a time, whole-row writes revive nothing   *)
(* that a disconnect or a delete has removed.                              *)
THEOREM SerialNothingRevives ==
  ASSUME MaxInFlight = 1, IsFiniteSet(Workers), IsFiniteSet(Handlers)
  PROVE  SpaceSpec => NothingRevives
  <1>1. SpaceInv /\ SerialSpace /\ [SpaceNext]_spaceVars => [NoneRevives]_space
    BY NextSerialSpace
  <1> QED BY <1>1, SerialSpaceHolds, PTL
          DEF SpaceSpec, NothingRevives, NoneRevives
=============================================================================
