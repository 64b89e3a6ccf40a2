--------------------------- MODULE UserConnection ---------------------------
(***************************************************************************)
(* The user_connections table and the four command handlers that write it: *)
(* create, update (accept / reject / cancel), disconnect and delete user.  *)
(*                                                                         *)
(* A handler is a worker that runs one request, one awaited database       *)
(* statement per step; the statements of different requests interleave.    *)
(* What a request has read is kept in its record only as far as it is used *)
(* later: a row it will write back whole is a row it read in the status    *)
(* its next step relies on.  Create and update run outside a transaction.  *)
(* Disconnect and delete user run in one, at READ COMMITTED: their UPDATE  *)
(* locks the row, other writers of the row wait, and all their writes      *)
(* become visible at the commit.                                           *)
(*                                                                         *)
(* An error answer changes nothing, so a request that fails at its first   *)
(* read is not a step; one that fails later returns to Idle.               *)
(***************************************************************************)
EXTENDS Naturals, FiniteSets

CONSTANTS
  Users,      \* rows of users; never removed, only soft-deleted
  Verified,   \* the users whose isEmailVerified is true
  Conns,      \* identities new rows of user_connections can take
  Workers,    \* requests in flight at the same time
  None        \* no row, no value

ASSUME VerifiedAssumption == Verified \subseteq Users
ASSUME NoneAssumption == None \notin Users \cup Conns

VARIABLES
  live,       \* the users whose deleted_at is null
  conns,      \* conns[c]: the committed row c, or None
  req         \* req[w]: the request worker w is running

vars == <<live, conns, req>>
-----------------------------------------------------------------------------
Status == {"PENDING", "ACCEPTED", "REJECTED", "CANCELED", "DISCONNECTED"}

(* The statuses in which changeStatus sets deletedAt. *)
Terminal == {"REJECTED", "CANCELED", "DISCONNECTED"}

(* The statuses the update endpoint accepts in its body. *)
Answers == {"ACCEPTED", "REJECTED", "CANCELED"}

ConnRow == [requester : Users, requested : Users,
            status : Status, deleted : BOOLEAN]

ASSUME NoneIsNoRow == None \notin ConnRow

(* pc names the statement the request runs next:                           *)
(*   "insert"   create: INSERT of the new row                              *)
(*   "reread"   update: SELECT of the row by id and PENDING                *)
(*   "write"    update: UPDATE of the whole row                            *)
(*   "find"     disconnect: SELECT of the row by id and ACCEPTED           *)
(*   "lock"     disconnect, delete user: UPDATE of the row, uncommitted    *)
(*   "commit"   disconnect, delete user: COMMIT                            *)
Request ==
  [pc : {"idle", "insert", "reread", "write", "find", "lock", "commit"},
   user : Users \cup {None},        \* who sent the request
   peer : Users \cup {None},        \* create: the requested user
   conn : Conns \cup {None},        \* the row the request is about
   to : Answers \cup {None},        \* update: the new status
   leaves : BOOLEAN]                \* delete user: the user is deleted too

Idle == [pc |-> "idle", user |-> None, peer |-> None, conn |-> None,
         to |-> None, leaves |-> FALSE]

Init ==
  /\ live = Users
  /\ conns = [c \in Conns |-> None]
  /\ req = [w \in Workers |-> Idle]
-----------------------------------------------------------------------------
(* The getters of UserEntity over the rows its include has just read.      *)
Rows(s) == {c \in Conns : conns[c] # None /\ conns[c].status = s}

requestedPendingConnections(u) ==
  {c \in Rows("PENDING") : conns[c].requested = u}

sentPendingConnections(u) ==
  {c \in Rows("PENDING") : conns[c].requester = u}

(* Mutant: isConnected holds for every row that is not deleted.            *)
acceptedConnections_anyRow(u) ==
  {c \in Conns : conns[c] # None /\ ~conns[c].deleted
                 /\ u \in {conns[c].requester, conns[c].requested}}

(* The rows acceptedConnection may return: find takes the first row in an  *)
(* order nothing fixes, the received requests before the sent ones.        *)
acceptedConnections(u) ==
  LET received == {c \in Rows("ACCEPTED") : conns[c].requested = u}
      sent == {c \in Rows("ACCEPTED") : conns[c].requester = u}
  IN  IF received # {} THEN received ELSE sent

isPartOfConnection(c, u) == u \in {conns[c].requester, conns[c].requested}

(* Mutant: the query filters on deletedAt and forgets the status.          *)
findOneByIdAndStatus_anyStatus(c, s) == conns[c] # None /\ ~conns[c].deleted

findOneByIdAndStatus(c, s) == c \in Rows(s) /\ ~conns[c].deleted

(* changeStatus, with the check that precedes its assignments ...          *)
CanChangeStatus(row, s) == row.status = "PENDING" \/ s = "DISCONNECTED"

(* Mutant: only the columns that change are written, deletedAt never null. *)
WithStatus_changedColumns(row, s) ==
  [row EXCEPT !.status = s, !.deleted = @ \/ s \in Terminal]

(* ... and the whole record its caller then writes.                        *)
WithStatus(row, s) ==
  [row EXCEPT !.status = s, !.deleted = s \in Terminal]

(* Mutant: cancelConnectionRequest does not compare the requester.         *)
MayAnswer_cancelByAnyone(c, u, s) ==
  /\ s \in {"ACCEPTED", "REJECTED"} => conns[c].requested = u
  /\ CanChangeStatus(conns[c], s)

(* processConnectionRequest for the three answers: who may give which.     *)
MayAnswer(c, u, s) ==
  /\ s \in {"ACCEPTED", "REJECTED"} => conns[c].requested = u
  /\ s = "CANCELED" => conns[c].requester = u
  /\ CanChangeStatus(conns[c], s)

(* Bound: a create starts only while a row identity is left for its INSERT. *)
RowsLeft ==
  Cardinality({w \in Workers : req[w].pc = "insert"})
    < Cardinality({c \in Conns : conns[c] = None})

(* Mutant: a transaction that waits for the row holds it already.          *)
RowFree_heldByWaiting(c) ==
  \A w \in Workers : req[w].pc \in {"lock", "commit"} => req[w].conn # c

(* No other transaction has an uncommitted UPDATE of the row.              *)
RowFree(c) == \A w \in Workers : req[w].pc = "commit" => req[w].conn # c
-----------------------------------------------------------------------------
(* CreateUserConnectionCommandHandler *)

(* Mutant: the rows between the two users are not compared.                *)
CreateRead_noPairCheck(w, u, p) ==
  /\ req[w] = Idle
  /\ RowsLeft
  /\ u # p
  /\ u \in live
  /\ \A x \in {u, p} \cap live : x \in Verified /\ acceptedConnections(x) = {}
  /\ sentPendingConnections(u) = {}
  /\ req' = [req EXCEPT ![w] = [Idle EXCEPT !.pc = "insert", !.user = u,
                                            !.peer = p]]
  /\ UNCHANGED <<live, conns>>

(* findByIds returns the live ones of the two users with all their rows.   *)
(* The requester must be there; what is checked of the requested user is   *)
(* checked only if that user is there too.                                 *)
CreateRead(w, u, p) ==
  /\ req[w] = Idle
  /\ RowsLeft
  /\ u # p
  /\ u \in live
  /\ \A x \in {u, p} \cap live : x \in Verified /\ acceptedConnections(x) = {}
  /\ sentPendingConnections(u) = {}
  /\ sentPendingConnections(p) \cap requestedPendingConnections(u) = {}
  /\ req' = [req EXCEPT ![w] = [Idle EXCEPT !.pc = "insert", !.user = u,
                                            !.peer = p]]
  /\ UNCHANGED <<live, conns>>

(* Mutant: the requested user of the command is not passed on.             *)
CreateInsert_noPeer(w, c) ==
  /\ req[w].pc = "insert"
  /\ conns[c] = None
  /\ conns' = [conns EXCEPT ![c] =
        [requester |-> req[w].user, requested |-> req[w].conn,
         status |-> "PENDING", deleted |-> FALSE]]
  /\ req' = [req EXCEPT ![w] = Idle]
  /\ UNCHANGED live

CreateInsert(w, c) ==
  /\ req[w].pc = "insert"
  /\ conns[c] = None
  /\ conns' = [conns EXCEPT ![c] =
        [requester |-> req[w].user, requested |-> req[w].peer,
         status |-> "PENDING", deleted |-> FALSE]]
  /\ req' = [req EXCEPT ![w] = Idle]
  /\ UNCHANGED live
-----------------------------------------------------------------------------
(* UpdateUserConnectionCommandHandler *)

(* The user is read with all connections; the permission check and         *)
(* processConnectionRequest use this copy.                                 *)
UpdateRead(w, u, c, s) ==
  /\ req[w] = Idle
  /\ u \in live
  /\ c \in requestedPendingConnections(u) \cup sentPendingConnections(u)
  /\ MayAnswer(c, u, s)
  /\ req' = [req EXCEPT ![w] = [Idle EXCEPT !.pc = "reread", !.user = u,
                                            !.conn = c, !.to = s]]
  /\ UNCHANGED <<live, conns>>

UpdateReread(w) ==
  /\ req[w].pc = "reread"
  /\ req' = [req EXCEPT ![w] =
        IF findOneByIdAndStatus(req[w].conn, "PENDING")
        THEN [req[w] EXCEPT !.pc = "write"]
        ELSE Idle]
  /\ UNCHANGED <<live, conns>>

(* The UPDATE names the row by id only: whatever the row has become since  *)
(* the reads, it is overwritten.                                           *)
UpdateWrite(w) ==
  /\ req[w].pc = "write"
  /\ RowFree(req[w].conn)
  /\ conns' = [conns EXCEPT ![req[w].conn] = WithStatus(@, req[w].to)]
  /\ req' = [req EXCEPT ![w] = Idle]
  /\ UNCHANGED live
-----------------------------------------------------------------------------
(* DisconnectUserConnectionCommandHandler and DeleteUserCommandHandler *)

DisconnectRead(w, u, c) ==
  /\ req[w] = Idle
  /\ u \in live
  /\ req' = [req EXCEPT ![w] = [Idle EXCEPT !.pc = "find", !.user = u,
                                            !.conn = c]]
  /\ UNCHANGED <<live, conns>>

(* Mutant: isPartOf is not asked.                                          *)
DisconnectFind_byAnyone(w) ==
  /\ req[w].pc = "find"
  /\ req' = [req EXCEPT ![w] =
        IF findOneByIdAndStatus(req[w].conn, "ACCEPTED")
        THEN [req[w] EXCEPT !.pc = "lock"]
        ELSE Idle]
  /\ UNCHANGED <<live, conns>>

DisconnectFind(w) ==
  /\ req[w].pc = "find"
  /\ req' = [req EXCEPT ![w] =
        IF /\ findOneByIdAndStatus(req[w].conn, "ACCEPTED")
           /\ isPartOfConnection(req[w].conn, req[w].user)
        THEN [req[w] EXCEPT !.pc = "lock"]
        ELSE Idle]
  /\ UNCHANGED <<live, conns>>

(* With an accepted connection the handler disconnects it first; without   *)
(* one only the user row is written.                                       *)
DeleteRead(w, u) ==
  /\ req[w] = Idle
  /\ u \in live
  /\ LET next == [Idle EXCEPT !.user = u, !.leaves = TRUE]
         accepted == acceptedConnections(u)
     IN  \/ /\ accepted = {}
            /\ req' = [req EXCEPT ![w] = [next EXCEPT !.pc = "commit"]]
         \/ \E c \in accepted :
              req' = [req EXCEPT ![w] = [next EXCEPT !.pc = "lock",
                                                     !.conn = c]]
  /\ UNCHANGED <<live, conns>>

(* updateUserConnection: the UPDATE, still invisible to everyone else.     *)
TxLock(w) ==
  /\ req[w].pc = "lock"
  /\ RowFree(req[w].conn)
  /\ req' = [req EXCEPT ![w].pc = "commit"]
  /\ UNCHANGED <<live, conns>>

(* userRepository.delete and the end of the transaction.                   *)
TxCommit(w) ==
  /\ req[w].pc = "commit"
  /\ conns' = IF req[w].conn = None
              THEN conns
              ELSE [conns EXCEPT ![req[w].conn] =
                      WithStatus(@, "DISCONNECTED")]
  /\ live' = IF req[w].leaves THEN live \ {req[w].user} ELSE live
  /\ req' = [req EXCEPT ![w] = Idle]

(* A request ends before its next statement: the server restarts, the      *)
(* connection to the database breaks, a transaction times out or one of    *)
(* its event handlers throws.  Nothing of an open transaction remains.     *)
Abort(w) ==
  /\ req[w] # Idle
  /\ req' = [req EXCEPT ![w] = Idle]
  /\ UNCHANGED <<live, conns>>
-----------------------------------------------------------------------------
(* A client sends a request. *)
Start(w) ==
  \E u \in Users :
    \/ \E p \in Users : CreateRead(w, u, p)
    \/ \E c \in Conns, s \in Answers : UpdateRead(w, u, c, s)
    \/ \E c \in Conns : DisconnectRead(w, u, c)
    \/ DeleteRead(w, u)

(* The server goes on with the request of w. *)
Step(w) ==
  \/ \E c \in Conns : CreateInsert(w, c)
  \/ UpdateReread(w)
  \/ UpdateWrite(w)
  \/ DisconnectFind(w)
  \/ TxLock(w)
  \/ TxCommit(w)

Next == \E w \in Workers : Start(w) \/ Step(w) \/ Abort(w)

Spec == Init /\ [][Next]_vars
(* The server goes on with a request it has started, and the lock queue of *)
(* the database serves those that wait for a row in turn.  Nothing makes   *)
(* clients send requests, or requests fail.                                *)
FairSpec == Spec /\ \A w \in Workers : SF_vars(Step(w))
-----------------------------------------------------------------------------
(* The types of the rows and the requests: a request hands on a row it has *)
(* read.                                                                   *)
TypeOK ==
  /\ live \subseteq Users
  /\ conns \in [Conns -> ConnRow \cup {None}]
  /\ req \in [Workers -> Request]

(* A row carries deletedAt exactly in the statuses changeStatus sets it    *)
(* for, although writers overwrite the whole row, deletedAt included, from *)
(* copies that may be out of date.  Every query that filters on            *)
(* "deletedAt: null" relies on it.                                         *)
DeletedIffTerminal ==
  \A c \in Conns :
    conns[c] # None => (conns[c].deleted <=> conns[c].status \in Terminal)

(* What a request keeps across its awaits: a row it is about to overwrite  *)
(* is there and is one its user may move that way, although the checks     *)
(* that said so were made on a copy and other requests have run since.     *)
HoldsRow(w) == req[w].conn \in Conns /\ conns[req[w].conn] # None

EntitledRequest(w) ==
  LET r == req[w]
      row == conns[r.conn]
  IN  /\ r.pc = "idle" => r = Idle
      /\ r.pc = "insert" => r.user \in Users /\ r.peer \in Users
      /\ r.pc = "find" => r.user \in Users /\ r.conn \in Conns
      /\ r.pc \in {"reread", "write"} =>
           /\ HoldsRow(w)
           /\ r.to \in Answers
           /\ r.user = IF r.to = "CANCELED" THEN row.requester
                       ELSE row.requested
      /\ r.pc = "lock" \/ (r.pc = "commit" /\ r.conn # None) =>
           HoldsRow(w) /\ isPartOfConnection(r.conn, r.user)

RequestsAreEntitled == \A w \in Workers : EntitledRequest(w)

(* Whatever the races, a row keeps its two users and never becomes PENDING *)
(* again, and its status is only moved by a request of the user the code   *)
(* entitles: the requested one accepts and rejects, the requester cancels, *)
(* either disconnects.                                                     *)
EntitledMove(c, u) ==
  LET old == conns[c]
      new == conns'[c]
  IN  /\ new.requester = old.requester /\ new.requested = old.requested
      /\ \/ new.status \in {"ACCEPTED", "REJECTED"} /\ u = old.requested
         \/ new.status = "CANCELED" /\ u = old.requester
         \/ new.status = "DISCONNECTED" /\ u \in {old.requester, old.requested}

EntitledMoves ==
  \A c \in Conns :
    conns[c] # None /\ conns'[c] # conns[c] =>
      \E w \in Workers : /\ req[w].pc \in {"write", "commit"}
                        /\ req[w].conn = c
                        /\ EntitledMove(c, req[w].user)

OnlyEntitledMoves == [][EntitledMoves]_vars

(* CAN_ONLY_UPDATE_PENDING_CONNECTION, "You can only update a pending      *)
(* connection": an answer is given to a row that is PENDING in the table.  *)
OnlyPendingIsAnswered ==
  [][\A c \in Conns :
       conns[c] # None /\ conns'[c] # conns[c]
         /\ conns'[c].status \in Answers => conns[c].status = "PENDING"]_conns

(* REQUESTER_ALREADY_SENT_PENDING_CONNECTION, "You already sent a pending  *)
(* connection": a user has at most one request out, and no two users have  *)
(* requests out to each other.                                             *)
OneRequestOut ==
  \A c, d \in Rows("PENDING") :
    c # d => /\ conns[c].requester # conns[d].requester
             /\ ~(conns[c].requester = conns[d].requested
                   /\ conns[c].requested = conns[d].requester)

(* REQUESTER_ALREADY_HAVE_CONNECTION, "You already have a connection": no  *)
(* user is part of two accepted connections.                               *)
OneAcceptedConnection ==
  \A c, d \in Rows("ACCEPTED") :
    c # d => {conns[c].requester, conns[c].requested}
               \cap {conns[d].requester, conns[d].requested} = {}

(* No request waits forever for a row another one has locked.              *)
EveryRequestEnds == \A w \in Workers : req[w] # Idle ~> req[w] = Idle

(* One request at a time, the table keeps the promise of the lifecycle.    *)
phaseOf == [c \in Conns |-> IF conns[c] = None THEN "NONE"
                            ELSE conns[c].status]

Lifecycle == INSTANCE ConnectionLifecycle WITH phase <- phaseOf

KeepsLifecycle == Lifecycle!Spec

=============================================================================
