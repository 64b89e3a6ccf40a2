------------------------ MODULE UserConnectionProofs ------------------------
(***************************************************************************)
(* What holds of UserConnection for every set of users, rows and requests  *)
(* in flight, with the proofs.                                             *)
(*                                                                         *)
(* The invariant is inductive only with RequestsAreEntitled: a write names *)
(* the row of its request, and nothing but that part says that the row is  *)
(* there when the write comes.                                             *)
(***************************************************************************)
EXTENDS UserConnection, TLAPS

IInv == TypeOK /\ DeletedIffTerminal /\ RequestsAreEntitled

(* The record a row becomes when its status is changed.                    *)
LEMMA WithStatusRow ==
  ASSUME NEW row \in ConnRow, NEW s \in Status
  PROVE  /\ WithStatus(row, s) \in ConnRow
         /\ WithStatus(row, s).status = s
         /\ WithStatus(row, s).deleted = (s \in Terminal)
         /\ WithStatus(row, s).requester = row.requester
         /\ WithStatus(row, s).requested = row.requested
  <1> DEFINE t == s \in Terminal
  <1>1. t \in BOOLEAN
    BY DEF Terminal
  <1>2. WithStatus(row, s) = [row EXCEPT !.status = s, !.deleted = t]
    BY DEF WithStatus
  <1> HIDE DEF t
  <1>3. /\ [row EXCEPT !.status = s, !.deleted = t] \in ConnRow
        /\ [row EXCEPT !.status = s, !.deleted = t].status = s
        /\ [row EXCEPT !.status = s, !.deleted = t].deleted = t
        /\ [row EXCEPT !.status = s, !.deleted = t].requester = row.requester
        /\ [row EXCEPT !.status = s, !.deleted = t].requested = row.requested
    BY <1>1 DEF ConnRow
  <1> QED BY <1>2, <1>3 DEF t

(* A server that has handled no request satisfies the invariant.           *)
LEMMA InitIInv == Init => IInv
  <1> SUFFICES ASSUME Init PROVE IInv
    OBVIOUS
  <1>1. Idle \in Request
    BY DEF Idle, Request
  <1>2. TypeOK
    BY <1>1 DEF Init, TypeOK
  <1>3. DeletedIffTerminal
    BY DEF Init, DeletedIffTerminal
  <1>4. RequestsAreEntitled
    BY DEF Init, RequestsAreEntitled, EntitledRequest, Idle
  <1> QED BY <1>2, <1>3, <1>4 DEF IInv

(* A step that leaves the table alone and gives one worker an entitled     *)
(* request keeps the invariant.                                            *)
LEMMA RequestStep ==
  ASSUME IInv, NEW w \in Workers, NEW r \in Request,
         live' \subseteq Users, conns' = conns,
         req' = [req EXCEPT ![w] = r], EntitledRequest(w)'
  PROVE  IInv'
  <1>1. TypeOK'
    BY DEF IInv, TypeOK
  <1>2. DeletedIffTerminal'
    BY DEF IInv, DeletedIffTerminal
  <1>3. ASSUME NEW v \in Workers, v # w
        PROVE  EntitledRequest(v)'
    <2>1. req'[v] = req[v]
      BY <1>3 DEF IInv, TypeOK
    <2>2. EntitledRequest(v)
      BY DEF IInv, RequestsAreEntitled
    <2> QED BY <2>1, <2>2 DEF EntitledRequest, HoldsRow, isPartOfConnection
  <1> QED BY <1>1, <1>2, <1>3 DEF IInv, RequestsAreEntitled

(* A step that ends one request and writes one row, of the same two users  *)
(* if it was there before, keeps the invariant.                            *)
LEMMA RowStep ==
  ASSUME IInv, NEW w \in Workers, NEW c \in Conns, NEW row \in ConnRow,
         conns[c] # None => /\ row.requester = conns[c].requester
                            /\ row.requested = conns[c].requested,
         row.deleted = (row.status \in Terminal),
         live' \subseteq Users,
         conns' = [conns EXCEPT ![c] = row], req' = [req EXCEPT ![w] = Idle]
  PROVE  IInv'
  <1> USE DEF IInv
  <1>1. TypeOK'
    BY DEF TypeOK, Request, Idle
  <1>2. DeletedIffTerminal'
    BY DEF TypeOK, DeletedIffTerminal
  <1>3. row # None
    BY NoneIsNoRow
  <1>4. ASSUME NEW v \in Workers
        PROVE  EntitledRequest(v)'
    <2>1. CASE v = w
      <3>1. req'[v] = Idle
        BY <2>1 DEF TypeOK
      <3> QED BY <3>1 DEF EntitledRequest, Idle
    <2>2. CASE v # w
      <3>1. req'[v] = req[v]
        BY <2>2 DEF TypeOK
      <3>2. EntitledRequest(v)
        BY DEF RequestsAreEntitled
      <3>3. ASSUME HoldsRow(v)
            PROVE  /\ HoldsRow(v)'
                   /\ conns'[req[v].conn].requester = conns[req[v].conn].requester
                   /\ conns'[req[v].conn].requested = conns[req[v].conn].requested
        BY <1>3, <3>1, <3>3 DEF HoldsRow, TypeOK
      <3> QED BY <3>1, <3>2, <3>3 DEF EntitledRequest, isPartOfConnection
    <2> QED BY <2>1, <2>2
  <1> QED BY <1>1, <1>2, <1>4 DEF RequestsAreEntitled

(* What the two writes of an existing row do to it.                        *)
LEMMA UpdateWriteMoves ==
  ASSUME IInv, NEW w \in Workers, UpdateWrite(w)
  PROVE  LET c == req[w].conn
             row == WithStatus(conns[c], req[w].to)
         IN  /\ c \in Conns /\ conns[c] \in ConnRow
             /\ req[w].to \in Answers
             /\ req[w].user = IF req[w].to = "CANCELED" THEN conns[c].requester
                              ELSE conns[c].requested
             /\ row \in ConnRow
             /\ conns' = [conns EXCEPT ![c] = row]
  <1> DEFINE c == req[w].conn
  <1>1. EntitledRequest(w) /\ req[w].pc = "write"
    BY DEF UpdateWrite, IInv, RequestsAreEntitled
  <1>2. /\ c \in Conns /\ conns[c] # None
        /\ req[w].to \in Answers
        /\ req[w].user = IF req[w].to = "CANCELED" THEN conns[c].requester
                         ELSE conns[c].requested
    BY <1>1 DEF EntitledRequest, HoldsRow
  <1>3. conns[c] \in ConnRow
    BY <1>2 DEF IInv, TypeOK
  <1>4. WithStatus(conns[c], req[w].to) \in ConnRow
    BY <1>2, <1>3, WithStatusRow DEF Answers, Status
  <1>5. conns' = [conns EXCEPT ![c] = WithStatus(conns[c], req[w].to)]
    BY DEF UpdateWrite
  <1> QED BY <1>2, <1>3, <1>4, <1>5

(* The commit of a disconnect or of a delete user sets the row it locked to*)
(* DISCONNECTED, for one of its two users.                                 *)
LEMMA TxCommitMoves ==
  ASSUME IInv, NEW w \in Workers, TxCommit(w), req[w].conn # None
  PROVE  LET c == req[w].conn
             row == WithStatus(conns[c], "DISCONNECTED")
         IN  /\ c \in Conns /\ conns[c] \in ConnRow
             /\ req[w].user \in {conns[c].requester, conns[c].requested}
             /\ row \in ConnRow
             /\ conns' = [conns EXCEPT ![c] = row]
  <1> DEFINE c == req[w].conn
  <1>1. EntitledRequest(w) /\ req[w].pc = "commit"
    BY DEF TxCommit, IInv, RequestsAreEntitled
  <1>2. /\ c \in Conns /\ conns[c] # None
        /\ req[w].user \in {conns[c].requester, conns[c].requested}
    BY <1>1 DEF EntitledRequest, HoldsRow, isPartOfConnection
  <1>3. conns[c] \in ConnRow
    BY <1>2 DEF IInv, TypeOK
  <1>4. WithStatus(conns[c], "DISCONNECTED") \in ConnRow
    BY <1>3, WithStatusRow DEF Status
  <1>5. conns' = [conns EXCEPT ![c] = WithStatus(conns[c], "DISCONNECTED")]
    BY DEF TxCommit
  <1> QED BY <1>2, <1>3, <1>4, <1>5

(* Every step of every request keeps the invariant.                        *)
LEMMA NextIInv == IInv /\ [Next]_vars => IInv'
  <1> SUFFICES ASSUME IInv, [Next]_vars PROVE IInv'
    OBVIOUS
  <1> USE DEF Request
  <1>1. ASSUME NEW w \in Workers, NEW u \in Users, NEW p \in Users,
               CreateRead(w, u, p)
        PROVE  IInv'
    <2> DEFINE r == [Idle EXCEPT !.pc = "insert", !.user = u, !.peer = p]
    <2>1. /\ r \in Request /\ r.pc = "insert" /\ r.user = u /\ r.peer = p
      BY DEF Idle
    <2>2. req' = [req EXCEPT ![w] = r] /\ conns' = conns /\ live' = live
      BY <1>1 DEF CreateRead
    <2>3. EntitledRequest(w)'
      BY <2>1, <2>2 DEF EntitledRequest, IInv, TypeOK
    <2> QED BY <2>1, <2>2, <2>3, RequestStep DEF IInv, TypeOK
  <1>2. ASSUME NEW w \in Workers, NEW c \in Conns, CreateInsert(w, c)
        PROVE  IInv'
    <2> DEFINE row == [requester |-> req[w].user, requested |-> req[w].peer,
                       status |-> "PENDING", deleted |-> FALSE]
    <2>1. req[w].user \in Users /\ req[w].peer \in Users
      BY <1>2 DEF CreateInsert, IInv, RequestsAreEntitled, EntitledRequest
    <2>2. row \in ConnRow
      BY <2>1 DEF ConnRow, Status
    <2>3. row.deleted = (row.status \in Terminal)
      <3>1. row.deleted = FALSE /\ row.status = "PENDING"
        OBVIOUS
      <3>2. ("PENDING" \in Terminal) = FALSE
        BY DEF Terminal
      <3> QED BY <3>1, <3>2
    <2>4. /\ conns[c] = None /\ live' = live
          /\ conns' = [conns EXCEPT ![c] = row]
          /\ req' = [req EXCEPT ![w] = Idle]
      BY <1>2 DEF CreateInsert
    <2> QED BY <2>2, <2>3, <2>4, RowStep DEF IInv, TypeOK
  <1>3. ASSUME NEW w \in Workers, NEW u \in Users, NEW c \in Conns,
               NEW s \in Answers, UpdateRead(w, u, c, s)
        PROVE  IInv'
    <2> DEFINE r == [Idle EXCEPT !.pc = "reread", !.user = u, !.conn = c,
                                 !.to = s]
    <2>1. /\ r \in Request /\ r.pc = "reread"
          /\ r.user = u /\ r.conn = c /\ r.to = s
      BY DEF Idle
    <2>2. req' = [req EXCEPT ![w] = r] /\ conns' = conns /\ live' = live
      BY <1>3 DEF UpdateRead
    <2>3. conns[c] # None
      BY <1>3 DEF UpdateRead, requestedPendingConnections,
                  sentPendingConnections, Rows
    <2>4. u = IF s = "CANCELED" THEN conns[c].requester ELSE conns[c].requested
      BY <1>3 DEF UpdateRead, MayAnswer, Answers
    <2>5. req'[w] = r
      BY <2>2 DEF IInv, TypeOK
    <2> HIDE DEF r
    <2>6. EntitledRequest(w)'
      BY <2>1, <2>2, <2>3, <2>4, <2>5 DEF EntitledRequest, HoldsRow
    <2> QED BY <2>1, <2>2, <2>6, RequestStep DEF IInv, TypeOK
  <1>4. ASSUME NEW w \in Workers, UpdateReread(w)
        PROVE  IInv'
    <2>1. PICK r \in {[req[w] EXCEPT !.pc = "write"], Idle} :
            req' = [req EXCEPT ![w] = r] /\ conns' = conns /\ live' = live
      BY <1>4 DEF UpdateReread
    <2>2. r \in Request
      <3>1. Idle \in Request
        BY DEF Idle
      <3>2. [req[w] EXCEPT !.pc = "write"] \in Request
        BY DEF IInv, TypeOK
      <3> QED BY <2>1, <3>1, <3>2
    <2>3. EntitledRequest(w) /\ req[w].pc = "reread"
      BY <1>4 DEF UpdateReread, IInv, RequestsAreEntitled
    <2>4. req'[w] = r
      BY <2>1 DEF IInv, TypeOK
    <2>5. EntitledRequest(w)'
      BY <2>1, <2>3, <2>4 DEF EntitledRequest, HoldsRow, Idle, IInv, TypeOK
    <2> QED BY <2>1, <2>2, <2>5, RequestStep DEF IInv, TypeOK
  <1>5. ASSUME NEW w \in Workers, UpdateWrite(w)
        PROVE  IInv'
    <2> DEFINE c == req[w].conn
               row == WithStatus(conns[c], req[w].to)
    <2>1. /\ c \in Conns /\ conns[c] \in ConnRow /\ req[w].to \in Status
          /\ row \in ConnRow /\ conns' = [conns EXCEPT ![c] = row]
      BY <1>5, UpdateWriteMoves DEF Answers, Status
    <2>2. /\ row.requester = conns[c].requester
          /\ row.requested = conns[c].requested
          /\ row.deleted = (row.status \in Terminal)
      BY <2>1, WithStatusRow
    <2>3. req' = [req EXCEPT ![w] = Idle] /\ live' = live
      BY <1>5 DEF UpdateWrite
    <2> HIDE DEF c, row
    <2> QED BY <2>1, <2>2, <2>3, RowStep DEF IInv, TypeOK
  <1>6. ASSUME NEW w \in Workers, NEW u \in Users, NEW c \in Conns,
               DisconnectRead(w, u, c)
        PROVE  IInv'
    <2> DEFINE r == [Idle EXCEPT !.pc = "find", !.user = u, !.conn = c]
    <2>1. r \in Request /\ r.pc = "find" /\ r.user = u /\ r.conn = c
      BY DEF Idle
    <2>2. req' = [req EXCEPT ![w] = r] /\ conns' = conns /\ live' = live
      BY <1>6 DEF DisconnectRead
    <2>3. EntitledRequest(w)'
      BY <2>1, <2>2 DEF EntitledRequest, IInv, TypeOK
    <2> QED BY <2>1, <2>2, <2>3, RequestStep DEF IInv, TypeOK
  <1>7. ASSUME NEW w \in Workers, DisconnectFind(w)
        PROVE  IInv'
    <2> DEFINE c == req[w].conn
    <2>1. conns' = conns /\ live' = live /\ req[w].pc = "find"
      BY <1>7 DEF DisconnectFind
    <2>2. CASE req' = [req EXCEPT ![w] = Idle]
      <3>1. Idle \in Request /\ req'[w] = Idle
        BY <2>2 DEF Idle, IInv, TypeOK
      <3>2. EntitledRequest(w)'
        BY <3>1 DEF EntitledRequest, Idle
      <3> QED BY <2>1, <2>2, <3>1, <3>2, RequestStep DEF IInv, TypeOK
    <2>3. CASE /\ req' = [req EXCEPT ![w] = [req[w] EXCEPT !.pc = "lock"]]
               /\ findOneByIdAndStatus(c, "ACCEPTED")
               /\ isPartOfConnection(c, req[w].user)
      <3>1. c \in Conns /\ conns[c] # None
        BY <2>3 DEF findOneByIdAndStatus, Rows
      <3>2. [req[w] EXCEPT !.pc = "lock"] \in Request
        BY DEF IInv, TypeOK
      <3>3. EntitledRequest(w)'
        BY <2>1, <2>3, <3>1
        DEF EntitledRequest, HoldsRow, isPartOfConnection, IInv, TypeOK
      <3> QED BY <2>1, <2>3, <3>2, <3>3, RequestStep DEF IInv, TypeOK
    <2> QED BY <1>7, <2>2, <2>3 DEF DisconnectFind
  <1>8. ASSUME NEW w \in Workers, NEW u \in Users, DeleteRead(w, u)
        PROVE  IInv'
    <2> DEFINE next == [Idle EXCEPT !.user = u, !.leaves = TRUE]
    <2>1. conns' = conns /\ live' = live
      BY <1>8 DEF DeleteRead
    <2>2. CASE req' = [req EXCEPT ![w] = [next EXCEPT !.pc = "commit"]]
      <3>1. [next EXCEPT !.pc = "commit"] \in Request
        BY DEF Idle
      <3>2. EntitledRequest(w)'
        BY <2>2 DEF EntitledRequest, Idle, IInv, TypeOK
      <3> QED BY <2>1, <2>2, <3>1, <3>2, RequestStep DEF IInv, TypeOK
    <2>3. ASSUME NEW c \in acceptedConnections(u),
                 req' = [req EXCEPT ![w] = [next EXCEPT !.pc = "lock",
                                                        !.conn = c]]
          PROVE  IInv'
      <3> DEFINE r == [next EXCEPT !.pc = "lock", !.conn = c]
      <3>1. /\ c \in Conns /\ conns[c] # None
            /\ isPartOfConnection(c, u)
        BY DEF acceptedConnections, Rows, isPartOfConnection
      <3>2. r \in Request /\ r.pc = "lock" /\ r.user = u /\ r.conn = c
        BY <3>1 DEF Idle
      <3>3. req'[w] = r
        BY <2>3 DEF IInv, TypeOK
      <3>4. EntitledRequest(w)'
        BY <2>1, <3>1, <3>2, <3>3
        DEF EntitledRequest, HoldsRow, isPartOfConnection
      <3> QED BY <2>1, <2>3, <3>2, <3>4, RequestStep DEF IInv, TypeOK
    <2> QED BY <1>8, <2>2, <2>3 DEF DeleteRead
  <1>9. ASSUME NEW w \in Workers, TxLock(w)
        PROVE  IInv'
    <2> DEFINE r == [req[w] EXCEPT !.pc = "commit"]
    <2>1. /\ req' = [req EXCEPT ![w] = r] /\ conns' = conns /\ live' = live
          /\ req[w].pc = "lock"
      BY <1>9 DEF TxLock
    <2>2. r \in Request /\ r.pc = "commit" /\ r.user = req[w].user
          /\ r.conn = req[w].conn
      BY DEF IInv, TypeOK
    <2>3. req'[w] = r
      BY <2>1 DEF IInv, TypeOK
    <2>4. EntitledRequest(w)
      BY DEF IInv, RequestsAreEntitled
    <2>5. EntitledRequest(w)'
      BY <2>1, <2>2, <2>3, <2>4
      DEF EntitledRequest, HoldsRow, isPartOfConnection
    <2> QED BY <2>1, <2>2, <2>5, RequestStep DEF IInv, TypeOK
  <1>10. ASSUME NEW w \in Workers, TxCommit(w)
         PROVE  IInv'
    <2>1. req' = [req EXCEPT ![w] = Idle] /\ live' \subseteq Users
      BY <1>10 DEF TxCommit, IInv, TypeOK
    <2>2. CASE req[w].conn = None
      <3>1. Idle \in Request /\ req'[w] = Idle /\ conns' = conns
        BY <1>10, <2>1, <2>2 DEF TxCommit, Idle, IInv, TypeOK
      <3>2. EntitledRequest(w)'
        BY <3>1 DEF EntitledRequest, Idle
      <3> QED BY <2>1, <3>1, <3>2, RequestStep
    <2>3. CASE req[w].conn # None
      <3> DEFINE c == req[w].conn
                 row == WithStatus(conns[c], "DISCONNECTED")
      <3>1. /\ c \in Conns /\ conns[c] \in ConnRow
            /\ row \in ConnRow /\ conns' = [conns EXCEPT ![c] = row]
        BY <1>10, <2>3, TxCommitMoves
      <3>2. /\ row.requester = conns[c].requester
            /\ row.requested = conns[c].requested
            /\ row.deleted = (row.status \in Terminal)
        BY <3>1, WithStatusRow DEF Status
      <3> HIDE DEF c, row
      <3> QED BY <2>1, <3>1, <3>2, RowStep
    <2> QED BY <2>2, <2>3
  <1>11. ASSUME NEW w \in Workers, Abort(w)
         PROVE  IInv'
    <2>1. Idle \in Request
      BY DEF Idle
    <2>2. req' = [req EXCEPT ![w] = Idle] /\ conns' = conns /\ live' = live
      BY <1>11 DEF Abort
    <2>3. EntitledRequest(w)'
      BY <2>2 DEF EntitledRequest, Idle, IInv, TypeOK
    <2> QED BY <2>1, <2>2, <2>3, RequestStep DEF IInv, TypeOK
  <1>12. CASE UNCHANGED vars
    BY <1>12 DEF vars, IInv, TypeOK, DeletedIffTerminal, RequestsAreEntitled,
                 EntitledRequest, HoldsRow, isPartOfConnection
  <1> QED
    BY <1>1, <1>2, <1>3, <1>4, <1>5, <1>6, <1>7, <1>8, <1>9, <1>10, <1>11,
       <1>12
    DEF Next, Start, Step

(* For any number of users, rows and requests in flight, every state       *)
(* reachable by the four handlers satisfies the inductive invariant.       *)
THEOREM InvariantHolds == Spec => []IInv
  BY InitIInv, NextIInv, PTL DEF Spec

(* For any number of requests in flight the variables keep their types:    *)
(* no handler writes a row that is not there or passes on a value it never *)
(* read.                                                                   *)
THEOREM TypeCorrect == Spec => []TypeOK
  <1>1. IInv => TypeOK
    BY DEF IInv
  <1> QED BY <1>1, InvariantHolds, PTL

(* For any number of requests in flight, deletedAt and status agree.       *)
THEOREM DeletedMeansTerminal == Spec => []DeletedIffTerminal
  <1>1. IInv => DeletedIffTerminal
    BY DEF IInv
  <1> QED BY <1>1, InvariantHolds, PTL

(* For any number of requests in flight, what a request is about to write  *)
(* is a row it is entitled to.                                             *)
THEOREM Entitled == Spec => []RequestsAreEntitled
  <1>1. IInv => RequestsAreEntitled
    BY DEF IInv
  <1> QED BY <1>1, InvariantHolds, PTL

(* Only two statements change a row that is there.                         *)
LEMMA WhoWrites ==
  ASSUME TypeOK, Next, NEW c \in Conns, conns[c] # None, conns'[c] # conns[c]
  PROVE  \E w \in Workers : UpdateWrite(w) \/ TxCommit(w)
  <1>1. PICK w \in Workers : Start(w) \/ Step(w) \/ Abort(w)
    BY DEF Next
  <1>2. conns' # conns
    OBVIOUS
  <1>3. ~Start(w)
    BY <1>2 DEF Start, CreateRead, UpdateRead, DisconnectRead, DeleteRead
  <1>4. ~Abort(w)
    BY <1>2 DEF Abort
  <1>5. ASSUME NEW d \in Conns, CreateInsert(w, d)
        PROVE  FALSE
    <2>1. c # d
      BY <1>5 DEF CreateInsert
    <2> QED BY <1>5, <2>1 DEF CreateInsert, TypeOK
  <1>6. ~UpdateReread(w) /\ ~DisconnectFind(w) /\ ~TxLock(w)
    BY <1>2 DEF UpdateReread, DisconnectFind, TxLock
  <1> QED BY <1>1, <1>3, <1>4, <1>5, <1>6 DEF Step

(* A step that changes a row is the write of a request entitled to it.     *)
LEMMA NextEntitledMoves == IInv /\ Next => EntitledMoves
  <1> SUFFICES ASSUME IInv, Next,
                      NEW c \in Conns, conns[c] # None, conns'[c] # conns[c]
               PROVE  \E w \in Workers : /\ req[w].pc \in {"write", "commit"}
                                        /\ req[w].conn = c
                                        /\ EntitledMove(c, req[w].user)
    BY DEF EntitledMoves
  <1>1. PICK w \in Workers : UpdateWrite(w) \/ TxCommit(w)
    BY WhoWrites DEF IInv
  <1>2. CASE UpdateWrite(w)
    <2> DEFINE d == req[w].conn
               row == WithStatus(conns[d], req[w].to)
    <2>1. /\ d \in Conns /\ conns[d] \in ConnRow
          /\ req[w].to \in Answers
          /\ req[w].user = IF req[w].to = "CANCELED" THEN conns[d].requester
                           ELSE conns[d].requested
          /\ conns' = [conns EXCEPT ![d] = row]
      BY <1>2, UpdateWriteMoves
    <2>2. d = c /\ conns'[c] = row
      BY <2>1 DEF IInv, TypeOK
    <2>3. /\ row.status = req[w].to
          /\ row.requester = conns[c].requester
          /\ row.requested = conns[c].requested
      BY <2>1, <2>2, WithStatusRow DEF Answers, Status
    <2>4. EntitledMove(c, req[w].user)
      BY <2>1, <2>2, <2>3 DEF EntitledMove, Answers
    <2> QED BY <1>2, <2>2, <2>4 DEF UpdateWrite
  <1>3. CASE TxCommit(w)
    <2> DEFINE d == req[w].conn
               row == WithStatus(conns[d], "DISCONNECTED")
    <2>1. d # None
      BY <1>3 DEF TxCommit
    <2>2. /\ d \in Conns /\ conns[d] \in ConnRow
          /\ req[w].user \in {conns[d].requester, conns[d].requested}
          /\ conns' = [conns EXCEPT ![d] = row]
      BY <1>3, <2>1, TxCommitMoves
    <2>3. d = c /\ conns'[c] = row
      BY <2>2 DEF IInv, TypeOK
    <2>4. /\ row.status = "DISCONNECTED"
          /\ row.requester = conns[c].requester
          /\ row.requested = conns[c].requested
      BY <2>2, <2>3, WithStatusRow DEF Status
    <2>5. EntitledMove(c, req[w].user)
      BY <2>2, <2>3, <2>4 DEF EntitledMove
    <2> QED BY <1>3, <2>3, <2>5 DEF TxCommit
  <1> QED BY <1>1, <1>2, <1>3

(* For any number of requests in flight, no race lets a user move a row in *)
(* a way processConnectionRequest or isPartOf would refuse that user.      *)
THEOREM EntitledMovesOnly == Spec => OnlyEntitledMoves
  <1>1. IInv /\ [Next]_vars => [EntitledMoves]_vars
    BY NextEntitledMoves
  <1> QED BY <1>1, InvariantHolds, PTL DEF Spec, OnlyEntitledMoves
-----------------------------------------------------------------------------
(***************************************************************************)
(* What UserConnection promises when requests do not overlap: the rows     *)
(* follow ConnectionLifecycle, and a user has one request out.  Both fail  *)
(* as soon as two requests are in flight; what a request has read is then  *)
(* no longer true of the table, and that is all the proof needs beyond     *)
(* IInv.                                                                   *)
(***************************************************************************)
OneAtATime == \A v, w \in Workers : v = w

(* What the request of w has read still holds.                             *)
ReadsAreCurrent(w) ==
  LET r == req[w]
  IN  /\ r.pc = "insert" =>
           /\ sentPendingConnections(r.user) = {}
           /\ sentPendingConnections(r.peer)
                \cap requestedPendingConnections(r.user) = {}
      /\ r.pc \in {"reread", "write"} => conns[r.conn].status = "PENDING"
      /\ r.pc = "lock" \/ (r.pc = "commit" /\ r.conn # None) =>
           conns[r.conn].status = "ACCEPTED"

SerialInv == (\A w \in Workers : ReadsAreCurrent(w)) /\ OneRequestOut

(* A step that leaves the table alone keeps the requests that are out.     *)
LEMMA SerialRead ==
  ASSUME OneAtATime, SerialInv, NEW w \in Workers, conns' = conns,
         ReadsAreCurrent(w)'
  PROVE  SerialInv'
  <1>1. OneRequestOut'
    BY DEF SerialInv, OneRequestOut, Rows
  <1>2. ASSUME NEW v \in Workers PROVE ReadsAreCurrent(v)'
    BY DEF OneAtATime
  <1> QED BY <1>1, <1>2 DEF SerialInv

(* A step that writes a row ends the only request.                         *)
LEMMA SerialWrite ==
  ASSUME OneAtATime, TypeOK, NEW w \in Workers,
         req' = [req EXCEPT ![w] = Idle], OneRequestOut'
  PROVE  SerialInv'
  <1>1. ASSUME NEW v \in Workers PROVE ReadsAreCurrent(v)'
    <2>1. v = w
      BY DEF OneAtATime
    <2>2. req'[v] = Idle
      BY <2>1 DEF TypeOK
    <2> QED BY <2>2 DEF ReadsAreCurrent, Idle
  <1> QED BY <1>1 DEF SerialInv

(* A row that leaves PENDING leaves fewer requests out.                    *)
LEMMA AnsweredRow ==
  ASSUME TypeOK, OneRequestOut, NEW c \in Conns, NEW row \in ConnRow,
         row.status # "PENDING", conns' = [conns EXCEPT ![c] = row]
  PROVE  OneRequestOut'
  <1>1. ASSUME NEW d \in Rows("PENDING")'
        PROVE  d \in Rows("PENDING") /\ conns'[d] = conns[d]
    BY <1>1 DEF Rows, TypeOK
  <1> QED BY <1>1 DEF OneRequestOut

(* An empty table with no request running satisfies the invariant.         *)
LEMMA InitSerial == Init => SerialInv
  BY DEF Init, SerialInv, ReadsAreCurrent, OneRequestOut, Rows, Idle

(* With one request at a time every step keeps the serial invariant.       *)
LEMMA NextSerial ==
  ASSUME OneAtATime, IInv, SerialInv, [Next]_vars
  PROVE  SerialInv'
  <1> USE DEF IInv
  <1>1. ASSUME NEW w \in Workers, NEW u \in Users, NEW p \in Users,
               CreateRead(w, u, p)
        PROVE  SerialInv'
    <2> DEFINE r == [Idle EXCEPT !.pc = "insert", !.user = u, !.peer = p]
    <2>1. r.pc = "insert" /\ r.user = u /\ r.peer = p
      BY DEF Idle
    <2>2. req'[w] = r /\ conns' = conns
      BY <1>1 DEF CreateRead, TypeOK
    <2>3. /\ sentPendingConnections(u) = {}
          /\ sentPendingConnections(p) \cap requestedPendingConnections(u) = {}
      BY <1>1 DEF CreateRead
    <2> HIDE DEF r
    <2>4. ReadsAreCurrent(w)'
      BY <2>1, <2>2, <2>3
      DEF ReadsAreCurrent, sentPendingConnections,
          requestedPendingConnections, Rows
    <2> QED BY <2>2, <2>4, SerialRead
  <1>2. ASSUME NEW w \in Workers, NEW c \in Conns, CreateInsert(w, c)
        PROVE  SerialInv'
    <2> DEFINE u == req[w].user
               p == req[w].peer
    <2>1. /\ conns[c] = None /\ req' = [req EXCEPT ![w] = Idle]
          /\ conns'[c] = [requester |-> u, requested |-> p,
                          status |-> "PENDING", deleted |-> FALSE]
          /\ \A d \in Conns : d # c => conns'[d] = conns[d]
      BY <1>2 DEF CreateInsert, TypeOK
    <2>2. /\ sentPendingConnections(u) = {}
          /\ sentPendingConnections(p) \cap requestedPendingConnections(u) = {}
      BY <1>2 DEF CreateInsert, SerialInv, ReadsAreCurrent
    <2>3. conns'[c].requester = u /\ conns'[c].requested = p
      BY <2>1
    <2> HIDE DEF u, p
    <2>4. ASSUME NEW d \in Rows("PENDING")', d # c
          PROVE  /\ d \in Rows("PENDING") /\ conns'[d] = conns[d]
                 /\ conns[d].requester # u
                 /\ ~(conns[d].requester = p /\ conns[d].requested = u)
      <3>1. d \in Rows("PENDING") /\ conns'[d] = conns[d]
        BY <2>1, <2>4 DEF Rows
      <3> QED BY <2>2, <3>1
              DEF sentPendingConnections, requestedPendingConnections
    <2>5. OneRequestOut'
      BY <2>3, <2>4 DEF OneRequestOut, SerialInv
    <2> QED BY <2>1, <2>5, SerialWrite
  <1>3. ASSUME NEW w \in Workers, NEW u \in Users, NEW c \in Conns,
               NEW s \in Answers, UpdateRead(w, u, c, s)
        PROVE  SerialInv'
    <2> DEFINE r == [Idle EXCEPT !.pc = "reread", !.user = u, !.conn = c,
                                 !.to = s]
    <2>1. r.pc = "reread" /\ r.conn = c
      BY DEF Idle
    <2>2. req'[w] = r /\ conns' = conns
      BY <1>3 DEF UpdateRead, TypeOK
    <2>3. conns[c].status = "PENDING"
      BY <1>3 DEF UpdateRead, requestedPendingConnections,
                  sentPendingConnections, Rows
    <2> HIDE DEF r
    <2>4. ReadsAreCurrent(w)'
      BY <2>1, <2>2, <2>3 DEF ReadsAreCurrent
    <2> QED BY <2>2, <2>4, SerialRead
  <1>4. ASSUME NEW w \in Workers, UpdateReread(w)
        PROVE  SerialInv'
    <2>1. req[w].pc = "reread" /\ conns[req[w].conn].status = "PENDING"
      BY <1>4 DEF UpdateReread, SerialInv, ReadsAreCurrent
    <2>2. conns' = conns /\ (req'[w] = Idle
                             \/ req'[w] = [req[w] EXCEPT !.pc = "write"])
      BY <1>4 DEF UpdateReread, TypeOK
    <2>3. req'[w].pc = "idle" \/ (/\ req'[w].pc = "write"
                                  /\ req'[w].conn = req[w].conn)
      BY <2>2 DEF Idle, TypeOK, Request
    <2>4. ReadsAreCurrent(w)'
      BY <2>1, <2>2, <2>3 DEF ReadsAreCurrent
    <2> QED BY <2>2, <2>4, SerialRead
  <1>5. ASSUME NEW w \in Workers, UpdateWrite(w)
        PROVE  SerialInv'
    <2> DEFINE c == req[w].conn
               row == WithStatus(conns[c], req[w].to)
    <2>1. /\ c \in Conns /\ conns[c] \in ConnRow /\ req[w].to \in Answers
          /\ row \in ConnRow /\ conns' = [conns EXCEPT ![c] = row]
      BY <1>5, UpdateWriteMoves
    <2>2. row.status = req[w].to
      BY <2>1, WithStatusRow DEF Answers, Status
    <2>3. req' = [req EXCEPT ![w] = Idle]
      BY <1>5 DEF UpdateWrite
    <2>4. row.status # "PENDING"
      BY <2>1, <2>2 DEF Answers
    <2> HIDE DEF c, row
    <2>5. OneRequestOut'
      BY <2>1, <2>4, AnsweredRow DEF SerialInv
    <2> QED BY <2>3, <2>5, SerialWrite
  <1>6. ASSUME NEW w \in Workers, NEW u \in Users, NEW c \in Conns,
               DisconnectRead(w, u, c)
        PROVE  SerialInv'
    <2> DEFINE r == [Idle EXCEPT !.pc = "find", !.user = u, !.conn = c]
    <2>1. r.pc = "find"
      BY DEF Idle
    <2>2. req'[w] = r /\ conns' = conns
      BY <1>6 DEF DisconnectRead, TypeOK
    <2> HIDE DEF r
    <2>3. ReadsAreCurrent(w)'
      BY <2>1, <2>2 DEF ReadsAreCurrent
    <2> QED BY <2>2, <2>3, SerialRead
  <1>7. ASSUME NEW w \in Workers, DisconnectFind(w)
        PROVE  SerialInv'
    <2>1. conns' = conns
      BY <1>7 DEF DisconnectFind
    <2>2. \/ req'[w] = Idle
          \/ /\ req'[w] = [req[w] EXCEPT !.pc = "lock"]
             /\ conns[req[w].conn].status = "ACCEPTED"
      BY <1>7 DEF DisconnectFind, findOneByIdAndStatus, Rows, TypeOK
    <2>3. \/ req'[w].pc = "idle"
          \/ /\ req'[w].pc = "lock" /\ req'[w].conn = req[w].conn
             /\ conns[req[w].conn].status = "ACCEPTED"
      BY <2>2 DEF Idle, TypeOK, Request
    <2>4. ReadsAreCurrent(w)'
      BY <2>1, <2>3 DEF ReadsAreCurrent
    <2> QED BY <2>1, <2>4, SerialRead
  <1>8. ASSUME NEW w \in Workers, NEW u \in Users, DeleteRead(w, u)
        PROVE  SerialInv'
    <2>1. conns' = conns
      BY <1>8 DEF DeleteRead
    <2>2. \/ req'[w].pc = "commit" /\ req'[w].conn = None
          \/ \E c \in acceptedConnections(u) :
               req'[w].pc = "lock" /\ req'[w].conn = c
      BY <1>8 DEF DeleteRead, Idle, TypeOK
    <2>3. \A c \in acceptedConnections(u) : conns[c].status = "ACCEPTED"
      BY DEF acceptedConnections, Rows
    <2>4. ReadsAreCurrent(w)'
      BY <2>1, <2>2, <2>3 DEF ReadsAreCurrent
    <2> QED BY <2>1, <2>4, SerialRead
  <1>9. ASSUME NEW w \in Workers, TxLock(w)
        PROVE  SerialInv'
    <2>1. /\ conns' = conns /\ req'[w].pc = "commit"
          /\ req'[w].conn = req[w].conn
      BY <1>9 DEF TxLock, TypeOK, Request
    <2>2. conns[req[w].conn].status = "ACCEPTED"
      BY <1>9 DEF TxLock, SerialInv, ReadsAreCurrent
    <2>3. ReadsAreCurrent(w)'
      BY <2>1, <2>2 DEF ReadsAreCurrent
    <2> QED BY <2>1, <2>3, SerialRead
  <1>10. ASSUME NEW w \in Workers, TxCommit(w)
         PROVE  SerialInv'
    <2>1. req' = [req EXCEPT ![w] = Idle]
      BY <1>10 DEF TxCommit
    <2>2. CASE req[w].conn = None
      <3>1. conns' = conns
        BY <1>10, <2>2 DEF TxCommit
      <3>2. OneRequestOut'
        BY <3>1 DEF SerialInv, OneRequestOut, Rows
      <3> QED BY <2>1, <3>2, SerialWrite
    <2>3. CASE req[w].conn # None
      <3> DEFINE c == req[w].conn
                 row == WithStatus(conns[c], "DISCONNECTED")
      <3>1. /\ c \in Conns /\ conns[c] \in ConnRow
            /\ row \in ConnRow /\ conns' = [conns EXCEPT ![c] = row]
        BY <1>10, <2>3, TxCommitMoves
      <3>2. row.status # "PENDING"
        BY <3>1, WithStatusRow DEF Status
      <3> HIDE DEF c, row
      <3>3. OneRequestOut'
        BY <3>1, <3>2, AnsweredRow DEF SerialInv
      <3> QED BY <2>1, <3>3, SerialWrite
    <2> QED BY <2>2, <2>3
  <1>11. ASSUME NEW w \in Workers, Abort(w)
         PROVE  SerialInv'
    <2>1. conns' = conns /\ req'[w] = Idle
      BY <1>11 DEF Abort, TypeOK
    <2>2. ReadsAreCurrent(w)'
      BY <2>1 DEF ReadsAreCurrent, Idle
    <2> QED BY <2>1, <2>2, SerialRead
  <1>12. CASE UNCHANGED vars
    BY <1>12 DEF vars, SerialInv, ReadsAreCurrent, OneRequestOut, Rows,
                 sentPendingConnections, requestedPendingConnections
  <1> QED
    BY <1>1, <1>2, <1>3, <1>4, <1>5, <1>6, <1>7, <1>8, <1>9, <1>10, <1>11,
       <1>12
    DEF Next, Start, Step

(* When requests do not overlap, no user has two requests out and no two   *)
(* users have requests out to each other, which is what the three checks   *)
(* of CreateUserConnectionCommandHandler are for.                          *)
THEOREM SerialOneRequestOut ==
  ASSUME OneAtATime PROVE Spec => []OneRequestOut
  <1>1. Init => IInv /\ SerialInv
    BY InitIInv, InitSerial
  <1>2. IInv /\ SerialInv /\ [Next]_vars => IInv' /\ SerialInv'
    BY NextIInv, NextSerial
  <1>3. SerialInv => OneRequestOut
    BY DEF SerialInv
  <1> QED BY <1>1, <1>2, <1>3, PTL DEF Spec
-----------------------------------------------------------------------------
(* A write of row c is a change of the phase of c and of no other.         *)
LEMMA PhaseStep ==
  ASSUME TypeOK, NEW c \in Conns, NEW row \in ConnRow,
         conns' = [conns EXCEPT ![c] = row]
  PROVE  phaseOf' = [phaseOf EXCEPT ![c] = row.status]
  BY NoneIsNoRow DEF TypeOK, phaseOf

(* The empty table maps to the initial state of the lifecycle.             *)
LEMMA InitLifecycle == Init => Lifecycle!Init
  BY DEF Init, Lifecycle!Init, phaseOf

(* Every step of the handlers is a step of the lifecycle or stutters.      *)
LEMMA NextLifecycle ==
  ASSUME OneAtATime, IInv, SerialInv, [Next]_vars
  PROVE  [Lifecycle!Next]_phaseOf
  <1>1. CASE conns' = conns
    BY <1>1 DEF phaseOf
  <1>2. CASE conns' # conns
    <2>1. PICK w \in Workers : Start(w) \/ Step(w) \/ Abort(w)
      BY <1>2 DEF Next, vars
    <2>2. ~Start(w) /\ ~Abort(w)
      BY <1>2 DEF Start, CreateRead, UpdateRead, DisconnectRead, DeleteRead,
                  Abort
    <2>3. ASSUME NEW c \in Conns, CreateInsert(w, c)
          PROVE  Lifecycle!Request(c)
      <3> DEFINE row == [requester |-> req[w].user, requested |-> req[w].peer,
                         status |-> "PENDING", deleted |-> FALSE]
      <3>1. req[w].user \in Users /\ req[w].peer \in Users
        BY <2>3 DEF CreateInsert, IInv, RequestsAreEntitled, EntitledRequest
      <3>2. row \in ConnRow /\ row.status = "PENDING"
        BY <3>1 DEF ConnRow, Status
      <3>3. conns[c] = None /\ conns' = [conns EXCEPT ![c] = row]
        BY <2>3 DEF CreateInsert
      <3> HIDE DEF row
      <3>4. phaseOf' = [phaseOf EXCEPT ![c] = "PENDING"]
        BY <3>2, <3>3, PhaseStep DEF IInv
      <3> QED BY <3>3, <3>4 DEF Lifecycle!Request, phaseOf
    <2>4. ASSUME UpdateWrite(w)
          PROVE  \E c \in Conns : Lifecycle!Answer(c)
      <3> DEFINE c == req[w].conn
                 row == WithStatus(conns[c], req[w].to)
      <3>1. /\ c \in Conns /\ conns[c] \in ConnRow /\ req[w].to \in Answers
            /\ row \in ConnRow /\ conns' = [conns EXCEPT ![c] = row]
        BY <2>4, UpdateWriteMoves DEF IInv
      <3>2. row.status = req[w].to
        BY <3>1, WithStatusRow DEF Answers, Status
      <3>3. conns[c].status = "PENDING" /\ conns[c] # None
        BY <2>4, <3>1, NoneIsNoRow DEF UpdateWrite, SerialInv, ReadsAreCurrent
      <3> HIDE DEF c, row
      <3>4. phaseOf' = [phaseOf EXCEPT ![c] = req[w].to]
        BY <3>1, <3>2, PhaseStep DEF IInv
      <3>5. phaseOf[c] = "PENDING"
        BY <3>1, <3>3 DEF phaseOf
      <3> QED BY <3>1, <3>4, <3>5
              DEF Lifecycle!Answer, Lifecycle!Answers, Answers
    <2>5. ASSUME TxCommit(w)
          PROVE  \E c \in Conns : Lifecycle!Disconnect(c)
      <3> DEFINE c == req[w].conn
                 row == WithStatus(conns[c], "DISCONNECTED")
      <3>1. c # None
        BY <1>2, <2>5 DEF TxCommit
      <3>2. /\ c \in Conns /\ conns[c] \in ConnRow
            /\ row \in ConnRow /\ conns' = [conns EXCEPT ![c] = row]
        BY <2>5, <3>1, TxCommitMoves DEF IInv
      <3>3. row.status = "DISCONNECTED"
        BY <3>2, WithStatusRow DEF Status
      <3>4. conns[c].status = "ACCEPTED" /\ conns[c] # None
        BY <2>5, <3>1, <3>2, NoneIsNoRow
        DEF TxCommit, SerialInv, ReadsAreCurrent
      <3> HIDE DEF c, row
      <3>5. phaseOf' = [phaseOf EXCEPT ![c] = "DISCONNECTED"]
        BY <3>2, <3>3, PhaseStep DEF IInv
      <3>6. phaseOf[c] = "ACCEPTED"
        BY <3>2, <3>4 DEF phaseOf
      <3> QED BY <3>2, <3>5, <3>6 DEF Lifecycle!Disconnect
    <2>6. ~UpdateReread(w) /\ ~DisconnectFind(w) /\ ~TxLock(w)
      BY <1>2 DEF UpdateReread, DisconnectFind, TxLock
    <2>7. Lifecycle!Next
      BY <2>1, <2>2, <2>3, <2>4, <2>5, <2>6 DEF Step, Lifecycle!Next
    <2> QED BY <2>7
  <1> QED BY <1>1, <1>2

(* When requests do not overlap, every row is requested once, answered     *)
(* once and only disconnected if it was accepted.                          *)
THEOREM SerialLifecycle ==
  ASSUME OneAtATime PROVE Spec => KeepsLifecycle
  <1>1. Init => IInv /\ SerialInv /\ Lifecycle!Init
    BY InitIInv, InitSerial, InitLifecycle
  <1>2. IInv /\ SerialInv /\ [Next]_vars => IInv' /\ SerialInv'
    BY NextIInv, NextSerial
  <1>3. IInv /\ SerialInv /\ [Next]_vars => [Lifecycle!Next]_phaseOf
    BY NextLifecycle
  <1> QED BY <1>1, <1>2, <1>3, PTL DEF Spec, KeepsLifecycle, Lifecycle!Spec
=============================================================================
