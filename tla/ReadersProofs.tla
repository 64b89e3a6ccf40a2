---------------------------- MODULE ReadersProofs ----------------------------
(***************************************************************************)
(* What a reader is shown is complete: a client of the chat, and one who   *)
(* walks through the pages of comments while they are written.             *)
(*                                                                         *)
(* Chat, for any number of sockets and messages: a client that has been    *)
(* told it entered the room is in it, as long as it is connected: that is  *)
(* what the proof needs beyond the property, and what answering before the *)
(* join would break.                                                       *)
(*                                                                         *)
(* Comments, for any number of comments, writers and any size of the page: *)
(* the position of a comment is one to one, so that one comment that comes *)
(* or goes moves one other at most across the end of a page, and an UPDATE *)
(* that gives one comment another place two at most: itself, or one that   *)
(* takes its place.  The other comments keep their order among themselves. *)
(***************************************************************************)
EXTENDS Chat, Comments, FiniteSetTheorems, TLAPS


(* Told to have entered is in the room, and who is in a room is connected. *)
EnteredIsInRoom(u) ==
  /\ client[u].read => client[u].entered
  /\ client[u].entered => socket[u].joined
  /\ socket[u].joined => socket[u].at # "closed"
  /\ socket[u].entering => socket[u].at # "closed"

ChatInv ==
  /\ ChatTypeOK
  /\ \A u \in Partners : EnteredIsInRoom(u)
  /\ NoMessageMissed

(* A handler that has not begun, or is through.                            *)
LEMMA SendingTypes ==
  /\ Unsent \in Sending
  /\ Sent \in Sending
  /\ Sent.at = "done"
  <1>1. (CHOOSE u \in Partners : TRUE) \in Partners
    BY PartnersAssumption
  <1>2. 0 \in 0 .. MaxSessions
    BY ChatBoundsAssumption
  <1>3. Unsent \in Sending
    BY <1>1, <1>2 DEF Unsent, Sending
  <1> HIDE DEF Unsent
  <1>4. Sent \in Sending /\ Sent.at = "done"
    BY <1>3 DEF Sent, Sending
  <1> QED BY <1>3, <1>4

(* The page of a user that is not connected.                               *)
LEMMA AwayType == Away \in Client /\ Away.entered = FALSE /\ Away.read = FALSE
  BY DEF Away, Client

(* Nobody is connected and nothing is sent.                                *)
LEMMA InitChat == ChatInit => ChatInv
  <1> SUFFICES ASSUME ChatInit PROVE ChatInv
    OBVIOUS
  <1> USE DEF ChatInit
  <1>1. socket \in [Partners -> Socket]
    BY ChatBoundsAssumption DEF Socket
  <1>2. ChatTypeOK
    BY <1>1, SendingTypes, AwayType DEF ChatTypeOK
  <1>3. \A u \in Partners : EnteredIsInRoom(u)
    BY AwayType DEF EnteredIsInRoom
  <1>4. NoMessageMissed
    BY DEF NoMessageMissed
  <1> QED BY <1>2, <1>3, <1>4 DEF ChatInv

(* A step of the socket of u.                                              *)
LEMMA SocketStep ==
  ASSUME ChatInv, NEW u \in Partners, NEW s \in Socket, NEW c \in Client,
         socket' = [socket EXCEPT ![u] = s], client' = [client EXCEPT ![u] = c],
         UNCHANGED <<messages, sends>>, chatRoom' \in {"live", "deleted"},
         EnteredIsInRoom(u)',
         c.read => \/ client[u].read /\ c.has = client[u].has
                   \/ messages \subseteq c.has
  PROVE  ChatInv'
  <1> USE DEF ChatInv
  <1>1. ChatTypeOK'
    BY DEF ChatTypeOK
  <1>2. \A v \in Partners :
          /\ socket'[v] = IF v = u THEN s ELSE socket[v]
          /\ client'[v] = IF v = u THEN c ELSE client[v]
    BY DEF ChatTypeOK
  <1>3. ASSUME NEW v \in Partners PROVE EnteredIsInRoom(v)'
    BY <1>2 DEF EnteredIsInRoom
  <1>4. NoMessageMissed'
    BY <1>2 DEF NoMessageMissed
  <1> QED BY <1>1, <1>3, <1>4

(* A step of a handler of send_message up to its INSERT.                   *)
LEMMA SendStep ==
  ASSUME ChatInv, NEW m \in Messages, NEW s \in Sending,
         sends' = [sends EXCEPT ![m] = s], sends[m].at # "emit",
         UNCHANGED <<chatRoom, socket, messages, client>>
  PROVE  ChatInv'
  <1> USE DEF ChatInv
  <1>1. ChatTypeOK'
    BY DEF ChatTypeOK
  <1>2. \A v \in Partners : EnteredIsInRoom(v)'
    BY DEF EnteredIsInRoom
  <1>3. \A n \in Messages : sends[n].at = "emit" => sends'[n].at = "emit"
    BY DEF ChatTypeOK
  <1>4. NoMessageMissed'
    BY <1>3 DEF NoMessageMissed
  <1> QED BY <1>1, <1>2, <1>4

(* A client that receives a message has that and what it had.              *)
With(c, m) == [c EXCEPT !.has = @ \cup {m}]

LEMMA ClientReceives ==
  \A c \in Client, m \in Messages :
    /\ With(c, m) \in Client
    /\ With(c, m).has = c.has \cup {m}
    /\ With(c, m).read = c.read
    /\ With(c, m).entered = c.entered
  BY DEF Client, With

(* The message reaches everyone who counts on it.                          *)
LEMMA EmitStep ==
  ASSUME ChatInv, NEW m \in Messages, EmitMessage(m)
  PROVE  ChatInv'
  <1> USE DEF ChatInv, EmitMessage
  <1>1. \A u \in Partners :
          client'[u] = IF Receives(m, u) THEN With(client[u], m) ELSE client[u]
    BY Zenon DEF Deliver, With
  <1>2. \A u \in Partners :
          /\ client'[u] \in Client
          /\ client'[u].read = client[u].read
          /\ client'[u].entered = client[u].entered
          /\ client[u].has \subseteq client'[u].has
    <2> SUFFICES ASSUME NEW u \in Partners
                 PROVE  /\ client'[u] \in Client
                        /\ client'[u].read = client[u].read
                        /\ client'[u].entered = client[u].entered
                        /\ client[u].has \subseteq client'[u].has
      OBVIOUS
    <2>1. client[u] \in Client
      BY DEF ChatTypeOK
    <2>2. CASE Receives(m, u)
      BY <1>1, <2>1, <2>2, ClientReceives
    <2>3. CASE ~Receives(m, u)
      BY <1>1, <2>1, <2>3
    <2> QED BY <2>2, <2>3
  <1>3. sends' \in [Messages -> Sending]
    BY SendingTypes DEF ChatTypeOK
  <1>4. ChatTypeOK'
    <2>1. client' = [u \in Partners |-> client'[u]]
      BY DEF Deliver
    <2>2. client' \in [Partners -> Client]
      BY ONLY <1>2, <2>1, Zenon
    <2> QED BY <1>3, <2>2 DEF ChatTypeOK
  <1>5. \A u \in Partners : EnteredIsInRoom(u)'
    BY <1>2 DEF EnteredIsInRoom
  <1>6. ASSUME NEW u \in Partners, client'[u].read
        PROVE  messages \subseteq client'[u].has \cup
                 {n \in Messages : sends'[n].at = "emit"}
    <2>1. client[u].read /\ Receives(m, u)
      BY <1>2, <1>6 DEF EnteredIsInRoom, Receives
    <2>2. m \in client'[u].has
      BY <1>1, <2>1, ClientReceives DEF ChatTypeOK
    <2>3. \A n \in Messages \ {m} : sends'[n] = sends[n]
      BY DEF ChatTypeOK
    <2>4. messages \subseteq client[u].has \cup {n \in Messages : sends[n].at = "emit"}
      BY <2>1 DEF NoMessageMissed
    <2> QED BY <1>2, <2>2, <2>3, <2>4
  <1> QED BY <1>4, <1>5, <1>6 DEF NoMessageMissed

(* Every step keeps the invariant.                                         *)
LEMMA NextChat == ChatInv /\ [ChatNext]_chatVars => ChatInv'
  <1> SUFFICES ASSUME ChatInv, [ChatNext]_chatVars PROVE ChatInv'
    OBVIOUS
  <1>t. ChatTypeOK
    BY DEF ChatInv
  <1>1. CASE UNCHANGED chatVars
    BY <1>1 DEF chatVars, ChatInv, ChatTypeOK, EnteredIsInRoom, NoMessageMissed
  <1>2. ASSUME NEW u \in Partners, Connect(u) PROVE ChatInv'
    <2> DEFINE s == [at |-> "new", session |-> socket[u].session + 1,
                     entering |-> FALSE, joined |-> FALSE]
    <2>1. socket[u] \in Socket /\ socket[u].session < MaxSessions
      BY <1>2, <1>t DEF Connect, ChatTypeOK
    <2>2. s \in Socket
      BY <2>1, ChatBoundsAssumption DEF Socket
    <2>3. socket' = [socket EXCEPT ![u] = s] /\ UNCHANGED <<chatRoom, messages, sends, client>>
      BY <1>2 DEF Connect
    <2>4. client' = [client EXCEPT ![u] = client[u]] /\ client[u] \in Client
      BY <2>3, <1>t DEF ChatTypeOK
    <2>5. ~client[u].entered /\ ~client[u].read
      BY <1>2 DEF ChatInv, EnteredIsInRoom, Connect
    <2>6. EnteredIsInRoom(u)'
      BY <2>3, <2>5, <1>t DEF EnteredIsInRoom, ChatTypeOK
    <2> HIDE DEF s
    <2> QED BY <2>2, <2>3, <2>4, <2>5, <2>6, <1>t, SocketStep DEF ChatTypeOK
  <1>3. ASSUME NEW u \in Partners, HandleConnection(u) PROVE ChatInv'
    <2> DEFINE s == [socket[u] EXCEPT !.at = "open"]
    <2>1. s \in Socket /\ s.joined = socket[u].joined /\ s.at = "open"
      BY <1>t DEF ChatTypeOK, Socket
    <2>2. socket' = [socket EXCEPT ![u] = s] /\ UNCHANGED <<chatRoom, messages, sends, client>>
      BY <1>3 DEF HandleConnection
    <2>3. client' = [client EXCEPT ![u] = client[u]] /\ client[u] \in Client
      BY <2>2, <1>t DEF ChatTypeOK
    <2> HIDE DEF s
    <2>4. EnteredIsInRoom(u)'
      BY <2>1, <2>2, <1>t DEF EnteredIsInRoom, ChatTypeOK, ChatInv
    <2> QED BY <2>1, <2>2, <2>3, <2>4, <1>t, SocketStep DEF ChatTypeOK
  <1>4. ASSUME NEW u \in Partners, HandleDisconnect(u) PROVE ChatInv'
    <2>1. Closed(u) \in Socket /\ ~Closed(u).joined /\ ~Closed(u).entering
      BY <1>t DEF ChatTypeOK, Socket, Closed
    <2>2. /\ socket' = [socket EXCEPT ![u] = Closed(u)]
          /\ client' = [client EXCEPT ![u] = Away]
          /\ UNCHANGED <<chatRoom, messages, sends>>
      BY <1>4 DEF HandleDisconnect
    <2>3. EnteredIsInRoom(u)'
      BY <2>1, <2>2, <1>t, AwayType DEF EnteredIsInRoom, ChatTypeOK
    <2> QED BY <2>1, <2>2, <2>3, <1>t, AwayType, SocketStep DEF ChatTypeOK
  <1>5. ASSUME NEW u \in Partners, FindRoomToEnter(u) PROVE ChatInv'
    <2> DEFINE s == [socket[u] EXCEPT !.entering = TRUE]
    <2>1. s \in Socket /\ s.joined = socket[u].joined /\ s.at = socket[u].at
      BY <1>t DEF ChatTypeOK, Socket
    <2>2. socket' = [socket EXCEPT ![u] = s] /\ UNCHANGED <<chatRoom, messages, sends, client>>
      BY <1>5 DEF FindRoomToEnter
    <2>3. client' = [client EXCEPT ![u] = client[u]] /\ client[u] \in Client
      BY <2>2, <1>t DEF ChatTypeOK
    <2> HIDE DEF s
    <2>4. EnteredIsInRoom(u)'
      BY <1>5, <2>1, <2>2, <1>t
      DEF EnteredIsInRoom, ChatTypeOK, ChatInv, FindRoomToEnter
    <2> QED BY <2>1, <2>2, <2>3, <2>4, <1>t, SocketStep DEF ChatTypeOK
  <1>6. ASSUME NEW u \in Partners, EnterChat(u) PROVE ChatInv'
    <2> DEFINE s == [socket[u] EXCEPT !.entering = FALSE, !.joined = TRUE]
    <2> DEFINE c == IF socket[u].at = "open"
                    THEN [client[u] EXCEPT !.entered = TRUE] ELSE client[u]
    <2>1. s \in Socket /\ s.joined /\ s.at = socket[u].at /\ ~s.entering
      BY <1>t DEF ChatTypeOK, Socket
    <2>2. /\ c \in Client
          /\ c.read = client[u].read
          /\ c.has = client[u].has
      BY <1>t DEF ChatTypeOK, Client
    <2>3. socket' = [socket EXCEPT ![u] = s] /\ UNCHANGED <<chatRoom, messages, sends>>
      BY <1>6, <1>t DEF EnterChat, ChatTypeOK
    <2>4. client' = [client EXCEPT ![u] = c]
      BY <1>6, <1>t DEF EnterChat, ChatTypeOK
    <2>5. c.read => c.entered
      BY <1>t DEF ChatInv, EnteredIsInRoom, ChatTypeOK, Client
    <2>6. socket[u].at # "closed"
      BY <1>6 DEF ChatInv, EnteredIsInRoom, EnterChat
    <2> HIDE DEF s, c
    <2>7. EnteredIsInRoom(u)'
      BY <2>1, <2>3, <2>4, <2>5, <2>6, <1>t DEF EnteredIsInRoom, ChatTypeOK
    <2> QED BY <2>1, <2>2, <2>3, <2>4, <2>7, <1>t, SocketStep DEF ChatTypeOK
  <1>7. ASSUME NEW u \in Partners, ReadHistory(u) PROVE ChatInv'
    <2> DEFINE c == [client[u] EXCEPT !.read = TRUE, !.has = @ \cup messages]
    <2>1. /\ c \in Client
          /\ c.entered = client[u].entered
          /\ messages \subseteq c.has
      BY <1>t DEF ChatTypeOK, Client
    <2>2. socket' = [socket EXCEPT ![u] = socket[u]] /\ socket[u] \in Socket
      BY <1>7, <1>t DEF ReadHistory, ChatTypeOK
    <2>3. client' = [client EXCEPT ![u] = c] /\ UNCHANGED <<chatRoom, socket, messages, sends>>
      BY <1>7, <1>t DEF ReadHistory, ChatTypeOK
    <2> HIDE DEF c
    <2>4. EnteredIsInRoom(u)'
      BY <1>7, <2>1, <2>3, <1>t DEF EnteredIsInRoom, ChatTypeOK, ChatInv, ReadHistory
    <2> QED BY <2>1, <2>2, <2>3, <2>4, <1>t, SocketStep DEF ChatTypeOK
  <1>8. ASSUME NEW u \in Partners, NEW m \in Messages, FindRoomToSend(u, m)
        PROVE  ChatInv'
    <2> DEFINE s == [at |-> "insert", by |-> u, session |-> socket[u].session]
    <2>1. s \in Sending
      BY <1>t DEF ChatTypeOK, Socket, Sending
    <2> HIDE DEF s
    <2> QED BY <1>8, <2>1, SendStep DEF FindRoomToSend, s
  <1>9. ASSUME NEW m \in Messages, CreateChatMessage(m) PROVE ChatInv'
    <2> USE DEF CreateChatMessage
    <2>1. [sends[m] EXCEPT !.at = "emit"] \in Sending
      BY <1>t DEF ChatTypeOK, Sending
    <2>2. /\ messages' = messages \cup {m}
          /\ sends' = [sends EXCEPT ![m] = [sends[m] EXCEPT !.at = "emit"]]
          /\ UNCHANGED <<chatRoom, socket, client>>
      BY <1>9, <1>t DEF ChatTypeOK
    <2>3. ChatTypeOK'
      BY <2>1, <2>2, <1>t DEF ChatTypeOK
    <2>4. /\ sends'[m].at = "emit"
          /\ \A n \in Messages : sends[n].at = "emit" => sends'[n].at = "emit"
      BY <2>1, <2>2, <1>t DEF ChatTypeOK, Sending
    <2>5. NoMessageMissed'
      BY <2>2, <2>4 DEF ChatInv, NoMessageMissed
    <2>6. \A u \in Partners : EnteredIsInRoom(u)'
      BY <2>2 DEF EnteredIsInRoom, ChatInv
    <2> QED BY <2>3, <2>5, <2>6 DEF ChatInv
  <1>10. ASSUME NEW m \in Messages, CreateFails(m) PROVE ChatInv'
    BY <1>10, SendingTypes, SendStep DEF CreateFails
  <1>11. ASSUME NEW m \in Messages, EmitMessage(m) PROVE ChatInv'
    BY <1>11, EmitStep
  <1>12. CASE Restart
    <2>1. \A u \in Partners : Closed(u) \in Socket /\ ~Closed(u).joined /\ ~Closed(u).entering
      BY <1>t DEF ChatTypeOK, Socket, Closed
    <2>2. ChatTypeOK'
      BY <1>12, <1>t, <2>1, AwayType, SendingTypes DEF ChatTypeOK, Restart
    <2>3. \A u \in Partners : EnteredIsInRoom(u)'
      BY <1>12, <2>1, AwayType DEF Restart, EnteredIsInRoom
    <2>4. NoMessageMissed'
      BY <1>12, AwayType DEF Restart, NoMessageMissed
    <2> QED BY <2>2, <2>3, <2>4 DEF ChatInv
  <1>13. CASE DeleteChatRoom
    BY <1>13 DEF DeleteChatRoom, ChatInv, ChatTypeOK, EnteredIsInRoom, NoMessageMissed
  <1> QED BY <1>1, <1>2, <1>3, <1>4, <1>5, <1>6, <1>7, <1>8, <1>9, <1>10,
             <1>11, <1>12, <1>13 DEF ChatNext

(* For any partners, sockets and messages: a connected client that entered *)
(* the room before it read the history lacks no committed message but      *)
(* those about to be emitted to it.                                        *)
THEOREM NothingMissed == ChatSpec => []NoMessageMissed
  <1>1. ChatInv => NoMessageMissed
    BY DEF ChatInv
  <1> QED BY <1>1, InitChat, NextChat, PTL DEF ChatSpec

(* The sockets, the handlers and the pages keep their types.               *)
THEOREM ChatTypeCorrect == ChatSpec => []ChatTypeOK
  <1>1. ChatInv => ChatTypeOK
    BY DEF ChatInv
  <1> QED BY <1>1, InitChat, NextChat, PTL DEF ChatSpec
-----------------------------------------------------------------------------
(* The ways to sort the rows: no two are equal in what they are sorted by. *)
Orders ==
  {o \in [order : {"desc", "asc"}, key : [Ids -> Nat]] :
     \A a, b \in Ids : o.key[a] = o.key[b] => a = b}

(* The ones of a set that come no later than c.                            *)
UpTo(o, c, S) == {d \in S : d = c \/ Before(o, d, c)}

(* Any set of comments is finite.                                          *)
LEMMA IdsAreFinite ==
  /\ IsFiniteSet(Ids)
  /\ \A S \in SUBSET Ids : IsFiniteSet(S) /\ Cardinality(S) \in Nat
  <1>1. IsFiniteSet(Ids)
    BY FS_Interval, CommentBoundsAssumption DEF Ids
  <1> QED BY <1>1, FS_Subset, FS_CardinalityType

(* Every order is total.                                                   *)
LEMMA OrderIsTotal ==
  ASSUME NEW o \in Orders
  PROVE  /\ \A a \in Ids : ~Before(o, a, a)
         /\ \A a, b \in Ids : a = b \/ Before(o, a, b) \/ Before(o, b, a)
         /\ \A a, b \in Ids : ~(Before(o, a, b) /\ Before(o, b, a))
         /\ \A a, b, c \in Ids :
              Before(o, a, b) /\ Before(o, b, c) => Before(o, a, c)
  <1>1. /\ \A a \in Ids : o.key[a] \in Nat
        /\ \A a, b \in Ids : o.key[a] = o.key[b] => a = b
    BY DEF Orders
  <1> QED BY <1>1 DEF Before

(* Who comes earlier has fewer before it.                                  *)
LEMMA UpToGrows ==
  ASSUME NEW o \in Orders, NEW S \in SUBSET Ids, NEW c \in S, NEW d \in S,
         Before(o, d, c)
  PROVE  UpTo(o, d, S) \subseteq UpTo(o, c, S) \ {c}
  <1>1. \A e \in UpTo(o, d, S) : e \in UpTo(o, c, S)
    BY OrderIsTotal DEF UpTo
  <1>2. c \notin UpTo(o, d, S)
    BY OrderIsTotal DEF UpTo
  <1> QED BY <1>1, <1>2

(* The first of a set has position 1.                                      *)
LEMMA PositionType ==
  ASSUME NEW o \in Orders, NEW S \in SUBSET Ids, NEW c \in S
  PROVE  /\ Position(o, c, S) = Cardinality(UpTo(o, c, S))
         /\ Position(o, c, S) \in 1 .. Cardinality(S)
  <1>1. Position(o, c, S) = Cardinality(UpTo(o, c, S))
    BY DEF Position, UpTo
  <1>2. UpTo(o, c, S) \subseteq S /\ c \in UpTo(o, c, S)
    BY DEF UpTo
  <1>3. /\ Cardinality(S) \in Nat
        /\ Cardinality(UpTo(o, c, S)) \in Nat
        /\ Cardinality(UpTo(o, c, S)) <= Cardinality(S)
    BY <1>2, IdsAreFinite, FS_Subset
  <1>4. Cardinality(UpTo(o, c, S)) # 0
    BY <1>2, IdsAreFinite, FS_EmptySet
  <1> QED BY <1>1, <1>3, <1>4

(* Who comes earlier has the lower position.                               *)
LEMMA PositionGrows ==
  ASSUME NEW o \in Orders, NEW S \in SUBSET Ids, NEW c \in S, NEW d \in S,
         Before(o, d, c)
  PROVE  Position(o, d, S) < Position(o, c, S)
  <1> DEFINE C == UpTo(o, c, S)
             D == UpTo(o, d, S)
  <1>1. C \subseteq S /\ D \subseteq S /\ c \in C
    BY DEF UpTo
  <1>2. D \subseteq C \ {c}
    BY UpToGrows
  <1>3. /\ Position(o, d, S) = Cardinality(D)
        /\ Position(o, c, S) = Cardinality(C)
    BY PositionType
  <1> HIDE DEF C, D
  <1>4. IsFiniteSet(C) /\ Cardinality(C) \in Nat /\ Cardinality(D) \in Nat
    BY <1>1, IdsAreFinite
  <1>5. IsFiniteSet(C \ {c}) /\ Cardinality(C \ {c}) = Cardinality(C) - 1
    BY <1>1, <1>4, FS_RemoveElement
  <1>6. Cardinality(D) <= Cardinality(C \ {c})
    BY <1>2, <1>5, FS_Subset
  <1> QED BY <1>3, <1>4, <1>5, <1>6

(* No two have the same position; whoever has the lower one comes before.  *)
LEMMA PositionOrders ==
  ASSUME NEW o \in Orders, NEW S \in SUBSET Ids, NEW c \in S, NEW d \in S
  PROVE  /\ Position(o, c, S) = Position(o, d, S) => c = d
         /\ Position(o, c, S) < Position(o, d, S) => Before(o, c, d)
  <1>1. Position(o, c, S) \in Nat /\ Position(o, d, S) \in Nat
    BY PositionType, IdsAreFinite
  <1>2. c = d \/ Before(o, c, d) \/ Before(o, d, c)
    BY OrderIsTotal
  <1>3. CASE c = d
    BY <1>1, <1>3
  <1>4. CASE Before(o, c, d)
    <2>1. Position(o, c, S) < Position(o, d, S)
      BY <1>4, PositionGrows
    <2> QED BY <1>1, <1>4, <2>1
  <1>5. CASE Before(o, d, c)
    <2>1. Position(o, d, S) < Position(o, c, S)
      BY <1>5, PositionGrows
    <2> QED BY <1>1, <2>1
  <1> QED BY <1>2, <1>3, <1>4, <1>5

(* Every position up to the size of the set is somebody's.                 *)
LEMMA PositionIsTaken ==
  ASSUME NEW o \in Orders, NEW S \in SUBSET Ids, NEW n \in 1 .. Cardinality(S)
  PROVE  \E c \in S : Position(o, c, S) = n
  <1> DEFINE f == [c \in S |-> Position(o, c, S)]
             T == 1 .. Cardinality(S)
  <1>1. Cardinality(S) \in Nat
    BY IdsAreFinite
  <1>2. IsFiniteSet(T) /\ Cardinality(T) = Cardinality(S)
    BY <1>1, FS_Interval
  <1>3. f \in [S -> T]
    BY PositionType
  <1>4. f \in Injection(S, T)
    BY <1>3, PositionOrders DEF Injection, IsInjective
  <1>5. f \in Surjection(S, T)
    BY <1>2, <1>4, FS_Injection
  <1> QED BY <1>5 DEF Surjection

(* Last is the one that comes after all the others.                        *)
LEMMA LastIsLast ==
  ASSUME NEW o \in Orders, NEW S \in SUBSET Ids, S # {}
  PROVE  /\ Last(o, S) \in S
         /\ \A d \in S \ {Last(o, S)} : Before(o, d, Last(o, S))
  <1> DEFINE n == Cardinality(S)
  <1>1. n \in Nat /\ n # 0
    BY IdsAreFinite, FS_EmptySet
  <1>2. PICK c \in S : Position(o, c, S) = n
    BY <1>1, PositionIsTaken
  <1>3. \A d \in S \ {c} : Position(o, d, S) < n
    <2> SUFFICES ASSUME NEW d \in S \ {c} PROVE Position(o, d, S) < n
      OBVIOUS
    <2>1. Position(o, d, S) \in 1 .. n
      BY PositionType
    <2>2. Position(o, d, S) # n
      BY <1>2, PositionOrders
    <2> QED BY <1>1, <2>1, <2>2
  <1>4. \A d \in S \ {c} : Before(o, d, c)
    BY <1>2, <1>3, PositionOrders
  <1>5. \E e \in S : \A d \in S \ {e} : Before(o, d, e)
    BY <1>4
  <1> QED BY <1>5 DEF Last

(* A page that is not full ends the set.                                   *)
LEMMA ShortPageIsLast ==
  ASSUME NEW o \in Orders, NEW S \in SUBSET Ids, NEW skip \in Nat,
         Cardinality(Slice(o, S, skip)) < Limit
  PROVE  \A c \in S : Position(o, c, S) <= skip + Limit
  <1> DEFINE page == Slice(o, S, skip)
             T == (skip + 1) .. (skip + Limit)
             f == [c \in page |-> Position(o, c, S)]
  <1>1. SUFFICES ASSUME NEW c \in S, Position(o, c, S) > skip + Limit
                 PROVE  FALSE
    <2>1. \A c \in S : Position(o, c, S) \in Nat
      BY PositionType
    <2> QED BY <1>1, <2>1, LimitAssumption
  <1>2. Cardinality(S) \in Nat /\ Position(o, c, S) \in 1 .. Cardinality(S)
    BY PositionType, IdsAreFinite
  <1>3. T \subseteq 1 .. Cardinality(S)
    BY <1>1, <1>2, LimitAssumption
  <1>4. \A n \in T : \E d \in page : Position(o, d, S) = n
    BY <1>3, PositionIsTaken DEF Slice
  <1>5. f \in Surjection(page, T)
    BY <1>4 DEF Surjection, Slice
  <1>6. IsFiniteSet(page) /\ Cardinality(page) \in Nat
    BY IdsAreFinite DEF Slice
  <1>7. Cardinality(T) <= Cardinality(page)
    BY <1>5, <1>6, FS_Surjection
  <1>8. Cardinality(T) = Limit
    <2>1. skip + 1 \in Int /\ skip + Limit \in Int /\ ~(skip + 1 > skip + Limit)
      BY LimitAssumption
    <2>2. Cardinality(T) = (skip + Limit) - (skip + 1) + 1
      BY <2>1, FS_Interval
    <2> QED BY <2>2, LimitAssumption
  <1> QED BY <1>6, <1>7, <1>8, LimitAssumption
-----------------------------------------------------------------------------
(* The walk by cursor.  What the reader has come past: the last comment of *)
(* its last page and all before it.  It has seen no other, but for those   *)
(* that an UPDATE has put at the end since, and it has seen those of them  *)
(* that stayed, but for one per cursor that was deleted and those that an  *)
(* UPDATE has put at the front.                                            *)
Passed(c) ==
  walk.cursor # 0 /\ (c = walk.cursor \/ Before(Sorting, c, walk.cursor))

Unfound == IF walk.order = "asc" THEN Missed ELSE Missed \ walk.moved

PassedOver == {c \in Unfound : Passed(c)}

CursorInv ==
  walk.by = "cursor" /\ ~walk.strayed =>
    /\ \A c \in Ids :
         walk.times[c] > 1 => c \in walk.moved /\ walk.order = "asc"
    /\ walk.at = "page" =>
         /\ \A c \in Ids :
              walk.times[c] # 0 /\ ~(c \in walk.moved /\ walk.order = "asc") => Passed(c)
         /\ Cardinality(PassedOver) <= walk.stale
    /\ walk.at = "done" => Cardinality(Unfound) <= walk.stale

(* The walk by number of page.  Within and Beyond: the first n comments of *)
(* a set, and the others.                                                  *)
Within(o, S, n) == {c \in S : Position(o, c, S) <= n}

Beyond(o, S, n) == {c \in S : Position(o, c, S) > n}

(* How many comments the pages read so far have room for.                  *)
Walked ==
  SkipOfPage(walk.page) + IF walk.found \/ walk.at = "done" THEN Limit ELSE 0

(* A comment is missed when one before it goes and it moves to a page that *)
(* was read, and repeated when one comes before it and it moves to a page  *)
(* that was not.                                                           *)
Repeated ==
  {c \in Ids : walk.times[c] > 1} \cup
  {c \in Beyond(Sorting, Live, Walked) : walk.times[c] # 0}

OffsetInv ==
  walk.by = "offset" =>
    /\ walk.page # 0
    /\ Cardinality(Repeated) <= walk.come
    /\ walk.at = "page" =>
         /\ Cardinality(Missed \cap Within(Sorting, Live, Walked)) <= walk.left
         /\ walk.counted /\ ~walk.found =>
              Cardinality(Live) <= walk.count + walk.torn
         /\ walk.counted /\ walk.found /\ walk.count <= Limit * walk.page =>
              Cardinality(Missed) <= walk.left + walk.torn
    /\ walk.at = "done" => Cardinality(Missed) <= walk.left + walk.torn

(* Only a page by its number is read in two steps.                         *)
PageIsOpen ==
  walk.found \/ walk.counted => walk.by = "offset" /\ walk.at = "page"

WriterOK(w) ==
  writer[w].does # "nothing" => writer[w].id \in Ids /\ writer[w].id < next

(* No two rows have been given the same time, and none a later one than it *)
(* is.                                                                     *)
StampsDiffer ==
  /\ \A c, d \in Ids : stamp[c] = stamp[d] => c = d
  /\ \A c \in Ids : stamp[c] <= clock

(* A comment with an id that was not given yet: nobody knows it.           *)
Unborn(c) == comments[c] = "none" /\ walk.times[c] = 0 /\ walk.cursor # c

CommentsInv ==
  /\ CommentsTypeOK
  /\ \A w \in Writers : WriterOK(w)
  /\ StampsDiffer
  /\ \A c \in Ids : c >= next => Unborn(c)
  /\ walk.stays \subseteq Live
  /\ PageIsOpen
  /\ CursorInv
  /\ OffsetInv
-----------------------------------------------------------------------------
(* What a set may grow by.                                                 *)
LEMMA FewMore ==
  ASSUME NEW S \in SUBSET Ids, NEW T \in SUBSET Ids
  PROVE  /\ T \subseteq S => Cardinality(T) <= Cardinality(S)
         /\ \A y : T \subseteq S \cup {y} => Cardinality(T) <= Cardinality(S) + 1
         /\ Cardinality(S \cup T) <= Cardinality(S) + Cardinality(T)
  <1>1. /\ IsFiniteSet(S) /\ Cardinality(S) \in Nat
        /\ IsFiniteSet(T) /\ Cardinality(T) \in Nat
    BY IdsAreFinite
  <1>2. T \subseteq S => Cardinality(T) <= Cardinality(S)
    BY <1>1, FS_Subset
  <1>3. ASSUME NEW y, T \subseteq S \cup {y}
        PROVE  Cardinality(T) <= Cardinality(S) + 1
    <2>1. /\ IsFiniteSet(S \cup {y})
          /\ Cardinality(S \cup {y}) =
               IF y \in S THEN Cardinality(S) ELSE Cardinality(S) + 1
      BY <1>1, FS_AddElement
    <2>2. Cardinality(T) <= Cardinality(S \cup {y})
      BY <1>3, <2>1, FS_Subset
    <2> QED BY <1>1, <2>1, <2>2
  <1>4. Cardinality(S \cup T) <= Cardinality(S) + Cardinality(T)
    <2>1. /\ IsFiniteSet(S \cap T) /\ Cardinality(S \cap T) \in Nat
      BY IdsAreFinite
    <2>2. Cardinality(S \cup T) =
            Cardinality(S) + Cardinality(T) - Cardinality(S \cap T)
      BY <1>1, FS_Union
    <2> QED BY <1>1, <2>1, <2>2
  <1> QED BY <1>2, <1>3, <1>4

(* A comment that comes moves those after it by one.                       *)
LEMMA PositionInserted ==
  ASSUME NEW o \in Orders, NEW S \in SUBSET Ids, NEW x \in Ids \ S, NEW c \in S
  PROVE  Position(o, c, S \cup {x}) =
           Position(o, c, S) + IF Before(o, x, c) THEN 1 ELSE 0
  <1> DEFINE T == S \cup {x}
  <1>1. /\ Position(o, c, S) = Cardinality(UpTo(o, c, S))
        /\ Position(o, c, T) = Cardinality(UpTo(o, c, T))
        /\ Position(o, c, S) \in Nat
    BY PositionType, IdsAreFinite
  <1>2. IsFiniteSet(UpTo(o, c, S)) /\ x \notin UpTo(o, c, S)
    BY IdsAreFinite DEF UpTo
  <1>3. CASE Before(o, x, c)
    <2>1. UpTo(o, c, T) = UpTo(o, c, S) \cup {x}
      BY <1>3 DEF UpTo
    <2>2. Cardinality(UpTo(o, c, S) \cup {x}) = Cardinality(UpTo(o, c, S)) + 1
      BY <1>2, FS_AddElement
    <2> QED BY <1>1, <1>3, <2>1, <2>2
  <1>4. CASE ~Before(o, x, c)
    <2>1. UpTo(o, c, T) = UpTo(o, c, S)
      BY <1>4 DEF UpTo
    <2> QED BY <1>1, <1>4, <2>1
  <1> QED BY <1>3, <1>4

OneCrosses(o, S, x, n) ==
  \E y : /\ Beyond(o, S \cup {x}, n) \subseteq Beyond(o, S, n) \cup {y}
         /\ Within(o, S, n) \subseteq Within(o, S \cup {x}, n) \cup {y}

(* One comment at most moves across the end of a page when another comes   *)
(* or goes.                                                                *)
LEMMA OneMovesAcross ==
  ASSUME NEW o \in Orders, NEW S \in SUBSET Ids, NEW x \in Ids \ S, NEW n \in Nat
  PROVE  /\ Beyond(o, S, n) \subseteq Beyond(o, S \cup {x}, n)
         /\ Within(o, S \cup {x}, n) \subseteq Within(o, S, n) \cup {x}
         /\ OneCrosses(o, S, x, n)
         /\ x \in Beyond(o, S \cup {x}, n) =>
              Within(o, S, n) \subseteq Within(o, S \cup {x}, n)
  <1> DEFINE T == S \cup {x}
             P(c) == Position(o, c, S)
             Q(c) == Position(o, c, T)
  <1>1. /\ \A c \in S : P(c) \in Nat
        /\ \A c \in T : Q(c) \in Nat
    BY PositionType
  <1>2. \A c \in S : Q(c) = P(c) + IF Before(o, x, c) THEN 1 ELSE 0
    BY PositionInserted
  <1>3. \A c \in S : Before(o, x, c) => Q(x) < Q(c)
    BY PositionGrows
  <1>4. \A c, d \in S : P(c) = P(d) => c = d
    BY PositionOrders
  <1> HIDE DEF P, Q
  <1>5. \A c \in S : P(c) <= Q(c) /\ Q(c) <= P(c) + 1
    BY <1>1, <1>2
  <1>6. \E y : \A c \in T : c # y => (Q(c) > n <=> c \in S /\ P(c) > n)
    <2>1. CASE Q(x) > n
      <3>1. \A c \in S : Q(c) > n <=> P(c) > n
        BY <1>1, <1>2, <1>3, <2>1
      <3> QED BY <3>1
    <2>2. CASE ~(Q(x) > n) /\ \E y \in S : P(y) = n
      <3>1. PICK y \in S : P(y) = n
        BY <2>2
      <3>2. \A c \in S : c # y => (Q(c) > n <=> P(c) > n)
        BY <1>1, <1>2, <1>4, <3>1
      <3> QED BY <2>2, <3>2
    <2>3. CASE ~(Q(x) > n) /\ ~\E y \in S : P(y) = n
      <3>1. \A c \in S : Q(c) > n <=> P(c) > n
        BY <1>1, <1>2, <2>3
      <3> QED BY <2>3, <3>1
    <2> QED BY <2>1, <2>2, <2>3
  <1>7. /\ Beyond(o, S, n) = {c \in S : P(c) > n}
        /\ Beyond(o, T, n) = {c \in T : Q(c) > n}
        /\ Within(o, S, n) = {c \in S : ~(P(c) > n)}
        /\ Within(o, T, n) = {c \in T : ~(Q(c) > n)}
    <2>1. /\ \A c \in S : P(c) <= n <=> ~(P(c) > n)
          /\ \A c \in T : Q(c) <= n <=> ~(Q(c) > n)
      BY <1>1
    <2> QED BY <2>1 DEF Beyond, Within, P, Q
  <1>8. {c \in S : P(c) > n} \subseteq {c \in T : Q(c) > n}
    BY <1>1, <1>5
  <1>9. {c \in T : ~(Q(c) > n)} \subseteq {c \in S : ~(P(c) > n)} \cup {x}
    BY <1>1, <1>5
  <1>10. PICK y : \A c \in T : c # y => (Q(c) > n <=> c \in S /\ P(c) > n)
    BY <1>6
  <1>11. /\ {c \in T : Q(c) > n} \subseteq {c \in S : P(c) > n} \cup {y}
         /\ {c \in S : ~(P(c) > n)} \subseteq {c \in T : ~(Q(c) > n)} \cup {y}
    BY <1>10
  <1>12. Q(x) > n => {c \in S : ~(P(c) > n)} \subseteq {c \in T : ~(Q(c) > n)}
    BY <1>1, <1>2, <1>3
  <1>13. x \in Beyond(o, T, n) <=> Q(x) > n
    BY DEF Beyond, Q
  <1> QED BY <1>7, <1>8, <1>9, <1>11, <1>12, <1>13 DEF OneCrosses

(* Two orders that agree on a set have the same pages of it.               *)
Agree(o, p, S) == \A a, b \in S : Before(o, a, b) <=> Before(p, a, b)

LEMMA SamePages ==
  ASSUME NEW o \in Orders, NEW p \in Orders, NEW S \in SUBSET Ids, Agree(o, p, S),
         NEW n \in Nat
  PROVE  Within(p, S, n) = Within(o, S, n) /\ Beyond(p, S, n) = Beyond(o, S, n)
  <1>1. \A c \in S : UpTo(p, c, S) = UpTo(o, c, S)
    BY DEF Agree, UpTo
  <1>2. ASSUME NEW c \in S PROVE Position(p, c, S) = Position(o, c, S)
    <2>1. /\ Position(o, c, S) = Cardinality(UpTo(o, c, S))
          /\ Position(p, c, S) = Cardinality(UpTo(p, c, S))
      BY PositionType
    <2>2. UpTo(p, c, S) = UpTo(o, c, S)
      BY <1>1
    <2> QED BY ONLY <2>1, <2>2, Zenon
  <1> QED BY <1>2 DEF Within, Beyond

(* What an UPDATE that gives one comment another place does to the pages.  *)
OneIsMoved(o, p, S, n, M) ==
  /\ \E y : Beyond(p, S, n) \subseteq Beyond(o, S, n) \cup {y}
  /\ \E y : M \cap Within(p, S, n) \subseteq (M \cap Within(o, S, n)) \cup {y}

LEMMA OneMoves ==
  ASSUME NEW o \in Orders, NEW p \in Orders, NEW S \in SUBSET Ids, NEW x \in S,
         Agree(o, p, S \ {x}), NEW n \in Nat, NEW M \in SUBSET Ids
  PROVE  OneIsMoved(o, p, S, n, M)
  <1> DEFINE R == S \ {x}
  <1>1. R \in SUBSET Ids /\ x \in Ids \ R /\ S = R \cup {x}
    OBVIOUS
  <1>a. Agree(o, p, R)
    OBVIOUS
  <1> HIDE DEF R
  <1>2. /\ Beyond(o, R, n) \subseteq Beyond(o, R \cup {x}, n)
        /\ OneCrosses(o, R, x, n)
        /\ x \in Beyond(o, R \cup {x}, n) =>
             Within(o, R, n) \subseteq Within(o, R \cup {x}, n)
    BY <1>1, OneMovesAcross
  <1>3. /\ Within(p, R \cup {x}, n) \subseteq Within(p, R, n) \cup {x}
        /\ OneCrosses(p, R, x, n)
    BY <1>1, OneMovesAcross
  <1>4. Within(p, R, n) = Within(o, R, n) /\ Beyond(p, R, n) = Beyond(o, R, n)
    BY <1>1, <1>a, SamePages
  <1>5. PICK y : Beyond(p, R \cup {x}, n) \subseteq Beyond(p, R, n) \cup {y}
    BY ONLY <1>3, Zenon DEF OneCrosses
  <1>6. PICK z : Within(o, R, n) \subseteq Within(o, R \cup {x}, n) \cup {z}
    BY ONLY <1>2, Zenon DEF OneCrosses
  <1>7. Beyond(p, S, n) \subseteq Beyond(o, S, n) \cup {y}
    BY <1>1, <1>2, <1>4, <1>5
  <1>8. Within(p, S, n) \subseteq Within(o, S, n) \cup {z} \cup {x}
    BY <1>1, <1>3, <1>4, <1>6
  <1>9. x \in Within(o, S, n) \/ x \in Beyond(o, S, n)
    <2>1. Position(o, x, S) \in 1 .. Cardinality(S)
      BY PositionType
    <2> QED BY <2>1 DEF Within, Beyond
  <1>10. \E v : M \cap Within(p, S, n) \subseteq (M \cap Within(o, S, n)) \cup {v}
    <2>1. CASE x \in Within(o, S, n)
      <3>1. M \cap Within(p, S, n) \subseteq (M \cap Within(o, S, n)) \cup {z}
        BY <1>8, <2>1
      <3> QED BY <3>1
    <2>2. CASE x \in Beyond(o, S, n)
      <3>1. Within(p, S, n) \subseteq Within(o, S, n) \cup {x}
        BY <1>1, <1>2, <1>3, <1>4, <2>2
      <3>2. M \cap Within(p, S, n) \subseteq (M \cap Within(o, S, n)) \cup {x}
        BY <3>1
      <3> QED BY <3>2
    <2> QED BY <1>9, <2>1, <2>2
  <1> QED BY <1>7, <1>10 DEF OneIsMoved
-----------------------------------------------------------------------------
(* Pages follow each other.                                                *)
LEMMA PagesAdd ==
  ASSUME NEW p \in Nat, p # 0
  PROVE  /\ SkipOfPage(p) \in Nat
         /\ SkipOfPage(p + 1) = SkipOfPage(p) + Limit
         /\ SkipOfPage(p) + Limit = Limit * p
  <1>1. PICK q \in Nat : p = q + 1
    <2>1. p - 1 \in Nat /\ p = (p - 1) + 1
      OBVIOUS
    <2> QED BY <2>1
  <1>2. Limit \in Nat
    BY LimitAssumption
  <1>3. p - 1 = q /\ (p + 1) - 1 = q + 1
    BY <1>1
  <1>4. (q + 1) * Limit = q * Limit + Limit /\ q * Limit \in Nat
    BY <1>2
  <1>5. Limit * (q + 1) = q * Limit + Limit
    BY <1>2
  <1> QED BY <1>1, <1>2, <1>3, <1>4, <1>5 DEF SkipOfPage

(* However the reader sorts, it is an order.                               *)
LEMMA SortIsOrder ==
  ASSUME NEW way \in {"desc", "asc"}, NEW times \in [Ids -> Nat],
         \A c, d \in Ids : times[c] = times[d] => c = d, NEW by
  PROVE  [order |-> way, key |-> IF by = "id" THEN [c \in Ids |-> c] ELSE times]
           \in Orders
  <1> DEFINE key == IF by = "id" THEN [c \in Ids |-> c] ELSE times
  <1>1. key \in [Ids -> Nat]
    BY CommentBoundsAssumption DEF Ids
  <1>2. \A a, b \in Ids : key[a] = key[b] => a = b
    OBVIOUS
  <1> HIDE DEF key
  <1>3. [order |-> way, key |-> key] \in Orders
    BY <1>1, <1>2 DEF Orders
  <1> QED BY <1>3 DEF key

LEMMA SortsWell ==
  ASSUME CommentsTypeOK, StampsDiffer
  PROVE  Sorting \in Orders
  <1>1. walk.order \in {"desc", "asc"} /\ stamp \in [Ids -> Nat]
    BY DEF CommentsTypeOK, Walk
  <1> QED BY <1>1, SortIsOrder DEF Sorting, StampsDiffer

LEMMA SortsWellAgain ==
  ASSUME CommentsTypeOK', StampsDiffer'
  PROVE  Sorting' \in Orders
  <1>1. walk'.order \in {"desc", "asc"} /\ stamp' \in [Ids -> Nat]
    BY DEF CommentsTypeOK, Walk
  <1> QED BY <1>1, SortIsOrder DEF Sorting, StampsDiffer

(* The types of what the reader keeps.                                     *)
LEMMA WalkTypes ==
  ASSUME CommentsTypeOK
  PROVE  /\ walk.page \in Nat /\ walk.count \in Nat
         /\ walk.stale \in Nat /\ walk.left \in Nat
         /\ walk.come \in Nat /\ walk.torn \in Nat
         /\ \A c \in Ids : walk.times[c] \in Nat
         /\ Live \subseteq Ids /\ Missed \subseteq Ids
  BY DEF CommentsTypeOK, Walk, Live, Missed

(* The pages read so far have room for a number of comments.               *)
LEMMA WalkedType ==
  ASSUME CommentsTypeOK, walk.page # 0
  PROVE  Walked \in Nat
  <1>1. SkipOfPage(walk.page) \in Nat
    BY WalkTypes, PagesAdd
  <1> QED BY <1>1, LimitAssumption DEF Walked

(* The reader has seen nothing and missed nothing.                         *)
LEMMA InitComments == CommentsInit => CommentsInv
  <1> SUFFICES ASSUME NEW n \in 0 .. MaxComments, NEW page \in {0, 1},
                      NEW by \in {"id", "updatedAt"}, NEW o \in {"desc", "asc"},
                      blogPost = "live",
                      comments = [c \in Ids |-> IF c <= n THEN "live" ELSE "none"],
                      stamp = [c \in Ids |-> c],
                      clock = MaxComments,
                      next = n + 1,
                      writer = [w \in Writers |-> Rest],
                      changes = 0,
                      walk = [by |-> PaginationBy(0, page), orderBy |-> by, order |-> o,
                              at |-> "page", cursor |-> 0, page |-> page,
                              found |-> FALSE, counted |-> FALSE, count |-> 0,
                              times |-> [c \in Ids |-> 0], stays |-> 1 .. n,
                              moved |-> {}, strayed |-> FALSE,
                              stale |-> 0, left |-> 0, come |-> 0, torn |-> 0]
               PROVE  CommentsInv
    BY DEF CommentsInit
  <1>1. 1 .. n \subseteq Ids /\ 1 .. n \subseteq Live
    BY CommentBoundsAssumption DEF Ids, Live
  <1>2. PaginationBy(0, page) = IF page = 0 THEN "cursor" ELSE "offset"
    BY DEF PaginationBy
  <1>3. walk \in Walk
    BY <1>1, <1>2 DEF Walk
  <1>4. next \in 1 .. MaxComments + 1 /\ changes \in 0 .. MaxChanges
    BY CommentBoundsAssumption
  <1>5. CommentsTypeOK /\ StampsDiffer
    <2>1. stamp \in [Ids -> Nat] /\ clock \in Nat /\ StampsDiffer
      BY CommentBoundsAssumption DEF StampsDiffer, Ids
    <2>2. comments \in [Ids -> {"none", "live", "deleted"}]
      OBVIOUS
    <2> QED BY <1>3, <1>4, <2>1, <2>2 DEF CommentsTypeOK, Rest
  <1>u. \A c \in Ids : c >= next => Unborn(c)
    BY DEF Unborn, Ids
  <1>6. \A w \in Writers : WriterOK(w)
    BY DEF WriterOK, Rest
  <1>7. \A c \in Ids : walk.times[c] = 0
    OBVIOUS
  <1>8. CursorInv
    <2>1. PassedOver = {}
      BY DEF PassedOver, Passed
    <2> QED BY <1>7, <2>1, FS_EmptySet DEF CursorInv
  <1>9. OffsetInv
    <2> SUFFICES ASSUME walk.by = "offset" PROVE OffsetInv
      BY DEF OffsetInv
    <2>1. page = 1
      BY <1>2
    <2>2. Walked = 0
      BY <2>1, LimitAssumption DEF Walked, SkipOfPage
    <2>3. Within(Sorting, Live, 0) = {}
      <3>1. Sorting \in Orders /\ Live \subseteq Ids
        BY <1>5, WalkTypes, SortsWell
      <3>2. \A c \in Live : Position(Sorting, c, Live) \in 1 .. Cardinality(Live)
        BY <3>1, PositionType
      <3>3. Cardinality(Live) \in Nat
        BY <3>1, IdsAreFinite
      <3> QED BY <3>2, <3>3 DEF Within
    <2>4. Repeated = {}
      BY <1>7, <1>5, WalkTypes DEF Repeated, Beyond
    <2>5. Missed \cap Within(Sorting, Live, Walked) = {}
      BY <2>2, <2>3
    <2>6. /\ walk.page # 0
          /\ walk.counted = FALSE
          /\ walk.at = "page"
          /\ walk.come = 0 /\ walk.left = 0
      BY <2>1
    <2>7. /\ Cardinality(Repeated) <= walk.come
          /\ Cardinality(Missed \cap Within(Sorting, Live, Walked)) <= walk.left
      BY ONLY <2>4, <2>5, <2>6, FS_EmptySet
    <2> QED BY ONLY <2>6, <2>7 DEF OffsetInv
  <1> QED BY <1>1, <1>5, <1>u, <1>6, <1>8, <1>9 DEF CommentsInv, PageIsOpen

(* What the reader has is the same while the comments and the walk are,    *)
(* and the time of no comment that was written changes.                    *)
LEMMA ReaderKeeps ==
  ASSUME CommentsInv, UNCHANGED <<comments, walk>>,
         \/ UNCHANGED <<stamp, clock, next>>
         \/ /\ next \in Ids /\ next' = next + 1 /\ clock' = clock + 1
            /\ stamp' = [stamp EXCEPT ![next] = clock'],
         CommentsTypeOK', \A w \in Writers : WriterOK(w)'
  PROVE  CommentsInv'
  <1>t. CommentsTypeOK /\ StampsDiffer
    BY DEF CommentsInv
  <1>1. StampsDiffer'
    BY <1>t DEF StampsDiffer, CommentsTypeOK
  <1>2. \A c \in Ids : c >= next' => Unborn(c)'
    BY <1>t DEF CommentsInv, Unborn, CommentsTypeOK, Ids
  <1>3. UNCHANGED <<Live, Missed, Walked, Unfound>>
    BY DEF Live, Missed, Walked, Unfound
  <1>4. Live \subseteq Ids /\ Missed \subseteq Live /\ walk.cursor \in {0} \cup Ids
    BY <1>t DEF CommentsInv, CommentsTypeOK, Walk, Live, Missed
  <1>5. \A c \in Ids : c = next => c \notin Live /\ walk.times[c] = 0 /\ walk.cursor # c
    BY <1>t DEF CommentsInv, Unborn, CommentsTypeOK, Live, Ids
  <1>6. /\ \A a, b \in Ids \ {next} : Before(Sorting, a, b)' <=> Before(Sorting, a, b)
        /\ walk'.cursor = walk.cursor /\ walk'.times = walk.times
    <2>1. /\ Sorting'.order = Sorting.order
          /\ \A a \in Ids \ {next} : Sorting'.key[a] = Sorting.key[a]
      BY <1>t DEF CommentsTypeOK, Sorting
    <2> QED BY <2>1 DEF Before
  <1>7. /\ Sorting \in Orders /\ Sorting' \in Orders
    BY <1>t, <1>1, SortsWell, SortsWellAgain
  <1>8. Agree(Sorting, Sorting', Live)
    <2>1. Live \subseteq Ids \ {next}
      BY <1>4, <1>5
    <2> QED BY <1>6, <2>1 DEF Agree, Before
  <1>9. \A c \in Ids : c # next => (Passed(c)' <=> Passed(c))
    BY <1>4, <1>5, <1>6 DEF Passed
  <1>10. PassedOver' = PassedOver
    BY <1>3, <1>4, <1>5, <1>9 DEF PassedOver, Unfound
  <1>11. CursorInv'
    <2>1. CursorInv
      BY DEF CommentsInv
    <2>2. \A c \in Ids : walk.times[c] # 0 /\ Passed(c) => Passed(c)'
      BY <1>5, <1>9
    <2> QED BY <1>3, <1>10, <2>1, <2>2 DEF CursorInv
  <1>12. OffsetInv'
    <2> SUFFICES ASSUME walk.by = "offset" PROVE OffsetInv'
      BY DEF OffsetInv
    <2>1. OffsetInv /\ walk.page # 0
      BY DEF CommentsInv, OffsetInv
    <2>2. Walked \in Nat
      BY <1>t, <2>1, WalkedType
    <2>3. /\ Within(Sorting', Live, Walked) = Within(Sorting, Live, Walked)
          /\ Beyond(Sorting', Live, Walked) = Beyond(Sorting, Live, Walked)
      BY <1>4, <1>7, <1>8, <2>2, SamePages
    <2>4. /\ Within(Sorting', Live', Walked') = Within(Sorting, Live, Walked)
          /\ Beyond(Sorting', Live', Walked') = Beyond(Sorting, Live, Walked)
      BY <1>3, <2>3
    <2>5. Repeated' = Repeated
      BY <2>4, <1>6 DEF Repeated
    <2> QED BY <1>3, <2>1, <2>4, <2>5 DEF OffsetInv
  <1> QED BY <1>t, <1>1, <1>2, <1>3, <1>11, <1>12 DEF CommentsInv, PageIsOpen
-----------------------------------------------------------------------------
(* The order after an UPDATE of c: it has another place, the others agree. *)
UpdatedLast(c) ==
  /\ clock' = clock + 1
  /\ stamp' = [stamp EXCEPT ![c] = clock']

(* A request writes its row: a comment comes, goes, does both, or neither. *)
LEMMA WriteStep ==
  ASSUME CommentsInv, NEW w \in Writers, NEW to \in {"none", "live", "deleted"},
         NEW moves \in BOOLEAN,
         writer[w].does # "nothing", WriteComment(w, to, moves),
         \/ moves = FALSE /\ UNCHANGED <<clock, stamp>>
         \/ moves = (walk.orderBy = "updatedAt") /\ UpdatedLast(writer[w].id)
  PROVE  CommentsInv'
  <1>c. PICK c \in Ids : c = writer[w].id /\ c < next
    BY DEF CommentsInv, WriterOK
  <1> DEFINE mv == moves = TRUE
             goes == comments[c] = "live" /\ (to # "live" \/ mv)
             comes == to = "live" /\ (comments[c] # "live" \/ mv)
             tears == comments[c] # "live" /\ to = "live" /\ walk.counted /\ ~walk.found
             o == Sorting
             p == Sorting'
  <1>t. /\ CommentsTypeOK /\ walk \in Walk /\ walk.stays \subseteq Live
        /\ StampsDiffer
    BY DEF CommentsInv, CommentsTypeOK
  <1>1. /\ comments' = [comments EXCEPT ![c] = to]
        /\ writer' = [writer EXCEPT ![w] = Rest]
        /\ UNCHANGED <<blogPost, next, changes>>
    BY <1>c DEF WriteComment
  <1>2. walk' = [walk EXCEPT
           !.stays = IF to = "live" THEN walk.stays ELSE walk.stays \ {c},
           !.moved = IF mv THEN walk.moved \cup {c} ELSE walk.moved,
           !.strayed = walk.strayed \/ (mv /\ walk.cursor = c),
           !.left = IF goes THEN walk.left + 1 ELSE walk.left,
           !.come = IF comes THEN walk.come + 1 ELSE walk.come,
           !.torn = IF tears THEN walk.torn + 1 ELSE walk.torn]
    BY <1>c DEF WriteComment
  <1>u. \/ UNCHANGED <<clock, stamp>> /\ ~mv
        \/ UpdatedLast(c) /\ (mv <=> walk.orderBy = "updatedAt")
    BY <1>c
  <1>g. /\ goes <=> comments[c] = "live" /\ (to # "live" \/ mv)
        /\ comes <=> to = "live" /\ (comments[c] # "live" \/ mv)
        /\ tears => comes /\ ~goes /\ walk.counted /\ ~walk.found
        /\ comes /\ ~goes /\ walk.counted /\ ~walk.found => tears
    OBVIOUS
  <1> HIDE DEF mv, goes, comes, tears
  <1>3. /\ walk'.by = walk.by /\ walk'.orderBy = walk.orderBy
        /\ walk'.order = walk.order /\ walk'.at = walk.at
        /\ walk'.cursor = walk.cursor /\ walk'.page = walk.page
        /\ walk'.found = walk.found /\ walk'.counted = walk.counted
        /\ walk'.count = walk.count /\ walk'.times = walk.times
        /\ walk'.stale = walk.stale
        /\ walk'.stays = (IF to = "live" THEN walk.stays ELSE walk.stays \ {c})
        /\ walk'.moved = (IF mv THEN walk.moved \cup {c} ELSE walk.moved)
        /\ walk'.strayed = (walk.strayed \/ (mv /\ walk.cursor = c))
        /\ walk'.left = (IF goes THEN walk.left + 1 ELSE walk.left)
        /\ walk'.come = (IF comes THEN walk.come + 1 ELSE walk.come)
        /\ walk'.torn = (IF tears THEN walk.torn + 1 ELSE walk.torn)
    BY <1>t, <1>2 DEF Walk
  <1>4. /\ walk'.left \in Nat /\ walk'.come \in Nat /\ walk'.torn \in Nat
        /\ walk'.stays \subseteq walk.stays /\ walk'.stays \subseteq Ids
        /\ walk'.moved \subseteq Ids /\ walk'.strayed \in BOOLEAN
    BY <1>t, <1>c, <1>3 DEF Walk
  <1>5. walk' \in Walk
    BY <1>t, <1>2, <1>3, <1>4 DEF Walk
  <1>6. CommentsTypeOK'
    <2>1. clock' \in Nat /\ stamp' \in [Ids -> Nat]
      BY <1>t, <1>u DEF CommentsTypeOK, UpdatedLast
    <2> QED BY <1>t, <1>1, <1>5, <2>1 DEF CommentsTypeOK, Rest
  <1>7. \A v \in Writers : WriterOK(v)'
    BY <1>t, <1>1 DEF CommentsInv, CommentsTypeOK, WriterOK, Rest
  <1>s. StampsDiffer'
    BY <1>t, <1>c, <1>u DEF StampsDiffer, CommentsTypeOK, UpdatedLast
  <1>x. \A d \in Ids : d >= next' => Unborn(d)'
    BY <1>t, <1>c, <1>1, <1>3 DEF CommentsInv, Unborn, CommentsTypeOK, Ids
  <1>8. Live' = IF to = "live" THEN Live \cup {c} ELSE Live \ {c}
    BY <1>t, <1>1, <1>c DEF CommentsTypeOK, Live
  <1>l. c \in Live <=> comments[c] = "live"
    BY <1>c DEF Live
  <1>9. /\ goes /\ ~comes => c \in Live /\ Live' = Live \ {c}
        /\ comes /\ ~goes => c \notin Live /\ Live' = Live \cup {c}
        /\ goes /\ comes => c \in Live /\ Live' = Live
        /\ ~goes /\ ~comes => Live' = Live /\ (mv => c \notin Live)
    BY <1>8, <1>g, <1>l
  <1>10. walk'.stays \subseteq Live'
    BY <1>t, <1>3, <1>8
  <1>11. /\ Missed' \subseteq Missed
         /\ ~goes => Missed' = Missed
         /\ Missed \subseteq Live
         /\ Missed' \subseteq Live'
    <2>1. Missed' = {d \in walk'.stays : walk.times[d] = 0}
      BY <1>3 DEF Missed
    <2>2. ~goes => walk'.stays = walk.stays
      BY <1>t, <1>3, <1>g, <1>l
    <2> QED BY <1>t, <1>4, <1>10, <2>1, <2>2 DEF Missed
  <1>o. /\ o \in Orders /\ p \in Orders
        /\ ~mv => p = o
        /\ \A a, b \in Ids \ {c} : Before(p, a, b) <=> Before(o, a, b)
        /\ mv => \A d \in Ids \ {c} : Before(p, d, c) <=> walk.order = "asc"
    <2>1. o \in Orders /\ p \in Orders
      BY <1>t, <1>6, <1>s, SortsWell, SortsWellAgain
    <2>2. walk.orderBy \in {"id", "updatedAt"} /\ walk.order \in {"desc", "asc"}
      BY <1>t DEF Walk
    <2>3. /\ ~mv => p = o
          /\ p.order = walk.order /\ o.order = walk.order
          /\ mv => p.key = stamp' /\ o.key = stamp /\ UpdatedLast(c)
      BY <1>3, <1>u, <2>2 DEF Sorting
    <2>4. /\ \A a, b \in Ids \ {c} : Before(p, a, b) <=> Before(o, a, b)
          /\ mv => \A d \in Ids \ {c} : Before(p, d, c) <=> walk.order = "asc"
      BY <1>t, <1>c, <2>2, <2>3 DEF UpdatedLast, CommentsTypeOK, StampsDiffer, Before
    <2> QED BY <2>1, <2>3, <2>4
  <1>w. /\ Live \subseteq Ids /\ Missed \subseteq Ids
        /\ Live' \subseteq Ids /\ Missed' \subseteq Ids
        /\ walk.left \in Nat /\ walk.come \in Nat /\ walk.torn \in Nat
        /\ walk.count \in Nat /\ walk.page \in Nat /\ walk.stale \in Nat
    <2>1. Live' \subseteq Ids
      BY DEF Live
    <2> QED BY <1>t, <1>11, <2>1, WalkTypes
  <1> HIDE DEF o, p
  <1>12. CursorInv'
    <2>1. /\ \A d \in Ids : Passed(d) <=>
               walk.cursor # 0 /\ (d = walk.cursor \/ Before(o, d, walk.cursor))
          /\ \A d \in Ids : Passed(d)' <=>
               walk.cursor # 0 /\ (d = walk.cursor \/ Before(p, d, walk.cursor))
      BY <1>3 DEF Passed, o, p
    <2>c. walk.cursor \in {0} \cup Ids
      BY <1>t DEF Walk
    <2>2. ASSUME ~walk'.strayed
          PROVE  /\ \A d \in Ids : d # c => (Passed(d)' <=> Passed(d))
                 /\ ~mv => (Passed(c)' <=> Passed(c))
                 /\ mv => (Passed(c)' <=> walk.cursor # 0 /\ walk.order = "desc")
      <3>1. mv => walk.cursor # c
        BY <1>3, <2>2
      <3>2. ~mv => \A d \in Ids : Passed(d)' <=> Passed(d)
        BY <1>o, <2>1
      <3>3. ASSUME mv, NEW d \in Ids, d # c PROVE Passed(d)' <=> Passed(d)
        BY <1>o, <2>1, <2>c, <3>1, <3>3
      <3>4. ASSUME mv, walk.cursor # 0
            PROVE  Before(p, c, walk.cursor) <=> walk.order = "desc"
        <4>1. Before(p, walk.cursor, c) <=> walk.order = "asc"
          BY <1>o, <2>c, <3>1, <3>4
        <4>2. Before(p, walk.cursor, c) <=> ~Before(p, c, walk.cursor)
          BY <1>o, <1>c, <2>c, <3>1, <3>4, OrderIsTotal
        <4>3. walk.order \in {"desc", "asc"}
          BY <1>t DEF Walk
        <4> QED BY <4>1, <4>2, <4>3
      <3>5. mv => (Passed(c)' <=> walk.cursor # 0 /\ walk.order = "desc")
        BY <1>c, <2>1, <3>1, <3>4
      <3> QED BY <1>c, <3>2, <3>3, <3>5
    <2>3. /\ Unfound' = IF walk.order = "asc" THEN Missed' ELSE Missed' \ walk'.moved
          /\ Unfound = IF walk.order = "asc" THEN Missed ELSE Missed \ walk.moved
      BY <1>3 DEF Unfound
    <2>4. walk.moved \subseteq walk'.moved /\ (mv => c \in walk'.moved)
      BY <1>3
    <2>5. Unfound' \subseteq Unfound /\ Unfound \subseteq Ids
      BY <2>3, <2>4, <1>11, <1>w
    <2>6. ~walk'.strayed => PassedOver' \subseteq PassedOver
      <3> SUFFICES ASSUME ~walk'.strayed, NEW d \in PassedOver' PROVE d \in PassedOver
        OBVIOUS
      <3>1. d \in Unfound' /\ Passed(d)' /\ d \in Unfound /\ d \in Ids
        BY <2>5 DEF PassedOver
      <3>2. CASE ~(mv /\ d = c)
        BY <3>1, <3>2, <2>2 DEF PassedOver
      <3>3. CASE mv /\ d = c
        <4>1. walk.order = "desc" /\ c \notin Unfound'
          BY <2>2, <2>3, <2>4, <3>1, <3>3
        <4> QED BY <4>1, <3>1, <3>3
      <3> QED BY <3>2, <3>3
    <2>7. /\ ~walk'.strayed => Cardinality(PassedOver') <= Cardinality(PassedOver)
          /\ Cardinality(Unfound') <= Cardinality(Unfound)
          /\ Cardinality(PassedOver') \in Nat /\ Cardinality(PassedOver) \in Nat
          /\ Cardinality(Unfound') \in Nat /\ Cardinality(Unfound) \in Nat
      <3>1. /\ PassedOver \in SUBSET Ids /\ PassedOver' \in SUBSET Ids
            /\ Unfound \in SUBSET Ids /\ Unfound' \in SUBSET Ids
        BY <2>5 DEF PassedOver
      <3> QED BY <2>5, <2>6, <3>1, FewMore, IdsAreFinite
    <2>8. CursorInv
      BY DEF CommentsInv
    <2> SUFFICES ASSUME walk.by = "cursor", ~walk'.strayed PROVE CursorInv'
      BY <1>3 DEF CursorInv
    <2>9. ~walk.strayed
      BY <1>3
    <2>10. \A d \in Ids :
             walk'.times[d] > 1 => d \in walk'.moved /\ walk'.order = "asc"
      BY <1>3, <2>4, <2>8, <2>9 DEF CursorInv
    <2>11. ASSUME walk.at = "page", NEW d \in Ids, walk.times[d] # 0,
                  ~(d \in walk'.moved /\ walk.order = "asc")
           PROVE  Passed(d)'
      <3>1. Passed(d)
        BY <2>4, <2>8, <2>9, <2>11 DEF CursorInv
      <3>2. CASE mv /\ d = c
        <4>1. walk.order = "desc" /\ walk.cursor # 0
          BY <1>t, <2>1, <2>4, <2>11, <3>1, <3>2 DEF Walk
        <4> QED BY <2>2, <3>2, <4>1
      <3>3. CASE ~(mv /\ d = c)
        BY <2>2, <3>1, <3>3
      <3> QED BY <3>2, <3>3
    <2>12. walk.at = "page" => Cardinality(PassedOver') <= walk'.stale
      BY <1>3, <1>w, <2>7, <2>8, <2>9 DEF CursorInv
    <2>13. walk.at = "done" => Cardinality(Unfound') <= walk'.stale
      BY <1>3, <1>w, <2>7, <2>8, <2>9 DEF CursorInv
    <2> QED BY <1>3, <2>10, <2>11, <2>12, <2>13 DEF CursorInv
  <1>13. ASSUME walk.by = "offset" PROVE OffsetInv'
    <2>1. OffsetInv /\ walk.page # 0
      BY <1>13 DEF CommentsInv, OffsetInv
    <2> DEFINE n == Walked
               A == Missed \cap Within(o, Live, n)
               B == Missed' \cap Within(p, Live', n)
    <2>2. n \in Nat /\ Walked' = n
      BY <1>t, <1>3, <2>1, WalkedType DEF Walked
    <2> HIDE DEF n
    <2>3. /\ Repeated = {d \in Ids : walk.times[d] > 1} \cup
                        {d \in Beyond(o, Live, n) : walk.times[d] # 0}
          /\ Repeated' = {d \in Ids : walk.times[d] > 1} \cup
                         {d \in Beyond(p, Live', n) : walk.times[d] # 0}
      BY <1>3, <2>2 DEF Repeated, n, o, p
    <2>4. /\ Repeated \subseteq Ids /\ Repeated' \subseteq Ids
          /\ A \subseteq Ids /\ B \subseteq Ids
      BY <1>w, <2>3 DEF Beyond
    <2>5. /\ \A S \in SUBSET Ids : Cardinality(S) \in Nat
          /\ Cardinality(Missed') <= Cardinality(Missed)
      BY <1>w, <1>11, IdsAreFinite, FewMore
    <2>6. /\ Cardinality(Repeated) <= walk.come
          /\ walk.at = "page" => Cardinality(A) <= walk.left
      BY <1>13, <2>1 DEF OffsetInv, n, o
    <2>a. Agree(o, p, Live \ {c})
      BY <1>o, <1>w DEF Agree
    <2>7. /\ Cardinality(Repeated') <= walk'.come
          /\ Cardinality(B) <= Cardinality(A) + walk'.left - walk.left
          /\ Cardinality(Live') <= Cardinality(Live) + walk'.torn - walk.torn
             \/ ~walk.counted \/ walk.found
      <3>1. CASE ~goes /\ ~comes
        <4>1. Live' = Live /\ Missed' = Missed
          BY <3>1, <1>9, <1>11
        <4>2. Agree(o, p, Live)
          <5>1. CASE mv
            BY <5>1, <3>1, <1>9, <2>a
          <5>2. CASE ~mv
            BY <5>2, <1>o DEF Agree
          <5> QED BY <5>1, <5>2
        <4>3. /\ Within(p, Live, n) = Within(o, Live, n)
              /\ Beyond(p, Live, n) = Beyond(o, Live, n)
          BY <1>o, <1>w, <2>2, <4>2, SamePages
        <4>4. Repeated' = Repeated /\ B = A
          BY <2>3, <4>1, <4>3
        <4>5. walk'.come = walk.come /\ walk'.left = walk.left /\ walk'.torn = walk.torn
          BY <3>1, <1>3, <1>g
        <4>6. /\ Cardinality(Repeated') = Cardinality(Repeated)
              /\ Cardinality(B) = Cardinality(A)
              /\ Cardinality(Live') = Cardinality(Live)
          BY ONLY <4>1, <4>4, Zenon
        <4>7. /\ Cardinality(A) \in Nat /\ Cardinality(Live) \in Nat
          BY <1>w, <2>4, <2>5
        <4> QED BY <1>w, <2>6, <4>5, <4>6, <4>7
      <3>2. CASE comes /\ ~goes
        <4>1. /\ c \in Ids \ Live /\ Live' = Live \cup {c} /\ ~goes
              /\ Missed' = Missed /\ c \notin Missed
          BY <3>2, <1>c, <1>9, <1>11
        <4>2. Agree(o, p, Live)
          BY <2>a, <4>1 DEF Agree
        <4>3. /\ Within(p, Live, n) = Within(o, Live, n)
              /\ Beyond(p, Live, n) = Beyond(o, Live, n)
          BY <1>o, <1>w, <2>2, <4>2, SamePages
        <4>a. p \in Orders /\ Live \in SUBSET Ids /\ c \in Ids \ Live /\ n \in Nat
          BY <4>1, <1>o, <1>w, <2>2
        <4>0. Within(p, Live \cup {c}, n) \subseteq Within(p, Live, n) \cup {c}
          BY ONLY <4>a, OneMovesAcross
        <4>4. B \subseteq A
          BY <4>0, <4>1, <4>3
        <4>c. OneCrosses(p, Live, c, n)
          BY ONLY <4>a, OneMovesAcross
        <4>b. PICK y : Beyond(p, Live \cup {c}, n) \subseteq Beyond(p, Live, n) \cup {y}
          BY ONLY <4>c, Zenon DEF OneCrosses
        <4>5. Beyond(p, Live', n) \subseteq Beyond(o, Live, n) \cup {y}
          BY <4>b, <4>1, <4>3
        <4>6. Repeated' \subseteq Repeated \cup {y}
          BY <4>5, <2>3
        <4>7. /\ Cardinality(B) <= Cardinality(A)
              /\ Cardinality(Repeated') <= Cardinality(Repeated) + 1
              /\ Cardinality(Live') <= Cardinality(Live) + 1
          BY <4>1, <4>4, <4>6, <2>4, <1>w, FewMore
        <4>8. /\ walk'.come = walk.come + 1 /\ walk'.left = walk.left
              /\ walk.counted /\ ~walk.found => walk'.torn = walk.torn + 1
          BY <3>2, <1>3, <1>g
        <4>9. /\ Cardinality(A) \in Nat /\ Cardinality(Live) \in Nat
              /\ Cardinality(B) \in Nat /\ Cardinality(Repeated) \in Nat
              /\ Cardinality(Repeated') \in Nat /\ Cardinality(Live') \in Nat
          BY <1>w, <2>4, <2>5
        <4> HIDE DEF A, B
        <4> QED BY <4>7, <4>8, <4>9, <1>w, <2>6
      <3>3. CASE goes /\ ~comes
        <4>1. /\ c \in Ids \ Live' /\ Live = Live' \cup {c}
          BY <3>3, <1>c, <1>9
        <4>2. Agree(o, p, Live')
          BY <2>a, <4>1 DEF Agree
        <4>3. /\ Within(p, Live', n) = Within(o, Live', n)
              /\ Beyond(p, Live', n) = Beyond(o, Live', n)
          BY <1>o, <1>w, <2>2, <4>2, SamePages
        <4>a. o \in Orders /\ Live' \in SUBSET Ids /\ c \in Ids \ Live' /\ n \in Nat
          BY <4>1, <1>o, <1>w, <2>2
        <4>0. Beyond(o, Live', n) \subseteq Beyond(o, Live' \cup {c}, n)
          BY ONLY <4>a, OneMovesAcross
        <4>4. Repeated' \subseteq Repeated
          BY <4>0, <4>1, <4>3, <2>3
        <4>c. OneCrosses(o, Live', c, n)
          BY ONLY <4>a, OneMovesAcross
        <4>b. PICK y : Within(o, Live', n) \subseteq Within(o, Live' \cup {c}, n) \cup {y}
          BY ONLY <4>c, Zenon DEF OneCrosses
        <4>5. B \subseteq A \cup {y}
          BY <4>b, <4>1, <4>3, <1>11
        <4>6. /\ Cardinality(B) <= Cardinality(A) + 1
              /\ Cardinality(Repeated') <= Cardinality(Repeated)
              /\ Cardinality(Live') <= Cardinality(Live)
          BY <4>1, <4>4, <4>5, <2>4, <1>w, FewMore
        <4>7. /\ walk'.come = walk.come /\ walk'.left = walk.left + 1
              /\ walk'.torn = walk.torn
          BY <3>3, <1>3, <1>g
        <4>8. /\ Cardinality(A) \in Nat /\ Cardinality(Live) \in Nat
              /\ Cardinality(B) \in Nat /\ Cardinality(Repeated) \in Nat
              /\ Cardinality(Repeated') \in Nat /\ Cardinality(Live') \in Nat
          BY <1>w, <2>4, <2>5
        <4> HIDE DEF A, B
        <4> QED BY <4>6, <4>7, <4>8, <1>w, <2>6
      <3>4. CASE goes /\ comes
        <4>1. c \in Live /\ Live' = Live
          BY <3>4, <1>9
        <4>2. OneIsMoved(o, p, Live, n, Missed)
          BY <4>1, <1>o, <1>w, <2>2, <2>a, OneMoves
        <4>3. PICK y : Beyond(p, Live, n) \subseteq Beyond(o, Live, n) \cup {y}
          BY ONLY <4>2, Zenon DEF OneIsMoved
        <4>4. PICK z : Missed \cap Within(p, Live, n)
                         \subseteq (Missed \cap Within(o, Live, n)) \cup {z}
          BY ONLY <4>2, Zenon DEF OneIsMoved
        <4>5. Repeated' \subseteq Repeated \cup {y}
          BY <4>1, <4>3, <2>3
        <4>6. B \subseteq A \cup {z}
          BY <4>1, <4>4, <1>11
        <4>7. /\ Cardinality(B) <= Cardinality(A) + 1
              /\ Cardinality(Repeated') <= Cardinality(Repeated) + 1
          BY <4>5, <4>6, <2>4, FewMore
        <4>8. Cardinality(Live') = Cardinality(Live)
          BY ONLY <4>1, Zenon
        <4>9. /\ walk'.come = walk.come + 1 /\ walk'.left = walk.left + 1
              /\ walk'.torn = walk.torn
          BY <3>4, <1>3, <1>g
        <4>10. /\ Cardinality(A) \in Nat /\ Cardinality(Live) \in Nat
               /\ Cardinality(B) \in Nat /\ Cardinality(Repeated) \in Nat
               /\ Cardinality(Repeated') \in Nat
          BY <1>w, <2>4, <2>5
        <4> HIDE DEF A, B
        <4> QED BY <4>7, <4>8, <4>9, <4>10, <1>w, <2>6
      <3> QED BY <3>1, <3>2, <3>3, <3>4
    <2>8. Missed' \cap Within(Sorting', Live', Walked') = B
      BY <2>2 DEF p
    <2>9. /\ Cardinality(A) \in Nat /\ Cardinality(B) \in Nat
          /\ Cardinality(Live) \in Nat /\ Cardinality(Live') \in Nat
          /\ Cardinality(Missed) \in Nat /\ Cardinality(Missed') \in Nat
      BY <1>w, <2>4, <2>5
    <2> HIDE DEF A, B
    <2>10. /\ walk.left <= walk'.left /\ walk.torn <= walk'.torn
           /\ walk'.left \in Nat /\ walk'.torn \in Nat
      BY <1>3, <1>4, <1>w
    <2>11. walk.at = "page" => Cardinality(B) <= walk'.left
      BY <2>6, <2>7, <2>9, <2>10, <1>w
    <2>12. walk.at = "page" /\ walk.counted /\ ~walk.found =>
             Cardinality(Live') <= walk.count + walk'.torn
      BY <1>13, <2>1, <2>7, <2>9, <2>10, <1>3, <1>w DEF OffsetInv
    <2>13. walk.at = "page" /\ walk.counted /\ walk.found
           /\ walk.count <= Limit * walk.page =>
             Cardinality(Missed') <= walk'.left + walk'.torn
      BY <1>13, <2>1, <2>5, <2>9, <2>10, <1>w DEF OffsetInv
    <2>14. walk.at = "done" => Cardinality(Missed') <= walk'.left + walk'.torn
      BY <1>13, <2>1, <2>5, <2>9, <2>10, <1>w DEF OffsetInv
    <2> QED BY <1>3, <2>1, <2>7, <2>8, <2>11, <2>12, <2>13, <2>14 DEF OffsetInv
  <1>14. OffsetInv'
    BY <1>3, <1>13 DEF OffsetInv
  <1>15. PageIsOpen'
    BY <1>3 DEF CommentsInv, PageIsOpen
  <1> QED BY <1>6, <1>7, <1>s, <1>x, <1>10, <1>12, <1>14, <1>15 DEF CommentsInv

(* An UPDATE of the row.                                                   *)
LEMMA UpdateStep ==
  ASSUME CommentsInv, NEW w \in Writers, NEW to \in {"none", "live", "deleted"},
         writer[w].does # "nothing", UpdateComment(w, to)
  PROVE  CommentsInv'
  <1> DEFINE moves == walk.orderBy = "updatedAt"
  <1>1. WriteComment(w, to, moves) /\ UpdatedLast(writer[w].id)
    BY DEF UpdateComment, UpdatedLast
  <1>2. moves \in BOOLEAN /\ moves = (walk.orderBy = "updatedAt")
    OBVIOUS
  <1> HIDE DEF moves
  <1> QED BY <1>1, <1>2, WriteStep
-----------------------------------------------------------------------------
(* What the cursor leaves out of its range has been passed, and the other  *)
(* way round but for the row of the cursor.                                *)
LEMMA RangeOfCursor ==
  ASSUME CommentsTypeOK, StampsDiffer
  PROVE  /\ FromCursor(Sorting, walk.cursor) \subseteq Live
         /\ \A c \in Live : ~Passed(c) => c \in FromCursor(Sorting, walk.cursor)
         /\ \A c \in FromCursor(Sorting, walk.cursor) :
              Passed(c) => walk.cursor # 0 /\ c = walk.cursor
  <1> USE WalkTypes, SortsWell
  <1>1. CASE walk.cursor = 0
    BY <1>1 DEF FromCursor, Passed
  <1>2. CASE walk.cursor # 0
    <2>1. walk.cursor \in Ids
      BY <1>2 DEF CommentsTypeOK, Walk
    <2>2. \A c \in Ids : ~(c = walk.cursor) /\ ~Before(Sorting, c, walk.cursor) =>
            Before(Sorting, walk.cursor, c)
      BY <2>1, OrderIsTotal
    <2>3. \A c \in Ids : ~(Before(Sorting, c, walk.cursor) /\ Before(Sorting, walk.cursor, c))
      BY <2>1, OrderIsTotal
    <2> QED BY <1>2, <2>2, <2>3 DEF FromCursor, Passed
  <1> QED BY <1>1, <1>2

(* The row of the cursor, if it is there, is the first of its range.       *)
LEMMA CursorIsFirst ==
  ASSUME CommentsTypeOK, StampsDiffer, walk.cursor \in FromCursor(Sorting, walk.cursor)
  PROVE  Position(Sorting, walk.cursor, FromCursor(Sorting, walk.cursor)) = 1
  <1> DEFINE S == FromCursor(Sorting, walk.cursor)
             c == walk.cursor
  <1>1. /\ Sorting \in Orders /\ S \in SUBSET Ids /\ c \in S
    BY WalkTypes, SortsWell, RangeOfCursor
  <1>2. c # 0
    BY <1>1, CommentBoundsAssumption DEF Ids
  <1>3. UpTo(Sorting, c, S) = {c}
    <2>1. S = {d \in Live : d = c \/ Before(Sorting, c, d)}
      BY <1>2 DEF FromCursor
    <2>2. \A d \in Ids : ~(Before(Sorting, c, d) /\ Before(Sorting, d, c))
      BY <1>1, OrderIsTotal
    <2> QED BY <1>1, <2>1, <2>2 DEF UpTo
  <1> HIDE DEF S
  <1>4. Position(Sorting, c, S) = Cardinality(UpTo(Sorting, c, S))
    BY <1>1, PositionType
  <1> QED BY <1>3, <1>4, FS_Singleton DEF S

(* A page shows only comments the reader has not seen.  It passes over one *)
(* at most, and only when its cursor is gone.                              *)
LEMMA CursorPageShowsNew ==
  ASSUME CommentsTypeOK, StampsDiffer
  PROVE  LET S == FromCursor(Sorting, walk.cursor)
             skip == SkipOfCursor(walk.cursor)
             page == Slice(Sorting, S, skip)
         IN  /\ page \in SUBSET S
             /\ \A c \in page : ~Passed(c)
             /\ \E y : \A c \in S :
                  /\ ~Passed(c)
                  /\ Position(Sorting, c, S) <= skip + Limit
                  /\ c \notin page
                  => c = y /\ walk.cursor # 0 /\ walk.cursor \notin Live
  <1> DEFINE S == FromCursor(Sorting, walk.cursor)
             skip == SkipOfCursor(walk.cursor)
             page == Slice(Sorting, S, skip)
             P(c) == Position(Sorting, c, S)
  <1>1. Sorting \in Orders /\ S \in SUBSET Ids /\ S \subseteq Live
    BY WalkTypes, SortsWell, RangeOfCursor
  <1>2. page \in SUBSET S
    BY DEF Slice
  <1>3. \A c \in S : Passed(c) => walk.cursor # 0 /\ c = walk.cursor
    BY RangeOfCursor
  <1>4. walk.cursor \in S => P(walk.cursor) = 1
    BY CursorIsFirst
  <1>5. /\ \A c \in S : P(c) \in 1 .. Cardinality(S)
        /\ \A c, d \in S : P(c) = P(d) => c = d
        /\ Cardinality(S) \in Nat
    BY <1>1, PositionType, PositionOrders, IdsAreFinite
  <1>6. skip = IF walk.cursor = 0 THEN 0 ELSE 1
    BY DEF SkipOfCursor
  <1>7. \A c \in S : c \in page <=> P(c) \in (skip + 1) .. (skip + Limit)
    BY DEF Slice
  <1>8. walk.cursor # 0 => (walk.cursor \in S <=> walk.cursor \in Live)
    BY <1>1 DEF FromCursor
  <1> HIDE DEF S, skip, page, P
  <1>9. \A c \in page : ~Passed(c)
    BY <1>2, <1>3, <1>4, <1>5, <1>6, <1>7, LimitAssumption
  <1>10. ASSUME NEW c \in S, ~Passed(c), P(c) <= skip + Limit, c \notin page
         PROVE  P(c) = 1 /\ walk.cursor # 0 /\ walk.cursor \notin Live
    <2>1. P(c) = 1 /\ walk.cursor # 0
      BY <1>10, <1>5, <1>6, <1>7, LimitAssumption
    <2>2. c # walk.cursor
      BY <1>10, <2>1 DEF Passed
    <2> QED BY <1>4, <1>5, <1>8, <2>1, <2>2
  <1>11. \E y : \A c \in S : P(c) = 1 => c = y
    BY <1>5
  <1>12. PICK y : \A c \in S : P(c) = 1 => c = y
    BY <1>11
  <1>13. \A c \in S : ~Passed(c) /\ P(c) <= skip + Limit /\ c \notin page =>
           c = y /\ walk.cursor # 0 /\ walk.cursor \notin Live
    BY <1>10, <1>12
  <1> QED BY <1>2, <1>9, <1>13 DEF S, skip, page, P

(* The next page from the cursor.                                          *)
LEMMA CursorPageStep ==
  ASSUME CommentsInv, CursorPage
  PROVE  CommentsInv'
  <1> DEFINE o == Sorting
             S == FromCursor(o, walk.cursor)
             skip == SkipOfCursor(walk.cursor)
             page == Slice(o, S, skip)
             full == Cardinality(page) >= Limit
             last == Last(o, page)
             P(c) == Position(o, c, S)
             late == walk.cursor # 0 /\ walk.cursor \notin Live
  <1>t. /\ CommentsTypeOK /\ walk \in Walk /\ walk.stays \subseteq Live
        /\ StampsDiffer
    BY DEF CommentsInv, CommentsTypeOK
  <1>1. /\ walk' = [walk EXCEPT
             !.times = See(page),
             !.stale = IF late THEN walk.stale + 1 ELSE walk.stale,
             !.at = IF full THEN "page" ELSE "done",
             !.cursor = IF full THEN last ELSE 0]
        /\ UNCHANGED <<blogPost, comments, stamp, clock, next, writer, changes>>
        /\ walk.by = "cursor" /\ walk.at = "page"
    BY DEF CursorPage
  <1>2. /\ o \in Orders /\ S \in SUBSET Ids /\ page \in SUBSET S
        /\ Live \subseteq Ids /\ Missed \subseteq Ids /\ S \subseteq Live
        /\ walk.stale \in Nat /\ \A c \in Ids : walk.times[c] \in Nat
    BY <1>t, WalkTypes, SortsWell, RangeOfCursor, CursorPageShowsNew
  <1>3. \A c \in page : ~Passed(c)
    BY <1>t, CursorPageShowsNew
  <1>4. PICK y : \A c \in S :
          ~Passed(c) /\ P(c) <= skip + Limit /\ c \notin page => c = y /\ late
    BY <1>t, CursorPageShowsNew
  <1>5. \A c \in Live : ~Passed(c) => c \in S
    BY <1>t, RangeOfCursor
  <1>6. /\ skip \in Nat
        /\ \A c \in S : P(c) \in Nat
        /\ \A c \in page : P(c) <= skip + Limit
        /\ \A c, d \in S : Before(o, c, d) => P(c) < P(d)
    <2>1. skip \in Nat
      BY DEF SkipOfCursor
    <2> HIDE DEF skip
    <2>2. \A c \in page : P(c) <= skip + Limit
      BY <2>1, LimitAssumption DEF Slice
    <2> HIDE DEF o
    <2>3. \A c \in S : P(c) \in Nat
      <3>1. \A c \in S : P(c) \in 1 .. Cardinality(S)
        BY <1>2, PositionType
      <3> QED BY <3>1
    <2>4. ASSUME NEW c \in S, NEW d \in S, Before(o, c, d) PROVE P(c) < P(d)
      BY <1>2, <2>4, PositionGrows
    <2> QED BY <2>1, <2>2, <2>3, <2>4
  <1>7. ~full => \A c \in S : P(c) <= skip + Limit
    <2>1. Cardinality(page) \in Nat
      BY <1>2, IdsAreFinite
    <2>2. ~full => Cardinality(page) < Limit
      BY <2>1, LimitAssumption
    <2> QED BY <1>2, <1>6, <2>2, ShortPageIsLast
  <1>8. full => page # {}
    BY FS_EmptySet, LimitAssumption
  <1>9. full => last \in page /\ \A d \in page \ {last} : Before(o, d, last)
    BY <1>2, <1>8, LastIsLast
  <1>10. walk.cursor # 0 => walk.cursor \in Ids
    BY <1>t DEF Walk
  <1>s. /\ See(page) \in [Ids -> Nat]
        /\ \A c \in Ids : See(page)[c] =
             IF c \in page THEN walk.times[c] + 1 ELSE walk.times[c]
    BY <1>2 DEF See
  <1>f. /\ S = FromCursor(Sorting, walk.cursor)
        /\ \A c \in S : walk.cursor # 0 => c = walk.cursor \/ Before(o, walk.cursor, c)
    BY DEF FromCursor
  <1>o. Sorting' = o
    BY <1>t, <1>1 DEF Sorting, Walk
  <1> HIDE DEF o, S, skip, page, full, last, P, late
  <1>11. /\ walk'.by = "cursor" /\ walk'.order = walk.order
         /\ walk'.stays = walk.stays /\ walk'.moved = walk.moved
         /\ walk'.strayed = walk.strayed
         /\ walk'.times = See(page)
         /\ walk'.found = walk.found /\ walk'.counted = walk.counted
         /\ walk'.stale = (IF late THEN walk.stale + 1 ELSE walk.stale)
         /\ walk'.at = (IF full THEN "page" ELSE "done")
         /\ walk'.cursor = (IF full THEN last ELSE 0)
    BY <1>t, <1>1 DEF Walk
  <1>12. walk' \in Walk
    <2>1. last \in Ids \/ ~full
      BY <1>2, <1>9
    <2>2. (IF late THEN walk.stale + 1 ELSE walk.stale) \in Nat
      BY <1>2
    <2> QED BY <1>t, <1>1, <1>s, <2>1, <2>2 DEF Walk
  <1>13. CommentsTypeOK'
    BY <1>t, <1>1, <1>12 DEF CommentsTypeOK
  <1>14. Live' = Live
    BY <1>1 DEF Live
  <1>15. CursorInv
    BY DEF CommentsInv
  <1>v. Unfound = IF walk.order = "asc" THEN Missed ELSE Missed \ walk.moved
    BY DEF Unfound
  <1>z. Unfound' = IF walk.order = "asc" THEN Missed' ELSE Missed' \ walk.moved
    BY <1>11 DEF Unfound
  <1>m. /\ \A c \in Ids : c \in Missed' <=> c \in Missed /\ c \notin page
        /\ Missed' \subseteq Ids
    BY <1>t, <1>2, <1>11, <1>s DEF Missed, Walk
  <1>17. \A c \in Ids : c \in Unfound' <=> c \in Unfound /\ c \notin page
    BY <1>v, <1>z, <1>m
  <1>18. Unfound \subseteq Live /\ Unfound' \subseteq Unfound /\ Unfound' \subseteq Ids
    BY <1>t, <1>v, <1>z, <1>m DEF Missed
  <1>u. \A c \in Ids : c >= next' => Unborn(c)'
    <2>1. \A c \in Ids : c >= next => c \notin Live /\ Unborn(c)
      BY DEF CommentsInv, Unborn, Live
    <2>2. last \in Live \/ ~full
      BY <1>2, <1>9
    <2>3. \A c \in Ids : c # 0
      BY CommentBoundsAssumption DEF Ids
    <2>4. \A c \in Ids : walk'.cursor = c => c = last /\ full
      BY <1>11, <2>3
    <2>5. \A c \in Ids : c \notin Live => walk'.times[c] = walk.times[c]
      BY <1>2, <1>11, <1>s
    <2> QED BY <1>1, <2>1, <2>2, <2>4, <2>5 DEF Unborn
  <1> SUFFICES CursorInv'
    BY <1>t, <1>1, <1>11, <1>13, <1>14, <1>u
       DEF CommentsInv, OffsetInv, WriterOK, PageIsOpen, StampsDiffer
  <1> SUFFICES ASSUME ~walk.strayed PROVE CursorInv'
    BY <1>11 DEF CursorInv
  <1>16. \A c \in Ids : walk'.times[c] > 1 => c \in walk'.moved /\ walk'.order = "asc"
    <2>1. \A c \in page : walk.times[c] = 0 \/ (c \in walk.moved /\ walk.order = "asc")
      BY <1>1, <1>2, <1>3, <1>15 DEF CursorInv
    <2>2. \A c \in Ids : walk.times[c] > 1 => c \in walk.moved /\ walk.order = "asc"
      BY <1>1, <1>15 DEF CursorInv
    <2> QED BY <1>2, <1>11, <1>s, <2>1, <2>2
  <1>19. \A c \in Unfound' : P(c) <= skip + Limit \/ Passed(c) =>
           c \in PassedOver \/ (c = y /\ late)
    BY <1>4, <1>5, <1>17, <1>18, <1>2 DEF PassedOver
  <1>20. ASSUME NEW A \in SUBSET Unfound',
                \A c \in A : P(c) <= skip + Limit \/ Passed(c)
         PROVE  Cardinality(A) <= walk'.stale
    <2>1. A \subseteq Ids /\ PassedOver \subseteq Ids
      BY <1>2, <1>18 DEF PassedOver
    <2>2. /\ Cardinality(A) \in Nat /\ Cardinality(PassedOver) \in Nat
          /\ Cardinality(PassedOver) <= walk.stale
      BY <2>1, <1>1, <1>15, IdsAreFinite DEF CursorInv
    <2>3. CASE late
      <3>1. A \subseteq PassedOver \cup {y}
        BY <1>19, <1>20
      <3>2. Cardinality(A) <= Cardinality(PassedOver) + 1
        BY <2>1, <3>1, FewMore
      <3> QED BY <1>2, <1>11, <2>2, <2>3, <3>2
    <2>4. CASE ~late
      <3>1. A \subseteq PassedOver
        BY <1>19, <1>20, <2>4
      <3>2. Cardinality(A) <= Cardinality(PassedOver)
        BY <2>1, <3>1, FewMore
      <3> QED BY <1>2, <1>11, <2>2, <2>4, <3>2
    <2> QED BY <2>3, <2>4
  <1>21. CursorInv'
    <2>1. CASE full
      <3>1. /\ walk'.at = "page" /\ walk'.cursor = last
            /\ last \in Ids /\ last \in S /\ last # 0
        <4>1. last \in S /\ last \in Ids
          BY <2>1, <1>2, <1>9
        <4>2. \A c \in Ids : c # 0
          BY CommentBoundsAssumption DEF Ids
        <4> QED BY <2>1, <1>11, <4>1, <4>2
      <3>2. \A c \in Ids : Passed(c)' <=> c = last \/ Before(o, c, last)
        BY <3>1, <1>o, <1>11 DEF Passed
      <3>3. \A c \in Ids : Passed(c) => Passed(c)'
        <4>1. \A c \in Ids : Passed(c) => walk.cursor \in Ids /\
                (c = walk.cursor \/ Before(o, c, walk.cursor))
          BY <1>10 DEF Passed, o
        <4>2. walk.cursor \in Ids =>
                walk.cursor = last \/ Before(o, walk.cursor, last)
          BY <3>1, <1>f, CommentBoundsAssumption DEF Ids
        <4> QED BY <1>2, <3>1, <3>2, <4>1, <4>2, OrderIsTotal
      <3>4. \A c \in Ids :
              walk'.times[c] # 0 /\ ~(c \in walk'.moved /\ walk'.order = "asc") => Passed(c)'
        <4>1. \A c \in page : Passed(c)'
          BY <2>1, <1>2, <1>9, <3>2
        <4>2. \A c \in Ids :
                walk.times[c] # 0 /\ ~(c \in walk.moved /\ walk.order = "asc") => Passed(c)
          BY <1>1, <1>15 DEF CursorInv
        <4> QED BY <1>11, <1>s, <3>3, <4>1, <4>2
      <3>5. \A c \in PassedOver' : P(c) <= skip + Limit \/ Passed(c)
        <4> SUFFICES ASSUME NEW c \in PassedOver', ~Passed(c)
                     PROVE  P(c) <= skip + Limit
          OBVIOUS
        <4>1. c \in Unfound' /\ c \in Live /\ c \in Ids /\ Passed(c)'
          BY <1>2, <1>18 DEF PassedOver
        <4>2. c \in S
          BY <1>5, <4>1
        <4>3. c = last \/ Before(o, c, last)
          BY <3>2, <4>1
        <4>4. P(last) <= skip + Limit
          BY <1>6, <1>9, <2>1
        <4>5. P(last) \in Nat /\ P(c) \in Nat
          BY <1>6, <3>1, <4>2
        <4>6. Before(o, c, last) => P(c) < P(last)
          BY <1>6, <3>1, <4>2
        <4> QED BY <4>3, <4>4, <4>5, <4>6, <1>6, LimitAssumption
      <3>6. PassedOver' \subseteq Unfound'
        BY DEF PassedOver
      <3>7. Cardinality(PassedOver') <= walk'.stale
        BY <1>20, <3>5, <3>6
      <3> QED BY <1>16, <3>1, <3>4, <3>7 DEF CursorInv
    <2>2. CASE ~full
      <3>1. \A c \in Unfound' : P(c) <= skip + Limit \/ Passed(c)
        BY <2>2, <1>5, <1>7, <1>18
      <3>2. Cardinality(Unfound') <= walk'.stale
        BY <1>20, <3>1
      <3> QED BY <1>11, <1>16, <2>2, <3>2 DEF CursorInv
    <2> QED BY <2>1, <2>2
  <1> QED BY <1>21
-----------------------------------------------------------------------------
(* The page that follows those that were read: who is on it moves within.  *)
LEMMA PageMovesWithin ==
  ASSUME NEW o \in Orders, NEW S \in SUBSET Ids, NEW n \in Nat, NEW c \in S
  PROVE  /\ c \in Within(o, S, n + Limit) <=>
              c \in Within(o, S, n) \/ c \in Slice(o, S, n)
         /\ c \in Beyond(o, S, n) <=>
              c \in Beyond(o, S, n + Limit) \/ c \in Slice(o, S, n)
         /\ c \in Slice(o, S, n) => c \notin Beyond(o, S, n + Limit)
         /\ c \in Within(o, S, n) <=> c \notin Beyond(o, S, n)
  <1>1. Position(o, c, S) \in Nat
    BY PositionType
  <1>2. /\ c \in Slice(o, S, n) <=> Position(o, c, S) \in (n + 1) .. (n + Limit)
        /\ c \in Within(o, S, n) <=> Position(o, c, S) <= n
        /\ c \in Within(o, S, n + Limit) <=> Position(o, c, S) <= n + Limit
        /\ c \in Beyond(o, S, n) <=> Position(o, c, S) > n
        /\ c \in Beyond(o, S, n + Limit) <=> Position(o, c, S) > n + Limit
    BY DEF Slice, Within, Beyond
  <1> QED BY <1>1, <1>2, LimitAssumption

(* The first n of a set are n, if it has as many.                          *)
LEMMA RestOfSet ==
  ASSUME NEW o \in Orders, NEW S \in SUBSET Ids, NEW n \in Nat, NEW k \in Nat,
         Cardinality(S) <= n + k
  PROVE  Cardinality(Beyond(o, S, n)) <= k
  <1> DEFINE B == Beyond(o, S, n)
             T == (n + 1) .. (n + k)
             f == [c \in B |-> Position(o, c, S)]
  <1>1. Cardinality(S) \in Nat /\ B \subseteq S
    BY IdsAreFinite DEF Beyond
  <1>2. \A c \in B : Position(o, c, S) \in 1 .. Cardinality(S) /\ Position(o, c, S) > n
    BY <1>1, PositionType DEF Beyond
  <1>3. \A c \in B : Position(o, c, S) \in T
    BY <1>1, <1>2
  <1>4. f \in Injection(B, T)
    BY <1>1, <1>3, PositionOrders DEF Injection, IsInjective
  <1>5. IsFiniteSet(T) /\ Cardinality(T) = k
    <2>1. /\ IsFiniteSet(T)
          /\ Cardinality(T) = IF n + 1 > n + k THEN 0 ELSE (n + k) - (n + 1) + 1
      BY FS_Interval
    <2> QED BY <2>1
  <1> QED BY <1>4, <1>5, FS_Injection

(* A step of a walk by page changes nothing else.                          *)
LEMMA OffsetStep ==
  ASSUME CommentsInv, CommentsTypeOK', OffsetInv', PageIsOpen',
         UNCHANGED <<comments, stamp, clock, next, writer>>,
         walk.by = "offset", walk'.by = "offset",
         walk'.cursor = walk.cursor, walk'.stays = walk.stays,
         \A c \in Ids : walk'.times[c] # 0 => walk.times[c] # 0 \/ c \in Live
  PROVE  CommentsInv'
  <1>1. Live' = Live
    BY DEF Live
  <1>2. \A c \in Ids : c >= next' => Unborn(c)'
    BY DEF CommentsInv, Unborn, Live
  <1>3. StampsDiffer' /\ \A w \in Writers : WriterOK(w)'
    BY DEF CommentsInv, StampsDiffer, WriterOK
  <1> QED BY <1>1, <1>2, <1>3 DEF CommentsInv, CursorInv

(* The comments of the next page by its number.                            *)
LEMMA OffsetFindStep ==
  ASSUME CommentsInv, OffsetFind
  PROVE  CommentsInv'
  <1> DEFINE o == Sorting
             n == SkipOfPage(walk.page)
             page == Slice(o, Live, n)
  <1>t. /\ CommentsTypeOK /\ walk \in Walk /\ walk.stays \subseteq Live
        /\ StampsDiffer
    BY DEF CommentsInv, CommentsTypeOK
  <1>1. /\ walk' = [walk EXCEPT !.found = TRUE, !.times = See(page)]
        /\ UNCHANGED <<blogPost, comments, stamp, clock, next, writer, changes>>
        /\ walk.by = "offset" /\ walk.at = "page" /\ ~walk.found
    BY DEF OffsetFind
  <1>2. OffsetInv /\ walk.page # 0
    BY <1>1 DEF CommentsInv, OffsetInv
  <1>3. /\ o \in Orders /\ Live \in SUBSET Ids /\ Missed \subseteq Ids
        /\ walk.left \in Nat /\ walk.come \in Nat /\ walk.torn \in Nat
        /\ walk.count \in Nat /\ \A c \in Ids : walk.times[c] \in Nat
        /\ n \in Nat /\ n + Limit = Limit * walk.page
        /\ n + Limit \in Nat
    BY <1>t, <1>2, WalkTypes, SortsWell, PagesAdd, LimitAssumption
  <1>4. page \subseteq Live
    BY DEF Slice
  <1>s. /\ See(page) \in [Ids -> Nat]
        /\ \A c \in Ids : See(page)[c] =
             IF c \in page THEN walk.times[c] + 1 ELSE walk.times[c]
    BY <1>3, <1>4 DEF See
  <1>w. Walked = n
    BY <1>1, <1>3 DEF Walked
  <1>p. \A c \in Live :
          /\ c \in Within(o, Live, n + Limit) <=> c \in Within(o, Live, n) \/ c \in page
          /\ c \in Beyond(o, Live, n) <=> c \in Beyond(o, Live, n + Limit) \/ c \in page
          /\ c \in page => c \notin Beyond(o, Live, n + Limit)
    BY <1>3, PageMovesWithin
  <1>q. \A c \in Live : c \in Within(o, Live, n) <=> c \notin Beyond(o, Live, n)
    BY <1>3, PageMovesWithin
  <1>b. \A m \in Nat : Within(o, Live, m) \subseteq Live /\ Beyond(o, Live, m) \subseteq Live
    BY DEF Within, Beyond
  <1> HIDE DEF n, page
  <1>5. /\ walk'.by = walk.by /\ walk'.at = walk.at /\ walk'.cursor = walk.cursor
        /\ walk'.orderBy = walk.orderBy /\ walk'.order = walk.order
        /\ walk'.page = walk.page /\ walk'.found = TRUE
        /\ walk'.counted = walk.counted /\ walk'.count = walk.count
        /\ walk'.times = See(page) /\ walk'.stays = walk.stays
        /\ walk'.left = walk.left /\ walk'.come = walk.come
        /\ walk'.torn = walk.torn
    BY <1>t, <1>1 DEF Walk
  <1>o. Sorting' = o
    BY <1>1, <1>5 DEF Sorting
  <1> HIDE DEF o
  <1>6. walk' \in Walk
    BY <1>t, <1>1, <1>s DEF Walk
  <1>7. CommentsTypeOK'
    BY <1>t, <1>1, <1>6 DEF CommentsTypeOK
  <1>8. Live' = Live /\ Walked' = n + Limit
    BY <1>1, <1>5 DEF Live, Walked, n
  <1>9. \A c \in Ids : c \in Missed' <=> c \in Missed /\ c \notin page
    BY <1>3, <1>5, <1>s DEF Missed
  <1>10. Missed \subseteq Live /\ Missed' \subseteq Missed
    <2>1. Missed' \subseteq Ids
      BY <1>t, <1>5 DEF Missed, Walk
    <2> QED BY <1>t, <1>9, <2>1 DEF Missed
  <1>11. Repeated' \subseteq Repeated
    <2>1. Repeated = {c \in Ids : walk.times[c] > 1} \cup
                     {c \in Beyond(o, Live, n) : walk.times[c] # 0}
      BY <1>w DEF Repeated, o
    <2>2. Repeated' = {c \in Ids : See(page)[c] > 1} \cup
                      {c \in Beyond(o, Live, n + Limit) : See(page)[c] # 0}
      BY <1>5, <1>o, <1>8 DEF Repeated
    <2>3. ASSUME NEW c \in Ids, See(page)[c] > 1 PROVE c \in Repeated
      <3>1. CASE c \in page
        BY <3>1, <2>1, <2>3, <1>3, <1>4, <1>p, <1>s
      <3>2. CASE c \notin page
        BY <3>2, <2>1, <2>3, <1>s
      <3> QED BY <3>1, <3>2
    <2>4. ASSUME NEW c \in Beyond(o, Live, n + Limit), See(page)[c] # 0
          PROVE  c \in Repeated
      <3>1. c \in Live /\ c \in Ids
        BY <1>b, <1>3
      <3>2. c \notin page /\ c \in Beyond(o, Live, n)
        BY <3>1, <1>p
      <3> QED BY <3>1, <3>2, <2>1, <2>4, <1>s
    <2> QED BY <2>2, <2>3, <2>4
  <1>12. Missed' \cap Within(o, Live, n + Limit) = Missed' \cap Within(o, Live, n)
    BY <1>3, <1>9, <1>10, <1>p
  <1> DEFINE A == Missed \cap Within(o, Live, n)
             A1 == Missed' \cap Within(o, Live, n + Limit)
             R == Beyond(o, Live, n + Limit)
  <1>13. /\ A1 \subseteq A
         /\ Missed' \subseteq A \cup R
         /\ A \subseteq Ids /\ A1 \subseteq Ids /\ R \subseteq Ids
         /\ Missed' \subseteq Ids /\ Repeated \subseteq Ids /\ Repeated' \subseteq Ids
    <2>1. A1 \subseteq A
      BY <1>10, <1>12
    <2>2. Missed' \subseteq A \cup R
      BY <1>3, <1>9, <1>10, <1>p, <1>q
    <2>3. Repeated \subseteq Ids
      BY <1>3, <1>w, <1>b DEF Repeated, o
    <2> QED BY <2>1, <2>2, <2>3, <1>3, <1>10, <1>11, <1>b
  <1>14. /\ Cardinality(A) <= walk.left
         /\ Cardinality(Repeated) <= walk.come
         /\ walk.counted => Cardinality(Live) <= walk.count + walk.torn
    BY <1>1, <1>2, <1>w DEF OffsetInv, o
  <1>15. ASSUME walk.counted, walk.count <= Limit * walk.page
         PROVE  Cardinality(R) <= walk.torn
    <2>1. Cardinality(Live) <= (n + Limit) + walk.torn
      <3>1. Cardinality(Live) \in Nat
        BY <1>3, IdsAreFinite
      <3> QED BY <3>1, <1>3, <1>14, <1>15
    <2> QED BY <2>1, <1>3, RestOfSet
  <1> HIDE DEF A, A1, R
  <1>16. /\ Cardinality(A) \in Nat /\ Cardinality(A1) \in Nat
         /\ Cardinality(R) \in Nat /\ Cardinality(Missed') \in Nat
         /\ Cardinality(A \cup R) \in Nat
         /\ Cardinality(Repeated) \in Nat /\ Cardinality(Repeated') \in Nat
         /\ Cardinality(A1) <= Cardinality(A)
         /\ Cardinality(Missed') <= Cardinality(A \cup R)
         /\ Cardinality(A \cup R) <= Cardinality(A) + Cardinality(R)
         /\ Cardinality(Repeated') <= Cardinality(Repeated)
    <2>1. A \cup R \subseteq Ids
      BY <1>13
    <2> QED BY <2>1, <1>11, <1>13, IdsAreFinite, FewMore
  <1>17. OffsetInv'
    <2>1. /\ walk'.page # 0
          /\ Cardinality(Repeated') <= walk'.come
      BY <1>2, <1>3, <1>5, <1>14, <1>16
    <2>2. Cardinality(Missed' \cap Within(Sorting', Live', Walked')) <= walk'.left
      <3>1. Missed' \cap Within(Sorting', Live', Walked') = A1
        <4>1. Within(Sorting', Live', Walked') = Within(o, Live, n + Limit)
          <5>1. Sorting' = o /\ Live' = Live /\ Walked' = n + Limit
            BY <1>o, <1>8
          <5> QED BY ONLY <5>1
        <4> QED BY ONLY <4>1 DEF A1
      <3>2. Cardinality(Missed' \cap Within(Sorting', Live', Walked'))
              = Cardinality(A1)
        BY ONLY <3>1, Zenon
      <3> QED BY <3>2, <1>3, <1>5, <1>14, <1>16
    <2>3. walk'.counted /\ walk'.count <= Limit * walk'.page =>
            Cardinality(Missed') <= walk'.left + walk'.torn
      BY <1>3, <1>5, <1>14, <1>15, <1>16
    <2> QED BY <1>1, <1>5, <2>1, <2>2, <2>3 DEF OffsetInv
  <1>18. PageIsOpen'
    BY <1>1, <1>5 DEF PageIsOpen
  <1>19. \A c \in Ids : walk'.times[c] # 0 => walk.times[c] # 0 \/ c \in Live
    BY <1>4, <1>5, <1>s
  <1> QED BY <1>1, <1>5, <1>7, <1>17, <1>18, <1>19, OffsetStep
-----------------------------------------------------------------------------
(* The count of the comments, before or after the page is read.            *)
LEMMA OffsetCountStep ==
  ASSUME CommentsInv, OffsetCount
  PROVE  CommentsInv'
  <1>t. /\ CommentsTypeOK /\ walk \in Walk /\ walk.stays \subseteq Live
        /\ StampsDiffer
    BY DEF CommentsInv, CommentsTypeOK
  <1>1. /\ walk' = [walk EXCEPT !.counted = TRUE, !.count = Cardinality(Live)]
        /\ UNCHANGED <<blogPost, comments, stamp, clock, next, writer, changes>>
        /\ walk.by = "offset" /\ walk.at = "page" /\ ~walk.counted
    BY DEF OffsetCount
  <1>2. OffsetInv /\ walk.page # 0
    BY <1>1 DEF CommentsInv, OffsetInv
  <1>3. /\ Sorting \in Orders /\ Live \in SUBSET Ids /\ Missed \subseteq Ids
        /\ walk.left \in Nat /\ walk.torn \in Nat
        /\ Cardinality(Live) \in Nat
        /\ SkipOfPage(walk.page) \in Nat
        /\ SkipOfPage(walk.page) + Limit = Limit * walk.page
    BY <1>t, <1>2, WalkTypes, SortsWell, PagesAdd, IdsAreFinite
  <1>4. /\ walk'.by = walk.by /\ walk'.at = walk.at
        /\ walk'.orderBy = walk.orderBy /\ walk'.order = walk.order
        /\ walk'.cursor = walk.cursor /\ walk'.page = walk.page
        /\ walk'.found = walk.found /\ walk'.counted = TRUE
        /\ walk'.count = Cardinality(Live)
        /\ walk'.times = walk.times /\ walk'.stays = walk.stays
        /\ walk'.left = walk.left /\ walk'.come = walk.come
        /\ walk'.torn = walk.torn
    BY <1>t, <1>1 DEF Walk
  <1>5. CommentsTypeOK'
    <2>1. walk' \in Walk
      BY <1>t, <1>1, <1>3 DEF Walk
    <2> QED BY <1>t, <1>1, <2>1 DEF CommentsTypeOK
  <1>6. Live' = Live
    BY <1>1 DEF Live
  <1>7. Missed' = Missed /\ Walked' = Walked /\ Sorting' = Sorting
    BY <1>1, <1>4 DEF Missed, Walked, Sorting
  <1>8. Repeated' = Repeated
    BY <1>4, <1>6, <1>7 DEF Repeated
  <1>9. ASSUME walk.found, Cardinality(Live) <= Limit * walk.page
        PROVE  Cardinality(Missed) <= walk.left + walk.torn
    <2> DEFINE n == Walked
               A == Missed \cap Within(Sorting, Live, n)
    <2>1. n = Limit * walk.page /\ n \in Nat
      BY <1>3, <1>9, LimitAssumption DEF Walked
    <2> HIDE DEF n
    <2>2. \A c \in Live : Position(Sorting, c, Live) <= n
      <3>1. \A c \in Live : Position(Sorting, c, Live) \in 1 .. Cardinality(Live)
        BY <1>3, PositionType
      <3> QED BY <1>3, <1>9, <2>1, <3>1
    <2>3. Missed \subseteq A
      BY <1>t, <2>2 DEF Within, Missed
    <2>4. Cardinality(A) <= walk.left
      BY <1>1, <1>2 DEF OffsetInv, n
    <2>5. A \subseteq Ids
      BY <1>3
    <2> HIDE DEF A
    <2>6. Cardinality(Missed) <= Cardinality(A)
      BY <1>3, <2>3, <2>5, FewMore
    <2>7. Cardinality(Missed) \in Nat /\ Cardinality(A) \in Nat
      BY <1>3, <2>5, IdsAreFinite
    <2> QED BY <1>3, <2>4, <2>6, <2>7
  <1>10. Cardinality(Live) <= Cardinality(Live) + walk.torn
    BY <1>3
  <1>11. OffsetInv'
    <2>1. /\ walk.page # 0
          /\ Cardinality(Repeated) <= walk.come
          /\ Cardinality(Missed \cap Within(Sorting, Live, Walked)) <= walk.left
      BY <1>1, <1>2 DEF OffsetInv
    <2>2. Cardinality(Missed' \cap Within(Sorting', Live', Walked')) =
            Cardinality(Missed \cap Within(Sorting, Live, Walked))
      BY <1>4, <1>6, <1>7, Zenon
    <2> QED BY <1>1, <1>4, <1>6, <1>7, <1>8, <1>9, <1>10, <2>1, <2>2 DEF OffsetInv
  <1>12. PageIsOpen'
    BY <1>1, <1>4 DEF PageIsOpen
  <1> QED BY <1>1, <1>4, <1>5, <1>11, <1>12, OffsetStep

(* The answer, which says whether there is a next page.                    *)
LEMMA OffsetAnswerStep ==
  ASSUME CommentsInv, OffsetAnswer
  PROVE  CommentsInv'
  <1> DEFINE hasNext == Limit * walk.page < walk.count
  <1>t. /\ CommentsTypeOK /\ walk \in Walk /\ walk.stays \subseteq Live
        /\ StampsDiffer
    BY DEF CommentsInv, CommentsTypeOK
  <1>1. /\ walk' = [walk EXCEPT
             !.found = FALSE, !.counted = FALSE, !.count = 0,
             !.at = IF hasNext THEN "page" ELSE "done",
             !.page = IF hasNext THEN walk.page + 1 ELSE walk.page]
        /\ UNCHANGED <<blogPost, comments, stamp, clock, next, writer, changes>>
        /\ walk.found /\ walk.counted
    BY DEF OffsetAnswer
  <1>2. walk.by = "offset" /\ walk.at = "page"
    BY <1>1 DEF CommentsInv, PageIsOpen
  <1>3. OffsetInv /\ walk.page # 0
    BY <1>2 DEF CommentsInv, OffsetInv
  <1>4. /\ walk.page \in Nat /\ walk.count \in Nat
        /\ SkipOfPage(walk.page) \in Nat
        /\ SkipOfPage(walk.page + 1) = SkipOfPage(walk.page) + Limit
        /\ Limit * walk.page \in Nat
    <2>1. walk.page \in Nat /\ walk.count \in Nat
      BY <1>t, WalkTypes
    <2>2. /\ SkipOfPage(walk.page) \in Nat
          /\ SkipOfPage(walk.page + 1) = SkipOfPage(walk.page) + Limit
          /\ SkipOfPage(walk.page) + Limit = Limit * walk.page
      BY ONLY <1>3, <2>1, PagesAdd
    <2>3. \A n \in Nat : n + Limit \in Nat
      BY LimitAssumption
    <2>4. Limit * walk.page \in Nat
      BY ONLY <2>2, <2>3, Zenon
    <2> QED BY ONLY <2>1, <2>2, <2>4
  <1> HIDE DEF hasNext
  <1>5. /\ walk'.by = walk.by /\ walk'.cursor = walk.cursor
        /\ walk'.orderBy = walk.orderBy /\ walk'.order = walk.order
        /\ walk'.found = FALSE /\ walk'.counted = FALSE
        /\ walk'.at = (IF hasNext THEN "page" ELSE "done")
        /\ walk'.page = (IF hasNext THEN walk.page + 1 ELSE walk.page)
        /\ walk'.times = walk.times /\ walk'.stays = walk.stays
        /\ walk'.left = walk.left /\ walk'.come = walk.come
        /\ walk'.torn = walk.torn
    BY <1>t, <1>1 DEF Walk
  <1>6. CommentsTypeOK'
    <2>1. (IF hasNext THEN walk.page + 1 ELSE walk.page) \in Nat
      BY <1>4
    <2>2. walk' \in Walk
      BY <1>t, <1>1, <2>1 DEF Walk
    <2> QED BY <1>t, <1>1, <2>2 DEF CommentsTypeOK
  <1>7. Live' = Live
    BY <1>1 DEF Live
  <1>8. Missed' = Missed /\ Sorting' = Sorting
    BY <1>1, <1>5 DEF Missed, Sorting
  <1>9. Walked' = Walked
    <2>1. Walked = SkipOfPage(walk.page) + Limit
      BY <1>1 DEF Walked
    <2>2. Walked' = SkipOfPage(walk'.page) + IF hasNext THEN 0 ELSE Limit
      BY <1>5 DEF Walked
    <2> QED BY <1>4, <1>5, <2>1, <2>2, LimitAssumption
  <1>10. Repeated' = Repeated
    BY <1>5, <1>7, <1>8, <1>9 DEF Repeated
  <1>11. OffsetInv'
    <2>1. /\ Cardinality(Repeated) <= walk.come
          /\ Cardinality(Missed \cap Within(Sorting, Live, Walked)) <= walk.left
          /\ walk.count <= Limit * walk.page =>
               Cardinality(Missed) <= walk.left + walk.torn
      BY <1>1, <1>2, <1>3 DEF OffsetInv
    <2>2. Cardinality(Missed' \cap Within(Sorting', Live', Walked')) =
            Cardinality(Missed \cap Within(Sorting, Live, Walked))
      BY <1>5, <1>7, <1>8, <1>9, Zenon
    <2>3. ~hasNext => walk.count <= Limit * walk.page
      BY <1>4 DEF hasNext
    <2>4. walk'.page # 0
      BY <1>3, <1>4, <1>5
    <2> QED BY <1>5, <1>8, <1>10, <2>1, <2>2, <2>3, <2>4 DEF OffsetInv
  <1>12. PageIsOpen'
    BY <1>5 DEF PageIsOpen
  <1> QED BY <1>1, <1>2, <1>5, <1>6, <1>11, <1>12, OffsetStep

(* The post is gone, and the walk ends.                                    *)
LEMMA FindDeletedPostStep ==
  ASSUME CommentsInv, FindDeletedPost
  PROVE  CommentsInv'
  <1>t. /\ CommentsTypeOK /\ walk \in Walk /\ walk.stays \subseteq Live
        /\ StampsDiffer
    BY DEF CommentsInv, CommentsTypeOK
  <1>1. /\ walk' = [walk EXCEPT !.at = "gone"]
        /\ UNCHANGED <<blogPost, comments, stamp, clock, next, writer, changes>>
        /\ walk.at = "page" /\ ~walk.found /\ ~walk.counted
    BY DEF FindDeletedPost
  <1>2. /\ walk'.by = walk.by /\ walk'.at = "gone" /\ walk'.cursor = walk.cursor
        /\ walk'.orderBy = walk.orderBy /\ walk'.order = walk.order
        /\ walk'.moved = walk.moved /\ walk'.strayed = walk.strayed
        /\ walk'.page = walk.page
        /\ walk'.found = walk.found /\ walk'.counted = walk.counted
        /\ walk'.times = walk.times /\ walk'.stays = walk.stays
        /\ walk'.come = walk.come
    BY <1>t, <1>1 DEF Walk
  <1>3. CommentsTypeOK'
    BY <1>t, <1>1 DEF CommentsTypeOK, Walk
  <1>4. Live' = Live
    BY <1>1 DEF Live
  <1>5. Walked' = Walked
    BY <1>1, <1>2 DEF Walked
  <1>6. Repeated' = Repeated
    <2>1. Sorting' = Sorting
      BY <1>1, <1>2 DEF Sorting
    <2> QED BY <1>2, <1>4, <1>5, <2>1 DEF Repeated
  <1> QED BY <1>t, <1>1, <1>2, <1>3, <1>4, <1>6
          DEF CommentsInv, CursorInv, OffsetInv, WriterOK, PageIsOpen, StampsDiffer,
              Unborn

(* A request of a writer that has read, or is through.                     *)
LEMMA BeginStep ==
  ASSUME CommentsInv, NEW w \in Writers,
         NEW r \in [does : {"nothing", "create", "patch", "delete"},
                    id : {0} \cup Ids, copy : {"none", "live", "deleted"}],
         r.does # "nothing" => r.id \in Ids /\ r.id < next',
         writer' = [writer EXCEPT ![w] = r],
         UNCHANGED <<blogPost, comments, walk>>,
         \/ UNCHANGED <<stamp, clock, next>>
         \/ /\ next \in Ids /\ next' = next + 1 /\ clock' = clock + 1
            /\ stamp' = [stamp EXCEPT ![next] = clock'],
         changes' \in 0 .. MaxChanges
  PROVE  CommentsInv'
  <1>t. CommentsTypeOK /\ next \in Nat /\ next' \in Nat /\ next <= next'
    BY CommentBoundsAssumption DEF CommentsInv, CommentsTypeOK
  <1>1. CommentsTypeOK'
    <2>1. stamp' \in [Ids -> Nat] /\ clock' \in Nat
      BY <1>t DEF CommentsTypeOK
    <2>2. next' \in 1 .. MaxComments + 1
      BY <1>t, CommentBoundsAssumption DEF CommentsTypeOK, Ids
    <2> QED BY <1>t, <2>1, <2>2 DEF CommentsTypeOK
  <1>2. \A v \in Writers : WriterOK(v)'
    <2>1. \A v \in Writers : WriterOK(v)
      BY DEF CommentsInv
    <2>2. \A i \in Ids : i < next => i < next'
      BY <1>t DEF Ids
    <2> QED BY <1>t, <2>1, <2>2 DEF CommentsTypeOK, WriterOK
  <1> QED BY <1>1, <1>2, ReaderKeeps

(* Every step keeps the invariant.                                         *)
LEMMA NextComments == CommentsInv /\ [CommentsNext]_commentVars => CommentsInv'
  <1> SUFFICES ASSUME CommentsInv, [CommentsNext]_commentVars PROVE CommentsInv'
    OBVIOUS
  <1> DEFINE Request == [does : {"nothing", "create", "patch", "delete"},
                         id : {0} \cup Ids, copy : {"none", "live", "deleted"}]
  <1>t. CommentsTypeOK /\ \A w \in Writers : WriterOK(w)
    BY DEF CommentsInv
  <1>c. \A k \in 0 .. MaxChanges : k < MaxChanges => k + 1 \in 0 .. MaxChanges
    BY CommentBoundsAssumption
  <1>1. CASE UNCHANGED commentVars
    <2>1. CommentsTypeOK' /\ \A w \in Writers : WriterOK(w)'
      BY <1>1, <1>t DEF commentVars, CommentsTypeOK, WriterOK
    <2> QED BY <1>1, <2>1, ReaderKeeps DEF commentVars
  <1>2. ASSUME NEW w \in Writers, CreateCommentRead(w) PROVE CommentsInv'
    <2> DEFINE r == [does |-> "create", id |-> next, copy |-> "live"]
    <2>1. r \in Request /\ r.id = next /\ next \in Ids /\ next < next + 1
      BY <1>2, CommentBoundsAssumption DEF CreateCommentRead, Ids
    <2>2. /\ writer' = [writer EXCEPT ![w] = r]
          /\ UNCHANGED <<blogPost, comments, walk>>
          /\ next' = next + 1 /\ clock' = clock + 1
          /\ stamp' = [stamp EXCEPT ![next] = clock']
          /\ changes' = changes + 1 /\ changes < MaxChanges
      BY <1>2 DEF CreateCommentRead, Begin
    <2> HIDE DEF r
    <2>3. changes' \in 0 .. MaxChanges
      BY <1>t, <1>c, <2>2 DEF CommentsTypeOK
    <2> QED BY <2>1, <2>2, <2>3, BeginStep
  <1>3. ASSUME NEW w \in Writers, NEW c \in Ids,
               PatchCommentRead(w, c) \/ DeleteCommentRead(w, c)
        PROVE  CommentsInv'
    <2>1. PICK d \in {"patch", "delete"} :
            /\ Begin(w, [does |-> d, id |-> c, copy |-> comments[c]])
            /\ UNCHANGED <<next, clock, stamp>>
      BY <1>3 DEF PatchCommentRead, DeleteCommentRead
    <2> DEFINE r == [does |-> d, id |-> c, copy |-> comments[c]]
    <2>2. r \in Request /\ r.id \in Ids /\ r.id < next
      <3>1. c < next
        <4>1. comments[c] # "none"
          BY <1>3 DEF PatchCommentRead, DeleteCommentRead, FindComment
        <4>2. ~(c >= next)
          BY <4>1 DEF CommentsInv, Unborn
        <4> QED BY <1>t, <4>2, CommentBoundsAssumption DEF CommentsTypeOK, Ids
      <3> QED BY <1>t, <3>1 DEF CommentsTypeOK
    <2>3. /\ writer' = [writer EXCEPT ![w] = r]
          /\ UNCHANGED <<blogPost, comments, walk, next, clock, stamp>>
          /\ changes' = changes + 1 /\ changes < MaxChanges
      BY <2>1 DEF Begin
    <2> HIDE DEF r
    <2>4. changes' \in 0 .. MaxChanges
      BY <1>t, <1>c, <2>3 DEF CommentsTypeOK
    <2> QED BY <2>2, <2>3, <2>4, BeginStep
  <1>4. ASSUME NEW w \in Writers, Write(w) PROVE CommentsInv'
    <2>1. CASE EndWriter(w)
      <3>1. Rest \in Request /\ Rest.does = "nothing"
        BY DEF Rest
      <3>2. /\ writer' = [writer EXCEPT ![w] = Rest]
            /\ UNCHANGED <<blogPost, comments, walk, stamp, clock, next, changes>>
        BY <2>1 DEF EndWriter
      <3> HIDE DEF Rest
      <3> QED BY <1>t, <3>1, <3>2, BeginStep DEF CommentsTypeOK
    <2>2. CASE CreateCommentInsert(w)
      <3>1. /\ WriteComment(w, "live", FALSE) /\ UNCHANGED <<clock, stamp>>
            /\ writer[w].does # "nothing"
        BY <2>2 DEF CreateCommentInsert
      <3> QED BY <3>1, WriteStep
    <2>3. CASE PatchCommentWrite(w)
      <3>1. writer[w].copy \in {"none", "live", "deleted"}
        BY <1>t DEF CommentsTypeOK
      <3> QED BY <2>3, <3>1, UpdateStep DEF PatchCommentWrite
    <2>4. CASE DeleteCommentWrite(w)
      BY <2>4, UpdateStep DEF DeleteCommentWrite
    <2> QED BY <1>4, <2>1, <2>2, <2>3, <2>4 DEF Write
  <1>5. CASE RemovePost
    <2>1. CommentsTypeOK' /\ \A w \in Writers : WriterOK(w)'
      BY <1>5, <1>t DEF RemovePost, CommentsTypeOK, WriterOK
    <2> QED BY <1>5, <2>1, ReaderKeeps DEF RemovePost
  <1> QED BY <1>1, <1>2, <1>3, <1>4, <1>5, FindDeletedPostStep, CursorPageStep,
             OffsetFindStep, OffsetCountStep, OffsetAnswerStep DEF CommentsNext

(* For any comments, writers, order and size of the page: walking by       *)
(* cursor shows each comment that stays once, but for one at most per      *)
(* cursor that had been deleted, unless its cursor is updated; in the      *)
(* order of updated_at it may repeat or lose those that are updated.       *)
THEOREM CursorWalkShowsAll == CommentsSpec => []CursorWalkIsComplete
  <1>1. CommentsInv => CursorWalkIsComplete
    BY DEF CommentsInv, CursorInv, CursorWalkIsComplete, Unfound
  <1> QED BY <1>1, InitComments, NextComments, PTL DEF CommentsSpec

(* In any order, walking by page shows each comment that stays, but for    *)
(* one at most per comment deleted or moved by an UPDATE and per comment   *)
(* that came between a count and its page, and repeats at most one per     *)
(* comment that came or was moved.                                         *)
THEOREM OffsetWalkShowsAll == CommentsSpec => []OffsetWalkIsComplete
  <1>1. ASSUME CommentsInv, walk.by = "offset"
        PROVE  /\ Cardinality({c \in Ids : walk.times[c] > 1}) <= walk.come
               /\ walk.at = "done" => Cardinality(Missed) <= walk.left + walk.torn
    <2> DEFINE T == {c \in Ids : walk.times[c] > 1}
    <2>1. CommentsTypeOK /\ OffsetInv
      BY <1>1 DEF CommentsInv
    <2>2. T \subseteq Repeated /\ T \subseteq Ids /\ Repeated \subseteq Ids
      BY <2>1, WalkTypes DEF Repeated, Beyond
    <2>3. Cardinality(Repeated) <= walk.come /\ walk.come \in Nat
      BY <1>1, <2>1, WalkTypes DEF OffsetInv
    <2> HIDE DEF T
    <2>4. Cardinality(T) <= Cardinality(Repeated)
      BY <2>2, FewMore
    <2>5. Cardinality(T) \in Nat /\ Cardinality(Repeated) \in Nat
      BY <2>2, IdsAreFinite
    <2>6. Cardinality(T) <= walk.come
      BY <2>3, <2>4, <2>5
    <2> QED BY <1>1, <2>1, <2>6 DEF OffsetInv, T
  <1>2. CommentsInv => OffsetWalkIsComplete
    BY <1>1 DEF OffsetWalkIsComplete
  <1> QED BY <1>2, InitComments, NextComments, PTL DEF CommentsSpec

(* The rows, the requests and the walk keep their types.                   *)
THEOREM CommentsTypeCorrect == CommentsSpec => []CommentsTypeOK
  <1>1. CommentsInv => CommentsTypeOK
    BY DEF CommentsInv
  <1> QED BY <1>1, InitComments, NextComments, PTL DEF CommentsSpec
=============================================================================
