-------------------------------- MODULE Chat --------------------------------
(***************************************************************************)
(* The chat gateway: the sockets of the two partners of one chat room, the *)
(* messages they send through it, and the history they read beside it.     *)
(*                                                                         *)
(* A message is committed first and emitted later; a client that wants     *)
(* every message enters the room first and reads the history later.        *)
(***************************************************************************)
EXTENDS Naturals

CONSTANTS
  Partners,      \* the users of the room
  MaxMessages,   \* bound: messages ever sent
  MaxSessions    \* bound: sockets a partner ever opens

ASSUME PartnersAssumption == Partners # {}
ASSUME ChatBoundsAssumption == MaxMessages \in Nat /\ MaxSessions \in Nat

VARIABLES
  chatRoom,      \* its deletedAt: "live" or "deleted"
  socket,        \* socket[u]: the last socket of u
  messages,      \* the committed rows of messages
  sends,         \* sends[m]: the handler that sends m
  client         \* client[u]: what the page of u has

chatVars == <<chatRoom, socket, messages, sends, client>>

Messages == 1 .. MaxMessages

(* "new": connected, the token is not verified yet, and socket.user unset. *)
(* entering: the handler of enter_chat_room has found the room.            *)
Socket ==
  [at : {"closed", "new", "open"}, session : 0 .. MaxSessions,
   entering : BOOLEAN, joined : BOOLEAN]

(* session: the socket that asked.                                         *)
Sending ==
  [at : {"none", "insert", "emit", "done"}, by : Partners,
   session : 0 .. MaxSessions]

(* entered: it was told so; read: since then it has read the history.      *)
Client == [entered : BOOLEAN, read : BOOLEAN, has : SUBSET Messages]

Away == [entered |-> FALSE, read |-> FALSE, has |-> {}]

Unsent == [at |-> "none", by |-> CHOOSE u \in Partners : TRUE, session |-> 0]

(* The handler is through, or gone.                                        *)
Sent == [Unsent EXCEPT !.at = "done"]

ChatInit ==
  /\ chatRoom = "live"
  /\ socket = [u \in Partners |->
       [at |-> "closed", session |-> 0, entering |-> FALSE, joined |-> FALSE]]
  /\ messages = {}
  /\ sends = [m \in Messages |-> Unsent]
  /\ client = [u \in Partners |-> Away]
-----------------------------------------------------------------------------
(* Sockets *)

Connect(u) ==
  /\ socket[u].at = "closed"
  /\ socket[u].session < MaxSessions
  /\ socket' = [socket EXCEPT ![u] =
       [at |-> "new", session |-> @.session + 1,
        entering |-> FALSE, joined |-> FALSE]]
  /\ UNCHANGED <<chatRoom, messages, sends, client>>

(* handleConnection after its await; nothing made the client wait for it.  *)
HandleConnection(u) ==
  /\ socket[u].at = "new"
  /\ socket' = [socket EXCEPT ![u].at = "open"]
  /\ UNCHANGED <<chatRoom, messages, sends, client>>

Closed(u) ==
  [socket[u] EXCEPT !.at = "closed", !.entering = FALSE, !.joined = FALSE]

(* handleConnection rejects the token, or the connection is gone.          *)
HandleDisconnect(u) ==
  /\ socket[u].at # "closed"
  /\ socket' = [socket EXCEPT ![u] = Closed(u)]
  /\ client' = [client EXCEPT ![u] = Away]
  /\ UNCHANGED <<chatRoom, messages, sends>>

(* All sockets are closed, and the handlers are gone wherever they were.   *)
Restart ==
  /\ \E u \in Partners : socket[u].at # "closed"
  /\ socket' = [u \in Partners |-> Closed(u)]
  /\ client' = [u \in Partners |-> Away]
  /\ sends' = [m \in Messages |->
       IF sends[m].at \in {"insert", "emit"} THEN Sent ELSE sends[m]]
  /\ UNCHANGED <<chatRoom, messages>>
-----------------------------------------------------------------------------
(* Mutant: the answer does not wait for the room to be joined.             *)
FindRoomToEnter_answers(u) ==
  /\ socket[u].at = "open"
  /\ chatRoom = "live"
  /\ ~socket[u].entering
  /\ socket' = [socket EXCEPT ![u].entering = TRUE]
  /\ client' = [client EXCEPT ![u].entered = TRUE]
  /\ UNCHANGED <<chatRoom, messages, sends>>

(* enter_chat_room; a room that is not found is answered by an exception.  *)
FindRoomToEnter(u) ==
  /\ socket[u].at # "closed"
  /\ chatRoom = "live"
  /\ ~socket[u].entering
  /\ socket' = [socket EXCEPT ![u].entering = TRUE]
  /\ UNCHANGED <<chatRoom, messages, sends, client>>

(* join, and then the log line that reads socket.user: while the token is  *)
(* not verified the handler throws, but the socket has joined.             *)
EnterChat(u) ==
  /\ socket[u].entering
  /\ socket' = [socket EXCEPT ![u].entering = FALSE, ![u].joined = TRUE]
  /\ client' = IF socket[u].at = "open"
               THEN [client EXCEPT ![u].entered = TRUE] ELSE client
  /\ UNCHANGED <<chatRoom, messages, sends>>

(* FindChatMessagesQueryHandler, asked for its pages until the last: the   *)
(* rows whatever their deletedAt.  A message that is inserted between two  *)
(* pages is emitted too, as one after the last is.                         *)
ReadHistory(u) ==
  /\ client[u].entered
  /\ chatRoom = "live"
  /\ client' = [client EXCEPT ![u].read = TRUE, ![u].has = @ \cup messages]
  /\ UNCHANGED <<chatRoom, socket, messages, sends>>
-----------------------------------------------------------------------------
(* send_message: CreateChatMessageCommandHandler up to the INSERT, which   *)
(* needs the room and the connection of the sender; without socket.user it *)
(* throws.                                                                 *)
FindRoomToSend(u, m) ==
  /\ sends[m].at = "none"
  /\ socket[u].at = "open"
  /\ chatRoom = "live"
  /\ sends' = [sends EXCEPT ![m] =
       [at |-> "insert", by |-> u, session |-> socket[u].session]]
  /\ UNCHANGED <<chatRoom, socket, messages, client>>

(* No transaction: the row is committed.                                   *)
CreateChatMessage(m) ==
  /\ sends[m].at = "insert"
  /\ messages' = messages \cup {m}
  /\ sends' = [sends EXCEPT ![m].at = "emit"]
  /\ UNCHANGED <<chatRoom, socket, client>>

CreateFails(m) ==
  /\ sends[m].at = "insert"
  /\ sends' = [sends EXCEPT ![m] = Sent]
  /\ UNCHANGED <<chatRoom, socket, messages, client>>

(* Those the server sends m to: every socket in the room but the sender's, *)
(* and the sender's with the answer.                                       *)
Sender(m, u) == sends[m].by = u /\ sends[m].session = socket[u].session

Receives(m, u) ==
  IF Sender(m, u) THEN socket[u].at # "closed" ELSE socket[u].joined

Deliver(m) ==
  client' = [u \in Partners |->
    IF Receives(m, u) THEN [client[u] EXCEPT !.has = @ \cup {m}] ELSE client[u]]

EmitMessage(m) ==
  /\ sends[m].at = "emit"
  /\ Deliver(m)
  /\ sends' = [sends EXCEPT ![m] = Sent]
  /\ UNCHANGED <<chatRoom, socket, messages>>
-----------------------------------------------------------------------------
(* The couple separates.  Who has entered stays in the room.               *)
DeleteChatRoom ==
  /\ chatRoom = "live"
  /\ chatRoom' = "deleted"
  /\ UNCHANGED <<socket, messages, sends, client>>

ChatNext ==
  \/ \E u \in Partners :
       \/ Connect(u) \/ HandleConnection(u) \/ HandleDisconnect(u)
       \/ FindRoomToEnter(u) \/ EnterChat(u) \/ ReadHistory(u)
       \/ \E m \in Messages : FindRoomToSend(u, m)
  \/ \E m \in Messages :
       CreateChatMessage(m) \/ CreateFails(m) \/ EmitMessage(m)
  \/ Restart
  \/ DeleteChatRoom

ChatSpec == ChatInit /\ [][ChatNext]_chatVars
-----------------------------------------------------------------------------
(* The types of the rows, the sockets and their rooms, the handlers, and   *)
(* what a page has.                                                        *)
ChatTypeOK ==
  /\ chatRoom \in {"live", "deleted"}
  /\ socket \in [Partners -> Socket]
  /\ messages \subseteq Messages
  /\ sends \in [Messages -> Sending]
  /\ client \in [Partners -> Client]

(* A client that has entered the room and then read the history has, while *)
(* it stays connected, every message there is, or is about to be sent it:  *)
(* no message falls between the history and the live messages, and none is *)
(* lost with the server.                                                   *)
NoMessageMissed ==
  \A u \in Partners : client[u].read =>
    messages \subseteq client[u].has \cup {m \in Messages : sends[m].at = "emit"}
=============================================================================
