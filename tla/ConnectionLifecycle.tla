------------------------ MODULE ConnectionLifecycle ------------------------
(***************************************************************************)
(* What a user connection promises to the rest of the server, whatever the *)
(* number of requests: it is requested once, answered once by one of the   *)
(* three answers, and only an accepted connection is ever disconnected.    *)
(* The promise is the one UserConnectionEntity.changeStatus and its four   *)
(* callers enforce on a single in-memory entity.                           *)
(***************************************************************************)
CONSTANT Conns            \* identities of rows of user_connections

VARIABLE phase            \* phase[c]: "NONE" before the row exists

Answers == {"ACCEPTED", "REJECTED", "CANCELED"}

Phases == {"NONE", "PENDING", "DISCONNECTED"} \cup Answers

Init == phase = [c \in Conns |-> "NONE"]

(* The requester sends the request. *)
Request(c) ==
  /\ phase[c] = "NONE"
  /\ phase' = [phase EXCEPT ![c] = "PENDING"]

(* The requested user accepts or rejects, or the requester cancels. *)
Answer(c) ==
  /\ phase[c] = "PENDING"
  /\ \E a \in Answers : phase' = [phase EXCEPT ![c] = a]

(* Either user leaves, or deletes the account. *)
Disconnect(c) ==
  /\ phase[c] = "ACCEPTED"
  /\ phase' = [phase EXCEPT ![c] = "DISCONNECTED"]

Next == \E c \in Conns : Request(c) \/ Answer(c) \/ Disconnect(c)

Spec == Init /\ [][Next]_phase
=============================================================================
