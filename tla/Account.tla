------------------------------ MODULE Account ------------------------------
(***************************************************************************)
(* The users and user_verify_tokens tables: signing up, verifying the      *)
(* email address, changing the password through a mailed link, patching    *)
(* the profile and deleting the account.                                   *)
(*                                                                         *)
(* A worker runs one request.  A transaction (sign-up, send and use of the *)
(* email token, change of password, patch, delete) reads at its start and  *)
(* is seen by the others at its COMMIT; its whole-row writes carry the     *)
(* columns of the copy it read.  The handler of UserCreated is detached:   *)
(* it runs in a transaction of its own from the moment the sign-up has     *)
(* inserted the user, committed or not, and its errors are suppressed.     *)
(* An error answer of the first read changes nothing and is not a step.    *)
(***************************************************************************)
EXTENDS Naturals, FiniteSets

CONSTANTS
  Ids,         \* identities new rows of users can take
  Emails,      \* addresses; the login type is EMAIL for all
  Workers,     \* requests in flight at the same time
  MaxTokens,   \* bound: token values generated
  None         \* no row, no value

ASSUME MaxTokensAssumption == MaxTokens \in Nat
ASSUME NoneAssumption == None \notin Ids \cup Emails \cup Nat

VARIABLES
  users,       \* users[i]: the committed row, or None
  token,       \* token[i][k]: the committed row of user i and type k, or None
  mailed,      \* the mails the email service has accepted
  issued,      \* token values generated so far (randomUUID never repeats)
  event,       \* event[i]: the handler of UserCreated for user i
  req          \* req[w]: the request worker w is running

vars == <<users, token, mailed, issued, event, req>>
-----------------------------------------------------------------------------
Kinds == {"EMAIL", "PASSWORD_CHANGE"}

Values == 1 .. MaxTokens

(* verified and password name the token they were set with: None while the *)
(* email is not verified, and for the password of the sign-up.             *)
UserRow == [email : Emails, verified : Values \cup {None},
            password : Values \cup {None}, deleted : BOOLEAN]

ASSUME NoneIsNoRow == None \notin UserRow

(* old: the last UPDATE of the row is five minutes ago.  A token may then  *)
(* be reissued, and one that is not used has expired.                      *)
TokenRow == [value : Values, used : BOOLEAN, old : BOOLEAN]

Fresh(v) == [value |-> v, used |-> FALSE, old |-> FALSE]
Used(v) == [value |-> v, used |-> TRUE, old |-> FALSE]

Mail == [user : Ids, to : Emails, kind : Kinds, value : Values]

(* pc names the statement the handler runs next.                           *)
Event == [pc : {"none", "insert", "mail", "commit", "over"},
          value : Values \cup {None}]

NoEvent == [pc |-> "none", value |-> None]

Request ==
  [pc : {"idle", "signUp", "signUpEnd",       \* INSERT user, COMMIT
         "reissue", "mail", "reissueEnd",     \* UPDATE token, mail, COMMIT
         "create", "renew", "mailLink",       \* INSERT or UPDATE token, mail
         "verify", "change", "patch", "delete"},   \* UPDATEs and COMMIT
   user : Ids \cup {None},
   email : Emails \cup {None},
   row : UserRow \cup {None},                 \* the copy of the user
   value : Values \cup {None}]                \* the token new or used

Idle == [pc |-> "idle", user |-> None, email |-> None, row |-> None,
         value |-> None]

Init ==
  /\ users = [i \in Ids |-> None]
  /\ token = [i \in Ids |-> [k \in Kinds |-> None]]
  /\ mailed = {}
  /\ issued = 0
  /\ event = [i \in Ids |-> NoEvent]
  /\ req = [w \in Workers |-> Idle]
-----------------------------------------------------------------------------
(* Mutant: the query forgets "deletedAt: null".                            *)
findOneById_anyRow(i) == users[i] # None

findOneById(i) == users[i] # None /\ ~users[i].deleted

findOneByEmailAndLoginType(e) == {i \in Ids : findOneById(i)
                                              /\ users[i].email = e}

(* Mutant: RESEND_TIME_INTERVAL is not waited for.                         *)
MayReissue_anyTime(i, k) == token[i][k] # None

MayReissue(i, k) == token[i][k] # None /\ token[i][k].old

(* Mutant: the token of the request is not compared.                       *)
MayUse_anyToken(i, k, v) ==
  /\ token[i][k] # None
  /\ ~token[i][k].old
  /\ ~token[i][k].used

(* Mutant: isUsed is not asked.                                            *)
MayUse_again(i, k, v) ==
  /\ token[i][k] # None
  /\ token[i][k].value = v
  /\ ~token[i][k].old

(* The token of the link is the user's, not expired and not used.          *)
MayUse(i, k, v) ==
  /\ token[i][k] # None
  /\ token[i][k].value = v
  /\ ~token[i][k].old
  /\ ~token[i][k].used

(* No open transaction has updated the EMAIL token of user i.              *)
TokenFree(i) ==
  \A w \in Workers : req[w].pc \in {"mail", "reissueEnd"} => req[w].user # i

Generate == issued < MaxTokens /\ issued' = issued + 1

Sent(i, k, v) == [user |-> i, to |-> users[i].email, kind |-> k, value |-> v]

Start(w, r) ==
  /\ req[w] = Idle
  /\ req' = [req EXCEPT ![w] = r]
  /\ UNCHANGED <<users, token, mailed, event>>

Finish(w, pc) == req[w].pc = pc /\ req' = [req EXCEPT ![w] = Idle]
-----------------------------------------------------------------------------
(* CreateUserCommandHandler *)

(* Mutant: the address is not looked up.                                   *)
SignUpRead_noCheck(w, e) ==
  /\ Start(w, [Idle EXCEPT !.pc = "signUp", !.email = e])
  /\ UNCHANGED issued

SignUpRead(w, e) ==
  /\ findOneByEmailAndLoginType(e) = {}
  /\ Start(w, [Idle EXCEPT !.pc = "signUp", !.email = e])
  /\ UNCHANGED issued

(* Mutant: the email is not among the properties of the new user.          *)
SignUpInsert_noEmail(w, i) ==
  /\ req[w].pc = "signUp"
  /\ event[i] = NoEvent
  /\ event' = [event EXCEPT ![i].pc = "insert"]
  /\ req' = [req EXCEPT ![w] = [Idle EXCEPT !.pc = "signUpEnd", !.user = i]]
  /\ UNCHANGED <<users, token, mailed, issued>>

(* The INSERT publishes UserCreated, and does not wait for its handler.    *)
SignUpInsert(w, i) ==
  /\ req[w].pc = "signUp"
  /\ event[i] = NoEvent
  /\ event' = [event EXCEPT ![i].pc = "insert"]
  /\ req' = [req EXCEPT ![w].pc = "signUpEnd", ![w].user = i]
  /\ UNCHANGED <<users, token, mailed, issued>>

SignUpCommit(w) ==
  /\ Finish(w, "signUpEnd")
  /\ users' = [users EXCEPT ![req[w].user] =
        [email |-> req[w].email, verified |-> None, password |-> None,
         deleted |-> FALSE]]
  /\ UNCHANGED <<token, mailed, issued, event>>

(* CreateUserEmailVerifyTokenDomainEventHandler.  The foreign key refuses  *)
(* the token of a user whose sign-up has not committed.                    *)
EventInsert(i) ==
  /\ event[i].pc = "insert"
  /\ \/ /\ users[i] = None
        /\ event' = [event EXCEPT ![i].pc = "over"]
        /\ UNCHANGED issued
     \/ /\ users[i] # None
        /\ Generate
        /\ event' = [event EXCEPT ![i] = [pc |-> "mail", value |-> issued']]
  /\ UNCHANGED <<users, token, mailed, req>>

EventMail(i) ==
  /\ event[i].pc = "mail"
  /\ mailed' = mailed \cup {Sent(i, "EMAIL", event[i].value)}
  /\ event' = [event EXCEPT ![i].pc = "commit"]
  /\ UNCHANGED <<users, token, issued, req>>

EventCommit(i) ==
  /\ event[i].pc = "commit"
  /\ token' = [token EXCEPT ![i]["EMAIL"] = Fresh(event[i].value)]
  /\ event' = [event EXCEPT ![i].pc = "over"]
  /\ UNCHANGED <<users, mailed, issued, req>>
-----------------------------------------------------------------------------
(* SendVerificationEmailCommandHandler *)

SendRead(w, i) ==
  /\ findOneById(i)
  /\ users[i].verified = None
  /\ MayReissue(i, "EMAIL")
  /\ Generate
  /\ Start(w, [Idle EXCEPT !.pc = "reissue", !.user = i, !.value = issued'])

(* Mutant: there is no transaction, so the UPDATE is seen at once.         *)
SendUpdate_autocommit(w) ==
  /\ req[w].pc = "reissue"
  /\ TokenFree(req[w].user)
  /\ req' = [req EXCEPT ![w].pc = "mail"]
  /\ token' = [token EXCEPT ![req[w].user]["EMAIL"] = Fresh(req[w].value)]
  /\ UNCHANGED <<users, mailed, issued, event>>

SendUpdate(w) ==
  /\ req[w].pc = "reissue"
  /\ TokenFree(req[w].user)
  /\ req' = [req EXCEPT ![w].pc = "mail"]
  /\ UNCHANGED <<users, token, mailed, issued, event>>

SendMail(w) ==
  /\ req[w].pc = "mail"
  /\ mailed' = mailed \cup {Sent(req[w].user, "EMAIL", req[w].value)}
  /\ req' = [req EXCEPT ![w].pc = "reissueEnd"]
  /\ UNCHANGED <<users, token, issued, event>>

SendCommit(w) ==
  /\ Finish(w, "reissueEnd")
  /\ token' = [token EXCEPT ![req[w].user]["EMAIL"] = Fresh(req[w].value)]
  /\ UNCHANGED <<users, mailed, issued, event>>

(* SendPasswordChangeVerificationEmailCommandHandler, not in a transaction *)
LinkRead(w, e) ==
  /\ Generate
  /\ \E i \in findOneByEmailAndLoginType(e) :
       \/ /\ token[i]["PASSWORD_CHANGE"] = None
          /\ Start(w, [Idle EXCEPT !.pc = "create", !.user = i,
                                   !.value = issued'])
       \/ /\ MayReissue(i, "PASSWORD_CHANGE")
          /\ Start(w, [Idle EXCEPT !.pc = "renew", !.user = i,
                                   !.value = issued'])

(* The unique index on user and type refuses a second INSERT.              *)
LinkInsert(w) ==
  /\ req[w].pc = "create"
  /\ LET t == token[req[w].user]["PASSWORD_CHANGE"]
     IN  \/ /\ t = None
            /\ token' = [token EXCEPT ![req[w].user]["PASSWORD_CHANGE"] =
                           Fresh(req[w].value)]
            /\ req' = [req EXCEPT ![w].pc = "mailLink"]
         \/ /\ t # None
            /\ req' = [req EXCEPT ![w] = Idle]
            /\ UNCHANGED token
  /\ UNCHANGED <<users, mailed, issued, event>>

LinkUpdate(w) ==
  /\ req[w].pc = "renew"
  /\ token' = [token EXCEPT ![req[w].user]["PASSWORD_CHANGE"] =
                 Fresh(req[w].value)]
  /\ req' = [req EXCEPT ![w].pc = "mailLink"]
  /\ UNCHANGED <<users, mailed, issued, event>>

LinkMail(w) ==
  /\ Finish(w, "mailLink")
  /\ mailed' = mailed \cup {Sent(req[w].user, "PASSWORD_CHANGE", req[w].value)}
  /\ UNCHANGED <<users, token, issued, event>>
-----------------------------------------------------------------------------
(* VerifyUserEmailCommandHandler, with the link of any mail that was sent  *)

VerifyRead(w, i, m) ==
  /\ findOneById(i)
  /\ users[i].verified = None
  /\ MayUse(i, "EMAIL", m.value)
  /\ Start(w, [Idle EXCEPT !.pc = "verify", !.user = i, !.row = users[i],
                           !.value = m.value])
  /\ UNCHANGED issued

VerifyCommit(w) ==
  /\ Finish(w, "verify")
  /\ TokenFree(req[w].user)
  /\ token' = [token EXCEPT ![req[w].user]["EMAIL"] = Used(req[w].value)]
  /\ users' = [users EXCEPT ![req[w].user] =
                 [req[w].row EXCEPT !.verified = req[w].value]]
  /\ UNCHANGED <<mailed, issued, event>>

(* UpdateUserPasswordCommandHandler *)
ChangeRead(w, i, m) ==
  /\ findOneById(i)
  /\ MayUse(i, "PASSWORD_CHANGE", m.value)
  /\ Start(w, [Idle EXCEPT !.pc = "change", !.user = i, !.row = users[i],
                           !.value = m.value])
  /\ UNCHANGED issued

ChangeCommit(w) ==
  /\ Finish(w, "change")
  /\ token' = [token EXCEPT ![req[w].user]["PASSWORD_CHANGE"] =
                 Used(req[w].value)]
  /\ users' = [users EXCEPT ![req[w].user] =
                 [req[w].row EXCEPT !.password = req[w].value]]
  /\ UNCHANGED <<mailed, issued, event>>

(* PatchUpdateUserCommandHandler: nickname, mbti and image are left out,   *)
(* the other columns of the row are written as they were read.             *)
PatchRead(w, i) ==
  /\ findOneById(i)
  /\ Start(w, [Idle EXCEPT !.pc = "patch", !.user = i, !.row = users[i]])
  /\ UNCHANGED issued

PatchCommit(w) ==
  /\ Finish(w, "patch")
  /\ users' = [users EXCEPT ![req[w].user] = req[w].row]
  /\ UNCHANGED <<token, mailed, issued, event>>

(* DeleteUserCommandHandler, its connection left to UserConnection.        *)
DeleteRead(w, i) ==
  /\ findOneById(i)
  /\ Start(w, [Idle EXCEPT !.pc = "delete", !.user = i])
  /\ UNCHANGED issued

DeleteCommit(w) ==
  /\ Finish(w, "delete")
  /\ users' = [users EXCEPT ![req[w].user].deleted = TRUE]
  /\ UNCHANGED <<token, mailed, issued, event>>
-----------------------------------------------------------------------------
(* Five minutes go by without an UPDATE of the token.                      *)
GrowOld(i, k) ==
  /\ token[i][k] # None
  /\ ~token[i][k].old
  /\ token' = [token EXCEPT ![i][k].old = TRUE]
  /\ UNCHANGED <<users, mailed, issued, event, req>>

(* A request or an event handler ends early: the server restarts, the      *)
(* database or the email service fails.  An open transaction leaves        *)
(* nothing behind but the mail it has sent.                                *)
Abort(w) ==
  /\ req[w] # Idle
  /\ req' = [req EXCEPT ![w] = Idle]
  /\ UNCHANGED <<users, token, mailed, issued, event>>

EventAbort(i) ==
  /\ event[i].pc \in {"insert", "mail", "commit"}
  /\ event' = [event EXCEPT ![i].pc = "over"]
  /\ UNCHANGED <<users, token, mailed, issued, req>>

NewRequest(w) ==
  \/ \E e \in Emails : SignUpRead(w, e) \/ LinkRead(w, e)
  \/ \E i \in Ids : SendRead(w, i) \/ PatchRead(w, i) \/ DeleteRead(w, i)
  \/ \E i \in Ids, m \in mailed : VerifyRead(w, i, m) \/ ChangeRead(w, i, m)

Step(w) ==
  \/ \E i \in Ids : SignUpInsert(w, i)
  \/ SignUpCommit(w)
  \/ SendUpdate(w)
  \/ SendMail(w)
  \/ SendCommit(w)
  \/ LinkInsert(w)
  \/ LinkUpdate(w)
  \/ LinkMail(w)
  \/ VerifyCommit(w)
  \/ ChangeCommit(w)
  \/ PatchCommit(w)
  \/ DeleteCommit(w)

EventStep(i) ==
  EventInsert(i) \/ EventMail(i) \/ EventCommit(i) \/ EventAbort(i)

Next ==
  \/ \E w \in Workers : NewRequest(w) \/ Step(w) \/ Abort(w)
  \/ \E i \in Ids : EventStep(i) \/ \E k \in Kinds : GrowOld(i, k)

Spec == Init /\ [][Next]_vars
-----------------------------------------------------------------------------
(* The types of the tables, the mails, the requests and the handlers of    *)
(* events: what a request hands on is a value it has read or made.         *)
TypeOK ==
  /\ users \in [Ids -> UserRow \cup {None}]
  /\ token \in [Ids -> [Kinds -> TokenRow \cup {None}]]
  /\ mailed \subseteq Mail
  /\ issued \in 0 .. MaxTokens
  /\ event \in [Ids -> Event]
  /\ req \in [Workers -> Request]

(* An email is verified, and a password changed, by a token that was sent  *)
(* to that very user at that very address, and for that very purpose,      *)
(* however the copies of the row overtake each other.                      *)
OwnerProvedAddress ==
  \A i \in Ids : users[i] # None =>
    /\ users[i].verified # None =>
         Sent(i, "EMAIL", users[i].verified) \in mailed
    /\ users[i].password # None =>
         Sent(i, "PASSWORD_CHANGE", users[i].password) \in mailed

(* No crash, no failing email service and no race leaves an email token in *)
(* the table that its owner has not been sent: the owner could neither use *)
(* it nor have another for five minutes.                                   *)
EmailTokenWasMailed ==
  \A i \in Ids : token[i]["EMAIL"] # None =>
    Sent(i, "EMAIL", token[i]["EMAIL"].value) \in mailed

(* ALREADY_CREATED_USER, "You're already signed up.": one request at a     *)
(* time, an address has one account that is not deleted.                   *)
OneAccountPerEmail ==
  \A e \in Emails : Cardinality(findOneByEmailAndLoginType(e)) <= 1

(* ALREADY_USED_PASSWORD_CHANGE_VERIFY_TOKEN, "The password change         *)
(* verification token has already been used": one request at a time, a     *)
(* change of password uses a token that is in the table and not yet used.  *)
LinkIsUsedOnce ==
  [][\A w \in Workers : ChangeCommit(w) =>
       LET t == token[req[w].user]["PASSWORD_CHANGE"]
       IN  t.value = req[w].value /\ ~t.used]_vars

(* One request at a time, a link that was mailed stays good for its five   *)
(* minutes: nothing but its use or its age takes it out of the table.      *)
LiveLinkStays ==
  [][\A i \in Ids, k \in Kinds :
       token[i][k] # None /\ ~token[i][k].old =>
         token'[i][k].value = token[i][k].value]_vars

(* One request at a time, the row of a deleted account does not change.    *)
DeletedIsFrozen ==
  [][\A i \in Ids : users[i] # None /\ users[i].deleted =>
       users'[i] = users[i]]_vars

(* "The user's email verification token cannot be absent", the server      *)
(* error of the two handlers that look for it: once the handler of         *)
(* UserCreated is over, a user who can sign in has an email token.         *)
EmailTokenExists ==
  \A i \in Ids : users[i] # None /\ event[i].pc = "over" =>
    token[i]["EMAIL"] # None
=============================================================================
