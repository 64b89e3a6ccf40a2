---------------------------- MODULE AccountProofs ----------------------------
(***************************************************************************)
(* What the mails of the service guarantee, for any number of users and    *)
(* requests: an address is verified and a password changed only with a     *)
(* token mailed to that address, and an email token in the table has been  *)
(* mailed.                                                                 *)
(*                                                                         *)
(* The properties speak of the tables; the proof needs what the requests   *)
(* and the detached handlers carry between two statements.  A copy of a    *)
(* row is as good as the row; the address of an account never changes; and *)
(* a token value is known for one user and one purpose, wherever it is,    *)
(* so that the link of a mail can change no password but its user's.       *)
(*                                                                         *)
(* The last part is about requests that do not overlap: the look-ups of a  *)
(* handler are then enough for what its errors promise.                    *)
(***************************************************************************)
EXTENDS Account, FiniteSetTheorems, TLAPS

(* User i has been mailed token v.                                         *)
Was(i, k, v) == users[i] # None /\ Sent(i, k, v) \in mailed

RowProved(i, r) ==
  /\ r.verified # None => Was(i, "EMAIL", r.verified)
  /\ r.password # None => Was(i, "PASSWORD_CHANGE", r.password)

EmailPcs == {"reissue", "mail", "reissueEnd", "verify"}
LinkPcs == {"create", "renew", "mailLink", "change"}
CopyPcs == {"verify", "change", "patch"}

(* What a request carries.                                                 *)
RequestOK(r) ==
  /\ r.pc \in {"signUp", "signUpEnd"} => r.email \in Emails
  /\ r.pc = "signUpEnd" =>
       r.user \in Ids /\ users[r.user] = None /\ event[r.user] # NoEvent
  /\ r.pc \in EmailPcs \cup LinkPcs \cup {"patch", "delete"} =>
       r.user \in Ids /\ users[r.user] # None
  /\ r.pc \in EmailPcs \cup LinkPcs => r.value \in Values
  /\ r.pc \in {"reissueEnd", "verify"} => Was(r.user, "EMAIL", r.value)
  /\ r.pc = "change" => Was(r.user, "PASSWORD_CHANGE", r.value)
  /\ r.pc \in CopyPcs =>
       /\ r.row \in UserRow
       /\ r.row.email = users[r.user].email
       /\ RowProved(r.user, r.row)

EventOK(i) ==
  /\ event[i] = NoEvent => users[i] = None
  /\ event[i].pc \in {"mail", "commit"} =>
       users[i] # None /\ event[i].value \in Values
  /\ event[i].pc = "commit" => Was(i, "EMAIL", event[i].value)

UserOK(i) == users[i] # None => RowProved(i, users[i])

TokenOK(i) ==
  token[i]["EMAIL"] # None => Was(i, "EMAIL", token[i]["EMAIL"].value)

MailOK(m) == users[m.user] # None /\ m.to = users[m.user].email

(* Two sign-ups never take the same identity.                              *)
Apart ==
  \A w, x \in Workers :
    req[w].pc = "signUpEnd" /\ req[x].pc = "signUpEnd" /\ w # x =>
      req[w].user # req[x].user

(* Value v is known for user i and kind k.                                 *)
RequestClaims(r, v, i, k) ==
  /\ r.user = i
  /\ r.value = v
  /\ \/ k = "EMAIL" /\ r.pc \in EmailPcs
     \/ k = "PASSWORD_CHANGE" /\ r.pc \in LinkPcs

Claim(v, i, k) ==
  \/ token[i][k] # None /\ token[i][k].value = v
  \/ \E m \in mailed : m.user = i /\ m.kind = k /\ m.value = v
  \/ k = "EMAIL" /\ event[i].pc \in {"mail", "commit"} /\ event[i].value = v
  \/ \E w \in Workers : RequestClaims(req[w], v, i, k)

Claims ==
  \A v \in Values, i, j \in Ids, k, l \in Kinds :
    /\ Claim(v, i, k) => v <= issued
    /\ Claim(v, i, k) /\ Claim(v, j, l) => i = j /\ k = l

IInv ==
  /\ TypeOK
  /\ \A w \in Workers : RequestOK(req[w])
  /\ \A i \in Ids : EventOK(i) /\ UserOK(i) /\ TokenOK(i)
  /\ \A m \in mailed : MailOK(m)
  /\ Apart
  /\ Claims
-----------------------------------------------------------------------------
(* What the steps have in common.  Accounts stay, and keep their address;  *)
(* mails stay sent.                                                        *)
Grows ==
  /\ \A i \in Ids : users[i] # None =>
       users'[i] # None /\ users'[i].email = users[i].email
  /\ mailed \subseteq mailed'

(* A part that is changed is changed to a good one.                        *)
RequestsStep ==
  \A w \in Workers :
    \/ RequestOK(req[w])'
    \/ /\ req'[w] = req[w]
       /\ req[w].pc = "signUpEnd" =>
            users'[req[w].user] = None /\ event'[req[w].user] # NoEvent

EventsStep ==
  \A i \in Ids :
    \/ EventOK(i)'
    \/ /\ event'[i] = event[i]
       /\ users[i] = None => users'[i] = None

UsersStep == \A i \in Ids : UserOK(i)' \/ users'[i] = users[i]

TokensStep ==
  \A i \in Ids : TokenOK(i)' \/ token'[i]["EMAIL"] = token[i]["EMAIL"]

MailsStep == \A m \in mailed' : MailOK(m)' \/ m \in mailed

(* No value is made known for another user or kind, but a new one may be.  *)
ClaimsStep ==
  \/ /\ issued' = issued
     /\ \A v \in Values, i \in Ids, k \in Kinds : Claim(v, i, k)' => Claim(v, i, k)
  \/ /\ issued' = issued + 1
     /\ \E j \in Ids, l \in Kinds : \A v \in Values, i \in Ids, k \in Kinds :
          Claim(v, i, k)' => Claim(v, i, k) \/ (v = issued' /\ i = j /\ k = l)

RequestsClaimNoMore ==
  \A x \in Workers : \A v, i, k :
    RequestClaims(req'[x], v, i, k) => RequestClaims(req[x], v, i, k)

WritesToken(i, l, t) == token' = [token EXCEPT ![i][l] = t]

(* The one token of user i and kind l is written.                          *)
TokenBecomes(i, l, t) ==
  \A j \in Ids, k \in Kinds :
    token'[j][k] = IF j = i /\ k = l THEN t ELSE token[j][k]

LEMMA ClaimsKept ==
  ASSUME TypeOK, Claims, ClaimsStep
  PROVE  Claims'
  <1>0. issued \in Nat /\ Values \subseteq Nat
    BY MaxTokensAssumption DEF TypeOK, Values
  <1>1. CASE /\ issued' = issued
             /\ \A v \in Values, i \in Ids, k \in Kinds :
                  Claim(v, i, k)' => Claim(v, i, k)
    <2> SUFFICES ASSUME NEW v \in Values, NEW i1 \in Ids, NEW i2 \in Ids,
                        NEW k1 \in Kinds, NEW k2 \in Kinds, Claim(v, i1, k1)'
                 PROVE  /\ v <= issued'
                        /\ Claim(v, i2, k2)' => i1 = i2 /\ k1 = k2
      BY DEF Claims, Values, Kinds
    <2>1. Claim(v, i1, k1) /\ (Claim(v, i2, k2)' => Claim(v, i2, k2))
      BY <1>1
    <2> QED BY <1>1, <2>1 DEF Claims
  <1>2. ASSUME issued' = issued + 1, NEW j \in Ids, NEW l \in Kinds,
               \A v \in Values, i \in Ids, k \in Kinds :
                 Claim(v, i, k)' => Claim(v, i, k) \/ (v = issued' /\ i = j /\ k = l)
        PROVE  Claims'
    <2> SUFFICES ASSUME NEW v \in Values, NEW i1 \in Ids, NEW i2 \in Ids,
                        NEW k1 \in Kinds, NEW k2 \in Kinds, Claim(v, i1, k1)'
                 PROVE  /\ v <= issued'
                        /\ Claim(v, i2, k2)' => i1 = i2 /\ k1 = k2
      BY DEF Claims, Values, Kinds
    <2> HIDE DEF Claim
    <2>1. CASE v = issued'
      <3>1. ~Claim(v, i1, k1) /\ ~Claim(v, i2, k2)
        BY <1>0, <1>2, <2>1 DEF Claims
      <3> QED BY <1>0, <1>2, <2>1, <3>1
    <2>2. CASE v # issued'
      <3>1. Claim(v, i1, k1) /\ (Claim(v, i2, k2)' => Claim(v, i2, k2))
        BY <1>2, <2>2
      <3> QED BY <1>0, <1>2, <3>1 DEF Claims
    <2> QED BY <2>1, <2>2
  <1> QED BY <1>1, <1>2 DEF ClaimsStep

(* Who was mailed a token was mailed it.                                   *)
LEMMA MailStays ==
  ASSUME Grows, NEW i \in Ids, NEW k, NEW v, Was(i, k, v)
  PROVE  Was(i, k, v)'
  BY DEF Grows, Was, Sent

LEMMA ProofStays ==
  ASSUME Grows, NEW i \in Ids, NEW r, RowProved(i, r)
  PROVE  RowProved(i, r)'
  BY MailStays DEF RowProved

LEMMA RequestStays ==
  ASSUME Grows, NEW r \in Request, RequestOK(r),
         r.pc = "signUpEnd" => users'[r.user] = None /\ event'[r.user] # NoEvent
  PROVE  RequestOK(r)'
  <1>1. ASSUME r.pc \in EmailPcs \cup LinkPcs \cup {"patch", "delete"}
        PROVE  /\ r.user \in Ids /\ users'[r.user] # None
               /\ users'[r.user].email = users[r.user].email
    BY <1>1 DEF RequestOK, Grows
  <1>2. r.pc \in {"reissueEnd", "verify"} => Was(r.user, "EMAIL", r.value)'
    BY <1>1, MailStays DEF RequestOK, EmailPcs
  <1>3. r.pc = "change" => Was(r.user, "PASSWORD_CHANGE", r.value)'
    BY <1>1, MailStays DEF RequestOK, LinkPcs
  <1>4. r.pc \in CopyPcs => RowProved(r.user, r.row)'
    BY <1>1, ProofStays DEF RequestOK, CopyPcs, EmailPcs, LinkPcs
  <1> QED
    BY <1>1, <1>2, <1>3, <1>4
       DEF RequestOK, EmailPcs, LinkPcs, CopyPcs

(* A step that changes no part to a bad one keeps the invariant.           *)
LEMMA StepKeeps ==
  ASSUME IInv, TypeOK', Grows, RequestsStep, EventsStep, UsersStep,
         TokensStep, MailsStep, Apart', ClaimsStep
  PROVE  IInv'
  <1>1. ASSUME NEW w \in Workers PROVE RequestOK(req[w])'
    <2>1. CASE RequestOK(req[w])'
      BY <2>1
    <2>2. CASE /\ req'[w] = req[w]
               /\ req[w].pc = "signUpEnd" =>
                    users'[req[w].user] = None /\ event'[req[w].user] # NoEvent
      <3>1. req[w] \in Request /\ RequestOK(req[w])
        BY DEF IInv, TypeOK
      <3>2. RequestOK(req[w])'
        BY <2>2, <3>1, RequestStays
      <3> QED BY <3>2
    <2> QED BY <2>1, <2>2 DEF RequestsStep
  <1>2. ASSUME NEW i \in Ids PROVE EventOK(i)'
    <2>1. EventOK(i)
      BY DEF IInv
    <2>2. CASE event'[i] = event[i] /\ (users[i] = None => users'[i] = None)
      <3>1. event[i].pc = "commit" => Was(i, "EMAIL", event[i].value)'
        BY <2>1, <2>2, MailStays DEF EventOK
      <3> QED BY <2>1, <2>2, <3>1 DEF EventOK, Grows
    <2> QED BY <2>2 DEF EventsStep
  <1>3. ASSUME NEW i \in Ids PROVE UserOK(i)'
    <2>1. UserOK(i)
      BY DEF IInv
    <2>2. CASE users'[i] = users[i]
      BY <2>1, <2>2, ProofStays DEF UserOK
    <2> QED BY <2>2 DEF UsersStep
  <1>4. ASSUME NEW i \in Ids PROVE TokenOK(i)'
    <2>1. TokenOK(i)
      BY DEF IInv
    <2>2. CASE token'[i]["EMAIL"] = token[i]["EMAIL"]
      BY <2>1, <2>2, MailStays DEF TokenOK
    <2> QED BY <2>2 DEF TokensStep
  <1>5. ASSUME NEW m \in mailed' PROVE MailOK(m)'
    <2>1. CASE m \in mailed
      BY <2>1 DEF IInv, MailOK, Grows, TypeOK, Mail
    <2> QED BY <2>1 DEF MailsStep
  <1>6. Claims'
    BY ClaimsKept DEF IInv
  <1> QED BY <1>1, <1>2, <1>3, <1>4, <1>5, <1>6 DEF IInv
-----------------------------------------------------------------------------
LEMMA IdleIsOK ==
  /\ Idle \in Request
  /\ RequestOK(Idle)
  /\ Idle.pc = "idle"
  /\ \A v, i, k : ~RequestClaims(Idle, v, i, k)
  BY DEF Idle, Request, RequestOK, RequestClaims, EmailPcs, LinkPcs, CopyPcs

(* A request that only reads, or learns a new token value.                 *)
LEMMA RequestMoves ==
  ASSUME IInv, NEW w \in Workers, NEW r \in Request,
         req' = [req EXCEPT ![w] = r],
         UNCHANGED <<users, token, mailed, event>>,
         r.pc # "signUpEnd", RequestOK(r),
         \/ /\ issued' = issued
            /\ \A v \in Values, i \in Ids, k \in Kinds :
                 RequestClaims(r, v, i, k) => Claim(v, i, k)
         \/ /\ issued < MaxTokens /\ issued' = issued + 1
            /\ r.pc \in EmailPcs \cup LinkPcs /\ r.value = issued'
  PROVE  IInv'
  <1>1. TypeOK'
    BY MaxTokensAssumption DEF IInv, TypeOK
  <1>2. \A x \in Workers : req'[x] = IF x = w THEN r ELSE req[x]
    BY DEF IInv, TypeOK
  <1>3. Grows
    BY DEF Grows
  <1>4. \A q : RequestOK(q)' <=> RequestOK(q)
    BY DEF RequestOK, RowProved, Was, Sent
  <1>5. RequestsStep
    <2>1. ASSUME NEW x \in Workers PROVE RequestOK(req[x])'
      <3>1. RequestOK(req'[x])
        BY <1>2 DEF IInv
      <3>2. PICK q : q = req'[x]
        OBVIOUS
      <3>3. RequestOK(q)'
        BY <1>4, <3>1, <3>2
      <3> QED BY <3>2, <3>3
    <2> QED BY <2>1 DEF RequestsStep
  <1>6. EventsStep /\ UsersStep /\ TokensStep /\ MailsStep
    BY DEF EventsStep, UsersStep, TokensStep, MailsStep
  <1>7. Apart'
    BY <1>2 DEF IInv, Apart
  <1>8. \A v, i, k : Claim(v, i, k)' =>
          Claim(v, i, k) \/ RequestClaims(r, v, i, k)
    BY <1>2 DEF Claim, RequestClaims
  <1>9. ClaimsStep
    <2>1. CASE /\ issued' = issued
               /\ \A v \in Values, i \in Ids, k \in Kinds :
                    RequestClaims(r, v, i, k) => Claim(v, i, k)
      BY <1>8, <2>1 DEF ClaimsStep
    <2>2. CASE /\ issued < MaxTokens /\ issued' = issued + 1
               /\ r.pc \in EmailPcs \cup LinkPcs /\ r.value = issued'
      <3>1. r.user \in Ids
        BY <2>2 DEF RequestOK
      <3>2. PICK l \in Kinds : \A v, i, k :
              RequestClaims(r, v, i, k) => v = issued' /\ i = r.user /\ k = l
        BY <2>2 DEF RequestClaims, Kinds, EmailPcs, LinkPcs
      <3> QED BY <1>8, <2>2, <3>1, <3>2 DEF ClaimsStep
    <2> QED BY <2>1, <2>2
  <1> QED BY <1>1, <1>3, <1>5, <1>6, <1>7, <1>9, StepKeeps
-----------------------------------------------------------------------------
(* The steps that only move a request.                                     *)

LEMMA AbortKeeps ==
  ASSUME IInv, NEW w \in Workers, Abort(w)
  PROVE  IInv'
  BY IdleIsOK, RequestMoves DEF Abort

LEMMA SignUpReadKeeps ==
  ASSUME IInv, NEW w \in Workers, NEW e \in Emails, SignUpRead(w, e)
  PROVE  IInv'
  <1>1. PICK r : r = [Idle EXCEPT !.pc = "signUp", !.email = e]
    OBVIOUS
  <1>2. /\ r \in Request /\ RequestOK(r) /\ r.pc = "signUp"
        /\ \A v, i, k : ~RequestClaims(r, v, i, k)
    BY <1>1 DEF Idle, Request, RequestOK, RequestClaims, EmailPcs, LinkPcs, CopyPcs
  <1> QED BY <1>1, <1>2, RequestMoves DEF SignUpRead, Start

LEMMA SendReadKeeps ==
  ASSUME IInv, NEW w \in Workers, NEW i \in Ids, SendRead(w, i)
  PROVE  IInv'
  <1>1. PICK r : r = [Idle EXCEPT !.pc = "reissue", !.user = i, !.value = issued']
    OBVIOUS
  <1>2. issued < MaxTokens /\ issued' = issued + 1 /\ issued' \in Values
    BY MaxTokensAssumption DEF SendRead, Generate, IInv, TypeOK, Values
  <1>3. /\ r \in Request /\ RequestOK(r)
        /\ r.pc = "reissue" /\ r.value = issued'
    BY <1>1, <1>2 DEF Idle, Request, RequestOK, EmailPcs, LinkPcs, CopyPcs,
                      SendRead, findOneById
  <1> QED BY <1>1, <1>2, <1>3, RequestMoves DEF SendRead, Start, EmailPcs

LEMMA LinkReadKeeps ==
  ASSUME IInv, NEW w \in Workers, NEW e \in Emails, LinkRead(w, e)
  PROVE  IInv'
  <1>1. PICK i \in Ids : \E pc \in {"create", "renew"} :
          /\ findOneById(i)
          /\ Start(w, [Idle EXCEPT !.pc = pc, !.user = i, !.value = issued'])
    BY DEF LinkRead, findOneByEmailAndLoginType
  <1>2. PICK pc \in {"create", "renew"} :
          /\ findOneById(i)
          /\ Start(w, [Idle EXCEPT !.pc = pc, !.user = i, !.value = issued'])
    BY <1>1
  <1>3. PICK r : r = [Idle EXCEPT !.pc = pc, !.user = i, !.value = issued']
    OBVIOUS
  <1>4. issued < MaxTokens /\ issued' = issued + 1 /\ issued' \in Values
    BY MaxTokensAssumption DEF LinkRead, Generate, IInv, TypeOK, Values
  <1>5. /\ r \in Request /\ RequestOK(r)
        /\ r.pc \in LinkPcs /\ r.pc # "signUpEnd" /\ r.value = issued'
    BY <1>2, <1>3, <1>4 DEF Idle, Request, RequestOK, EmailPcs, LinkPcs, CopyPcs,
                            findOneById
  <1> QED BY <1>2, <1>3, <1>4, <1>5, RequestMoves DEF Start

(* The row that is read is as good as the table.                           *)
LEMMA PatchReadKeeps ==
  ASSUME IInv, NEW w \in Workers, NEW i \in Ids, PatchRead(w, i)
  PROVE  IInv'
  <1>1. PICK r : r = [Idle EXCEPT !.pc = "patch", !.user = i, !.row = users[i]]
    OBVIOUS
  <1>2. /\ users[i] # None /\ users[i] \in UserRow
        /\ RowProved(i, users[i])
    BY DEF PatchRead, findOneById, IInv, TypeOK, UserOK
  <1>3. /\ r \in Request /\ RequestOK(r) /\ r.pc = "patch"
        /\ \A v, j, k : ~RequestClaims(r, v, j, k)
    BY <1>1, <1>2 DEF Idle, Request, RequestOK, RequestClaims,
                      EmailPcs, LinkPcs, CopyPcs
  <1> QED BY <1>1, <1>3, RequestMoves DEF PatchRead, Start

LEMMA DeleteReadKeeps ==
  ASSUME IInv, NEW w \in Workers, NEW i \in Ids, DeleteRead(w, i)
  PROVE  IInv'
  <1>1. PICK r : r = [Idle EXCEPT !.pc = "delete", !.user = i]
    OBVIOUS
  <1>2. /\ r \in Request /\ RequestOK(r) /\ r.pc = "delete"
        /\ \A v, j, k : ~RequestClaims(r, v, j, k)
    BY <1>1 DEF Idle, Request, RequestOK, RequestClaims, EmailPcs, LinkPcs,
                CopyPcs, DeleteRead, findOneById
  <1> QED BY <1>1, <1>2, RequestMoves DEF DeleteRead, Start

(* The email token in the table has been mailed.                           *)
LEMMA VerifyReadKeeps ==
  ASSUME IInv, NEW w \in Workers, NEW i \in Ids, NEW m \in mailed,
         VerifyRead(w, i, m)
  PROVE  IInv'
  <1>1. PICK r : r = [Idle EXCEPT !.pc = "verify", !.user = i, !.row = users[i],
                                  !.value = m.value]
    OBVIOUS
  <1>2. /\ users[i] # None /\ users[i] \in UserRow /\ m.value \in Values
        /\ RowProved(i, users[i])
    BY DEF VerifyRead, findOneById, IInv, TypeOK, UserOK, Mail
  <1>3. token[i]["EMAIL"] # None /\ token[i]["EMAIL"].value = m.value
    BY DEF VerifyRead, MayUse
  <1>4. Was(i, "EMAIL", m.value)
    BY <1>3 DEF IInv, TokenOK
  <1>5. r \in Request /\ RequestOK(r) /\ r.pc = "verify"
    BY <1>1, <1>2, <1>4 DEF Idle, Request, RequestOK, EmailPcs, LinkPcs, CopyPcs
  <1>6. \A v, j, k : RequestClaims(r, v, j, k) => Claim(v, j, k)
    BY <1>1, <1>3 DEF RequestClaims, Claim, Idle, EmailPcs, LinkPcs
  <1> QED BY <1>1, <1>5, <1>6, RequestMoves DEF VerifyRead, Start

(* The mail that has the user's token is the user's, and for passwords.    *)
LEMMA ChangeReadKeeps ==
  ASSUME IInv, NEW w \in Workers, NEW i \in Ids, NEW m \in mailed,
         ChangeRead(w, i, m)
  PROVE  IInv'
  <1>1. PICK r : r = [Idle EXCEPT !.pc = "change", !.user = i, !.row = users[i],
                                  !.value = m.value]
    OBVIOUS
  <1>2. /\ users[i] # None /\ users[i] \in UserRow /\ m \in Mail
        /\ RowProved(i, users[i]) /\ MailOK(m)
    BY DEF ChangeRead, findOneById, IInv, TypeOK, UserOK
  <1>3. /\ token[i]["PASSWORD_CHANGE"] # None
        /\ token[i]["PASSWORD_CHANGE"].value = m.value
    BY DEF ChangeRead, MayUse
  <1>4. m.user = i /\ m.kind = "PASSWORD_CHANGE"
    <2>1. Claim(m.value, i, "PASSWORD_CHANGE") /\ Claim(m.value, m.user, m.kind)
      BY <1>3 DEF Claim
    <2> QED BY <1>2, <2>1 DEF IInv, Claims, Mail, Kinds
  <1>5. Was(i, "PASSWORD_CHANGE", m.value)
    BY <1>2, <1>4 DEF Was, Sent, MailOK, Mail
  <1>6. r \in Request /\ RequestOK(r) /\ r.pc = "change"
    BY <1>1, <1>2, <1>5
       DEF Idle, Request, RequestOK, EmailPcs, LinkPcs, CopyPcs, Mail
  <1>7. \A v, j, k : RequestClaims(r, v, j, k) => Claim(v, j, k)
    BY <1>1, <1>3 DEF RequestClaims, Claim, Idle, EmailPcs, LinkPcs
  <1> QED BY <1>1, <1>6, <1>7, RequestMoves DEF ChangeRead, Start

LEMMA SendUpdateKeeps ==
  ASSUME IInv, NEW w \in Workers, SendUpdate(w)
  PROVE  IInv'
  <1>1. PICK r : r = [req[w] EXCEPT !.pc = "mail"]
    OBVIOUS
  <1>2. req[w] \in Request /\ RequestOK(req[w]) /\ req[w].pc = "reissue"
    BY DEF IInv, TypeOK, SendUpdate
  <1>3. r \in Request /\ RequestOK(r) /\ r.pc = "mail"
    BY <1>1, <1>2 DEF Request, RequestOK, EmailPcs, LinkPcs, CopyPcs
  <1>4. \A v, j, k : RequestClaims(r, v, j, k) => Claim(v, j, k)
    BY <1>1, <1>2 DEF RequestClaims, Claim, Request, EmailPcs, LinkPcs
  <1>5. req' = [req EXCEPT ![w] = r]
    BY <1>1 DEF SendUpdate
  <1> QED BY <1>3, <1>4, <1>5, RequestMoves DEF SendUpdate
-----------------------------------------------------------------------------
(* The steps that write a table, send a mail or begin an event.            *)

(* The request of w goes on; a sign-up of another still has its identity.  *)
LEMMA RequestBecomes ==
  ASSUME TypeOK, NEW w \in Workers, NEW r \in Request,
         req' = [req EXCEPT ![w] = r], RequestOK(r)',
         \A x \in Workers : x # w /\ req[x].pc = "signUpEnd" =>
           users'[req[x].user] = None /\ event'[req[x].user] # NoEvent
  PROVE  RequestsStep
  <1>1. \A x \in Workers : req'[x] = IF x = w THEN r ELSE req[x]
    BY DEF TypeOK
  <1>2. \A x \in Workers : x = w => RequestOK(req[x])'
    <2>1. req'[w] = r
      BY <1>1
    <2>2. RequestOK(req[w])'
      BY <2>1
    <2> QED BY <2>2
  <1> QED BY <1>1, <1>2 DEF RequestsStep

(* The request of w is through, and no other loses its identity.           *)
LEMMA RequestEnds ==
  ASSUME IInv, NEW w \in Workers, req' = [req EXCEPT ![w] = Idle],
         UNCHANGED <<event, issued>>,
         \A x \in Workers : x # w /\ req[x].pc = "signUpEnd" =>
           users'[req[x].user] = None
  PROVE  /\ req' \in [Workers -> Request]
         /\ RequestsStep
         /\ Apart'
         /\ RequestsClaimNoMore
  <1>1. \A x \in Workers : req'[x] = IF x = w THEN Idle ELSE req[x]
    BY DEF IInv, TypeOK
  <1>2. RequestOK(Idle)'
    BY DEF Idle, RequestOK, EmailPcs, LinkPcs, CopyPcs
  <1>3. \A x \in Workers : req[x].pc = "signUpEnd" => event[req[x].user] # NoEvent
    BY DEF IInv, RequestOK
  <1>4. RequestsStep
    BY <1>2, <1>3, IdleIsOK, RequestBecomes DEF IInv
  <1>5. Apart'
    BY <1>1, IdleIsOK DEF Apart, IInv
  <1>6. RequestsClaimNoMore
    BY <1>1, IdleIsOK DEF RequestsClaimNoMore
  <1>7. req' \in [Workers -> Request]
    BY IdleIsOK DEF IInv, TypeOK
  <1> QED BY <1>4, <1>5, <1>6, <1>7

(* A sign-up takes an identity nobody has.                                 *)
LEMMA SignUpInsertKeeps ==
  ASSUME IInv, NEW w \in Workers, NEW i \in Ids, SignUpInsert(w, i)
  PROVE  IInv'
  <1>1. PICK r : r = [[req[w] EXCEPT !.pc = "signUpEnd"] EXCEPT !.user = i]
    OBVIOUS
  <1>2. req[w] \in Request /\ RequestOK(req[w]) /\ req[w].pc = "signUp"
    BY DEF IInv, TypeOK, SignUpInsert
  <1>3. r \in Request /\ r.pc = "signUpEnd" /\ r.user = i /\ r.email \in Emails
    BY <1>1, <1>2 DEF Request, RequestOK
  <1>4. req' = [req EXCEPT ![w] = r]
    BY <1>1 DEF SignUpInsert, IInv, TypeOK
  <1>5. \A x \in Workers : req'[x] = IF x = w THEN r ELSE req[x]
    BY <1>4 DEF IInv, TypeOK
  <1>6. \A j \in Ids : event'[j] = IF j = i THEN [event[i] EXCEPT !.pc = "insert"]
                                          ELSE event[j]
    BY DEF SignUpInsert, IInv, TypeOK
  <1>7. event[i] = NoEvent /\ event[i] \in Event /\ users[i] = None
    BY DEF SignUpInsert, IInv, TypeOK, EventOK
  <1>8. event'[i].pc = "insert" /\ event'[i] \in Event
    BY <1>6, <1>7 DEF Event
  <1>9. event'[i] # NoEvent
    BY <1>8 DEF NoEvent
  <1>10. TypeOK'
    <2>1. req' \in [Workers -> Request]
      BY <1>3, <1>4 DEF IInv, TypeOK
    <2>2. event' = [event EXCEPT ![i] = [event[i] EXCEPT !.pc = "insert"]]
      BY DEF SignUpInsert
    <2>3. event' \in [Ids -> Event]
      BY <1>6, <1>8, <2>2 DEF IInv, TypeOK
    <2> QED BY <2>1, <2>3 DEF SignUpInsert, IInv, TypeOK
  <1>11. Grows
    BY DEF Grows, SignUpInsert
  <1>12. \A x \in Workers : req[x].pc = "signUpEnd" =>
           req[x].user \in Ids /\ req[x].user # i /\ users[req[x].user] = None
           /\ event[req[x].user] # NoEvent
    BY <1>7 DEF IInv, RequestOK
  <1>13. RequestOK(r)'
    BY <1>3, <1>7, <1>9 DEF RequestOK, EmailPcs, LinkPcs, CopyPcs, SignUpInsert
  <1>14. RequestsStep
    <2>1. users' = users
      BY DEF SignUpInsert
    <2>2. \A x \in Workers : x # w /\ req[x].pc = "signUpEnd" =>
            users'[req[x].user] = None /\ event'[req[x].user] # NoEvent
      BY <1>6, <1>12, <2>1
    <2> QED BY <1>3, <1>4, <1>13, <2>2, RequestBecomes DEF IInv
  <1>15. EventOK(i)'
    BY <1>8, <1>9 DEF EventOK
  <1>16. EventsStep /\ UsersStep /\ TokensStep /\ MailsStep
    BY <1>6, <1>15
       DEF EventsStep, UsersStep, TokensStep, MailsStep, SignUpInsert
  <1>17. Apart'
    BY <1>3, <1>5, <1>12 DEF Apart, IInv
  <1>18. ClaimsStep
    <2>1. \A v, j, k : ~RequestClaims(r, v, j, k)
      BY <1>3 DEF RequestClaims, EmailPcs, LinkPcs
    <2>2. RequestsClaimNoMore
      BY <1>5, <2>1 DEF RequestsClaimNoMore
    <2>3. \A j \in Ids : event'[j].pc \in {"mail", "commit"} => event'[j] = event[j]
      BY <1>6, <1>8
    <2>4. token' = token /\ mailed' = mailed /\ issued' = issued
      BY DEF SignUpInsert
    <2>5. ASSUME NEW v \in Values, NEW j \in Ids, NEW k \in Kinds, Claim(v, j, k)'
          PROVE  Claim(v, j, k)
      <3>1. CASE \E x \in Workers : RequestClaims(req'[x], v, j, k)
        BY <2>2, <3>1 DEF Claim, RequestsClaimNoMore
      <3>2. CASE k = "EMAIL" /\ event'[j].pc \in {"mail", "commit"}
                 /\ event'[j].value = v
        BY <2>3, <3>2 DEF Claim
      <3>3. CASE \/ token'[j][k] # None /\ token'[j][k].value = v
                 \/ \E m \in mailed' : m.user = j /\ m.kind = k /\ m.value = v
        BY <2>4, <3>3 DEF Claim
      <3> QED BY <2>5, <3>1, <3>2, <3>3 DEF Claim, RequestClaims
    <2> QED BY <2>4, <2>5 DEF ClaimsStep
  <1> QED BY <1>10, <1>11, <1>14, <1>16, <1>17, <1>18, StepKeeps

(* ... and keeps it for the row it commits, which proves nothing yet.      *)
LEMMA SignUpCommitKeeps ==
  ASSUME IInv, NEW w \in Workers, SignUpCommit(w)
  PROVE  IInv'
  <1>1. PICK i : i = req[w].user
    OBVIOUS
  <1>2. PICK row : row = [email |-> req[w].email, verified |-> None,
                          password |-> None, deleted |-> FALSE]
    OBVIOUS
  <1>3. /\ i \in Ids /\ users[i] = None /\ event[i] # NoEvent
        /\ req[w].email \in Emails /\ req[w].pc = "signUpEnd"
    BY <1>1 DEF IInv, RequestOK, SignUpCommit, Finish
  <1>4. row \in UserRow /\ row # None /\ row.verified = None /\ row.password = None
    <2>1. row.verified = None /\ row.password = None
      BY <1>2
    <2>2. row \in UserRow
      BY <1>2, <1>3 DEF UserRow
    <2> QED BY <2>1, <2>2, NoneIsNoRow
  <1>5. users' = [users EXCEPT ![i] = row] /\ UNCHANGED <<token, mailed, issued, event>>
    BY <1>1, <1>2 DEF SignUpCommit
  <1>6. \A j \in Ids : users'[j] = IF j = i THEN row ELSE users[j]
    BY <1>5 DEF IInv, TypeOK
  <1>7. \A x \in Workers : x # w /\ req[x].pc = "signUpEnd" =>
          users'[req[x].user] = None
    BY <1>1, <1>3, <1>6 DEF IInv, RequestOK, Apart
  <1>8. /\ req' \in [Workers -> Request] /\ RequestsStep /\ Apart'
        /\ RequestsClaimNoMore
    BY <1>5, <1>7, RequestEnds DEF SignUpCommit, Finish
  <1>9. TypeOK'
    BY <1>4, <1>5, <1>8 DEF IInv, TypeOK
  <1>10. Grows
    BY <1>3, <1>5, <1>6 DEF Grows
  <1>11. ASSUME NEW j \in Ids
         PROVE  \/ EventOK(j)'
                \/ event'[j] = event[j] /\ (users[j] = None => users'[j] = None)
    <2>1. CASE j = i
      <3>1. users'[i] = row
        BY <1>3, <1>6
      <3>2. event[i].pc = "commit" => FALSE
        BY <1>3 DEF IInv, EventOK
      <3>3. event[i].pc = "mail" => FALSE
        BY <1>3 DEF IInv, EventOK
      <3> QED BY <1>3, <1>5, <2>1, <3>1, <3>2, <3>3 DEF EventOK
    <2>2. CASE j # i
      BY <1>5, <1>6, <2>2
    <2> QED BY <2>1, <2>2
  <1>12. UsersStep
    BY <1>4, <1>6 DEF UsersStep, UserOK, RowProved
  <1>13. EventsStep /\ TokensStep /\ MailsStep
    BY <1>5, <1>11 DEF EventsStep, TokensStep, MailsStep
  <1>14. ClaimsStep
    BY <1>5, <1>8 DEF ClaimsStep, Claim, RequestsClaimNoMore
  <1> QED BY <1>8, <1>9, <1>10, <1>12, <1>13, <1>14, StepKeeps

(* The requests go on as they are.                                         *)
LEMMA RequestsStand ==
  ASSUME IInv, req' = req, \A i \in Ids : users[i] = None => users'[i] = None,
         \A i \in Ids : event[i] # NoEvent => event'[i] # NoEvent
  PROVE  RequestsStep /\ Apart'
  BY DEF IInv, RequestsStep, Apart, RequestOK

(* The handler of UserCreated for user i moves on.                         *)
LEMMA EventMoves ==
  ASSUME IInv, NEW i \in Ids, NEW e \in Event,
         event' = [event EXCEPT ![i] = e], e.pc # "none",
         UNCHANGED <<users, req>>, mailed \subseteq mailed'
  PROVE  /\ event' \in [Ids -> Event]
         /\ \A j \in Ids : event'[j] = IF j = i THEN e ELSE event[j]
         /\ Grows /\ RequestsStep /\ Apart' /\ UsersStep
         /\ EventOK(i)' => EventsStep
  <1>1. \A j \in Ids : event'[j] = IF j = i THEN e ELSE event[j]
    BY DEF IInv, TypeOK
  <1>2. Grows
    BY DEF Grows
  <1>3. e # NoEvent
    BY DEF NoEvent
  <1>4. RequestsStep /\ Apart'
    BY <1>1, <1>3, RequestsStand
  <1>5. UsersStep
    BY DEF UsersStep
  <1>6. EventOK(i)' => EventsStep
    BY <1>1 DEF EventsStep
  <1>7. event' \in [Ids -> Event]
    BY DEF IInv, TypeOK
  <1> QED BY <1>1, <1>2, <1>4, <1>5, <1>6, <1>7

LEMMA EventInsertKeeps ==
  ASSUME IInv, NEW i \in Ids, EventInsert(i)
  PROVE  IInv'
  <1>1. event[i] \in Event
    BY DEF IInv, TypeOK
  <1>2. CASE /\ event' = [event EXCEPT ![i].pc = "over"]
             /\ UNCHANGED <<users, token, mailed, req, issued>>
    <2>1. PICK e : e = [event[i] EXCEPT !.pc = "over"]
      OBVIOUS
    <2>2. e \in Event /\ e.pc = "over"
      BY <1>1, <2>1 DEF Event
    <2>3. event' = [event EXCEPT ![i] = e]
      BY <1>2, <2>1
    <2>4. /\ event' \in [Ids -> Event]
          /\ \A j \in Ids : event'[j] = IF j = i THEN e ELSE event[j]
          /\ Grows /\ RequestsStep /\ Apart' /\ UsersStep
          /\ EventOK(i)' => EventsStep
      BY <1>2, <2>2, <2>3, EventMoves
    <2>5. EventOK(i)'
      BY <2>2, <2>4 DEF EventOK, NoEvent
    <2>6. TokensStep /\ MailsStep /\ TypeOK'
      BY <1>2, <2>4 DEF TokensStep, MailsStep, IInv, TypeOK
    <2>7. ClaimsStep
      BY <1>2, <2>2, <2>4 DEF ClaimsStep, Claim
    <2> QED BY <2>4, <2>5, <2>6, <2>7, StepKeeps
  <1>3. CASE /\ users[i] # None
             /\ Generate
             /\ event' = [event EXCEPT ![i] = [pc |-> "mail", value |-> issued']]
             /\ UNCHANGED <<users, token, mailed, req>>
    <2>1. PICK e : e = [pc |-> "mail", value |-> issued']
      OBVIOUS
    <2>2. issued < MaxTokens /\ issued' = issued + 1 /\ issued' \in Values
      BY <1>3, MaxTokensAssumption DEF Generate, IInv, TypeOK, Values
    <2>3. e \in Event /\ e.pc = "mail" /\ e.value = issued'
      BY <2>1, <2>2 DEF Event
    <2>4. /\ event' \in [Ids -> Event]
          /\ \A j \in Ids : event'[j] = IF j = i THEN e ELSE event[j]
          /\ Grows /\ RequestsStep /\ Apart' /\ UsersStep
          /\ EventOK(i)' => EventsStep
      BY <1>3, <2>1, <2>3, EventMoves
    <2>5. EventOK(i)'
      BY <1>3, <2>2, <2>3, <2>4 DEF EventOK, NoEvent
    <2>6. issued' \in 0 .. MaxTokens
      BY <2>2, MaxTokensAssumption DEF Values
    <2>7. TokensStep /\ MailsStep /\ TypeOK'
      BY <1>3, <2>4, <2>6 DEF TokensStep, MailsStep, IInv, TypeOK
    <2>8. \A v \in Values, j \in Ids, k \in Kinds : Claim(v, j, k)' =>
            Claim(v, j, k) \/ (v = issued' /\ j = i /\ k = "EMAIL")
      BY <1>3, <2>3, <2>4 DEF Claim
    <2>9. ClaimsStep
      BY <2>2, <2>8 DEF ClaimsStep, Kinds
    <2> QED BY <2>4, <2>5, <2>7, <2>9, StepKeeps
  <1> QED BY <1>2, <1>3 DEF EventInsert

LEMMA EventMailKeeps ==
  ASSUME IInv, NEW i \in Ids, EventMail(i)
  PROVE  IInv'
  <1>1. PICK e : e = [event[i] EXCEPT !.pc = "commit"]
    OBVIOUS
  <1>2. PICK m : m = Sent(i, "EMAIL", event[i].value)
    OBVIOUS
  <1>3. /\ event[i] \in Event /\ event[i].pc = "mail" /\ users[i] # None
        /\ event[i].value \in Values /\ users[i].email \in Emails
    BY DEF EventMail, IInv, TypeOK, EventOK, UserRow
  <1>4. e \in Event /\ e.pc = "commit" /\ e.value = event[i].value
    BY <1>1, <1>3 DEF Event
  <1>5. m \in Mail /\ MailOK(m) /\ m.user = i /\ m.kind = "EMAIL" /\ m.value = e.value
    BY <1>2, <1>3, <1>4 DEF Sent, Mail, MailOK, Kinds
  <1>6. /\ event' = [event EXCEPT ![i] = e] /\ mailed' = mailed \cup {m}
        /\ UNCHANGED <<users, token, issued, req>>
    BY <1>1, <1>2 DEF EventMail
  <1>7. /\ event' \in [Ids -> Event]
        /\ \A j \in Ids : event'[j] = IF j = i THEN e ELSE event[j]
        /\ Grows /\ RequestsStep /\ Apart' /\ UsersStep
        /\ EventOK(i)' => EventsStep
    BY <1>4, <1>6, EventMoves
  <1>8. EventOK(i)'
    <2>1. m = Sent(i, "EMAIL", e.value)
      BY <1>2, <1>4
    <2> QED BY <1>3, <1>4, <1>6, <1>7, <2>1 DEF EventOK, NoEvent, Was, Sent
  <1>9. TokensStep /\ MailsStep /\ TypeOK'
    BY <1>5, <1>6, <1>7 DEF TokensStep, MailsStep, IInv, TypeOK, MailOK
  <1>10. \A v \in Values, j \in Ids, k \in Kinds : Claim(v, j, k)' => Claim(v, j, k)
    <2>1. \A j \in Ids : event'[j].pc \in {"mail", "commit"} =>
            event[j].pc \in {"mail", "commit"} /\ event'[j].value = event[j].value
      BY <1>3, <1>4, <1>7
    <2>2. \A n \in mailed' : n \in mailed \/
            (n.user = i /\ n.kind = "EMAIL" /\ n.value = event[i].value)
      BY <1>4, <1>5, <1>6
    <2> QED BY <1>3, <1>6, <2>1, <2>2 DEF Claim
  <1>11. ClaimsStep
    BY <1>6, <1>10 DEF ClaimsStep
  <1> QED BY <1>7, <1>8, <1>9, <1>11, StepKeeps

LEMMA EventCommitKeeps ==
  ASSUME IInv, NEW i \in Ids, EventCommit(i)
  PROVE  IInv'
  <1>1. PICK e : e = [event[i] EXCEPT !.pc = "over"]
    OBVIOUS
  <1>2. PICK t : t = Fresh(event[i].value)
    OBVIOUS
  <1>3. /\ event[i] \in Event /\ event[i].pc = "commit"
        /\ event[i].value \in Values /\ Was(i, "EMAIL", event[i].value)
    BY DEF EventCommit, IInv, TypeOK, EventOK
  <1>4. e \in Event /\ e.pc = "over"
    BY <1>1, <1>3 DEF Event
  <1>5. t \in TokenRow /\ t.value = event[i].value
    BY <1>2, <1>3 DEF Fresh, TokenRow
  <1>6. /\ event' = [event EXCEPT ![i] = e]
        /\ token' = [token EXCEPT ![i] = [token[i] EXCEPT !["EMAIL"] = t]]
        /\ UNCHANGED <<users, mailed, issued, req>>
    BY <1>1, <1>2 DEF EventCommit
  <1>7. /\ event' \in [Ids -> Event]
        /\ \A j \in Ids : event'[j] = IF j = i THEN e ELSE event[j]
        /\ Grows /\ RequestsStep /\ Apart' /\ UsersStep
        /\ EventOK(i)' => EventsStep
    BY <1>4, <1>6, EventMoves
  <1>8. EventOK(i)'
    BY <1>4, <1>7 DEF EventOK, NoEvent
  <1>9. /\ token' \in [Ids -> [Kinds -> TokenRow \cup {None}]]
        /\ \A j \in Ids, k \in Kinds : token'[j][k] =
             IF j = i /\ k = "EMAIL" THEN t ELSE token[j][k]
    BY <1>5, <1>6 DEF IInv, TypeOK, Kinds
  <1>10. TokenOK(i)'
    BY <1>3, <1>5, <1>6, <1>9 DEF TokenOK, Was, Sent, Kinds
  <1>11. TokensStep /\ MailsStep /\ TypeOK'
    BY <1>6, <1>7, <1>9, <1>10 DEF TokensStep, MailsStep, IInv, TypeOK, Kinds
  <1>12. ClaimsStep
    BY <1>3, <1>4, <1>5, <1>6, <1>7, <1>9 DEF ClaimsStep, Claim
  <1> QED BY <1>7, <1>8, <1>11, <1>12, StepKeeps

LEMMA EventAbortKeeps ==
  ASSUME IInv, NEW i \in Ids, EventAbort(i)
  PROVE  IInv'
  <1>1. PICK e : e = [event[i] EXCEPT !.pc = "over"]
    OBVIOUS
  <1>2. event[i] \in Event
    BY DEF IInv, TypeOK
  <1>3. e \in Event /\ e.pc = "over"
    BY <1>1, <1>2 DEF Event
  <1>4. /\ event' = [event EXCEPT ![i] = e]
        /\ UNCHANGED <<users, token, mailed, issued, req>>
    BY <1>1 DEF EventAbort
  <1>5. /\ event' \in [Ids -> Event]
        /\ \A j \in Ids : event'[j] = IF j = i THEN e ELSE event[j]
        /\ Grows /\ RequestsStep /\ Apart' /\ UsersStep
        /\ EventOK(i)' => EventsStep
    BY <1>3, <1>4, EventMoves
  <1>6. EventOK(i)'
    BY <1>3, <1>5 DEF EventOK, NoEvent
  <1>7. TokensStep /\ MailsStep /\ TypeOK'
    BY <1>4, <1>5 DEF TokensStep, MailsStep, IInv, TypeOK
  <1>8. ClaimsStep
    BY <1>3, <1>4, <1>5 DEF ClaimsStep, Claim
  <1> QED BY <1>5, <1>6, <1>7, <1>8, StepKeeps

LEMMA KindsAre == "EMAIL" \in Kinds /\ "PASSWORD_CHANGE" \in Kinds
  BY DEF Kinds

LEMMA TokenWrite ==
  ASSUME IInv, NEW i \in Ids, NEW l \in Kinds, NEW t \in TokenRow,
         WritesToken(i, l, t)
  PROVE  /\ token' \in [Ids -> [Kinds -> TokenRow \cup {None}]]
         /\ TokenBecomes(i, l, t)
         /\ TokenOK(i)' => TokensStep
         /\ l = "PASSWORD_CHANGE" => TokensStep
  <1>1. token' = [token EXCEPT ![i] = [token[i] EXCEPT ![l] = t]]
    BY DEF WritesToken
  <1>2. token \in [Ids -> [Kinds -> TokenRow \cup {None}]]
    BY DEF IInv, TypeOK
  <1>3. token' \in [Ids -> [Kinds -> TokenRow \cup {None}]]
    BY <1>1, <1>2
  <1>4. TokenBecomes(i, l, t)
    BY <1>1, <1>2 DEF TokenBecomes
  <1>5. \A j \in Ids : j # i => token'[j]["EMAIL"] = token[j]["EMAIL"]
    BY <1>4 DEF TokenBecomes, Kinds
  <1>6. TokenOK(i)' => TokensStep
    BY <1>5 DEF TokensStep
  <1>7. l = "PASSWORD_CHANGE" => TokensStep
    BY <1>4 DEF TokenBecomes, TokensStep, Kinds
  <1> QED BY <1>3, <1>4, <1>6, <1>7

(* A row that proves what it says replaces one with its address.           *)
LEMMA UserWrite ==
  ASSUME IInv, NEW i \in Ids, NEW row \in UserRow,
         users[i] # None, row.email = users[i].email, RowProved(i, row),
         users' = [users EXCEPT ![i] = row], mailed' = mailed
  PROVE  /\ users' \in [Ids -> UserRow \cup {None}]
         /\ \A j \in Ids : users[j] = None => users'[j] = None
         /\ Grows /\ UsersStep /\ MailsStep
  <1>1. \A j \in Ids : users'[j] = IF j = i THEN row ELSE users[j]
    BY DEF IInv, TypeOK
  <1>2. Grows
    BY <1>1, NoneIsNoRow DEF Grows
  <1>3. RowProved(i, row)'
    BY <1>2, ProofStays
  <1>4. UserOK(i)'
    <2>1. users'[i] = row
      BY <1>1
    <2> QED BY <1>3, <2>1 DEF UserOK
  <1>5. UsersStep
    BY <1>1, <1>4 DEF UsersStep
  <1>6. MailsStep
    BY DEF MailsStep
  <1>7. users' \in [Ids -> UserRow \cup {None}]
    BY DEF IInv, TypeOK
  <1> QED BY <1>1, <1>2, <1>5, <1>6, <1>7

(* A mail goes out.                                                        *)
LEMMA MailGoes ==
  ASSUME IInv, NEW i \in Ids, NEW k \in Kinds, NEW v \in Values,
         users[i] # None, UNCHANGED users, mailed' = mailed \cup {Sent(i, k, v)}
  PROVE  /\ mailed' \subseteq Mail
         /\ Grows /\ UsersStep /\ MailsStep
         /\ Was(i, k, v)'
         /\ \A m \in mailed' : m \in mailed \/
              (m.user = i /\ m.kind = k /\ m.value = v)
  <1>1. users[i].email \in Emails
    BY DEF IInv, TypeOK, UserRow
  <1>2. PICK n : n = Sent(i, k, v)
    OBVIOUS
  <1>3. n \in Mail /\ n.user = i /\ n.kind = k /\ n.value = v /\ MailOK(n)
    BY <1>1, <1>2 DEF Sent, Mail, MailOK
  <1>4. mailed' = mailed \cup {n}
    BY <1>2
  <1>5. Was(i, k, v)'
    BY <1>2, <1>4 DEF Was, Sent
  <1>6. MailsStep
    BY <1>3, <1>4 DEF MailsStep, MailOK
  <1>7. Grows /\ UsersStep
    BY <1>4 DEF Grows, UsersStep
  <1>8. mailed' \subseteq Mail
    BY <1>3, <1>4 DEF IInv, TypeOK
  <1> QED BY <1>3, <1>4, <1>5, <1>6, <1>7, <1>8

LEMMA SendMailKeeps ==
  ASSUME IInv, NEW w \in Workers, SendMail(w)
  PROVE  IInv'
  <1>1. PICK i : i = req[w].user
    OBVIOUS
  <1>2. PICK v : v = req[w].value
    OBVIOUS
  <1>3. PICK r : r = [req[w] EXCEPT !.pc = "reissueEnd"]
    OBVIOUS
  <1>4. req[w] \in Request /\ RequestOK(req[w]) /\ req[w].pc = "mail"
    BY DEF IInv, TypeOK, SendMail
  <1>5. i \in Ids /\ users[i] # None /\ v \in Values
    BY <1>1, <1>2, <1>4 DEF RequestOK, EmailPcs
  <1>6. r \in Request /\ r.pc = "reissueEnd" /\ r.user = i /\ r.value = v
    BY <1>1, <1>2, <1>3, <1>4 DEF Request
  <1>7. /\ mailed' = mailed \cup {Sent(i, "EMAIL", v)}
        /\ req' = [req EXCEPT ![w] = r]
        /\ UNCHANGED <<users, token, issued, event>>
    BY <1>1, <1>2, <1>3 DEF SendMail
  <1>8. /\ mailed' \subseteq Mail
        /\ Grows /\ UsersStep /\ MailsStep
        /\ Was(i, "EMAIL", v)'
        /\ \A m \in mailed' : m \in mailed \/
             (m.user = i /\ m.kind = "EMAIL" /\ m.value = v)
    BY <1>5, <1>7, MailGoes DEF Kinds
  <1>9. RequestOK(r)'
    BY <1>5, <1>6, <1>7, <1>8 DEF RequestOK, EmailPcs, LinkPcs, CopyPcs
  <1>10. RequestsStep
    BY <1>6, <1>7, <1>9, RequestBecomes DEF IInv, RequestOK
  <1>11. \A x \in Workers : req'[x] = IF x = w THEN r ELSE req[x]
    BY <1>7 DEF IInv, TypeOK
  <1>12. TypeOK'
    BY <1>6, <1>7, <1>8 DEF IInv, TypeOK
  <1>13. Apart' /\ EventsStep /\ TokensStep
    BY <1>6, <1>7, <1>11 DEF IInv, Apart, EventsStep, TokensStep
  <1>14. ClaimsStep
    <2>1. RequestsClaimNoMore
      BY <1>1, <1>2, <1>4, <1>6, <1>11
         DEF RequestsClaimNoMore, RequestClaims, EmailPcs, LinkPcs
    <2>2. RequestClaims(req[w], v, i, "EMAIL")
      BY <1>1, <1>2, <1>4 DEF RequestClaims, EmailPcs
    <2> QED BY <1>7, <1>8, <2>1, <2>2 DEF ClaimsStep, Claim, RequestsClaimNoMore
  <1> QED BY <1>8, <1>10, <1>12, <1>13, <1>14, StepKeeps

LEMMA LinkMailKeeps ==
  ASSUME IInv, NEW w \in Workers, LinkMail(w)
  PROVE  IInv'
  <1>1. PICK i : i = req[w].user
    OBVIOUS
  <1>2. PICK v : v = req[w].value
    OBVIOUS
  <1>3. RequestOK(req[w]) /\ req[w].pc = "mailLink"
    BY DEF IInv, LinkMail, Finish
  <1>4. i \in Ids /\ users[i] # None /\ v \in Values
    BY <1>1, <1>2, <1>3 DEF RequestOK, LinkPcs
  <1>5. /\ mailed' = mailed \cup {Sent(i, "PASSWORD_CHANGE", v)}
        /\ req' = [req EXCEPT ![w] = Idle]
        /\ UNCHANGED <<users, token, issued, event>>
    BY <1>1, <1>2 DEF LinkMail, Finish
  <1>6. /\ mailed' \subseteq Mail
        /\ Grows /\ UsersStep /\ MailsStep
        /\ \A m \in mailed' : m \in mailed \/
             (m.user = i /\ m.kind = "PASSWORD_CHANGE" /\ m.value = v)
    BY <1>4, <1>5, MailGoes DEF Kinds
  <1>7. \A x \in Workers : x # w /\ req[x].pc = "signUpEnd" =>
          users'[req[x].user] = None
    BY <1>5 DEF IInv, RequestOK
  <1>8. /\ req' \in [Workers -> Request] /\ RequestsStep /\ Apart'
        /\ RequestsClaimNoMore
    BY <1>5, <1>7, RequestEnds
  <1>9. TypeOK' /\ EventsStep /\ TokensStep
    BY <1>5, <1>6, <1>8 DEF IInv, TypeOK, EventsStep, TokensStep
  <1>10. ClaimsStep
    <2>1. RequestClaims(req[w], v, i, "PASSWORD_CHANGE")
      BY <1>1, <1>2, <1>3 DEF RequestClaims, LinkPcs
    <2> QED BY <1>5, <1>6, <1>8, <2>1 DEF ClaimsStep, Claim, RequestsClaimNoMore
  <1> QED BY <1>6, <1>8, <1>9, <1>10, StepKeeps

(* A token the request of w carries is written, and the request goes on.   *)
LEMMA TokenClaims ==
  ASSUME IInv, NEW w \in Workers, NEW i \in Ids, NEW l \in Kinds, NEW t,
         RequestClaims(req[w], t.value, i, l),
         TokenBecomes(i, l, t),
         RequestsClaimNoMore,
         UNCHANGED <<mailed, issued, event>>
  PROVE  ClaimsStep
  <1>1. ASSUME NEW v \in Values, NEW j \in Ids, NEW k \in Kinds, Claim(v, j, k)'
        PROVE  Claim(v, j, k)
    <2>1. CASE token'[j][k] # None /\ token'[j][k].value = v
      BY <2>1 DEF Claim, TokenBecomes
    <2>2. CASE \E m \in mailed' : m.user = j /\ m.kind = k /\ m.value = v
      BY <2>2 DEF Claim
    <2>3. CASE k = "EMAIL" /\ event'[j].pc \in {"mail", "commit"} /\ event'[j].value = v
      BY <2>3 DEF Claim
    <2>4. CASE \E x \in Workers : RequestClaims(req'[x], v, j, k)
      BY <2>4 DEF Claim, RequestsClaimNoMore
    <2>5. Claim(v, j, k)' =>
            \/ token'[j][k] # None /\ token'[j][k].value = v
            \/ \E m \in mailed' : m.user = j /\ m.kind = k /\ m.value = v
            \/ k = "EMAIL" /\ event'[j].pc \in {"mail", "commit"} /\ event'[j].value = v
            \/ \E x \in Workers : RequestClaims(req'[x], v, j, k)
      BY DEF Claim, RequestClaims
    <2> QED BY <1>1, <2>1, <2>2, <2>3, <2>4, <2>5
  <1> QED BY <1>1 DEF ClaimsStep

LEMMA SendCommitKeeps ==
  ASSUME IInv, NEW w \in Workers, SendCommit(w)
  PROVE  IInv'
  <1>1. PICK i : i = req[w].user
    OBVIOUS
  <1>2. PICK t : t = Fresh(req[w].value)
    OBVIOUS
  <1>3. RequestOK(req[w]) /\ req[w].pc = "reissueEnd"
    BY DEF IInv, SendCommit, Finish
  <1>4. i \in Ids /\ req[w].value \in Values /\ Was(i, "EMAIL", req[w].value)
    BY <1>1, <1>3 DEF RequestOK, EmailPcs
  <1>5. t \in TokenRow /\ t.value = req[w].value
    BY <1>2, <1>4 DEF Fresh, TokenRow
  <1>6. /\ WritesToken(i, "EMAIL", t)
        /\ req' = [req EXCEPT ![w] = Idle]
        /\ UNCHANGED <<users, mailed, issued, event>>
    BY <1>1, <1>2 DEF SendCommit, Finish, WritesToken
  <1>7. /\ token' \in [Ids -> [Kinds -> TokenRow \cup {None}]]
        /\ TokenBecomes(i, "EMAIL", t)
        /\ TokenOK(i)' => TokensStep
    BY <1>4, <1>5, <1>6, TokenWrite, KindsAre
  <1>8. TokenOK(i)'
    BY <1>4, <1>5, <1>6, <1>7, KindsAre DEF TokenBecomes, TokenOK, Was, Sent
  <1>9. \A x \in Workers : x # w /\ req[x].pc = "signUpEnd" =>
          users'[req[x].user] = None
    BY <1>6 DEF IInv, RequestOK
  <1>10. /\ req' \in [Workers -> Request] /\ RequestsStep /\ Apart'
         /\ RequestsClaimNoMore
    BY <1>6, <1>9, RequestEnds
  <1>11. TypeOK' /\ Grows /\ EventsStep /\ UsersStep /\ MailsStep
    BY <1>6, <1>7, <1>10 DEF IInv, TypeOK, Grows, EventsStep, UsersStep, MailsStep
  <1>12. RequestClaims(req[w], t.value, i, "EMAIL")
    BY <1>1, <1>3, <1>5 DEF RequestClaims, EmailPcs
  <1>13. ClaimsStep
    BY <1>4, <1>6, <1>7, <1>10, <1>12, TokenClaims, KindsAre
  <1> QED BY <1>7, <1>8, <1>10, <1>11, <1>13, StepKeeps

(* INSERT or UPDATE of the password token; the mail comes next.            *)
LEMMA LinkWrites ==
  ASSUME IInv, NEW w \in Workers, req[w].pc \in {"create", "renew"},
         token' = [token EXCEPT ![req[w].user]["PASSWORD_CHANGE"] =
                     Fresh(req[w].value)],
         req' = [req EXCEPT ![w].pc = "mailLink"],
         UNCHANGED <<users, mailed, issued, event>>
  PROVE  IInv'
  <1>1. PICK i : i = req[w].user
    OBVIOUS
  <1>2. PICK t : t = Fresh(req[w].value)
    OBVIOUS
  <1>3. PICK r : r = [req[w] EXCEPT !.pc = "mailLink"]
    OBVIOUS
  <1>4. req[w] \in Request /\ RequestOK(req[w])
    BY DEF IInv, TypeOK
  <1>5. i \in Ids /\ req[w].value \in Values /\ users[i] # None
    BY <1>1, <1>4 DEF RequestOK, LinkPcs
  <1>6. t \in TokenRow /\ t.value = req[w].value
    BY <1>2, <1>5 DEF Fresh, TokenRow
  <1>7. r \in Request /\ r.pc = "mailLink" /\ r.user = i /\ r.value = req[w].value
    BY <1>1, <1>3, <1>4 DEF Request
  <1>8. /\ WritesToken(i, "PASSWORD_CHANGE", t)
        /\ req' = [req EXCEPT ![w] = r]
    BY <1>1, <1>2, <1>3 DEF WritesToken
  <1>9. /\ token' \in [Ids -> [Kinds -> TokenRow \cup {None}]]
        /\ TokenBecomes(i, "PASSWORD_CHANGE", t)
        /\ TokensStep
    BY <1>5, <1>6, <1>8, TokenWrite, KindsAre
  <1>10. RequestOK(r)'
    BY <1>5, <1>7 DEF RequestOK, EmailPcs, LinkPcs, CopyPcs
  <1>11. RequestsStep
    <2>1. \A x \in Workers : x # w /\ req[x].pc = "signUpEnd" =>
            users'[req[x].user] = None /\ event'[req[x].user] # NoEvent
      BY DEF IInv, RequestOK
    <2> QED BY <1>7, <1>8, <1>10, <2>1, RequestBecomes DEF IInv
  <1>12. \A x \in Workers : req'[x] = IF x = w THEN r ELSE req[x]
    BY <1>8 DEF IInv, TypeOK
  <1>13. TypeOK'
    <2>1. req' \in [Workers -> Request]
      BY <1>7, <1>8 DEF IInv, TypeOK
    <2> QED BY <1>9, <2>1 DEF IInv, TypeOK
  <1>14. Apart' /\ Grows /\ EventsStep /\ UsersStep /\ MailsStep
    BY <1>7, <1>12 DEF IInv, Apart, Grows, EventsStep, UsersStep, MailsStep
  <1>15. RequestsClaimNoMore
    BY <1>1, <1>7, <1>12
       DEF RequestsClaimNoMore, RequestClaims, EmailPcs, LinkPcs
  <1>16. RequestClaims(req[w], t.value, i, "PASSWORD_CHANGE")
    BY <1>1, <1>6 DEF RequestClaims, LinkPcs
  <1>17. ClaimsStep
    BY <1>5, <1>9, <1>15, <1>16, TokenClaims, KindsAre
  <1> QED BY <1>9, <1>11, <1>13, <1>14, <1>17, StepKeeps

LEMMA LinkInsertKeeps ==
  ASSUME IInv, NEW w \in Workers, LinkInsert(w)
  PROVE  IInv'
  <1>1. CASE /\ req' = [req EXCEPT ![w] = Idle]
             /\ UNCHANGED <<users, token, mailed, issued, event>>
    BY <1>1, IdleIsOK, RequestMoves
  <1>2. CASE /\ req[w].pc = "create"
             /\ token' = [token EXCEPT ![req[w].user]["PASSWORD_CHANGE"] =
                            Fresh(req[w].value)]
             /\ req' = [req EXCEPT ![w].pc = "mailLink"]
             /\ UNCHANGED <<users, mailed, issued, event>>
    BY <1>2, LinkWrites
  <1> QED BY <1>1, <1>2 DEF LinkInsert

LEMMA LinkUpdateKeeps ==
  ASSUME IInv, NEW w \in Workers, LinkUpdate(w)
  PROVE  IInv'
  BY LinkWrites DEF LinkUpdate

(* A row written back as it was read, but for what the request proved.     *)
LEMMA CopyWrites ==
  ASSUME IInv, NEW w \in Workers, NEW row \in UserRow,
         req[w].pc \in CopyPcs \cup {"delete"},
         row.email = users[req[w].user].email, RowProved(req[w].user, row),
         users' = [users EXCEPT ![req[w].user] = row],
         req' = [req EXCEPT ![w] = Idle], UNCHANGED <<mailed, issued, event>>
  PROVE  /\ users' \in [Ids -> UserRow \cup {None}]
         /\ req' \in [Workers -> Request]
         /\ Grows /\ RequestsStep /\ EventsStep /\ UsersStep /\ MailsStep
         /\ Apart'
         /\ RequestsClaimNoMore
  <1>1. PICK i : i = req[w].user
    OBVIOUS
  <1>2. i \in Ids /\ users[i] # None
    BY <1>1 DEF IInv, RequestOK, CopyPcs, EmailPcs, LinkPcs
  <1>3. /\ users' \in [Ids -> UserRow \cup {None}]
        /\ \A j \in Ids : users[j] = None => users'[j] = None
        /\ Grows /\ UsersStep /\ MailsStep
    BY <1>1, <1>2, UserWrite
  <1>4. \A x \in Workers : x # w /\ req[x].pc = "signUpEnd" =>
          users'[req[x].user] = None
    BY <1>3 DEF IInv, RequestOK
  <1>5. /\ req' \in [Workers -> Request] /\ RequestsStep /\ Apart'
        /\ RequestsClaimNoMore
    BY <1>4, RequestEnds
  <1>6. EventsStep
    BY <1>3 DEF EventsStep
  <1> QED BY <1>3, <1>5, <1>6

LEMMA VerifyCommitKeeps ==
  ASSUME IInv, NEW w \in Workers, VerifyCommit(w)
  PROVE  IInv'
  <1>1. PICK i : i = req[w].user
    OBVIOUS
  <1>2. PICK t : t = Used(req[w].value)
    OBVIOUS
  <1>3. PICK row : row = [req[w].row EXCEPT !.verified = req[w].value]
    OBVIOUS
  <1>4. RequestOK(req[w]) /\ req[w].pc = "verify"
    BY DEF IInv, VerifyCommit, Finish
  <1>5. /\ i \in Ids /\ req[w].value \in Values /\ Was(i, "EMAIL", req[w].value)
        /\ req[w].row \in UserRow /\ req[w].row.email = users[i].email
        /\ RowProved(i, req[w].row)
    BY <1>1, <1>4 DEF RequestOK, EmailPcs, CopyPcs
  <1>6. t \in TokenRow /\ t.value = req[w].value
    BY <1>2, <1>5 DEF Used, TokenRow
  <1>7. row \in UserRow /\ row.email = users[i].email /\ RowProved(i, row)
    BY <1>3, <1>5 DEF UserRow, RowProved
  <1>8. /\ WritesToken(i, "EMAIL", t)
        /\ users' = [users EXCEPT ![i] = row]
        /\ req' = [req EXCEPT ![w] = Idle]
        /\ UNCHANGED <<mailed, issued, event>>
    BY <1>1, <1>2, <1>3 DEF VerifyCommit, Finish, WritesToken
  <1>9. /\ users' \in [Ids -> UserRow \cup {None}]
        /\ req' \in [Workers -> Request]
        /\ Grows /\ RequestsStep /\ EventsStep /\ UsersStep /\ MailsStep
        /\ Apart'
        /\ RequestsClaimNoMore
    BY <1>1, <1>4, <1>7, <1>8, CopyWrites DEF CopyPcs
  <1>10. /\ token' \in [Ids -> [Kinds -> TokenRow \cup {None}]]
         /\ TokenBecomes(i, "EMAIL", t)
         /\ TokenOK(i)' => TokensStep
    BY <1>5, <1>6, <1>8, TokenWrite, KindsAre
  <1>11. Was(i, "EMAIL", t.value)'
    BY <1>5, <1>6, <1>9, MailStays
  <1>12. TokenOK(i)'
    BY <1>5, <1>10, <1>11, KindsAre DEF TokenBecomes, TokenOK
  <1>13. TypeOK'
    BY <1>8, <1>9, <1>10 DEF IInv, TypeOK
  <1>14. RequestClaims(req[w], t.value, i, "EMAIL")
    BY <1>1, <1>4, <1>6 DEF RequestClaims, EmailPcs
  <1>15. ClaimsStep
    BY <1>5, <1>8, <1>9, <1>10, <1>14, TokenClaims, KindsAre
  <1> QED BY <1>9, <1>10, <1>12, <1>13, <1>15, StepKeeps

LEMMA ChangeCommitKeeps ==
  ASSUME IInv, NEW w \in Workers, ChangeCommit(w)
  PROVE  IInv'
  <1>1. PICK i : i = req[w].user
    OBVIOUS
  <1>2. PICK t : t = Used(req[w].value)
    OBVIOUS
  <1>3. PICK row : row = [req[w].row EXCEPT !.password = req[w].value]
    OBVIOUS
  <1>4. RequestOK(req[w]) /\ req[w].pc = "change"
    BY DEF IInv, ChangeCommit, Finish
  <1>5. /\ i \in Ids /\ req[w].value \in Values
        /\ Was(i, "PASSWORD_CHANGE", req[w].value)
        /\ req[w].row \in UserRow /\ req[w].row.email = users[i].email
        /\ RowProved(i, req[w].row)
    BY <1>1, <1>4 DEF RequestOK, LinkPcs, CopyPcs
  <1>6. t \in TokenRow /\ t.value = req[w].value
    BY <1>2, <1>5 DEF Used, TokenRow
  <1>7. row \in UserRow /\ row.email = users[i].email /\ RowProved(i, row)
    BY <1>3, <1>5 DEF UserRow, RowProved
  <1>8. /\ WritesToken(i, "PASSWORD_CHANGE", t)
        /\ users' = [users EXCEPT ![i] = row]
        /\ req' = [req EXCEPT ![w] = Idle]
        /\ UNCHANGED <<mailed, issued, event>>
    BY <1>1, <1>2, <1>3 DEF ChangeCommit, Finish, WritesToken
  <1>9. /\ users' \in [Ids -> UserRow \cup {None}]
        /\ req' \in [Workers -> Request]
        /\ Grows /\ RequestsStep /\ EventsStep /\ UsersStep /\ MailsStep
        /\ Apart'
        /\ RequestsClaimNoMore
    BY <1>1, <1>4, <1>7, <1>8, CopyWrites DEF CopyPcs
  <1>10. /\ token' \in [Ids -> [Kinds -> TokenRow \cup {None}]]
         /\ TokenBecomes(i, "PASSWORD_CHANGE", t)
         /\ TokensStep
    BY <1>5, <1>6, <1>8, TokenWrite, KindsAre
  <1>11. TypeOK'
    BY <1>8, <1>9, <1>10 DEF IInv, TypeOK
  <1>12. RequestClaims(req[w], t.value, i, "PASSWORD_CHANGE")
    BY <1>1, <1>4, <1>6 DEF RequestClaims, LinkPcs
  <1>13. ClaimsStep
    BY <1>5, <1>8, <1>9, <1>10, <1>12, TokenClaims, KindsAre
  <1> QED BY <1>9, <1>10, <1>11, <1>13, StepKeeps

(* Writing only a row of users makes no value known.                       *)
LEMMA RowClaims ==
  ASSUME UNCHANGED <<token, mailed, issued, event>>,
         RequestsClaimNoMore
  PROVE  ClaimsStep /\ TokensStep
  BY DEF ClaimsStep, TokensStep, Claim, RequestsClaimNoMore

LEMMA PatchCommitKeeps ==
  ASSUME IInv, NEW w \in Workers, PatchCommit(w)
  PROVE  IInv'
  <1>1. RequestOK(req[w]) /\ req[w].pc = "patch"
    BY DEF IInv, PatchCommit, Finish
  <1>2. /\ req[w].row \in UserRow /\ req[w].row.email = users[req[w].user].email
        /\ RowProved(req[w].user, req[w].row)
    BY <1>1 DEF RequestOK, CopyPcs
  <1>3. /\ users' \in [Ids -> UserRow \cup {None}]
        /\ req' \in [Workers -> Request]
        /\ Grows /\ RequestsStep /\ EventsStep /\ UsersStep /\ MailsStep
        /\ Apart'
        /\ RequestsClaimNoMore
    BY <1>1, <1>2, CopyWrites DEF CopyPcs, PatchCommit, Finish
  <1>4. TypeOK' /\ ClaimsStep /\ TokensStep
    BY <1>3, RowClaims DEF PatchCommit, IInv, TypeOK
  <1> QED BY <1>3, <1>4, StepKeeps

LEMMA DeleteCommitKeeps ==
  ASSUME IInv, NEW w \in Workers, DeleteCommit(w)
  PROVE  IInv'
  <1>1. PICK i : i = req[w].user
    OBVIOUS
  <1>2. PICK row : row = [users[i] EXCEPT !.deleted = TRUE]
    OBVIOUS
  <1>3. RequestOK(req[w]) /\ req[w].pc = "delete"
    BY DEF IInv, DeleteCommit, Finish
  <1>4. /\ i \in Ids /\ users[i] # None /\ users[i] \in UserRow
        /\ RowProved(i, users[i])
    BY <1>1, <1>3 DEF RequestOK, IInv, TypeOK, UserOK
  <1>5. row \in UserRow /\ row.email = users[i].email /\ RowProved(i, row)
    BY <1>2, <1>4 DEF UserRow, RowProved
  <1>6. users' = [users EXCEPT ![i] = row]
    BY <1>1, <1>2 DEF DeleteCommit
  <1>7. /\ users' \in [Ids -> UserRow \cup {None}]
        /\ req' \in [Workers -> Request]
        /\ Grows /\ RequestsStep /\ EventsStep /\ UsersStep /\ MailsStep
        /\ Apart'
        /\ RequestsClaimNoMore
    BY <1>1, <1>3, <1>5, <1>6, CopyWrites DEF DeleteCommit, Finish
  <1>8. TypeOK' /\ ClaimsStep /\ TokensStep
    BY <1>7, RowClaims DEF DeleteCommit, IInv, TypeOK
  <1> QED BY <1>7, <1>8, StepKeeps

LEMMA GrowOldKeeps ==
  ASSUME IInv, NEW i \in Ids, NEW k \in Kinds, GrowOld(i, k)
  PROVE  IInv'
  <1>1. PICK t : t = [token[i][k] EXCEPT !.old = TRUE]
    OBVIOUS
  <1>2. token[i][k] # None /\ token[i][k] \in TokenRow
    BY DEF GrowOld, IInv, TypeOK
  <1>3. t \in TokenRow /\ t.value = token[i][k].value
    BY <1>1, <1>2 DEF TokenRow
  <1>4. /\ WritesToken(i, k, t)
        /\ UNCHANGED <<users, mailed, issued, event, req>>
    BY <1>1 DEF GrowOld, WritesToken
  <1>5. /\ token' \in [Ids -> [Kinds -> TokenRow \cup {None}]]
        /\ TokenBecomes(i, k, t)
        /\ TokenOK(i)' => TokensStep
        /\ k = "PASSWORD_CHANGE" => TokensStep
    BY <1>3, <1>4, TokenWrite
  <1>6. k = "EMAIL" => TokenOK(i)'
    BY <1>2, <1>3, <1>4, <1>5 DEF IInv, TokenBecomes, TokenOK, Was, Sent
  <1>7. RequestsStep /\ Apart'
    BY <1>4, RequestsStand
  <1>8. TypeOK' /\ Grows /\ EventsStep /\ UsersStep /\ MailsStep
    BY <1>4, <1>5 DEF IInv, TypeOK, Grows, EventsStep, UsersStep, MailsStep
  <1>9. ClaimsStep
    BY <1>2, <1>3, <1>4, <1>5 DEF ClaimsStep, Claim, TokenBecomes
  <1> QED BY <1>5, <1>6, <1>7, <1>8, <1>9, StepKeeps DEF Kinds
-----------------------------------------------------------------------------
LEMMA InitAccount == Init => IInv
  <1> SUFFICES ASSUME Init PROVE IInv
    OBVIOUS
  <1>1. NoEvent \in Event /\ NoEvent.pc = "none"
    BY DEF NoEvent, Event
  <1>2. 0 \in 0 .. MaxTokens
    BY MaxTokensAssumption
  <1>3. TypeOK
    BY <1>1, <1>2, IdleIsOK DEF Init, TypeOK
  <1>4. \A i \in Ids : EventOK(i) /\ UserOK(i) /\ TokenOK(i)
    BY <1>1 DEF Init, EventOK, UserOK, TokenOK, Kinds
  <1>5. \A v \in Values, i \in Ids, k \in Kinds : ~Claim(v, i, k)
    BY <1>1, IdleIsOK DEF Init, Claim
  <1>6. Claims
    BY <1>5 DEF Claims
  <1>7. \A w \in Workers : RequestOK(req[w])
    BY IdleIsOK DEF Init
  <1>8. Apart /\ mailed = {}
    BY IdleIsOK DEF Init, Apart
  <1> QED BY <1>3, <1>4, <1>6, <1>7, <1>8 DEF IInv

LEMMA NextAccount == IInv /\ [Next]_vars => IInv'
  <1> SUFFICES ASSUME IInv, [Next]_vars PROVE IInv'
    OBVIOUS
  <1>1. CASE UNCHANGED vars
    BY <1>1 DEF vars, IInv, TypeOK, RequestOK, EventOK, UserOK, TokenOK, MailOK,
                RowProved, Was, Sent, Apart, Claims, Claim, RequestClaims
  <1>2. ASSUME NEW w \in Workers, NewRequest(w) PROVE IInv'
    BY <1>2, SignUpReadKeeps, LinkReadKeeps, SendReadKeeps, PatchReadKeeps,
       DeleteReadKeeps, VerifyReadKeeps, ChangeReadKeeps DEF NewRequest
  <1>3. ASSUME NEW w \in Workers, Step(w) PROVE IInv'
    BY <1>3, SignUpInsertKeeps, SignUpCommitKeeps, SendUpdateKeeps,
       SendMailKeeps, SendCommitKeeps, LinkInsertKeeps, LinkUpdateKeeps,
       LinkMailKeeps, VerifyCommitKeeps, ChangeCommitKeeps, PatchCommitKeeps,
       DeleteCommitKeeps DEF Step
  <1>4. ASSUME NEW i \in Ids, EventStep(i) PROVE IInv'
    BY <1>4, EventInsertKeeps, EventMailKeeps, EventCommitKeeps, EventAbortKeeps
       DEF EventStep
  <1> QED BY <1>1, <1>2, <1>3, <1>4, AbortKeeps, GrowOldKeeps DEF Next

LEMMA AccountInvariant == Spec => []IInv
  BY InitAccount, NextAccount, PTL DEF Spec

(* The tables, the mails, the requests and the handlers keep their types,  *)
(* however many requests run at once.                                      *)
THEOREM AccountTypeCorrect == Spec => []TypeOK
  <1>1. IInv => TypeOK
    BY DEF IInv
  <1> QED BY <1>1, AccountInvariant, PTL

(* An email is verified, and a password changed, with a token that was     *)
(* mailed to the owner's address for that purpose.                         *)
THEOREM OwnerProved == Spec => []OwnerProvedAddress
  <1>1. IInv => OwnerProvedAddress
    BY DEF IInv, UserOK, RowProved, Was, OwnerProvedAddress
  <1> QED BY <1>1, AccountInvariant, PTL

(* No email token is in the table that was not mailed.                     *)
THEOREM TokensWereMailed == Spec => []EmailTokenWasMailed
  <1>1. IInv => EmailTokenWasMailed
    BY DEF IInv, TokenOK, Was, EmailTokenWasMailed
  <1> QED BY <1>1, AccountInvariant, PTL
-----------------------------------------------------------------------------
(* When requests do not overlap, what a request has read still holds when  *)
(* it writes; the detached handlers write nothing a request has read.      *)
OneAtATime == \A v, w \in Workers : v = w

Free(e) == \A i \in Ids : findOneById(i) => users[i].email # e

EmailToken(i) == token[i]["EMAIL"]

LinkToken(i) == token[i]["PASSWORD_CHANGE"]

ReadsHold(r) ==
  /\ r.pc \in {"signUp", "signUpEnd"} => Free(r.email)
  /\ r.pc \in {"reissue", "mail", "reissueEnd"} =>
       event[r.user].pc = "over" /\ EmailToken(r.user).old
  /\ r.pc = "renew" => LinkToken(r.user).old
  /\ r.pc = "verify" =>
       event[r.user].pc = "over" /\ EmailToken(r.user).value = r.value
  /\ r.pc = "change" =>
       LinkToken(r.user).value = r.value /\ ~LinkToken(r.user).used
  /\ r.pc \in CopyPcs \cup {"delete"} => findOneById(r.user)

(* Only the handler of UserCreated makes the first email token of a user.  *)
FirstTokens == \A i \in Ids : EmailToken(i) # None => event[i].pc = "over"

OneLive ==
  \A i, j \in Ids :
    findOneById(i) /\ findOneById(j) /\ users[i].email = users[j].email => i = j

SerialInv ==
  /\ \A w \in Workers : ReadsHold(req[w])
  /\ FirstTokens
  /\ OneLive

LEMMA OneLiveAccount == OneLive => OneAccountPerEmail
  <1> SUFFICES ASSUME OneLive, NEW e \in Emails
               PROVE  Cardinality(findOneByEmailAndLoginType(e)) <= 1
    BY DEF OneAccountPerEmail
  <1>1. CASE findOneByEmailAndLoginType(e) = {}
    BY <1>1, FS_EmptySet
  <1>2. CASE findOneByEmailAndLoginType(e) # {}
    <2>1. PICK i : i \in findOneByEmailAndLoginType(e)
      BY <1>2
    <2>2. findOneByEmailAndLoginType(e) = {i}
      BY <2>1 DEF OneLive, findOneByEmailAndLoginType
    <2> QED BY <2>2, FS_Singleton
  <1> QED BY <1>1, <1>2

(* The steps of the one request.                                           *)
LEMMA RequestAlone ==
  ASSUME OneAtATime, NEW w \in Workers, ReadsHold(req[w])',
         FirstTokens', OneLive'
  PROVE  SerialInv'
  <1>1. \A x \in Workers : x = w
    BY DEF OneAtATime
  <1> QED BY <1>1 DEF SerialInv

LEMMA IdleHolds ==
  ASSUME TypeOK, NEW w \in Workers, req' = [req EXCEPT ![w] = Idle]
  PROVE  ReadsHold(req[w])'
  <1>1. req'[w] = Idle
    BY DEF TypeOK
  <1> QED BY <1>1 DEF ReadsHold, Idle, CopyPcs

(* One that writes nothing.                                                *)
LEMMA ReadAlone ==
  ASSUME OneAtATime, SerialInv, NEW w \in Workers, ReadsHold(req[w])',
         UNCHANGED <<users, token, event>>
  PROVE  SerialInv'
  <1>1. FirstTokens' /\ OneLive'
    BY DEF SerialInv, FirstTokens, OneLive, EmailToken, findOneById
  <1> QED BY <1>1, RequestAlone

LEMMA NewRequestAlone ==
  ASSUME OneAtATime, IInv, SerialInv, NEW w \in Workers, NewRequest(w)
  PROVE  SerialInv'
  <1>1. UNCHANGED <<users, token, event>>
    BY DEF NewRequest, SignUpRead, LinkRead, SendRead, PatchRead, DeleteRead,
           VerifyRead, ChangeRead, Start
  <1>2. ASSUME NEW r, Start(w, r) PROVE req'[w] = r
    BY <1>2 DEF Start, IInv, TypeOK
  <1>3. ASSUME NEW e \in Emails, SignUpRead(w, e) PROVE ReadsHold(req[w])'
    <2>1. req'[w] = [Idle EXCEPT !.pc = "signUp", !.email = e]
      BY <1>2, <1>3 DEF SignUpRead
    <2>2. Free(e)'
      BY <1>1, <1>3 DEF SignUpRead, Free, findOneById, findOneByEmailAndLoginType
    <2> QED BY <2>1, <2>2 DEF ReadsHold, Idle, CopyPcs
  <1>4. ASSUME NEW e \in Emails, LinkRead(w, e) PROVE ReadsHold(req[w])'
    <2>1. PICK i \in findOneByEmailAndLoginType(e) :
            \/ /\ token[i]["PASSWORD_CHANGE"] = None
               /\ Start(w, [Idle EXCEPT !.pc = "create", !.user = i,
                                        !.value = issued'])
            \/ /\ MayReissue(i, "PASSWORD_CHANGE")
               /\ Start(w, [Idle EXCEPT !.pc = "renew", !.user = i,
                                        !.value = issued'])
      BY <1>4 DEF LinkRead
    <2>2. CASE Start(w, [Idle EXCEPT !.pc = "create", !.user = i,
                                     !.value = issued'])
      <3>1. req'[w].pc = "create"
        BY <1>2, <2>2 DEF Idle
      <3> QED BY <3>1 DEF ReadsHold, CopyPcs
    <2>3. CASE /\ MayReissue(i, "PASSWORD_CHANGE")
               /\ Start(w, [Idle EXCEPT !.pc = "renew", !.user = i,
                                        !.value = issued'])
      <3>1. req'[w].pc = "renew" /\ req'[w].user = i
        BY <1>2, <2>3 DEF Idle
      <3> QED BY <1>1, <2>3, <3>1 DEF ReadsHold, CopyPcs, MayReissue, LinkToken
    <2> QED BY <2>1, <2>2, <2>3
  <1>5. ASSUME NEW i \in Ids, SendRead(w, i) PROVE ReadsHold(req[w])'
    <2>1. req'[w].pc = "reissue" /\ req'[w].user = i
      BY <1>2, <1>5 DEF SendRead, Idle
    <2> QED BY <1>1, <1>5, <2>1
            DEF SendRead, ReadsHold, CopyPcs, MayReissue, EmailToken, SerialInv,
                FirstTokens
  <1>6. ASSUME NEW i \in Ids, PatchRead(w, i) \/ DeleteRead(w, i)
        PROVE  ReadsHold(req[w])'
    <2>1. req'[w].pc \in {"patch", "delete"} /\ req'[w].user = i
      BY <1>2, <1>6 DEF PatchRead, DeleteRead, Idle
    <2>2. findOneById(i)'
      BY <1>1, <1>6 DEF PatchRead, DeleteRead, findOneById
    <2> QED BY <2>1, <2>2 DEF ReadsHold, CopyPcs
  <1>7. ASSUME NEW i \in Ids, NEW m \in mailed, VerifyRead(w, i, m)
        PROVE  ReadsHold(req[w])'
    <2>1. req'[w].pc = "verify" /\ req'[w].user = i /\ req'[w].value = m.value
      BY <1>2, <1>7 DEF VerifyRead, Idle
    <2>2. findOneById(i)'
      BY <1>1, <1>7 DEF VerifyRead, findOneById
    <2> QED BY <1>1, <1>7, <2>1, <2>2
            DEF VerifyRead, ReadsHold, CopyPcs, MayUse, EmailToken, SerialInv,
                FirstTokens
  <1>8. ASSUME NEW i \in Ids, NEW m \in mailed, ChangeRead(w, i, m)
        PROVE  ReadsHold(req[w])'
    <2>1. req'[w].pc = "change" /\ req'[w].user = i /\ req'[w].value = m.value
      BY <1>2, <1>8 DEF ChangeRead, Idle
    <2>2. findOneById(i)'
      BY <1>1, <1>8 DEF ChangeRead, findOneById
    <2> QED BY <1>1, <1>8, <2>1, <2>2
            DEF ChangeRead, ReadsHold, CopyPcs, MayUse, LinkToken
  <1>9. ReadsHold(req[w])'
    BY <1>3, <1>4, <1>5, <1>6, <1>7, <1>8 DEF NewRequest
  <1> QED BY <1>1, <1>9, ReadAlone

(* What no step of a request or a handler takes back.                      *)
LinksStay ==
  \A i \in Ids, k \in Kinds :
    token[i][k] # None /\ ~token[i][k].old =>
      token'[i][k].value = token[i][k].value

DeletedStay ==
  \A i \in Ids : users[i] # None /\ users[i].deleted => users'[i] = users[i]

(* The row of an account that is live is replaced.                         *)
LEMMA LiveRowWrite ==
  ASSUME IInv, SerialInv, NEW i \in Ids, NEW row \in UserRow, findOneById(i),
         row.email = users[i].email, users' = [users EXCEPT ![i] = row]
  PROVE  OneLive' /\ DeletedStay
  <1>1. \A j \in Ids : users'[j] = IF j = i THEN row ELSE users[j]
    BY DEF IInv, TypeOK
  <1>2. \A j \in Ids : findOneById(j)' =>
          findOneById(j) /\ users'[j].email = users[j].email
    BY <1>1 DEF findOneById
  <1>3. OneLive'
    BY <1>2 DEF SerialInv, OneLive
  <1>4. DeletedStay
    BY <1>1 DEF DeletedStay, findOneById
  <1> QED BY <1>3, <1>4

(* A token is replaced: an email token only by another one, a token that   *)
(* is not old by one with its value.                                       *)
LEMMA TokenReplaced ==
  ASSUME IInv, SerialInv, NEW i \in Ids, NEW k \in Kinds, NEW t \in TokenRow,
         WritesToken(i, k, t), event' = event,
         k = "EMAIL" => event[i].pc = "over",
         token[i][k] = None \/ token[i][k].old \/ token[i][k].value = t.value
  PROVE  FirstTokens' /\ LinksStay
  <1>1. TokenBecomes(i, k, t)
    BY TokenWrite
  <1>2. FirstTokens'
    BY <1>1, KindsAre DEF TokenBecomes, SerialInv, FirstTokens, EmailToken
  <1>3. LinksStay
    BY <1>1 DEF TokenBecomes, LinksStay
  <1> QED BY <1>2, <1>3

LEMMA UsersRest ==
  ASSUME SerialInv, users' = users
  PROVE  OneLive' /\ DeletedStay
  BY DEF SerialInv, OneLive, findOneById, DeletedStay

LEMMA TokensRest ==
  ASSUME SerialInv, token' = token
  PROVE  /\ LinksStay
         /\ event' = event => FirstTokens'
  BY DEF SerialInv, FirstTokens, EmailToken, LinksStay

LEMMA AbortAlone ==
  ASSUME OneAtATime, IInv, SerialInv, NEW w \in Workers, Abort(w)
  PROVE  SerialInv'
  BY IdleHolds, ReadAlone DEF Abort, IInv

LEMMA SignUpInsertAlone ==
  ASSUME OneAtATime, IInv, SerialInv, NEW w \in Workers, NEW i \in Ids,
         SignUpInsert(w, i)
  PROVE  SerialInv' /\ LinksStay /\ DeletedStay
  <1>1. /\ req'[w].pc = "signUpEnd" /\ req'[w].email = req[w].email
        /\ req[w].pc = "signUp" /\ users' = users /\ token' = token
    BY DEF SignUpInsert, IInv, TypeOK, Request
  <1>2. ReadsHold(req[w])'
    BY <1>1 DEF SerialInv, ReadsHold, Free, findOneById, CopyPcs
  <1>3. \A j \in Ids : event'[j] # event[j] => event[j].pc = "none"
    BY DEF SignUpInsert, IInv, TypeOK, NoEvent
  <1>4. FirstTokens'
    BY <1>1, <1>3 DEF SerialInv, FirstTokens, EmailToken
  <1> QED BY <1>1, <1>2, <1>4, UsersRest, TokensRest, RequestAlone

LEMMA SignUpCommitAlone ==
  ASSUME OneAtATime, IInv, SerialInv, NEW w \in Workers, SignUpCommit(w)
  PROVE  SerialInv' /\ LinksStay /\ DeletedStay
  <1>1. PICK i : i = req[w].user
    OBVIOUS
  <1>2. PICK row : row = [email |-> req[w].email, verified |-> None,
                          password |-> None, deleted |-> FALSE]
    OBVIOUS
  <1>3. i \in Ids /\ users[i] = None /\ req[w].pc = "signUpEnd"
    BY <1>1 DEF IInv, RequestOK, SignUpCommit, Finish
  <1>4. /\ \A j \in Ids : users'[j] = IF j = i THEN row ELSE users[j]
        /\ UNCHANGED <<token, event>> /\ req' = [req EXCEPT ![w] = Idle]
    BY <1>1, <1>2 DEF SignUpCommit, Finish, IInv, TypeOK
  <1>5. Free(req[w].email) /\ row.email = req[w].email
    BY <1>2, <1>3 DEF SerialInv, ReadsHold
  <1>6. \A j \in Ids : j # i /\ findOneById(j)' =>
          /\ findOneById(j) /\ users'[j] = users[j]
          /\ users[j].email # row.email
    BY <1>4, <1>5 DEF findOneById, Free
  <1>7. OneLive'
    <2> SUFFICES ASSUME NEW j \in Ids, NEW l \in Ids, findOneById(j)',
                        findOneById(l)', users'[j].email = users'[l].email
                 PROVE  j = l
      BY DEF OneLive
    <2>1. CASE j = i /\ l # i
      BY <1>3, <1>4, <1>6, <2>1
    <2>2. CASE j # i /\ l = i
      BY <1>3, <1>4, <1>6, <2>2
    <2>3. CASE j # i /\ l # i
      BY <1>6, <2>3 DEF SerialInv, OneLive
    <2> QED BY <2>1, <2>2, <2>3
  <1>8. DeletedStay
    BY <1>3, <1>4 DEF DeletedStay
  <1> QED BY <1>4, <1>7, <1>8, TokensRest, IdleHolds, RequestAlone DEF IInv

LEMMA SendAlone ==
  ASSUME OneAtATime, IInv, SerialInv, NEW w \in Workers,
         SendUpdate(w) \/ SendMail(w)
  PROVE  SerialInv' /\ LinksStay /\ DeletedStay
  <1>1. /\ req[w].pc \in {"reissue", "mail"}
        /\ req'[w].pc \in {"mail", "reissueEnd"}
        /\ req'[w].user = req[w].user
        /\ UNCHANGED <<users, token, event>>
    BY DEF SendUpdate, SendMail, IInv, TypeOK, Request
  <1>2. ReadsHold(req[w])'
    BY <1>1 DEF SerialInv, ReadsHold, EmailToken, CopyPcs
  <1> QED BY <1>1, <1>2, ReadAlone, TokensRest, UsersRest

LEMMA SendCommitAlone ==
  ASSUME OneAtATime, IInv, SerialInv, NEW w \in Workers, SendCommit(w)
  PROVE  SerialInv' /\ LinksStay /\ DeletedStay
  <1>1. PICK i : i = req[w].user
    OBVIOUS
  <1>2. PICK t : t = Fresh(req[w].value)
    OBVIOUS
  <1>3. /\ req[w].pc = "reissueEnd" /\ RequestOK(req[w])
        /\ req' = [req EXCEPT ![w] = Idle]
        /\ WritesToken(i, "EMAIL", t) /\ UNCHANGED <<users, event>>
    BY <1>1, <1>2 DEF SendCommit, Finish, WritesToken, IInv
  <1>4. i \in Ids /\ t \in TokenRow
    BY <1>1, <1>2, <1>3 DEF RequestOK, EmailPcs, Fresh, TokenRow
  <1>5. event[i].pc = "over" /\ token[i]["EMAIL"].old
    BY <1>1, <1>3 DEF SerialInv, ReadsHold, EmailToken
  <1>6. FirstTokens' /\ LinksStay
    BY <1>3, <1>4, <1>5, KindsAre, TokenReplaced
  <1> QED BY <1>3, <1>6, UsersRest, IdleHolds, RequestAlone DEF IInv

LEMMA LinkAlone ==
  ASSUME OneAtATime, IInv, SerialInv, NEW w \in Workers,
         LinkInsert(w) \/ LinkUpdate(w)
  PROVE  SerialInv' /\ LinksStay /\ DeletedStay
  <1>1. PICK i : i = req[w].user
    OBVIOUS
  <1>2. PICK t : t = Fresh(req[w].value)
    OBVIOUS
  <1>3. /\ req[w].pc \in {"create", "renew"} /\ RequestOK(req[w])
        /\ UNCHANGED <<users, event>>
    BY DEF LinkInsert, LinkUpdate, IInv
  <1>4. i \in Ids /\ t \in TokenRow
    BY <1>1, <1>2, <1>3 DEF RequestOK, LinkPcs, Fresh, TokenRow
  <1>5. \/ /\ WritesToken(i, "PASSWORD_CHANGE", t)
           /\ req' = [req EXCEPT ![w].pc = "mailLink"]
           /\ token[i]["PASSWORD_CHANGE"] = None \/ req[w].pc = "renew"
        \/ token' = token /\ req' = [req EXCEPT ![w] = Idle]
    BY <1>1, <1>2 DEF LinkInsert, LinkUpdate, WritesToken
  <1>6. CASE token' = token /\ req' = [req EXCEPT ![w] = Idle]
    BY <1>3, <1>6, UsersRest, TokensRest, IdleHolds, RequestAlone DEF IInv
  <1>7. CASE /\ WritesToken(i, "PASSWORD_CHANGE", t)
             /\ req' = [req EXCEPT ![w].pc = "mailLink"]
             /\ token[i]["PASSWORD_CHANGE"] = None \/ req[w].pc = "renew"
    <2>1. token[i]["PASSWORD_CHANGE"] = None \/ token[i]["PASSWORD_CHANGE"].old
      BY <1>1, <1>7 DEF SerialInv, ReadsHold, LinkToken
    <2>2. FirstTokens' /\ LinksStay
      BY <1>3, <1>4, <1>7, <2>1, KindsAre, TokenReplaced
    <2>3. req'[w].pc = "mailLink"
      BY <1>7 DEF IInv, TypeOK, Request
    <2>4. ReadsHold(req[w])'
      BY <2>3 DEF ReadsHold, CopyPcs
    <2> QED BY <1>3, <2>2, <2>4, UsersRest, RequestAlone
  <1> QED BY <1>5, <1>6, <1>7

LEMMA LinkMailAlone ==
  ASSUME OneAtATime, IInv, SerialInv, NEW w \in Workers, LinkMail(w)
  PROVE  SerialInv' /\ LinksStay /\ DeletedStay
  BY UsersRest, TokensRest, IdleHolds, RequestAlone DEF LinkMail, Finish, IInv

LEMMA UseAlone ==
  ASSUME OneAtATime, IInv, SerialInv, NEW w \in Workers, NEW k \in Kinds,
         NEW row \in UserRow, row.email = req[w].row.email,
         req[w].pc = IF k = "EMAIL" THEN "verify" ELSE "change",
         WritesToken(req[w].user, k, Used(req[w].value)),
         users' = [users EXCEPT ![req[w].user] = row],
         req' = [req EXCEPT ![w] = Idle], event' = event
  PROVE  SerialInv' /\ LinksStay /\ DeletedStay
  <1>1. PICK i : i = req[w].user
    OBVIOUS
  <1>2. PICK t : t = Used(req[w].value)
    OBVIOUS
  <1>3. RequestOK(req[w]) /\ ReadsHold(req[w]) /\ req[w].pc \in {"verify", "change"}
    BY DEF IInv, SerialInv
  <1>4. /\ i \in Ids /\ t \in TokenRow /\ t.value = req[w].value
        /\ row.email = users[i].email /\ findOneById(i)
    BY <1>1, <1>2, <1>3
       DEF RequestOK, ReadsHold, EmailPcs, LinkPcs, CopyPcs, Used, TokenRow
  <1>5. /\ token[i][k].value = t.value
        /\ k = "EMAIL" => event[i].pc = "over"
    BY <1>1, <1>3, <1>4 DEF ReadsHold, EmailToken, LinkToken, Kinds
  <1>6. FirstTokens' /\ LinksStay
    BY <1>1, <1>2, <1>4, <1>5, TokenReplaced
  <1>7. OneLive' /\ DeletedStay
    BY <1>1, <1>4, LiveRowWrite
  <1> QED BY <1>6, <1>7, IdleHolds, RequestAlone DEF IInv

LEMMA VerifyCommitAlone ==
  ASSUME OneAtATime, IInv, SerialInv, NEW w \in Workers, VerifyCommit(w)
  PROVE  SerialInv' /\ LinksStay /\ DeletedStay
  <1>1. PICK row : row = [req[w].row EXCEPT !.verified = req[w].value]
    OBVIOUS
  <1>2. req[w].pc = "verify" /\ RequestOK(req[w])
    BY DEF VerifyCommit, Finish, IInv
  <1>3. row \in UserRow /\ row.email = req[w].row.email
    BY <1>1, <1>2 DEF RequestOK, EmailPcs, CopyPcs, UserRow
  <1>4. /\ WritesToken(req[w].user, "EMAIL", Used(req[w].value))
        /\ users' = [users EXCEPT ![req[w].user] = row]
        /\ req' = [req EXCEPT ![w] = Idle] /\ event' = event
    BY <1>1 DEF VerifyCommit, Finish, WritesToken
  <1> QED BY <1>2, <1>3, <1>4, KindsAre, UseAlone

LEMMA ChangeCommitAlone ==
  ASSUME OneAtATime, IInv, SerialInv, NEW w \in Workers, ChangeCommit(w)
  PROVE  SerialInv' /\ LinksStay /\ DeletedStay
  <1>1. PICK row : row = [req[w].row EXCEPT !.password = req[w].value]
    OBVIOUS
  <1>2. req[w].pc = "change" /\ RequestOK(req[w])
    BY DEF ChangeCommit, Finish, IInv
  <1>3. row \in UserRow /\ row.email = req[w].row.email
    BY <1>1, <1>2 DEF RequestOK, LinkPcs, CopyPcs, UserRow
  <1>4. /\ WritesToken(req[w].user, "PASSWORD_CHANGE", Used(req[w].value))
        /\ users' = [users EXCEPT ![req[w].user] = row]
        /\ req' = [req EXCEPT ![w] = Idle] /\ event' = event
    BY <1>1 DEF ChangeCommit, Finish, WritesToken
  <1> QED BY <1>2, <1>3, <1>4, KindsAre, UseAlone

LEMMA RowAlone ==
  ASSUME OneAtATime, IInv, SerialInv, NEW w \in Workers,
         PatchCommit(w) \/ DeleteCommit(w)
  PROVE  SerialInv' /\ LinksStay /\ DeletedStay
  <1>1. PICK i : i = req[w].user
    OBVIOUS
  <1>2. PICK row : row = IF req[w].pc = "patch" THEN req[w].row
                         ELSE [users[i] EXCEPT !.deleted = TRUE]
    OBVIOUS
  <1>3. /\ req[w].pc \in {"patch", "delete"}
        /\ RequestOK(req[w]) /\ ReadsHold(req[w])
        /\ req' = [req EXCEPT ![w] = Idle] /\ UNCHANGED <<token, event>>
    BY DEF PatchCommit, DeleteCommit, Finish, IInv, SerialInv
  <1>4. i \in Ids /\ users[i] \in UserRow /\ findOneById(i)
    BY <1>1, <1>3 DEF RequestOK, ReadsHold, CopyPcs, findOneById, IInv, TypeOK
  <1>5. row \in UserRow /\ row.email = users[i].email
    BY <1>1, <1>2, <1>3, <1>4 DEF RequestOK, CopyPcs, UserRow
  <1>6. users' = [users EXCEPT ![i] = row]
    BY <1>1, <1>2 DEF PatchCommit, DeleteCommit, Finish
  <1>7. OneLive' /\ DeletedStay
    BY <1>4, <1>5, <1>6, LiveRowWrite
  <1> QED BY <1>3, <1>7, TokensRest, IdleHolds, RequestAlone DEF IInv
-----------------------------------------------------------------------------
(* The detached handlers and time run beside the request.                  *)
LEMMA EventAlone ==
  ASSUME IInv, SerialInv, NEW i \in Ids, EventStep(i)
  PROVE  SerialInv' /\ LinksStay /\ DeletedStay
  <1>1. users' = users /\ req' = req
    BY DEF EventStep, EventInsert, EventMail, EventCommit, EventAbort
  <1>2. \A j \in Ids : event'[j] # event[j] => event[j].pc \in {"insert", "mail", "commit"}
    BY DEF EventStep, EventInsert, EventMail, EventCommit, EventAbort, IInv, TypeOK
  <1>3. CASE token' = token
    <2>1. FirstTokens'
      BY <1>2, <1>3 DEF SerialInv, FirstTokens, EmailToken
    <2>2. ASSUME NEW w \in Workers PROVE ReadsHold(req[w])'
      <3>1. ReadsHold(req[w]) /\ RequestOK(req[w])
        BY DEF SerialInv, IInv
      <3>2. req[w].pc \in EmailPcs => req[w].user \in Ids
        BY <3>1 DEF RequestOK
      <3> QED BY <1>1, <1>2, <1>3, <3>1, <3>2
              DEF ReadsHold, Free, findOneById, EmailToken, LinkToken, EmailPcs
    <2> QED BY <1>1, <1>3, <2>1, <2>2, UsersRest, TokensRest DEF SerialInv
  <1>4. CASE EventCommit(i)
    <2>1. PICK t : t = Fresh(event[i].value)
      OBVIOUS
    <2>2. event[i].pc = "commit" /\ event[i].value \in Values /\ t \in TokenRow
      BY <1>4, <2>1 DEF EventCommit, IInv, EventOK, Fresh, TokenRow
    <2>3. WritesToken(i, "EMAIL", t)
      BY <1>4, <2>1 DEF EventCommit, WritesToken
    <2>4. TokenBecomes(i, "EMAIL", t)
      BY <2>2, <2>3, KindsAre, TokenWrite
    <2>5. token[i]["EMAIL"] = None
      BY <2>2 DEF SerialInv, FirstTokens, EmailToken
    <2>6. /\ \A j \in Ids : LinkToken(j)' = LinkToken(j)
          /\ \A j \in Ids : event[j].pc = "over" =>
               event'[j] = event[j] /\ EmailToken(j)' = EmailToken(j)
      BY <1>2, <2>2, <2>4, KindsAre DEF TokenBecomes, LinkToken, EmailToken
    <2>7. LinksStay
      BY <2>4, <2>5 DEF TokenBecomes, LinksStay
    <2>8. event'[i].pc = "over"
      BY <1>4 DEF EventCommit, IInv, TypeOK, Event
    <2>9. \A j \in Ids : j # i =>
            event'[j] = event[j] /\ EmailToken(j)' = EmailToken(j)
      BY <1>4, <2>4, KindsAre DEF EventCommit, TokenBecomes, EmailToken, IInv, TypeOK
    <2>10. FirstTokens'
      BY <2>8, <2>9 DEF SerialInv, FirstTokens
    <2>11. ASSUME NEW w \in Workers PROVE ReadsHold(req[w])'
      <3>1. ReadsHold(req[w]) /\ RequestOK(req[w])
        BY DEF SerialInv, IInv
      <3>2. req[w].pc \in EmailPcs \cup LinkPcs \cup CopyPcs \cup {"delete"} =>
              req[w].user \in Ids
        BY <3>1 DEF RequestOK, EmailPcs, LinkPcs, CopyPcs
      <3> QED BY <1>1, <2>6, <3>1, <3>2
              DEF ReadsHold, Free, findOneById, EmailPcs, LinkPcs, CopyPcs
    <2> QED BY <1>1, <2>7, <2>10, <2>11, UsersRest DEF SerialInv
  <1>5. token' = token \/ EventCommit(i)
    BY DEF EventStep, EventInsert, EventMail, EventAbort
  <1> QED BY <1>3, <1>4, <1>5

LEMMA GrowOldAlone ==
  ASSUME IInv, SerialInv, NEW i \in Ids, NEW k \in Kinds, GrowOld(i, k)
  PROVE  SerialInv' /\ LinksStay /\ DeletedStay
  <1>1. PICK t : t = [token[i][k] EXCEPT !.old = TRUE]
    OBVIOUS
  <1>2. token[i][k] # None /\ token[i][k] \in TokenRow
    BY DEF GrowOld, IInv, TypeOK
  <1>3. /\ t \in TokenRow /\ t.value = token[i][k].value
        /\ t.used = token[i][k].used /\ t.old
    BY <1>1, <1>2 DEF TokenRow
  <1>4. WritesToken(i, k, t) /\ UNCHANGED <<users, req, event>>
    BY <1>1 DEF GrowOld, WritesToken
  <1>5. TokenBecomes(i, k, t)
    BY <1>3, <1>4, TokenWrite
  <1>6. k = "EMAIL" => event[i].pc = "over"
    BY <1>2 DEF SerialInv, FirstTokens, EmailToken
  <1>7. FirstTokens' /\ LinksStay
    BY <1>3, <1>4, <1>6, TokenReplaced
  <1>8. \A j \in Ids, l \in Kinds :
          /\ token'[j][l].value = token[j][l].value
          /\ token'[j][l].used = token[j][l].used
          /\ token[j][l].old => token'[j][l].old
    BY <1>3, <1>5 DEF TokenBecomes
  <1>9. ASSUME NEW w \in Workers PROVE ReadsHold(req[w])'
    <2>1. ReadsHold(req[w]) /\ RequestOK(req[w])
      BY DEF SerialInv, IInv
    <2>2. req[w].pc \in EmailPcs \cup LinkPcs \cup CopyPcs \cup {"delete"} =>
            req[w].user \in Ids
      BY <2>1 DEF RequestOK, EmailPcs, LinkPcs, CopyPcs
    <2> QED BY <1>4, <1>8, <2>1, <2>2, KindsAre
            DEF ReadsHold, Free, findOneById, EmailPcs, LinkPcs, CopyPcs,
                EmailToken, LinkToken
  <1> QED BY <1>4, <1>7, <1>9, UsersRest DEF SerialInv
-----------------------------------------------------------------------------
LEMMA InitSerial == Init => SerialInv
  <1> SUFFICES ASSUME Init PROVE SerialInv
    OBVIOUS
  <1>1. \A w \in Workers : ReadsHold(req[w])
    BY DEF Init, ReadsHold, Idle, CopyPcs
  <1>2. FirstTokens /\ OneLive
    BY KindsAre DEF Init, FirstTokens, EmailToken, OneLive, findOneById
  <1> QED BY <1>1, <1>2 DEF SerialInv

LEMMA NextSerial ==
  ASSUME OneAtATime, IInv, SerialInv, [Next]_vars
  PROVE  SerialInv' /\ LinksStay /\ DeletedStay
  <1>1. CASE UNCHANGED vars
    <2>1. \A w \in Workers : ReadsHold(req[w])'
      BY <1>1 DEF vars, SerialInv, ReadsHold, Free, findOneById, EmailToken,
                  LinkToken
    <2> QED BY <1>1, <2>1, UsersRest, TokensRest DEF vars, SerialInv
  <1>2. ASSUME NEW w \in Workers, NewRequest(w) \/ Abort(w)
        PROVE  SerialInv' /\ LinksStay /\ DeletedStay
    <2>1. users' = users /\ token' = token
      BY <1>2 DEF NewRequest, SignUpRead, LinkRead, SendRead, PatchRead,
                  DeleteRead, VerifyRead, ChangeRead, Start, Abort
    <2> QED BY <1>2, <2>1, NewRequestAlone, AbortAlone, UsersRest, TokensRest
  <1>3. ASSUME NEW w \in Workers, Step(w)
        PROVE  SerialInv' /\ LinksStay /\ DeletedStay
    BY <1>3, SignUpInsertAlone, SignUpCommitAlone, SendAlone, SendCommitAlone,
       LinkAlone, LinkMailAlone, VerifyCommitAlone, ChangeCommitAlone, RowAlone
       DEF Step
  <1> QED BY <1>1, <1>2, <1>3, EventAlone, GrowOldAlone DEF Next

LEMMA SerialAccount ==
  ASSUME OneAtATime
  PROVE  Spec => [](IInv /\ SerialInv)
  <1>1. Init => IInv /\ SerialInv
    BY InitAccount, InitSerial
  <1>2. IInv /\ SerialInv /\ [Next]_vars => (IInv /\ SerialInv)'
    BY NextAccount, NextSerial
  <1> QED BY <1>1, <1>2, PTL DEF Spec

(* One request at a time, beside the detached handlers, an address has one *)
(* account that is not deleted: the look-up of CreateUserCommandHandler is *)
(* enough.                                                                 *)
THEOREM SerialOneAccount ==
  ASSUME OneAtATime
  PROVE  Spec => []OneAccountPerEmail
  <1>1. SerialInv => OneAccountPerEmail
    BY OneLiveAccount DEF SerialInv
  <1> QED BY <1>1, SerialAccount, PTL

(* One request at a time, a password is changed with a token that is in    *)
(* the table and was not used before.                                      *)
THEOREM SerialLinkOnce ==
  ASSUME OneAtATime
  PROVE  Spec => LinkIsUsedOnce
  <1>1. IInv /\ SerialInv =>
          \A w \in Workers : ChangeCommit(w) =>
            LET t == token[req[w].user]["PASSWORD_CHANGE"]
            IN  t.value = req[w].value /\ ~t.used
    BY DEF SerialInv, ReadsHold, LinkToken, ChangeCommit, Finish
  <1> QED BY <1>1, SerialAccount, PTL DEF LinkIsUsedOnce

(* One request at a time, no step takes a link that is not old out of the  *)
(* table: not a reissue, not the handler of UserCreated, not its use.      *)
THEOREM SerialLinkStays ==
  ASSUME OneAtATime
  PROVE  Spec => LiveLinkStays
  <1>1. IInv /\ SerialInv /\ [Next]_vars => LinksStay
    BY NextSerial
  <1> QED BY <1>1, SerialAccount, PTL DEF Spec, LiveLinkStays, LinksStay

(* One request at a time, the row of a deleted account is never written.   *)
THEOREM SerialDeletedFrozen ==
  ASSUME OneAtATime
  PROVE  Spec => DeletedIsFrozen
  <1>1. IInv /\ SerialInv /\ [Next]_vars => DeletedStay
    BY NextSerial
  <1> QED BY <1>1, SerialAccount, PTL DEF Spec, DeletedIsFrozen, DeletedStay
=============================================================================
