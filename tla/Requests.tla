------------------------------ MODULE Requests ------------------------------
(***************************************************************************)
(* The way of one HTTP request through the application: guard, pipes,      *)
(* handler with or without a transaction, controller, exception filters.   *)
(* Requests share no state here, so one at a time shows them all.  At any  *)
(* step the server may be unable to go on (BreakCall): S3, the mail server *)
(* or the database fail, a statement violates a constraint.                *)
(***************************************************************************)
EXTENDS Naturals, Endpoints

VARIABLES
  call,      \* the endpoint, how far the request is and what it has thrown
  written    \* what it has changed: "open" in its transaction, "kept" for good

requestVars == <<call, written>>

NoCall == [api |-> "none", at |-> "idle", step |-> 0,
           thrown |-> ServerError, broke |-> FALSE, answer |-> <<200, "OK">>]

Nothing == [open |-> {}, kept |-> {}]

RequestsInit == call = NoCall /\ written = Nothing

Stages == {"guard", "pipes", "handler", "thrown", "answered"}
-----------------------------------------------------------------------------
Receive(api) ==
  /\ call.at = "idle"
  /\ call' = [NoCall EXCEPT !.api = api, !.at = "guard"]
  /\ UNCHANGED written

Throw(error) == [call EXCEPT !.at = "thrown", !.thrown = error]

(* canActivate and handleRequest of the guards                             *)
PassGuard ==
  /\ call.at = "guard"
  /\ \/ call' = [call EXCEPT !.at = "pipes"]
     \/ \E error \in Api[call.api].route.guard : call' = Throw(error)
  /\ UNCHANGED written

PassPipes ==
  /\ call.at = "pipes"
  /\ \/ call' = [call EXCEPT !.at = "handler", !.step = 1]
     \/ \E error \in Api[call.api].route.pipes : call' = Throw(error)
  /\ UNCHANGED written

Steps == Api[call.api].handler.steps

Keep(effects) == written' = [open |-> {}, kept |-> written.kept \cup effects]

(* One refusal: the handler passes it, or the transaction is rolled back.  *)
Check ==
  /\ call.at = "handler"
  /\ call.step <= Len(Steps)
  /\ Steps[call.step].does = "refuse"
  /\ \/ /\ call' = [call EXCEPT !.step = @ + 1]
        /\ UNCHANGED written
     \/ /\ call' = Throw(Steps[call.step].with)
        /\ Keep({})

(* Only rows of the handler's own transaction wait for its COMMIT.         *)
Change ==
  /\ call.at = "handler"
  /\ call.step <= Len(Steps)
  /\ LET effect == Steps[call.step].does
     IN  /\ effect # "refuse"
         /\ written' = IF Api[call.api].handler.tx /\ effect = "row"
                       THEN [written EXCEPT !.open = @ \cup {effect}]
                       ELSE [written EXCEPT !.kept = @ \cup {effect}]
  /\ call' = [call EXCEPT !.step = @ + 1]

Answer(answer) == [call EXCEPT !.at = "answered", !.answer = answer]

Finish ==
  /\ call.at = "handler"
  /\ call.step > Len(Steps)
  /\ Keep(written.open)
  /\ call' = Answer(<<200, "OK">>)

(* The next step, or the COMMIT, fails, and what is in the transaction is  *)
(* rolled back.                                                            *)
BreakCall ==
  /\ call.at = "handler"
  /\ call.step <= Len(Steps) \/ Api[call.api].handler.tx
  /\ call' = [Throw(Domain("unknown")) EXCEPT !.broke = TRUE]
  /\ Keep({})
-----------------------------------------------------------------------------
(* The try and catch of the controller                                     *)
Translate(error, maps) ==
  IF error.kind = "domain" /\ error.code \in DOMAIN maps
  THEN maps[error.code] ELSE error

(* The exception filters, the last registered first                        *)
BadRequestFilter(error) == error.kind = "nest" /\ error.status = 400
PathNotFoundFilter(error) == error.kind = "nest" /\ error.status = 404
ClientErrorFilter(error) == error.kind = "http"

Filter(error) ==
  CASE BadRequestFilter(error)   -> <<400, BadParameter.code>>
    [] PathNotFoundFilter(error) -> <<404, "API_NOT_FOUND">>
    [] ClientErrorFilter(error)  -> <<error.status, error.code>>
    [] OTHER                     -> <<500, ServerError.code>>

Catch ==
  /\ call.at = "thrown"
  /\ call' = Answer(Filter(Translate(call.thrown, Api[call.api].route.maps)))
  /\ UNCHANGED written

Close ==
  /\ call.at = "answered"
  /\ call' = NoCall
  /\ written' = Nothing

RequestsStep ==
  \/ PassGuard \/ PassPipes \/ Check \/ Change \/ Finish \/ BreakCall
  \/ Catch \/ Close

RequestsNext == (\E api \in DOMAIN Api : Receive(api)) \/ RequestsStep

RequestsSpec == RequestsInit /\ [][RequestsNext]_requestVars
-----------------------------------------------------------------------------
(* The types of the request and of what it has changed.                    *)
RequestsTypeOK ==
  /\ call.api \in DOMAIN Api \cup {"none"}
  /\ call.at \in Stages \cup {"idle"}
  /\ call.step \in 0 .. 9
  /\ written.open \subseteq {"row"}
  /\ written.kept \subseteq {"row", "file", "mail", "job"}

Failed == call.at = "answered" /\ call.answer[1] >= 400

Promised(api) == {<<e.status, e.code>> : e \in Api[api].documented}

(* Answers the document of the interface leaves out: no token, where the   *)
(* access token is asked for; a private post; a requester who is gone,     *)
(* documented with another status; and the link of a verification mail     *)
(* with a wrong token, thrown as the framework's 401.                      *)
Undocumented ==
  {<<api, <<401, "INVALID_TOKEN">>>> :
     api \in {"CreateConnection", "UpdateConnection", "Disconnect",
              "PatchComment", "DeleteComment"}}
  \cup {<<"FindPost", <<403, "PERMISSION_DENIED">>>>,
        <<"CreateConnection", <<422, "RESOURCE_NOT_FOUND">>>>,
        <<"VerifyEmail", <<500, "SERVER_ERROR">>>>}

(* Every refusal is one the swagger document of its endpoint promises, but *)
(* for the known exceptions, whatever throws it and whoever translates it; *)
(* a 500 is kept for what the application itself calls a server error.     *)
EveryAnswerIsDocumented ==
  Failed /\ ~call.broke =>
    \/ call.thrown = ServerError
    \/ call.answer \in Promised(call.api)
    \/ call.api \in Hidden /\ call.answer[1] # 500
    \/ <<call.api, call.answer>> \in Undocumented

(* A request that is answered by an error has changed no row, wherever it  *)
(* failed; the token of a password link whose mail could not be sent is    *)
(* the exception.                                                          *)
ErrorLeavesNoRow ==
  Failed /\ "row" \in written.kept =>
    call.api = "SendPasswordLink" /\ call.broke
=============================================================================
