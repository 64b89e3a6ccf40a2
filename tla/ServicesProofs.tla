--------------------------- MODULE ServicesProofs ---------------------------
(***************************************************************************)
(* What a request of any endpoint leaves and answers when it fails, and    *)
(* the components of Services side by side.                                *)
(*                                                                         *)
(* The first proof reads the endpoints once each: what a step may do, that *)
(* a row comes last of what a handler without a transaction does, and that *)
(* each error of a route or a handler has its answer in the document.  The *)
(* steps of a request need no more of an endpoint than that.               *)
(*                                                                         *)
(* The second is that Services leaves each component its specification:    *)
(* what has been proved of a component alone holds of it among the others. *)
(***************************************************************************)
EXTENDS Services, PostFilesProofs, ReadersProofs, PortraitsProofs,
        PostTagsProofs, TLAPS

(* The requests.  What the provers need of each endpoint is read off its   *)
(* definition; it is the same for all.                                     *)
Steplike(s) == s.does \in {"refuse", "row", "file", "mail", "job"}

(* Outside a transaction a handler refuses nothing after it has written a  *)
(* row, and only that of SendPasswordLink has more to do then.             *)
RowComesLast(api, h) ==
  /\ h.tx \in BOOLEAN
  /\ Len(h.steps) \in 0 .. 8
  /\ \A i \in 1 .. Len(h.steps) : Steplike(h.steps[i])
  /\ \A i, j \in 1 .. Len(h.steps) :
       ~h.tx /\ i < j /\ h.steps[i].does = "row" =>
         api = "SendPasswordLink" /\ h.steps[j].does # "refuse"

(* What a step of a handler does.                                          *)
LEMMA StepsDo ==
  /\ \A e : Refuses(e).does = "refuse" /\ Refuses(e).with = e
  /\ Writes.does = "row" /\ Stores.does = "file"
  /\ Mails.does = "mail" /\ Detaches.does = "job"
  BY DEF Refuses, Does, Writes, Stores, Mails, Detaches

(* The endpoints there are.                                                *)
LEMMA EndpointsOfApi ==
  DOMAIN Api = {"SignUp", "SignIn", "Refresh", "FindUsers", "FindMe",
    "SendVerificationEmail", "SendPasswordLink", "VerifyEmail",
    "UpdatePassword", "PatchUser", "DeleteUser", "CreateConnection",
    "FindConnections", "UpdateConnection", "Disconnect", "CreateBlog",
    "FindBlog", "PatchBlog", "CreatePost", "FindPosts", "FindPost",
    "FindPublicPosts", "PatchPost", "DeletePost", "CreateComment",
    "FindComments", "PatchComment", "DeleteComment", "CreateRoom", "FindRoom",
    "FindMessages", "UploadFiles"}
  BY DEF Api

(* The handler of an endpoint.                                             *)
LEMMA Handlers ==
  /\ Api["SignUp"].handler = SignUp_handler
  /\ Api["SignIn"].handler = SignIn_handler
  /\ Api["Refresh"].handler = Refresh_handler
  /\ Api["FindUsers"].handler = FindUsers_handler
  /\ Api["FindMe"].handler = FindMe_handler
  /\ Api["SendVerificationEmail"].handler = SendVerificationEmail_handler
  /\ Api["SendPasswordLink"].handler = SendPasswordLink_handler
  /\ Api["VerifyEmail"].handler = VerifyEmail_handler
  /\ Api["UpdatePassword"].handler = UpdatePassword_handler
  /\ Api["PatchUser"].handler = PatchUser_handler
  /\ Api["DeleteUser"].handler = DeleteUser_handler
  /\ Api["CreateConnection"].handler = CreateConnection_handler
  /\ Api["FindConnections"].handler = FindConnections_handler
  /\ Api["UpdateConnection"].handler = UpdateConnection_handler
  /\ Api["Disconnect"].handler = Disconnect_handler
  /\ Api["CreateBlog"].handler = CreateBlog_handler
  /\ Api["FindBlog"].handler = FindBlog_handler
  /\ Api["PatchBlog"].handler = PatchBlog_handler
  /\ Api["CreatePost"].handler = CreatePost_handler
  /\ Api["FindPosts"].handler = FindPosts_handler
  /\ Api["FindPost"].handler = FindPost_handler
  /\ Api["FindPublicPosts"].handler = FindPublicPosts_handler
  /\ Api["PatchPost"].handler = PatchPost_handler
  /\ Api["DeletePost"].handler = DeletePost_handler
  /\ Api["CreateComment"].handler = CreateComment_handler
  /\ Api["FindComments"].handler = FindComments_handler
  /\ Api["PatchComment"].handler = PatchComment_handler
  /\ Api["DeleteComment"].handler = DeleteComment_handler
  /\ Api["CreateRoom"].handler = CreateRoom_handler
  /\ Api["FindRoom"].handler = FindRoom_handler
  /\ Api["FindMessages"].handler = FindMessages_handler
  /\ Api["UploadFiles"].handler = UploadFiles_handler
  BY DEF Api, Endpoint

(* Every handler writes its row last, or in a transaction.                 *)
LEMMA RowsComeLast ==
  \A api \in DOMAIN Api : RowComesLast(api, Api[api].handler)
  <1>1. RowComesLast("SignUp", SignUp_handler)
    BY StepsDo DEF RowComesLast, Steplike, SignUp_handler, Transactional
  <1>2. RowComesLast("SignIn", SignIn_handler)
    BY StepsDo DEF RowComesLast, Steplike, SignIn_handler, Handler
  <1>3. RowComesLast("Refresh", Refresh_handler)
    BY StepsDo DEF RowComesLast, Steplike, Refresh_handler, Handler
  <1>4. RowComesLast("FindUsers", FindUsers_handler)
    BY StepsDo DEF RowComesLast, Steplike, FindUsers_handler, Handler
  <1>5. RowComesLast("FindMe", FindMe_handler)
    BY StepsDo DEF RowComesLast, Steplike, FindMe_handler, Handler
  <1>6. RowComesLast("SendVerificationEmail", SendVerificationEmail_handler)
    BY StepsDo
    DEF RowComesLast, Steplike, SendVerificationEmail_handler, Transactional
  <1>7. RowComesLast("SendPasswordLink", SendPasswordLink_handler)
    BY StepsDo DEF RowComesLast, Steplike, SendPasswordLink_handler, Handler
  <1>8. RowComesLast("VerifyEmail", VerifyEmail_handler)
    BY StepsDo DEF RowComesLast, Steplike, VerifyEmail_handler, Transactional
  <1>9. RowComesLast("UpdatePassword", UpdatePassword_handler)
    BY StepsDo
    DEF RowComesLast, Steplike, UpdatePassword_handler, Transactional
  <1>10. RowComesLast("PatchUser", PatchUser_handler)
    BY StepsDo DEF RowComesLast, Steplike, PatchUser_handler, Transactional
  <1>11. RowComesLast("DeleteUser", DeleteUser_handler)
    BY StepsDo DEF RowComesLast, Steplike, DeleteUser_handler, Transactional
  <1>12. RowComesLast("CreateConnection", CreateConnection_handler)
    BY StepsDo DEF RowComesLast, Steplike, CreateConnection_handler, Handler
  <1>13. RowComesLast("FindConnections", FindConnections_handler)
    BY StepsDo DEF RowComesLast, Steplike, FindConnections_handler, Handler
  <1>14. RowComesLast("UpdateConnection", UpdateConnection_handler)
    BY StepsDo DEF RowComesLast, Steplike, UpdateConnection_handler, Handler
  <1>15. RowComesLast("Disconnect", Disconnect_handler)
    BY StepsDo DEF RowComesLast, Steplike, Disconnect_handler, Transactional
  <1>16. RowComesLast("CreateBlog", CreateBlog_handler)
    BY StepsDo DEF RowComesLast, Steplike, CreateBlog_handler, Transactional
  <1>17. RowComesLast("FindBlog", FindBlog_handler)
    BY StepsDo DEF RowComesLast, Steplike, FindBlog_handler, Handler
  <1>18. RowComesLast("PatchBlog", PatchBlog_handler)
    BY StepsDo DEF RowComesLast, Steplike, PatchBlog_handler, Transactional
  <1>19. RowComesLast("CreatePost", CreatePost_handler)
    BY StepsDo DEF RowComesLast, Steplike, CreatePost_handler, Transactional
  <1>20. RowComesLast("FindPosts", FindPosts_handler)
    BY StepsDo DEF RowComesLast, Steplike, FindPosts_handler, Handler
  <1>21. RowComesLast("FindPost", FindPost_handler)
    BY StepsDo DEF RowComesLast, Steplike, FindPost_handler, Handler
  <1>22. RowComesLast("FindPublicPosts", FindPublicPosts_handler)
    BY StepsDo DEF RowComesLast, Steplike, FindPublicPosts_handler, Handler
  <1>23. RowComesLast("PatchPost", PatchPost_handler)
    BY StepsDo DEF RowComesLast, Steplike, PatchPost_handler, Transactional
  <1>24. RowComesLast("DeletePost", DeletePost_handler)
    BY StepsDo DEF RowComesLast, Steplike, DeletePost_handler, Handler
  <1>25. RowComesLast("CreateComment", CreateComment_handler)
    BY StepsDo DEF RowComesLast, Steplike, CreateComment_handler, Handler
  <1>26. RowComesLast("FindComments", FindComments_handler)
    BY StepsDo DEF RowComesLast, Steplike, FindComments_handler, Handler
  <1>27. RowComesLast("PatchComment", PatchComment_handler)
    BY StepsDo DEF RowComesLast, Steplike, PatchComment_handler, Handler
  <1>28. RowComesLast("DeleteComment", DeleteComment_handler)
    BY StepsDo DEF RowComesLast, Steplike, DeleteComment_handler, Handler
  <1>29. RowComesLast("CreateRoom", CreateRoom_handler)
    BY StepsDo DEF RowComesLast, Steplike, CreateRoom_handler, Handler
  <1>30. RowComesLast("FindRoom", FindRoom_handler)
    BY StepsDo DEF RowComesLast, Steplike, FindRoom_handler, Handler
  <1>31. RowComesLast("FindMessages", FindMessages_handler)
    BY StepsDo DEF RowComesLast, Steplike, FindMessages_handler, Handler
  <1>32. RowComesLast("UploadFiles", UploadFiles_handler)
    BY StepsDo DEF RowComesLast, Steplike, UploadFiles_handler, Transactional
  <1> QED BY EndpointsOfApi, Handlers, <1>1, <1>2, <1>3, <1>4, <1>5, <1>6,
             <1>7, <1>8, <1>9, <1>10, <1>11, <1>12, <1>13, <1>14, <1>15,
             <1>16, <1>17, <1>18, <1>19, <1>20, <1>21, <1>22, <1>23, <1>24,
             <1>25, <1>26, <1>27, <1>28, <1>29, <1>30, <1>31, <1>32
-----------------------------------------------------------------------------
(* What a handler refuses with.                                            *)
RefusedWith(h) ==
  {h.steps[i].with : i \in {k \in 1 .. Len(h.steps) : h.steps[k].does = "refuse"}}

(* How an error becomes an answer that may be given: it is documented, the *)
(* framework's error of a pipe stands for a documented one, the controller *)
(* translates it into one, or it is known to be left out.                  *)
MayAnswer(api, maps, doc, e) ==
  \/ e = ServerError
  \/ e.kind = "http" /\ (e \in doc \/ <<api, <<e.status, e.code>>>> \in Undocumented)
  \/ e.kind = "nest" /\ e.status = 400 /\ BadParameter \in doc
  \/ /\ e.kind = "domain" /\ e.code \in DOMAIN maps
     /\ maps[e.code].kind = "http" /\ maps[e.code] \in doc
  \/ /\ api = "VerifyEmail"
     /\ \/ e.kind = "http" /\ e.status # 500
        \/ e.kind = "nest" /\ e.status \in {400, 401}

MayThrow(route, h) == route.guard \cup route.pipes \cup RefusedWith(h)

AnswersOf(api, route, h, doc) ==
  \A e \in MayThrow(route, h) : MayAnswer(api, route.maps, doc, e)

(* The errors and what they say.                                           *)
LEMMA Errors ==
  /\ \A s, c : /\ Http(s, c).kind = "http" /\ Http(s, c).status = s
               /\ Http(s, c).code = c
               /\ Nest(s, c).kind = "nest" /\ Nest(s, c).status = s
               /\ Domain(c).kind = "domain" /\ Domain(c).code = c
  /\ \A c : /\ Unauthorized(c).kind = "http" /\ Unauthorized(c).status = 401
            /\ Forbidden(c).kind = "http" /\ Forbidden(c).status = 403
            /\ Conflict(c).kind = "http" /\ Conflict(c).status = 409
            /\ Unauthorized(c).code = c
  /\ \A e \in {BadParameter, NotJson, InvalidToken, NotFound, Unprocessable,
               Denied, NotPart, NoConnection, BlogExists, ServerError} :
       e.kind = "http"
  /\ InvalidToken.status = 401 /\ InvalidToken.code = "INVALID_TOKEN"
  /\ Denied.status = 403 /\ Denied.code = "PERMISSION_DENIED"
  /\ Unprocessable.status = 422 /\ Unprocessable.code = "RESOURCE_NOT_FOUND"
  /\ BadParameter.status = 400 /\ BadParameter.code = "INVALID_REQUEST_PARAMETER"
  /\ NotFound.status = 404
  BY DEF Http, Nest, Domain, Unauthorized, Forbidden, Conflict, BadParameter,
         NotJson, InvalidToken, NotFound, Unprocessable, Denied, NotPart,
         NoConnection, BlogExists, ServerError

(* The route of an endpoint.                                               *)
LEMMA Routes ==
  /\ Api["SignUp"].route = SignUp_route
  /\ Api["SignIn"].route = SignIn_route
  /\ Api["Refresh"].route = Refresh_route
  /\ Api["FindUsers"].route = FindUsers_route
  /\ Api["FindMe"].route = FindMe_route
  /\ Api["SendVerificationEmail"].route = SendVerificationEmail_route
  /\ Api["SendPasswordLink"].route = SendPasswordLink_route
  /\ Api["VerifyEmail"].route = VerifyEmail_route
  /\ Api["UpdatePassword"].route = UpdatePassword_route
  /\ Api["PatchUser"].route = PatchUser_route
  /\ Api["DeleteUser"].route = DeleteUser_route
  /\ Api["CreateConnection"].route = CreateConnection_route
  /\ Api["FindConnections"].route = FindConnections_route
  /\ Api["UpdateConnection"].route = UpdateConnection_route
  /\ Api["Disconnect"].route = Disconnect_route
  /\ Api["CreateBlog"].route = CreateBlog_route
  /\ Api["FindBlog"].route = FindBlog_route
  /\ Api["PatchBlog"].route = PatchBlog_route
  /\ Api["CreatePost"].route = CreatePost_route
  /\ Api["FindPosts"].route = FindPosts_route
  /\ Api["FindPost"].route = FindPost_route
  /\ Api["FindPublicPosts"].route = FindPublicPosts_route
  /\ Api["PatchPost"].route = PatchPost_route
  /\ Api["DeletePost"].route = DeletePost_route
  /\ Api["CreateComment"].route = CreateComment_route
  /\ Api["FindComments"].route = FindComments_route
  /\ Api["PatchComment"].route = PatchComment_route
  /\ Api["DeleteComment"].route = DeleteComment_route
  /\ Api["CreateRoom"].route = CreateRoom_route
  /\ Api["FindRoom"].route = FindRoom_route
  /\ Api["FindMessages"].route = FindMessages_route
  /\ Api["UploadFiles"].route = UploadFiles_route
  BY DEF Api, Endpoint

(* The refusals its document promises.                                     *)
LEMMA Documents ==
  /\ Api["SignUp"].documented = SignUp_documented
  /\ Api["SignIn"].documented = SignIn_documented
  /\ Api["Refresh"].documented = Refresh_documented
  /\ Api["FindUsers"].documented = FindUsers_documented
  /\ Api["FindMe"].documented = FindMe_documented
  /\ Api["SendVerificationEmail"].documented = SendVerificationEmail_documented
  /\ Api["SendPasswordLink"].documented = SendPasswordLink_documented
  /\ Api["VerifyEmail"].documented = {}
  /\ Api["UpdatePassword"].documented = UpdatePassword_documented
  /\ Api["PatchUser"].documented = PatchUser_documented
  /\ Api["DeleteUser"].documented = DeleteUser_documented
  /\ Api["CreateConnection"].documented = CreateConnection_documented
  /\ Api["FindConnections"].documented = FindConnections_documented
  /\ Api["UpdateConnection"].documented = UpdateConnection_documented
  /\ Api["Disconnect"].documented = Disconnect_documented
  /\ Api["CreateBlog"].documented = CreateBlog_documented
  /\ Api["FindBlog"].documented = FindBlog_documented
  /\ Api["PatchBlog"].documented = PatchBlog_documented
  /\ Api["CreatePost"].documented = CreatePost_documented
  /\ Api["FindPosts"].documented = FindPosts_documented
  /\ Api["FindPost"].documented = FindPost_documented
  /\ Api["FindPublicPosts"].documented = FindPublicPosts_documented
  /\ Api["PatchPost"].documented = PatchPost_documented
  /\ Api["DeletePost"].documented = DeletePost_documented
  /\ Api["CreateComment"].documented = CreateComment_documented
  /\ Api["FindComments"].documented = FindComments_documented
  /\ Api["PatchComment"].documented = PatchComment_documented
  /\ Api["DeleteComment"].documented = DeleteComment_documented
  /\ Api["CreateRoom"].documented = CreateRoom_documented
  /\ Api["FindRoom"].documented = FindRoom_documented
  /\ Api["FindMessages"].documented = FindMessages_documented
  /\ Api["UploadFiles"].documented = UploadFiles_documented
  BY DEF Api, Endpoint

(* Whatever an endpoint throws may be answered.                            *)
LEMMA AllMayBeAnswered ==
  \A api \in DOMAIN Api :
    AnswersOf(api, Api[api].route, Api[api].handler, Api[api].documented)
  <1>1. AnswersOf("SignUp", SignUp_route,
        SignUp_handler, SignUp_documented)
    BY Errors, StepsDo
    DEF AnswersOf, MayThrow, MayAnswer, RefusedWith, Route, Transactional, Body,
        Public, NoErrors, SignUp_route, SignUp_handler, SignUp_documented
  <1>2. AnswersOf("SignIn", SignIn_route,
        SignIn_handler, SignIn_documented)
    BY Errors, StepsDo
    DEF AnswersOf, MayThrow, MayAnswer, RefusedWith, Route, Handler, BasicGuard,
        NoErrors, SignIn_route, SignIn_handler, SignIn_documented
  <1>3. AnswersOf("Refresh", Refresh_route,
        Refresh_handler, Refresh_documented)
    BY Errors, StepsDo
    DEF AnswersOf, MayThrow, MayAnswer, RefusedWith, Route, Handler, RefreshGuard,
        NoErrors, Refresh_route, Refresh_handler, Refresh_documented
  <1>4. AnswersOf("FindUsers", FindUsers_route,
        FindUsers_handler, FindUsers_documented)
    BY Errors, StepsDo
    DEF AnswersOf, MayThrow, MayAnswer, RefusedWith, Route, Handler, ColonQuery,
        AccessGuard, NoErrors, FindUsers_route, FindUsers_handler,
        FindUsers_documented
  <1>5. AnswersOf("FindMe", FindMe_route,
        FindMe_handler, FindMe_documented)
    BY Errors, StepsDo
    DEF AnswersOf, MayThrow, MayAnswer, RefusedWith, Route, Handler, AccessGuard,
        NoErrors, FindMe_route, FindMe_handler, FindMe_documented
  <1>6. AnswersOf("SendVerificationEmail", SendVerificationEmail_route,
        SendVerificationEmail_handler, SendVerificationEmail_documented)
    BY Errors, StepsDo
    DEF AnswersOf, MayThrow, MayAnswer, RefusedWith, Route, Transactional,
        AccessGuard, NoErrors, SendVerificationEmail_route,
        SendVerificationEmail_handler, SendVerificationEmail_documented
  <1>7. AnswersOf("SendPasswordLink", SendPasswordLink_route,
        SendPasswordLink_handler, SendPasswordLink_documented)
    BY Errors, StepsDo
    DEF AnswersOf, MayThrow, MayAnswer, RefusedWith, Route, Handler, EmailParam,
        Body, Public, NoErrors, SendPasswordLink_route,
        SendPasswordLink_handler, SendPasswordLink_documented
  <1>8. AnswersOf("VerifyEmail", VerifyEmail_route,
        VerifyEmail_handler, {})
    BY Errors, StepsDo
    DEF AnswersOf, MayThrow, MayAnswer, RefusedWith, Route, Transactional,
        IdParam, UuidParam, Public, NoErrors, Undocumented, VerifyEmail_route,
        VerifyEmail_handler
  <1>9. AnswersOf("UpdatePassword", UpdatePassword_route,
        UpdatePassword_handler, UpdatePassword_documented)
    BY Errors, StepsDo
    DEF AnswersOf, MayThrow, MayAnswer, RefusedWith, Route, Transactional,
        IdParam, UuidParam, Body, Public, NoErrors, UpdatePassword_route,
        UpdatePassword_handler, UpdatePassword_documented
  <1>10. AnswersOf("PatchUser", PatchUser_route,
        PatchUser_handler, PatchUser_documented)
    BY Errors, StepsDo
    DEF AnswersOf, MayThrow, MayAnswer, RefusedWith, Route, Transactional, Body,
        NotEmpty, AccessGuard, NoErrors, PatchUser_route, PatchUser_handler,
        PatchUser_documented
  <1>11. AnswersOf("DeleteUser", DeleteUser_route,
        DeleteUser_handler, DeleteUser_documented)
    BY Errors, StepsDo
    DEF AnswersOf, MayThrow, MayAnswer, RefusedWith, Route, Transactional,
        AccessGuard, NoErrors, DeleteUser_route, DeleteUser_handler,
        DeleteUser_documented
  <1>12. AnswersOf("CreateConnection", CreateConnection_route,
        CreateConnection_handler, CreateConnection_documented)
    BY Errors, StepsDo
    DEF AnswersOf, MayThrow, MayAnswer, RefusedWith, Route, Handler, Body,
        AccessGuard, NoErrors, Undocumented, CreateConnection_route,
        CreateConnection_handler, CreateConnection_documented
  <1>13. AnswersOf("FindConnections", FindConnections_route,
        FindConnections_handler, FindConnections_documented)
    BY Errors, StepsDo
    DEF AnswersOf, MayThrow, MayAnswer, RefusedWith, Route, Handler, ColonQuery,
        AccessGuard, NoErrors, FindConnections_route, FindConnections_handler,
        FindConnections_documented
  <1>14. AnswersOf("UpdateConnection", UpdateConnection_route,
        UpdateConnection_handler, UpdateConnection_documented)
    BY Errors, StepsDo
    DEF AnswersOf, MayThrow, MayAnswer, RefusedWith, Route, Handler, IdParam,
        Body, AccessGuard, NoErrors, Undocumented, UpdateConnection_route,
        UpdateConnection_handler, UpdateConnection_documented
  <1>15. AnswersOf("Disconnect", Disconnect_route,
        Disconnect_handler, Disconnect_documented)
    BY Errors, StepsDo
    DEF AnswersOf, MayThrow, MayAnswer, RefusedWith, Route, Transactional,
        IdParam, AccessGuard, NoErrors, Undocumented, Disconnect_route,
        Disconnect_handler, Disconnect_documented
  <1>16. AnswersOf("CreateBlog", CreateBlog_route,
        CreateBlog_handler, CreateBlog_documented)
    BY Errors, StepsDo
    DEF AnswersOf, MayThrow, MayAnswer, RefusedWith, Route, Transactional, Body,
        AccessGuard, Mapping, CreateBlog_route, CreateBlog_handler,
        CreateBlog_documented
  <1>17. AnswersOf("FindBlog", FindBlog_route,
        FindBlog_handler, FindBlog_documented)
    BY Errors, StepsDo
    DEF AnswersOf, MayThrow, MayAnswer, RefusedWith, Route, Handler, IdParam,
        Public, NoErrors, FindBlog_route, FindBlog_handler,
        FindBlog_documented
  <1>18. AnswersOf("PatchBlog", PatchBlog_route,
        PatchBlog_handler, PatchBlog_documented)
    BY Errors, StepsDo
    DEF AnswersOf, MayThrow, MayAnswer, RefusedWith, Route, Transactional,
        IdParam, Body, NotEmpty, AccessGuard, NoErrors, PatchBlog_route,
        PatchBlog_handler, PatchBlog_documented
  <1>19. AnswersOf("CreatePost", CreatePost_route,
        CreatePost_handler, CreatePost_documented)
    BY Errors, StepsDo
    DEF AnswersOf, MayThrow, MayAnswer, RefusedWith, Route, Transactional,
        IdParam, Body, AccessGuard, Mapping, CreatePost_route,
        CreatePost_handler, CreatePost_documented
  <1>20. AnswersOf("FindPosts", FindPosts_route,
        FindPosts_handler, FindPosts_documented)
    BY Errors, StepsDo
    DEF AnswersOf, MayThrow, MayAnswer, RefusedWith, Route, Handler, IdParam,
        ColonQuery, OptionalGuard, NoErrors, FindPosts_route,
        FindPosts_handler, FindPosts_documented
  <1>21. AnswersOf("FindPost", FindPost_route,
        FindPost_handler, FindPost_documented)
    BY Errors, StepsDo
    DEF AnswersOf, MayThrow, MayAnswer, RefusedWith, Route, Handler, IdParam,
        AccessGuard, NoErrors, Undocumented, FindPost_route, FindPost_handler,
        FindPost_documented
  <1>22. AnswersOf("FindPublicPosts", FindPublicPosts_route,
        FindPublicPosts_handler, FindPublicPosts_documented)
    BY Errors, StepsDo
    DEF AnswersOf, MayThrow, MayAnswer, RefusedWith, Route, Handler, ColonQuery,
        Public, NoErrors, FindPublicPosts_route, FindPublicPosts_handler,
        FindPublicPosts_documented
  <1>23. AnswersOf("PatchPost", PatchPost_route,
        PatchPost_handler, PatchPost_documented)
    BY Errors, StepsDo
    DEF AnswersOf, MayThrow, MayAnswer, RefusedWith, Route, Transactional,
        IdParam, Body, NotEmpty, AccessGuard, Mapping, PatchPost_route,
        PatchPost_handler, PatchPost_documented
  <1>24. AnswersOf("DeletePost", DeletePost_route,
        DeletePost_handler, DeletePost_documented)
    BY Errors, StepsDo
    DEF AnswersOf, MayThrow, MayAnswer, RefusedWith, Route, Handler, IdParam,
        AccessGuard, NoErrors, DeletePost_route, DeletePost_handler,
        DeletePost_documented
  <1>25. AnswersOf("CreateComment", CreateComment_route,
        CreateComment_handler, CreateComment_documented)
    BY Errors, StepsDo
    DEF AnswersOf, MayThrow, MayAnswer, RefusedWith, Route, Handler, IdParam,
        Body, AccessGuard, NoErrors, CreateComment_route,
        CreateComment_handler, CreateComment_documented
  <1>26. AnswersOf("FindComments", FindComments_route,
        FindComments_handler, FindComments_documented)
    BY Errors, StepsDo
    DEF AnswersOf, MayThrow, MayAnswer, RefusedWith, Route, Handler, IdParam,
        ColonQuery, OptionalGuard, NoErrors, FindComments_route,
        FindComments_handler, FindComments_documented
  <1>27. AnswersOf("PatchComment", PatchComment_route,
        PatchComment_handler, PatchComment_documented)
    BY Errors, StepsDo
    DEF AnswersOf, MayThrow, MayAnswer, RefusedWith, Route, Handler, IdParam,
        Body, NotEmpty, AccessGuard, NoErrors, Undocumented,
        PatchComment_route, PatchComment_handler, PatchComment_documented
  <1>28. AnswersOf("DeleteComment", DeleteComment_route,
        DeleteComment_handler, DeleteComment_documented)
    BY Errors, StepsDo
    DEF AnswersOf, MayThrow, MayAnswer, RefusedWith, Route, Handler, IdParam,
        AccessGuard, NoErrors, Undocumented, DeleteComment_route,
        DeleteComment_handler, DeleteComment_documented
  <1>29. AnswersOf("CreateRoom", CreateRoom_route,
        CreateRoom_handler, CreateRoom_documented)
    BY Errors, StepsDo
    DEF AnswersOf, MayThrow, MayAnswer, RefusedWith, Route, Handler, AccessGuard,
        NoErrors, CreateRoom_route, CreateRoom_handler, CreateRoom_documented
  <1>30. AnswersOf("FindRoom", FindRoom_route,
        FindRoom_handler, FindRoom_documented)
    BY Errors, StepsDo
    DEF AnswersOf, MayThrow, MayAnswer, RefusedWith, Route, Handler, AccessGuard,
        NoErrors, FindRoom_route, FindRoom_handler, FindRoom_documented
  <1>31. AnswersOf("FindMessages", FindMessages_route,
        FindMessages_handler, FindMessages_documented)
    BY Errors, StepsDo
    DEF AnswersOf, MayThrow, MayAnswer, RefusedWith, Route, Handler, IdParam,
        ColonQuery, AccessGuard, NoErrors, FindMessages_route,
        FindMessages_handler, FindMessages_documented
  <1>32. AnswersOf("UploadFiles", UploadFiles_route,
        UploadFiles_handler, UploadFiles_documented)
    BY Errors, StepsDo
    DEF AnswersOf, MayThrow, MayAnswer, RefusedWith, Route, Transactional, Body,
        AccessGuard, NoErrors, UploadFiles_route, UploadFiles_handler,
        UploadFiles_documented
  <1> QED BY EndpointsOfApi, Routes, Handlers, Documents, <1>1, <1>2, <1>3,
             <1>4, <1>5, <1>6, <1>7, <1>8, <1>9, <1>10, <1>11, <1>12, <1>13,
             <1>14, <1>15, <1>16, <1>17, <1>18, <1>19, <1>20, <1>21, <1>22,
             <1>23, <1>24, <1>25, <1>26, <1>27, <1>28, <1>29, <1>30, <1>31,
             <1>32
-----------------------------------------------------------------------------
(* A request that has thrown has kept no row, unless it is the one whose   *)
(* mail failed; in the handler a row is kept only without a transaction,   *)
(* and then by a step that has been taken.                                 *)
ThrownBy(e) == e \in MayThrow(Api[call.api].route, Api[call.api].handler)

CallOK ==
  /\ call \in [api : DOMAIN Api \cup {"none"}, at : Stages \cup {"idle"},
               step : 0 .. 9, thrown : {call.thrown}, broke : BOOLEAN,
               answer : {call.answer}]
  /\ call.at # "idle" => call.api \in DOMAIN Api
  /\ call.at = "handler" => call.step \in 1 .. Len(Steps) + 1
  /\ written \in [open : SUBSET {"row"}, kept : SUBSET {"row", "file", "mail", "job"}]

RowsKept ==
  /\ call.at \in {"idle", "guard", "pipes"} => written = Nothing
  /\ "row" \in written.kept =>
       /\ call.at = "handler" =>
            /\ ~Api[call.api].handler.tx
            /\ \E i \in 1 .. Len(Steps) : i < call.step /\ Steps[i].does = "row"
       /\ call.at = "thrown" => call.api = "SendPasswordLink" /\ call.broke
       /\ call.at = "answered" /\ call.answer # <<200, "OK">> =>
            call.api = "SendPasswordLink" /\ call.broke

ErrorsKnown ==
  ~call.broke =>
    /\ call.at = "thrown" => ThrownBy(call.thrown)
    /\ call.at = "answered" =>
         \/ call.answer = <<200, "OK">>
         \/ /\ ThrownBy(call.thrown)
            /\ call.answer = Filter(Translate(call.thrown, Api[call.api].route.maps))

RequestsInv == CallOK /\ RowsKept /\ ErrorsKnown

(* An error that may be answered is answered so.                           *)
LEMMA AnswerIsKnown ==
  ASSUME NEW api \in DOMAIN Api, NEW e,
         MayAnswer(api, Api[api].route.maps, Api[api].documented, e)
  PROVE  LET a == Filter(Translate(e, Api[api].route.maps))
         IN  \/ e = ServerError
             \/ a \in Promised(api)
             \/ api \in Hidden /\ a[1] # 500
             \/ <<api, a>> \in Undocumented
  <1> DEFINE maps == Api[api].route.maps
             doc == Api[api].documented
             a == Filter(Translate(e, maps))
  <1> HIDE DEF maps, doc
  <1>f. /\ \A x : x.kind = "http" => Filter(x) = <<x.status, x.code>>
        /\ \A x : x.kind = "nest" /\ x.status = 400 =>
                    Filter(x) = <<400, BadParameter.code>>
        /\ \A x : x.kind = "nest" /\ x.status # 400 /\ x.status # 404 =>
                    Filter(x) = <<500, ServerError.code>>
    BY DEF Filter, BadRequestFilter, PathNotFoundFilter, ClientErrorFilter
  <1>t. e.kind # "domain" => Translate(e, maps) = e
    BY DEF Translate
  <1>p. \A d \in doc : <<d.status, d.code>> \in Promised(api)
    BY DEF Promised, doc
  <1>1. CASE e.kind = "http" /\ (e \in doc \/ <<api, <<e.status, e.code>>>> \in Undocumented)
    BY <1>1, <1>f, <1>t, <1>p DEF maps
  <1>2. CASE e.kind = "nest" /\ e.status = 400 /\ BadParameter \in doc
    BY <1>2, <1>f, <1>t, <1>p, Errors DEF maps
  <1>3. CASE /\ e.kind = "domain" /\ e.code \in DOMAIN maps
             /\ maps[e.code].kind = "http" /\ maps[e.code] \in doc
    <2>1. Translate(e, maps) = maps[e.code]
      BY <1>3 DEF Translate
    <2> QED BY <1>3, <2>1, <1>f, <1>p DEF maps
  <1>4. CASE /\ api = "VerifyEmail"
             /\ \/ e.kind = "http" /\ e.status # 500
                \/ e.kind = "nest" /\ e.status \in {400, 401}
    <2>1. CASE e.kind = "http" /\ e.status # 500
      BY <1>4, <2>1, <1>f, <1>t DEF maps, Hidden
    <2>2. CASE e.kind = "nest" /\ e.status = 400
      BY <1>4, <2>2, <1>f, <1>t DEF maps, Hidden
    <2>3. CASE e.kind = "nest" /\ e.status = 401
      <3>1. a = <<500, "SERVER_ERROR">>
        BY <2>3, <1>f, <1>t DEF ServerError, Http
      <3> QED BY <1>4, <3>1 DEF maps, Undocumented
    <2> QED BY <1>4, <2>1, <2>2, <2>3
  <1> QED BY <1>1, <1>2, <1>3, <1>4 DEF MayAnswer, maps, doc

(* A request that is in its handler.                                       *)
LEMMA StepsOfCall ==
  ASSUME CallOK, call.at = "handler"
  PROVE  /\ call.api \in DOMAIN Api
         /\ RowComesLast(call.api, Api[call.api].handler)
         /\ Steps = Api[call.api].handler.steps
         /\ call.step \in 1 .. Len(Steps) + 1
  BY RowsComeLast DEF CallOK, Steps

(* No request is running.                                                  *)
LEMMA InitRequests == RequestsInit => RequestsInv
  BY DEF RequestsInit, RequestsInv, CallOK, RowsKept, ErrorsKnown, NoCall,
         Nothing, Stages

(* A request that throws: what was in its transaction is rolled back.      *)
LEMMA ThrowStep ==
  ASSUME RequestsInv, NEW e, NEW b \in BOOLEAN,
         call.at \in {"guard", "pipes", "handler"},
         call' = [call EXCEPT !.at = "thrown", !.thrown = e, !.broke = b],
         written' = [open |-> {}, kept |-> written.kept],
         \/ ThrownBy(e) /\ "row" \notin written.kept
         \/ b /\ ("row" \in written.kept => call.api = "SendPasswordLink")
  PROVE  RequestsInv'
  <1>1. /\ call'.at = "thrown" /\ call'.api = call.api /\ call'.thrown = e
        /\ call'.broke = b /\ call'.step = call.step /\ call'.answer = call.answer
    BY DEF RequestsInv, CallOK
  <1>2. CallOK'
    BY <1>1 DEF RequestsInv, CallOK, Stages
  <1>3. RowsKept'
    BY <1>1 DEF RowsKept
  <1>4. ErrorsKnown'
    BY <1>1 DEF ErrorsKnown, ThrownBy
  <1> QED BY <1>2, <1>3, <1>4 DEF RequestsInv

(* The guard or a pipe refuses: nothing has been written yet.              *)
LEMMA RefusedEarly ==
  ASSUME RequestsInv, NEW e, call.at \in {"guard", "pipes"}, written' = written,
         e \in Api[call.api].route.guard \cup Api[call.api].route.pipes,
         call' = Throw(e)
  PROVE  RequestsInv'
  <1>1. written = Nothing
    BY DEF RequestsInv, RowsKept
  <1>2. call' = [call EXCEPT !.at = "thrown", !.thrown = e, !.broke = call.broke]
        /\ call.broke \in BOOLEAN
    BY DEF RequestsInv, CallOK, Throw
  <1>3. ThrownBy(e)
    BY DEF ThrownBy, MayThrow
  <1> QED BY <1>1, <1>2, <1>3, ThrowStep DEF Nothing

(* Every step keeps the invariant.                                         *)
LEMMA NextRequests == RequestsInv /\ [RequestsNext]_requestVars => RequestsInv'
  <1> SUFFICES ASSUME RequestsInv, [RequestsNext]_requestVars PROVE RequestsInv'
    OBVIOUS
  <1> DEFINE h == Api[call.api].handler
  <1>t. CallOK /\ RowsKept /\ ErrorsKnown
    BY DEF RequestsInv
  <1>h. call.at = "handler" =>
          /\ call.api \in DOMAIN Api /\ RowComesLast(call.api, h)
          /\ Steps = h.steps /\ call.step \in 1 .. Len(Steps) + 1
          /\ Len(Steps) \in 0 .. 8
    BY <1>t, StepsOfCall DEF RowComesLast
  <1> HIDE DEF h
  <1>1. CASE UNCHANGED requestVars
    BY <1>1 DEF requestVars, RequestsInv, CallOK, RowsKept, ErrorsKnown,
                ThrownBy, Steps
  <1>2. ASSUME NEW api \in DOMAIN Api, Receive(api) PROVE RequestsInv'
    <2>1. call' = [NoCall EXCEPT !.api = api, !.at = "guard"] /\ written' = Nothing
      BY <1>2, <1>t DEF Receive, RowsKept
    <2>2. call' = [api |-> api, at |-> "guard", step |-> 0, thrown |-> ServerError,
                   broke |-> FALSE, answer |-> <<200, "OK">>]
      BY <2>1 DEF NoCall
    <2>3. CallOK'
      <3>1. /\ call'.api = api /\ call'.at = "guard" /\ call'.thrown = ServerError
            /\ call'.answer = <<200, "OK">>
        BY ONLY <2>2
      <3> HIDE DEF ServerError
      <3>2. call' \in [api : DOMAIN Api \cup {"none"}, at : Stages \cup {"idle"},
                       step : 0 .. 9, thrown : {call'.thrown}, broke : BOOLEAN,
                       answer : {call'.answer}]
        BY ONLY <2>2, <3>1, api \in DOMAIN Api DEF Stages
      <3>3. written' \in [open : SUBSET {"row"}, kept : SUBSET {"row", "file", "mail", "job"}]
        BY ONLY <2>1 DEF Nothing
      <3> QED BY ONLY <3>1, <3>2, <3>3, api \in DOMAIN Api DEF CallOK
    <2> QED BY <2>1, <2>2, <2>3 DEF RequestsInv, RowsKept, ErrorsKnown, Nothing
  <1>3. CASE PassGuard
    <2>1. call.at = "guard" /\ written = Nothing /\ written' = written
      BY <1>3, <1>t DEF PassGuard, RowsKept
    <2>2. CASE call' = [call EXCEPT !.at = "pipes"]
      BY <2>1, <2>2, <1>t
      DEF RequestsInv, CallOK, RowsKept, ErrorsKnown, Nothing, Stages
    <2> QED BY <1>3, <2>1, <2>2, RefusedEarly DEF PassGuard
  <1>4. CASE PassPipes
    <2>1. call.at = "pipes" /\ written = Nothing /\ written' = written
      BY <1>4, <1>t DEF PassPipes, RowsKept
    <2>2. CASE call' = [call EXCEPT !.at = "handler", !.step = 1]
      <3>1. call.api \in DOMAIN Api
        BY <2>1, <1>t DEF CallOK
      <3>2. call'.api = call.api /\ call'.step = 1 /\ call'.at = "handler"
        BY <2>2, <1>t DEF CallOK
      <3>3. Len(Steps') \in 0 .. 8
        <4>1. RowComesLast(call.api, Api[call.api].handler)
          BY <3>1, RowsComeLast
        <4>2. Steps' = Api[call.api].handler.steps
          BY <3>2 DEF Steps
        <4>3. Len(Api[call.api].handler.steps) \in 0 .. 8
          BY ONLY <4>1 DEF RowComesLast
        <4> QED BY ONLY <4>2, <4>3, Zenon
      <3>4. CallOK'
        <4>1. call.step \in 0 .. 9 /\ call' = [call EXCEPT !.at = "handler", !.step = 1]
          BY ONLY <2>2, <1>t DEF CallOK
        <4>2. call' \in [api : DOMAIN Api \cup {"none"}, at : Stages \cup {"idle"},
                         step : 0 .. 9, thrown : {call'.thrown}, broke : BOOLEAN,
                         answer : {call'.answer}]
          <5>1. call \in [api : DOMAIN Api \cup {"none"}, at : Stages \cup {"idle"},
                          step : 0 .. 9, thrown : {call.thrown}, broke : BOOLEAN,
                          answer : {call.answer}]
            BY ONLY <1>t DEF CallOK
          <5>2. call'.thrown = call.thrown /\ call'.answer = call.answer
            BY ONLY <4>1, <5>1
          <5>3. /\ call'.api = call.api /\ call'.at = "handler" /\ call'.step = 1
                /\ call'.broke = call.broke
            BY ONLY <4>1, <5>1
          <5>4. call' = [api |-> call'.api, at |-> call'.at, step |-> call'.step,
                         thrown |-> call'.thrown, broke |-> call'.broke,
                         answer |-> call'.answer]
            BY ONLY <4>1, <5>1
          <5>5. call.api \in DOMAIN Api \cup {"none"} /\ call.broke \in BOOLEAN
            BY ONLY <5>1
          <5>6. "handler" \in Stages \cup {"idle"} /\ 1 \in 0 .. 9
            BY DEF Stages
          <5> QED BY ONLY <5>3, <5>4, <5>5, <5>6
        <4>3. call'.step \in 1 .. Len(Steps') + 1
          BY ONLY <3>2, <3>3
        <4>4. call'.api \in DOMAIN Api
          BY ONLY <3>1, <3>2
        <4>5. written' \in [open : SUBSET {"row"}, kept : SUBSET {"row", "file", "mail", "job"}]
          BY ONLY <2>1, <1>t DEF CallOK
        <4> QED BY ONLY <4>2, <4>3, <4>4, <4>5 DEF CallOK
      <3> QED BY <2>1, <3>2, <3>4 DEF RequestsInv, RowsKept, ErrorsKnown, Nothing
    <2> QED BY <1>4, <2>1, <2>2, RefusedEarly DEF PassPipes
  <1>5. CASE Check
    <2>1. /\ call.at = "handler" /\ call.step \in 1 .. Len(Steps)
          /\ Steps[call.step].does = "refuse"
      BY <1>5, <1>h DEF Check
    <2>2. CASE call' = [call EXCEPT !.step = @ + 1] /\ written' = written
      <3>1. call'.api = call.api /\ call'.step = call.step + 1 /\ call'.at = "handler"
        BY <2>1, <2>2, <1>t DEF CallOK
      <3>2. Steps' = Steps
        BY <3>1 DEF Steps
      <3>3. call.step + 1 \in 1 .. Len(Steps) + 1 /\ call.step + 1 \in 0 .. 9
        BY <2>1, <1>h
      <3>4. CallOK'
        BY <2>1, <2>2, <3>1, <3>2, <3>3, <1>t DEF CallOK
      <3> QED BY <2>1, <2>2, <3>1, <3>2, <3>3, <3>4, <1>t
              DEF RequestsInv, RowsKept, ErrorsKnown
    <2>3. CASE call' = Throw(Steps[call.step].with) /\ Keep({})
      <3> DEFINE e == Steps[call.step].with
      <3>1. "row" \notin written.kept
        BY <2>1, <1>t, <1>h DEF RowsKept, RowComesLast, h
      <3>2. ThrownBy(e)
        BY <2>1, <1>h DEF ThrownBy, MayThrow, RefusedWith, h
      <3> HIDE DEF e
      <3>3. call' = [call EXCEPT !.at = "thrown", !.thrown = e, !.broke = call.broke]
            /\ call.broke \in BOOLEAN
        BY <2>3, <1>t DEF CallOK, Throw, e
      <3>4. written' = [open |-> {}, kept |-> written.kept]
        BY <2>3, <1>t DEF Keep
      <3> QED BY <2>1, <3>1, <3>2, <3>3, <3>4, ThrowStep
    <2> QED BY <1>5, <2>2, <2>3 DEF Check
  <1>6. CASE Change
    <2> DEFINE effect == Steps[call.step].does
    <2>1. /\ call.at = "handler" /\ call.step \in 1 .. Len(Steps)
          /\ effect # "refuse" /\ effect \in {"row", "file", "mail", "job"}
          /\ call' = [call EXCEPT !.step = @ + 1]
      BY <1>6, <1>h DEF Change, RowComesLast, Steplike
    <2>2. written' = IF h.tx /\ effect = "row"
                     THEN [written EXCEPT !.open = @ \cup {effect}]
                     ELSE [written EXCEPT !.kept = @ \cup {effect}]
      BY <1>6 DEF Change, h
    <2> HIDE DEF effect
    <2>3. call'.api = call.api /\ call'.step = call.step + 1 /\ call'.at = "handler"
      BY <2>1, <1>t DEF CallOK
    <2>4. Steps' = Steps
      BY ONLY <2>3 DEF Steps
    <2>5. call.step + 1 \in 1 .. Len(Steps) + 1 /\ call.step + 1 \in 0 .. 9
      <3>1. call.step \in 1 .. Len(Steps) /\ Len(Steps) \in 0 .. 8
        BY ONLY <2>1, <1>h
      <3>2. \A s, n : s \in 1 .. n /\ n \in 0 .. 8 =>
                       s + 1 \in 1 .. n + 1 /\ s + 1 \in 0 .. 9
        OBVIOUS
      <3> QED BY ONLY <3>1, <3>2, Zenon
    <2>6. /\ written' \in [open : SUBSET {"row"},
                           kept : SUBSET {"row", "file", "mail", "job"}]
          /\ "row" \in written'.kept =>
               "row" \in written.kept \/ (~h.tx /\ effect = "row")
      BY <2>1, <2>2, <1>t DEF CallOK
    <2>7. CallOK'
      BY <2>1, <2>3, <2>4, <2>5, <2>6, <1>t DEF CallOK
    <2>8. RowsKept'
      <3>1. ASSUME "row" \in written'.kept
            PROVE  ~h.tx /\ \E i \in 1 .. Len(Steps) :
                              i < call.step + 1 /\ Steps[i].does = "row"
        <4>1. CASE "row" \in written.kept
          BY <4>1, <2>1, <2>5, <1>t, <1>h DEF RowsKept, h
        <4>2. CASE ~h.tx /\ effect = "row"
          BY <4>2, <2>1, <2>5, <1>h DEF effect
        <4> QED BY <3>1, <4>1, <4>2, <2>6
      <3> QED BY <2>3, <2>4, <3>1 DEF RowsKept, h
    <2> QED BY <2>3, <2>7, <2>8 DEF RequestsInv, ErrorsKnown
  <1>7. CASE Finish
    <2>1. /\ call.at = "handler" /\ call' = Answer(<<200, "OK">>)
          /\ written' = [open |-> {}, kept |-> written.kept \cup written.open]
      BY <1>7 DEF Finish, Keep
    <2>2. call'.api = call.api /\ call'.at = "answered" /\ call'.answer = <<200, "OK">>
      BY <2>1, <1>t DEF CallOK, Answer
    <2>3. CallOK'
      BY <2>1, <2>2, <1>t DEF CallOK, Answer, Stages
    <2> QED BY <2>2, <2>3 DEF RequestsInv, RowsKept, ErrorsKnown
  <1>8. CASE BreakCall
    <2>1. /\ call.at = "handler" /\ (call.step <= Len(Steps) \/ h.tx)
          /\ written' = [open |-> {}, kept |-> written.kept]
      BY <1>8, <1>t DEF BreakCall, Keep, h
    <2>2. call' = [call EXCEPT !.at = "thrown", !.thrown = Domain("unknown"),
                               !.broke = TRUE]
      BY <1>8, <1>t DEF BreakCall, Throw, CallOK
    <2>3. "row" \in written.kept => call.api = "SendPasswordLink"
      BY <2>1, <1>t, <1>h DEF RowsKept, RowComesLast, h
    <2> QED BY <2>1, <2>2, <2>3, ThrowStep
  <1>9. CASE Catch
    <2>1. /\ call.at = "thrown" /\ written' = written
          /\ call' = Answer(Filter(Translate(call.thrown, Api[call.api].route.maps)))
      BY <1>9 DEF Catch
    <2> DEFINE a == Filter(Translate(call.thrown, Api[call.api].route.maps))
    <2> HIDE DEF a
    <2>2. /\ call'.api = call.api /\ call'.at = "answered" /\ call'.answer = a
          /\ call'.thrown = call.thrown /\ call'.broke = call.broke
      BY <2>1, <1>t DEF CallOK, Answer, a
    <2>3. CallOK'
      BY <2>1, <2>2, <1>t DEF CallOK, Answer, Stages
    <2>4. RowsKept'
      BY <2>1, <2>2, <1>t DEF RowsKept
    <2>5. ErrorsKnown'
      BY <2>1, <2>2, <1>t DEF ErrorsKnown, ThrownBy, a
    <2> QED BY <2>3, <2>4, <2>5 DEF RequestsInv
  <1>10. CASE Close
    BY <1>10 DEF Close, RequestsInv, CallOK, RowsKept, ErrorsKnown, NoCall,
                 Nothing, Stages
  <1> QED BY <1>1, <1>2, <1>3, <1>4, <1>5, <1>6, <1>7, <1>8, <1>9, <1>10
          DEF RequestsNext, RequestsStep

(* The requests keep their types: no handler has more than eight steps.    *)
THEOREM RequestsTypeCorrect == RequestsSpec => []RequestsTypeOK
  <1>1. RequestsInv => RequestsTypeOK
    BY DEF RequestsInv, CallOK, RequestsTypeOK
  <1> QED BY <1>1, InitRequests, NextRequests, PTL DEF RequestsSpec

(* Whatever fails in a request, and wherever: one that is answered by an   *)
(* error has left no row, but for the token of a link that was not mailed. *)
THEOREM NoRowOfAnError == RequestsSpec => []ErrorLeavesNoRow
  <1>1. RequestsInv => ErrorLeavesNoRow
    BY DEF RequestsInv, RowsKept, ErrorLeavesNoRow, Failed
  <1> QED BY <1>1, InitRequests, NextRequests, PTL DEF RequestsSpec

(* Every refusal is one of the document of its endpoint, or of those known *)
(* to be left out of it.                                                   *)
THEOREM EveryErrorIsDocumented == RequestsSpec => []EveryAnswerIsDocumented
  <1>1. ASSUME RequestsInv, Failed, ~call.broke
        PROVE  \/ call.thrown = ServerError
               \/ call.answer \in Promised(call.api)
               \/ call.api \in Hidden /\ call.answer[1] # 500
               \/ <<call.api, call.answer>> \in Undocumented
    <2>1. /\ call.api \in DOMAIN Api
          /\ ThrownBy(call.thrown)
          /\ call.answer = Filter(Translate(call.thrown, Api[call.api].route.maps))
      BY <1>1 DEF RequestsInv, CallOK, ErrorsKnown, Failed
    <2>2. MayAnswer(call.api, Api[call.api].route.maps, Api[call.api].documented,
                    call.thrown)
      <3> PICK api \in DOMAIN Api : api = call.api
        BY <2>1
      <3>1. AnswersOf(api, Api[api].route, Api[api].handler, Api[api].documented)
        BY ONLY AllMayBeAnswered, Zenon
      <3>2. call.thrown \in MayThrow(Api[api].route, Api[api].handler)
        BY <2>1 DEF ThrownBy
      <3>3. MayAnswer(api, Api[api].route.maps, Api[api].documented, call.thrown)
        BY ONLY <3>1, <3>2, Zenon DEF AnswersOf
      <3> QED BY <3>3
    <2> PICK api \in DOMAIN Api : api = call.api
      BY ONLY <2>1
    <2>3. MayAnswer(api, Api[api].route.maps, Api[api].documented, call.thrown)
      BY ONLY <2>2, api = call.api, Zenon
    <2>4. call.answer = Filter(Translate(call.thrown, Api[api].route.maps))
      BY ONLY <2>1, api = call.api, Zenon
    <2> DEFINE a == Filter(Translate(call.thrown, Api[api].route.maps))
    <2>5. \/ call.thrown = ServerError
          \/ a \in Promised(api)
          \/ api \in Hidden /\ a[1] # 500
          \/ <<api, a>> \in Undocumented
      BY ONLY <2>3, AnswerIsKnown
    <2> HIDE DEF a
    <2>6. call.answer = a
      BY ONLY <2>4 DEF a
    <2> QED BY ONLY <2>5, <2>6, api = call.api, Zenon
  <1>2. RequestsInv => EveryAnswerIsDocumented
    BY <1>1 DEF EveryAnswerIsDocumented
  <1> QED BY <1>2, InitRequests, NextRequests, PTL DEF RequestsSpec
-----------------------------------------------------------------------------
(* The composition runs the post and its files as PostFiles says it does,  *)
(* the fairness of the server included.                                    *)
LEMMA ServicesRunFiles == ServicesSpec => FilesFairSpec
  <1>1. ServicesInit => FilesInit
    BY DEF ServicesInit
  <1>2. [ServicesNext]_serviceVars => [FilesNext]_filesVars
    BY DEF ServicesNext, serviceVars, FilesRest
  <1> QED BY <1>1, <1>2, PTL DEF ServicesSpec, FilesFairSpec, FilesSpec

(* A request of any endpoint, as Requests says.                            *)
LEMMA ServicesRunRequests == ServicesSpec => RequestsSpec
  <1>1. ServicesInit => RequestsInit
    BY DEF ServicesInit
  <1>2. [ServicesNext]_serviceVars => [RequestsNext]_requestVars
    BY DEF ServicesNext, serviceVars, RequestsRest
  <1> QED BY <1>1, <1>2, PTL DEF ServicesSpec, RequestsSpec

(* The comments and their readers, as Comments says.                       *)
LEMMA ServicesRunComments == ServicesSpec => CommentsSpec
  <1>1. ServicesInit => CommentsInit
    BY DEF ServicesInit
  <1>2. [ServicesNext]_serviceVars => [CommentsNext]_commentVars
    BY DEF ServicesNext, serviceVars, CommentsRest
  <1> QED BY <1>1, <1>2, PTL DEF ServicesSpec, CommentsSpec

(* The room and its sockets, as Chat says.                                 *)
LEMMA ServicesRunChat == ServicesSpec => ChatSpec
  <1>1. ServicesInit => ChatInit
    BY DEF ServicesInit
  <1>2. [ServicesNext]_serviceVars => [ChatNext]_chatVars
    BY DEF ServicesNext, serviceVars, ChatRest
  <1> QED BY <1>1, <1>2, PTL DEF ServicesSpec, ChatSpec

(* The portraits, as Portraits says.                                       *)
LEMMA ServicesRunPortraits == ServicesSpec => PortraitsSpec
  <1>1. ServicesInit => PortraitsInit
    BY DEF ServicesInit
  <1>2. [ServicesNext]_serviceVars => [PortraitsNext]_portraitVars
    BY DEF ServicesNext, serviceVars, PortraitsRest
  <1> QED BY <1>1, <1>2, PTL DEF ServicesSpec, PortraitsSpec

(* The tags of the posts, as PostTags says.                                *)
LEMMA ServicesRunTags == ServicesSpec => TagsSpec
  <1>1. ServicesInit => TagsInit
    BY DEF ServicesInit
  <1>2. [ServicesNext]_serviceVars => [TagsNext]_tagVars
    BY DEF ServicesNext, serviceVars, TagsRest
  <1> QED BY <1>1, <1>2, PTL DEF ServicesSpec, TagsSpec

(* Among the others each component does what it does alone: no step of one *)
(* is more than a stutter of another, whoever is in the scene.             *)
THEOREM EachRunsAsAlone ==
  ServicesSpec => /\ FilesFairSpec /\ RequestsSpec /\ CommentsSpec
                  /\ ChatSpec /\ PortraitsSpec /\ TagsSpec
  BY ServicesRunFiles, ServicesRunRequests, ServicesRunComments, ServicesRunChat,
     ServicesRunPortraits, ServicesRunTags

(* The components keep their types among the others.                       *)
THEOREM ServicesTypeCorrect == ServicesSpec => []ServicesTypeOK
  <1>1. ServicesInit => scene \in Scenes
    BY DEF ServicesInit
  <1>2. scene \in Scenes /\ [ServicesNext]_serviceVars => (scene \in Scenes)'
    BY DEF ServicesNext, serviceVars
  <1>3. ServicesSpec => [](scene \in Scenes)
    BY <1>1, <1>2, PTL DEF ServicesSpec
  <1>4. ServicesSpec => []FilesTypeOK
    BY ServicesRunFiles, FilesTypeCorrect, PTL DEF FilesFairSpec
  <1>5. ServicesSpec => []RequestsTypeOK /\ []CommentsTypeOK
    BY ServicesRunRequests, RequestsTypeCorrect, ServicesRunComments,
       CommentsTypeCorrect, PTL
  <1>6. ServicesSpec => []ChatTypeOK /\ []PortraitsTypeOK /\ []TagsTypeOK
    BY ServicesRunChat, ChatTypeCorrect, ServicesRunPortraits,
       PortraitsTypeCorrect, ServicesRunTags, TagsTypeCorrect, PTL
  <1> QED BY <1>3, <1>4, <1>5, <1>6, PTL DEF ServicesTypeOK

(* The files and the thumbnail of a post, the rows and answers of a        *)
(* request that fails, the pages of a reader, the messages of a client,    *)
(* the portraits and the tags: what is proved of each component alone      *)
(* holds in the composition.                                               *)
THEOREM ServicesSafe ==
  ServicesSpec =>
    [](/\ RowHasFile /\ ContentsHaveFiles /\ LastPatchShows
       /\ ListedAreLinked /\ NothingIsLeft /\ ThumbnailHasFile
       /\ ErrorLeavesNoRow /\ EveryAnswerIsDocumented
       /\ CursorWalkIsComplete /\ OffsetWalkIsComplete
       /\ NoMessageMissed /\ PortraitHasFile /\ OldPortraitIsRemoved
       /\ PostTagsAreLast)
  <1>1. ServicesSpec => [](/\ RowHasFile /\ ContentsHaveFiles /\ LastPatchShows
                           /\ ListedAreLinked /\ NothingIsLeft /\ ThumbnailHasFile)
    BY ServicesRunFiles, RowsHaveFiles, ContentsKeepFiles, LastPatchStays,
       ListedAreMoved, RestIsGone, ThumbnailKeepsFile, PTL DEF FilesFairSpec
  <1>2. ServicesSpec => [](ErrorLeavesNoRow /\ EveryAnswerIsDocumented)
    BY ServicesRunRequests, NoRowOfAnError, EveryErrorIsDocumented, PTL
  <1>3. ServicesSpec => [](CursorWalkIsComplete /\ OffsetWalkIsComplete)
    BY ServicesRunComments, CursorWalkShowsAll, OffsetWalkShowsAll, PTL
  <1>4. ServicesSpec => [](/\ NoMessageMissed /\ PortraitHasFile
                           /\ OldPortraitIsRemoved /\ PostTagsAreLast)
    BY ServicesRunChat, NothingMissed, ServicesRunPortraits, PortraitsHaveFiles,
       OldPortraitsGo, ServicesRunTags, TagsAreLast, PTL
  <1> QED BY <1>1, <1>2, <1>3, <1>4, PTL
=============================================================================
