----------------------------- MODULE Endpoints -----------------------------
(***************************************************************************)
(* The endpoints of the HTTP interface.  Of each: its route (the guard and *)
(* the pipes before the controller's method, and the domain errors that    *)
(* method translates), its handler (what it may refuse, in order, and what *)
(* it writes), and the refusals its swagger decorator promises.            *)
(*                                                                         *)
(* Left out: reads that refuse nothing, the second of two refusals that    *)
(* are thrown alike, and refusals of what the handler has just read.       *)
(***************************************************************************)
EXTENDS Sequences

(* What is thrown: an HttpException of the project, one of the framework,  *)
(* or an error of a domain service.                                        *)
Http(status, code) == [kind |-> "http", status |-> status, code |-> code]
Nest(status, code) == [kind |-> "nest", status |-> status, code |-> code]
Domain(name)       == [kind |-> "domain", status |-> 0, code |-> name]

Unauthorized(code) == Http(401, code)
Forbidden(code)    == Http(403, code)
Conflict(code)     == Http(409, code)
BadParameter  == Http(400, "INVALID_REQUEST_PARAMETER")
NotJson       == Http(400, "INVALID_JSON_FORMAT")
InvalidToken  == Unauthorized("INVALID_TOKEN")
NotFound      == Http(404, "RESOURCE_NOT_FOUND")
Unprocessable == Http(422, "RESOURCE_NOT_FOUND")
Denied        == Forbidden("PERMISSION_DENIED")
NotPart       == Forbidden("YOU_ARE_NOT_PART_OF_A_CONNECTION")
NoConnection  == Forbidden("YOU_DO_NOT_HAVE_AN_ACCEPTED_CONNECTION")
BlogExists    == Conflict("YOU_ALREADY_HAVE_A_BLOG")
ServerError   == Http(500, "SERVER_ERROR")
-----------------------------------------------------------------------------
(* Pipes *)
IdParam    == {BadParameter}
EmailParam == {BadParameter}
UuidParam  == {Nest(400, "BAD_REQUEST")}
Body       == {BadParameter}
NotEmpty   == {BadParameter}
ColonQuery == {NotJson, BadParameter}

(* The guard's refusals *)
BasicGuard    == {Unauthorized("INVALID_REQUEST_PARAMETER"), InvalidToken}
RefreshGuard  == {InvalidToken}
AccessGuard   == {InvalidToken}
OptionalGuard == {}
Public        == {}

NoErrors == [e \in {} |-> ServerError]

Route(guard, pipes) == [guard |-> guard, pipes |-> pipes, maps |-> NoErrors]

Mapping(route, maps) == [route EXCEPT !.maps = maps]

(* What a handler does, one after the other: it refuses with an error, or  *)
(* it writes a row, changes a file in S3, sends a mail or starts a         *)
(* detached job.  With @Transactional its rows are committed at the end.   *)
Refuses(thrown) == [does |-> "refuse", with |-> thrown]
Does(effect)    == [does |-> effect, with |-> ServerError]

Writes   == Does("row")
Stores   == Does("file")
Mails    == Does("mail")
Detaches == Does("job")

Handler(steps)       == [tx |-> FALSE, steps |-> steps]
Transactional(steps) == [tx |-> TRUE, steps |-> steps]
-----------------------------------------------------------------------------
(* Accounts *)

SignUp_route == Route(Public, Body)
SignUp_handler ==
  Transactional(<<Refuses(Conflict("ALREADY_CREATED_USER")), Writes, Detaches>>)
SignUp_documented == {BadParameter, Conflict("ALREADY_CREATED_USER")}

SignIn_route == Route(BasicGuard, {})
SignIn_handler == Handler(<<Refuses(Unauthorized("WRONG_EMAIL_OR_PASSWORD"))>>)
SignIn_documented == BasicGuard \cup {Unauthorized("WRONG_EMAIL_OR_PASSWORD")}

Refresh_route == Route(RefreshGuard, {})
Refresh_handler == Handler(<<Refuses(InvalidToken)>>)
Refresh_documented == {InvalidToken}

FindUsers_route == Route(AccessGuard, ColonQuery)
FindUsers_handler == Handler(<<>>)
FindUsers_documented == {NotJson, BadParameter, InvalidToken}

FindMe_route == Route(AccessGuard, {})
FindMe_handler == Handler(<<Refuses(NotFound)>>)
FindMe_documented == {NotFound, InvalidToken}

SendVerificationEmail_route == Route(AccessGuard, {})
SendVerificationEmail_handler ==
  Transactional(<<Refuses(NotFound), Refuses(Conflict("ALREADY_VERIFIED_EMAIL")),
    Refuses(ServerError),
    Refuses(Conflict("CANNOT_RESEND_VERIFICATION_EMAIL_AN_HOUR")),
    Writes, Mails>>)
SendVerificationEmail_documented ==
  {Conflict("ALREADY_VERIFIED_EMAIL"),
   Conflict("CANNOT_RESEND_VERIFICATION_EMAIL_AN_HOUR"), NotFound, InvalidToken}

SendPasswordLink_route == Route(Public, EmailParam \cup Body)
SendPasswordLink_handler ==
  Handler(<<Refuses(NotFound),
    Refuses(Conflict("CANNOT_RESEND_PASSWORD_CHANGE_VERIFICATION_EMAIL_AN_HOUR")),
    Writes, Mails>>)
SendPasswordLink_documented ==
  {BadParameter, NotFound,
   Conflict("CANNOT_RESEND_PASSWORD_CHANGE_VERIFICATION_EMAIL_AN_HOUR")}

VerifyEmail_route == Route(Public, IdParam \cup UuidParam)
VerifyEmail_handler ==
  Transactional(<<Refuses(NotFound), Refuses(Conflict("ALREADY_VERIFIED_EMAIL")),
    Refuses(ServerError), Refuses(Nest(401, "INVALID_EMAIL_VERIFY_TOKEN")),
    Refuses(Unauthorized("INVALID_EMAIL_VERIFY_TOKEN")),
    Refuses(Conflict("ALREADY_USED_EMAIL_VERIFY_TOKEN")), Writes, Writes>>)

(* Mutant: the transaction of the handler is missing.                      *)
UpdatePassword_handler_noTransaction ==
  Handler(<<Refuses(NotFound), Refuses(Denied),
    Refuses(Unauthorized("INVALID_PASSWORD_CHANGE_VERIFY_TOKEN")),
    Refuses(Conflict("ALREADY_USED_PASSWORD_CHANGE_VERIFY_TOKEN")),
    Writes, Writes>>)

UpdatePassword_route == Route(Public, IdParam \cup UuidParam \cup Body)
UpdatePassword_handler ==
  Transactional(<<Refuses(NotFound), Refuses(Denied),
    Refuses(Unauthorized("INVALID_PASSWORD_CHANGE_VERIFY_TOKEN")),
    Refuses(Conflict("ALREADY_USED_PASSWORD_CHANGE_VERIFY_TOKEN")),
    Writes, Writes>>)
UpdatePassword_documented ==
  {BadParameter, Conflict("ALREADY_USED_PASSWORD_CHANGE_VERIFY_TOKEN"), Denied,
   NotFound, Unauthorized("INVALID_PASSWORD_CHANGE_VERIFY_TOKEN")}

PatchUser_route == Route(AccessGuard, Body \cup NotEmpty)
PatchUser_handler ==
  Transactional(<<Refuses(NotFound), Writes, Writes, Stores>>)
PatchUser_documented == {BadParameter, NotFound, InvalidToken}

DeleteUser_route == Route(AccessGuard, {})
DeleteUser_handler == Transactional(<<Refuses(NotFound), Writes, Writes>>)
DeleteUser_documented == {NotFound, InvalidToken}

-----------------------------------------------------------------------------
(* Connections *)

CreateConnection_route == Route(AccessGuard, Body)
CreateConnection_handler ==
  Handler(<<Refuses(Http(400, "CANNOT_CREATE_CONNECTION_MYSELF")),
    Refuses(Conflict("REQUESTER_ALREADY_SENT_PENDING_CONNECTION")),
    Refuses(Forbidden("EMAIL_NOT_VERIFIED")),
    Refuses(Forbidden("CANNOT_CREATE_CONNECTION_TARGET_EMAIL_NOT_VERIFIED")),
    Refuses(Conflict("REQUESTER_ALREADY_HAVE_CONNECTION")),
    Refuses(Conflict("REQUESTED_USER_ALREADY_HAVE_CONNECTION")),
    Refuses(Unprocessable), Writes>>)
CreateConnection_documented ==
  {Http(400, "CANNOT_CREATE_CONNECTION_MYSELF"), BadParameter,
   Conflict("REQUESTED_USER_ALREADY_HAVE_CONNECTION"),
   Conflict("REQUESTER_ALREADY_HAVE_CONNECTION"),
   Conflict("REQUESTER_ALREADY_SENT_PENDING_CONNECTION"),
   Forbidden("CANNOT_CREATE_CONNECTION_TARGET_EMAIL_NOT_VERIFIED"),
   Forbidden("EMAIL_NOT_VERIFIED"), NotFound}

FindConnections_route == Route(AccessGuard, ColonQuery)
FindConnections_handler == Handler(<<>>)
FindConnections_documented == {NotJson, BadParameter, InvalidToken}

UpdateConnection_route == Route(AccessGuard, IdParam \cup Body)
UpdateConnection_handler ==
  Handler(<<Refuses(NotFound), Refuses(Denied),
    Refuses(Forbidden("CAN_ONLY_ACCEPT_CONNECTION_REQUEST_THAT_COME_TO_YOU")),
    Refuses(Forbidden("CAN_ONLY_REJECT_CONNECTION_REQUEST_THAT_COME_TO_YOU")),
    Refuses(Forbidden("CAN_ONLY_CANCEL_CONNECTION_REQUEST_THAT_YOU_SENT")),
    Writes>>)
UpdateConnection_documented ==
  {BadParameter, Conflict("CAN_ONLY_UPDATE_PENDING_CONNECTION"), Denied, NotFound,
   Forbidden("CAN_ONLY_ACCEPT_CONNECTION_REQUEST_THAT_COME_TO_YOU"),
   Forbidden("CAN_ONLY_REJECT_CONNECTION_REQUEST_THAT_COME_TO_YOU"),
   Forbidden("CAN_ONLY_CANCEL_CONNECTION_REQUEST_THAT_YOU_SENT")}

Disconnect_route == Route(AccessGuard, IdParam)
Disconnect_handler ==
  Transactional(<<Refuses(NotFound), Refuses(NotPart), Writes, Writes>>)
Disconnect_documented ==
  {BadParameter, NotPart, NotFound,
   Conflict("CANNOT_DISCONNECT_CONNECTION_REQUEST_NOT_ACCEPTED")}

-----------------------------------------------------------------------------
(* Blogs and posts *)

CreateBlog_route ==
  Mapping(Route(AccessGuard, Body),
    [e \in {"NoAcceptedConnection", "BlogAlreadyExists"} |->
       IF e = "BlogAlreadyExists" THEN BlogExists ELSE NoConnection])
CreateBlog_handler ==
  Transactional(<<Refuses(InvalidToken), Refuses(Domain("NoAcceptedConnection")),
    Refuses(Domain("BlogAlreadyExists")), Writes, Writes, Stores>>)
CreateBlog_documented ==
  {BadParameter, BlogExists, NoConnection, NotFound, InvalidToken}

FindBlog_route == Route(Public, IdParam)
FindBlog_handler == Handler(<<Refuses(NotFound)>>)
FindBlog_documented == {BadParameter, NotFound}

PatchBlog_route == Route(AccessGuard, IdParam \cup Body \cup NotEmpty)
PatchBlog_handler ==
  Transactional(<<Refuses(NotFound), Refuses(NotPart), Writes, Writes, Stores>>)
PatchBlog_documented == {BadParameter, NotPart, NotFound, InvalidToken}

(* Mutant: the controller does not translate the domain error.             *)
CreatePost_route_unmapped == Route(AccessGuard, IdParam \cup Body)

CreatePost_route ==
  Mapping(Route(AccessGuard, IdParam \cup Body),
          [e \in {"NotABlogMember"} |-> NotPart])
CreatePost_handler ==
  Transactional(<<Refuses(NotFound), Refuses(Domain("NotABlogMember")), Writes,
    Detaches>>)
CreatePost_documented == {BadParameter, NotPart, NotFound, InvalidToken}

FindPosts_route == Route(OptionalGuard, IdParam \cup ColonQuery)
FindPosts_handler == Handler(<<Refuses(NotFound), Refuses(NotPart)>>)
FindPosts_documented == {BadParameter, NotJson, NotPart, NotFound}

FindPost_route == Route(AccessGuard, IdParam)
FindPost_handler == Handler(<<Refuses(NotFound), Refuses(Denied)>>)
FindPost_documented == {BadParameter, NotPart, NotFound, InvalidToken}

FindPublicPosts_route == Route(Public, ColonQuery)
FindPublicPosts_handler == Handler(<<>>)
FindPublicPosts_documented == {BadParameter, NotJson}

PatchPost_route ==
  Mapping(Route(AccessGuard, IdParam \cup Body \cup NotEmpty),
          [e \in {"NotABlogMember"} |-> NotPart])
PatchPost_handler ==
  Transactional(<<Refuses(NotFound), Refuses(Domain("NotABlogMember")), Writes,
    Detaches>>)
PatchPost_documented == {BadParameter, NotPart, NotFound, InvalidToken}

DeletePost_route == Route(AccessGuard, IdParam)
DeletePost_handler ==
  Handler(<<Refuses(NotFound), Refuses(NotPart), Refuses(NotFound), Writes>>)
DeletePost_documented == {BadParameter, NotPart, NotFound, InvalidToken}

-----------------------------------------------------------------------------
(* Comments *)

CreateComment_route == Route(AccessGuard, IdParam \cup Body)
CreateComment_handler ==
  Handler(<<Refuses(InvalidToken), Refuses(Forbidden("EMAIL_NOT_VERIFIED")),
    Refuses(NotFound), Refuses(ServerError), Refuses(NotPart), Writes>>)
CreateComment_documented ==
  {BadParameter, InvalidToken, Forbidden("EMAIL_NOT_VERIFIED"), NotPart, NotFound}

FindComments_route == Route(OptionalGuard, IdParam \cup ColonQuery)
FindComments_handler == Handler(<<Refuses(NotFound), Refuses(NotPart)>>)
FindComments_documented == {BadParameter, NotJson, NotPart, NotFound}

PatchComment_route == Route(AccessGuard, IdParam \cup Body \cup NotEmpty)
PatchComment_handler == Handler(<<Refuses(NotFound), Refuses(Denied), Writes>>)
PatchComment_documented == {BadParameter, Denied, NotFound}

DeleteComment_route == Route(AccessGuard, IdParam)
DeleteComment_handler ==
  Handler(<<Refuses(NotFound), Refuses(Denied), Writes>>)
DeleteComment_documented == {BadParameter, Denied, NotFound}

-----------------------------------------------------------------------------
(* Chat and files *)

CreateRoom_route == Route(AccessGuard, {})
CreateRoom_handler ==
  Handler(<<Refuses(InvalidToken), Refuses(NoConnection),
    Refuses(Conflict("YOU_ALREADY_HAVE_A_CHAT_ROOM")), Writes>>)
CreateRoom_documented ==
  {BadParameter, Conflict("YOU_ALREADY_HAVE_A_CHAT_ROOM"), NoConnection, NotFound,
   InvalidToken}

FindRoom_route == Route(AccessGuard, {})
FindRoom_handler == Handler(<<Refuses(NotFound)>>)
FindRoom_documented == {NotFound, InvalidToken}

FindMessages_route == Route(AccessGuard, IdParam \cup ColonQuery)
FindMessages_handler == Handler(<<Refuses(NotFound), Refuses(Denied)>>)
FindMessages_documented ==
  {NotJson, BadParameter, Denied, NotFound, InvalidToken}

UploadFiles_route == Route(AccessGuard, Body)
UploadFiles_handler == Transactional(<<Writes, Stores>>)
UploadFiles_documented == {BadParameter, InvalidToken}

-----------------------------------------------------------------------------
Endpoint(route, handler, documented) ==
  [route |-> route, handler |-> handler, documented |-> documented]

(* The decorators of verifyEmail keep it out of the document.              *)
Hidden == {"VerifyEmail"}

Api == [
  SignUp |->
    Endpoint(SignUp_route, SignUp_handler,
             SignUp_documented),
  SignIn |->
    Endpoint(SignIn_route, SignIn_handler,
             SignIn_documented),
  Refresh |->
    Endpoint(Refresh_route, Refresh_handler,
             Refresh_documented),
  FindUsers |->
    Endpoint(FindUsers_route, FindUsers_handler,
             FindUsers_documented),
  FindMe |->
    Endpoint(FindMe_route, FindMe_handler,
             FindMe_documented),
  SendVerificationEmail |->
    Endpoint(SendVerificationEmail_route, SendVerificationEmail_handler,
             SendVerificationEmail_documented),
  SendPasswordLink |->
    Endpoint(SendPasswordLink_route, SendPasswordLink_handler,
             SendPasswordLink_documented),
  VerifyEmail |->
    Endpoint(VerifyEmail_route, VerifyEmail_handler,
             {}),
  UpdatePassword |->
    Endpoint(UpdatePassword_route, UpdatePassword_handler,
             UpdatePassword_documented),
  PatchUser |->
    Endpoint(PatchUser_route, PatchUser_handler,
             PatchUser_documented),
  DeleteUser |->
    Endpoint(DeleteUser_route, DeleteUser_handler,
             DeleteUser_documented),
  CreateConnection |->
    Endpoint(CreateConnection_route, CreateConnection_handler,
             CreateConnection_documented),
  FindConnections |->
    Endpoint(FindConnections_route, FindConnections_handler,
             FindConnections_documented),
  UpdateConnection |->
    Endpoint(UpdateConnection_route, UpdateConnection_handler,
             UpdateConnection_documented),
  Disconnect |->
    Endpoint(Disconnect_route, Disconnect_handler,
             Disconnect_documented),
  CreateBlog |->
    Endpoint(CreateBlog_route, CreateBlog_handler,
             CreateBlog_documented),
  FindBlog |->
    Endpoint(FindBlog_route, FindBlog_handler,
             FindBlog_documented),
  PatchBlog |->
    Endpoint(PatchBlog_route, PatchBlog_handler,
             PatchBlog_documented),
  CreatePost |->
    Endpoint(CreatePost_route, CreatePost_handler,
             CreatePost_documented),
  FindPosts |->
    Endpoint(FindPosts_route, FindPosts_handler,
             FindPosts_documented),
  FindPost |->
    Endpoint(FindPost_route, FindPost_handler,
             FindPost_documented),
  FindPublicPosts |->
    Endpoint(FindPublicPosts_route, FindPublicPosts_handler,
             FindPublicPosts_documented),
  PatchPost |->
    Endpoint(PatchPost_route, PatchPost_handler,
             PatchPost_documented),
  DeletePost |->
    Endpoint(DeletePost_route, DeletePost_handler,
             DeletePost_documented),
  CreateComment |->
    Endpoint(CreateComment_route, CreateComment_handler,
             CreateComment_documented),
  FindComments |->
    Endpoint(FindComments_route, FindComments_handler,
             FindComments_documented),
  PatchComment |->
    Endpoint(PatchComment_route, PatchComment_handler,
             PatchComment_documented),
  DeleteComment |->
    Endpoint(DeleteComment_route, DeleteComment_handler,
             DeleteComment_documented),
  CreateRoom |->
    Endpoint(CreateRoom_route, CreateRoom_handler,
             CreateRoom_documented),
  FindRoom |->
    Endpoint(FindRoom_route, FindRoom_handler,
             FindRoom_documented),
  FindMessages |->
    Endpoint(FindMessages_route, FindMessages_handler,
             FindMessages_documented),
  UploadFiles |->
    Endpoint(UploadFiles_route, UploadFiles_handler,
             UploadFiles_documented)]
=============================================================================
