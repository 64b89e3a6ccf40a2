# TLA+ models of honey-moa-server

honey-moa is a service for couples: two users connect, and a connection gives
them a shared blog and a chat room. The server is a NestJS application over
PostgreSQL (Prisma), with CQRS command handlers, aggregates that publish domain
events, S3 for files and an SMTP service for mails. The server itself keeps no
state between two requests except its sockets: everything a request decides is
read from the database, kept in objects of that request, and written back later.
What can go wrong is what happens between the reads and the writes.

## The system

| Component | State | Operations | Interacts with |
|---|---|---|---|
| user connections (`features/user/user-connection`) | rows of `user_connections`: two users, a status, deletedAt | create, accept, reject, cancel, disconnect | users (who may), publishes `UserConnectionDisconnected` |
| accounts (`features/user`) | `users`, `user_verify_tokens` | sign up, send and use the email token, send and use the password link, patch, delete | `UserCreated` (detached), the email service, connections (delete disconnects) |
| blog (`features/blog`) | `blogs`, one per connection | create, patch, delete by cascade | connections; `BlogCreated`, `BlogDeleted`, background image events |
| blog post (`features/blog-post`) | `blog_posts` and their attachments and tags | create, patch, delete, delete by cascade | blog; `BlogPostCreated`, `BlogPostUpdated`, thumbnail events |
| blog post comment | `blog_post_comments` | create, patch, delete | post, blog, users |
| tag | `tags`, unique names | create the missing ones | post |
| attachment (`features/attachment`) | `attachments`, objects in S3 | create, move, delete | events of user, blog and post; S3 |
| chat room (`features/chat-room`) | `chat_rooms`, one per connection | create, delete by cascade | connections; `ChatRoomDeleted` |
| chat message (`features/chat-message`) | `chat_messages`; sockets and their rooms | send, enter, delete by cascade | chat room, connections |
| auth | none (JWT) | sign and verify | users |
| libs | none | guards, pipes, transformers, pagination, event dispatch, error answers | everything |

Components call each other only inside a request. They share the database, and
they call back through domain events: `AggregateRoot.publishEvents` runs after a
repository has written, and waits for all handlers of the aggregate's events
together. Handlers with `suppressErrors: false` belong to the request and to its
transaction. Handlers with `async: true` are detached and run in a transaction of
their own (`Propagation.RequiresNew`), from the moment of the write, committed or
not, and their errors reach nobody.

What is hard:

* every handler reads, awaits, and writes a whole row back by id. Anything may
  happen in between (PROJECT.json lists where this bites);
* some handlers run in one database transaction, others in none;
* the cascade of a disconnect runs over four tables in one transaction, while
  requests go on filling these tables;
* the detached handlers are not ordered with the commit they follow from;
* mails and files are not undone when a transaction is.

What makes each component correct: a connection is answered once, by the user
who may, and a user has one partner; data disappears with its connection, all of
it, and stays away; a token proves one address of one user for one purpose;
requests end.

## Modules

| Module | Models |
|---|---|
| `ConnectionLifecycle` | abstract: a connection is requested, answered once, and only disconnected if accepted |
| `UserConnection` | `user_connections` and its four command handlers |
| `CoupleSpace` | EXTENDS `UserConnection`: blog, posts, room and messages, their handlers, and the cascade of event handlers inside the disconnect's transaction |
| `Account` | `users`, `user_verify_tokens`, the mails, and the detached handler of `UserCreated` |
| `PostFiles` | the files of one post: rows of `attachments` and `blog_post_attachments`, objects in S3, contents and thumbnail, the detached handlers of the post's events |
| `Portraits` | the picture of a user or a blog with its attachment and its object, replaced inside the request's transaction |
| `PostTags` | `tags` and `blog_post_tags`, and the awaited handlers that fill them |
| `Comments` | `blog_post_comments`, and a reader who walks through the pages, by cursor or by page number |
| `Chat` | sockets and rooms of the chat gateway, messages, and the history read over HTTP |
| `Endpoints` | of every HTTP endpoint: guard and pipes, what its handler refuses and writes, in order, what its controller translates, what its swagger decorator promises |
| `Requests` | EXTENDS `Endpoints`: the way of a request from the guard to the exception filters |
| `Services` | EXTENDS the seven above: all of them side by side |
| `MCUserConnection`, `MCCoupleSpace`, `MCAccount`, `MCServices` | symmetry sets for TLC; the values of the constants are in the cfg files |
| `UserConnectionProofs` | theorems about `UserConnection`, with overlapping requests and, from `OneAtATime` on, without |
| `CoupleSpaceProofs` | theorems about `CoupleSpace`, from those about `UserConnection` |
| `AccountProofs`, `PostFilesProofs`, `PortraitsProofs`, `PostTagsProofs` | theorems about the module they name |
| `ReadersProofs` | theorems about `Chat` and `Comments`: what a reader is shown is complete |
| `ServicesProofs` | theorems about `Requests`, and about `Services` from those about its components |

### How state and actions correspond to the code

A *worker* (`Workers`, in `CoupleSpace` also `Handlers`) runs one request. Its
record says which statement comes next (`pc`) and what earlier reads left in the
objects of the request, as far as later statements use it. One action is one
awaited database statement, with the code around it that runs without awaiting:

| Handler | Actions |
|---|---|
| CreateUserConnection | `CreateRead`, `CreateInsert` |
| UpdateUserConnection | `UpdateRead`, `UpdateReread`, `UpdateWrite` |
| DisconnectUserConnection | `DisconnectRead`, `DisconnectFind`, `TxLock`, (cascade), `TxCommit` |
| DeleteUser | `DeleteRead`, `TxLock`, (cascade), `TxCommit` |
| CreateBlog / PatchUpdateBlog | `BlogRead`, `BlogCheck`, `BlogInsert` / `PatchBlogRead`, `PatchBlogWrite` |
| CreateChatRoom / CreateChatMessage | `RoomRead`, `RoomCheck`, `RoomInsert` / `MessageRead`, `MessageCheck`, `MessageInsert` |
| CreateBlogPost / PatchUpdateBlogPost, DeleteBlogPost | `PostRead`, `PostInsert` / `EditRead`, `PostReread`, `PatchPostWrite`, `DeletePostWrite` |
| the four handlers of the cascade | `CascadeBlog` (blog, then its posts), `CascadeRoom` (room, then its messages), `SpaceCommit` |
| CreateUser, its event handler | `SignUpRead`, `SignUpInsert`, `SignUpCommit`; `EventInsert`, `EventMail`, `EventCommit` |
| SendVerificationEmail | `SendRead`, `SendUpdate`, `SendMail`, `SendCommit` |
| SendPasswordChangeVerificationEmail | `LinkRead`, `LinkInsert` or `LinkUpdate`, `LinkMail` |
| VerifyUserEmail, UpdateUserPassword, PatchUpdateUser, DeleteUser | `VerifyRead`, `VerifyCommit`; `ChangeRead`, `ChangeCommit`; `PatchRead`, `PatchCommit`; `DeleteRead`, `DeleteCommit` |
| CreateAttachments | `Upload` (`PostFiles`) |
| CreateBlogPost, PatchUpdateBlogPost, with their files | `CreateRead`, `CreateInsert` / `PatchRead`, `PatchUpdate`; `PostCommit`, `FailRequest` (`PostFiles`) |
| CreateContentsAttachments..., UpdateContentsAttachments... | `CreateContents`, `UpdateContents`: `FindContents`, `MoveContents`, `CommitContents` |
| DeleteAttachmentsWhenBlogPostUpdated | `DeleteRemoved`: `FindRemoved`, `DeleteFiles`, `CommitDelete` |
| the thumbnail handlers | `RemoveThumbnail`, `SetThumbnail`: `FindThumbnail`, `MoveThumbnail`, `CommitThumbnail` |
| PatchUpdateUser, CreateBlog, PatchUpdateBlog, with their picture | `EditRead` or `CreateOwner`, `WriteOwner`, `RemovePicture`, `AddPicture`, `CommitOwner`, `FailEdit` (`Portraits`) |
| CreateTagsWhen..., UpdateTagsWhen..., CreateNewTags | `WriteTaggedPost`, `UnlinkTags`, `FindTags`, `InsertTag`, `TagsInserted`, `LinkTags`, `CommitTags`, `RollBackTags` |
| Create-, PatchUpdate-, DeleteBlogPostComment | `CreateCommentRead`, `CreateCommentInsert`; `PatchCommentRead`, `PatchCommentWrite`; `DeleteCommentRead`, `DeleteCommentWrite` |
| FindBlogPostComments and the pagination interceptor | `CursorPage`; `OffsetFind`, `OffsetCount`, `OffsetAnswer`; `FindDeletedPost` |
| the chat gateway | `Connect`, `HandleConnection`, `HandleDisconnect`; `FindRoomToEnter`, `EnterChat`; `FindRoomToSend`, `CreateChatMessage`, `EmitMessage`; `Restart` |
| FindChatMessages | `ReadHistory` |
| guards, pipes, any handler, controllers, filters | `PassGuard`, `PassPipes`, `Check`, `Change`, `Finish`, `BreakCall`, `Catch` |

`Abort`, `SpaceAbort`, `HandlerAbort`, `EventAbort`, `FailRequest`, `FailJob`,
`FailEdit`, `RollBackTags`, `EndWriter` and `BreakCall` end a request or an event
handler before its next statement: a restart, a lost connection, a timeout, or an
event handler that throws. There is no state to recover after a restart; what it
leaves behind is what had been committed, and what S3 has done. Sockets do not
survive a restart; `Chat` has one (`Restart`) because its clients do.

### Assumptions about the environment

* PostgreSQL at READ COMMITTED, Prisma's default here. A statement sees what is
  committed. The writes of a transaction become visible at its commit. An UPDATE
  locks its row until then (`RowFree`, `BlogRowFree`, `PostRowFree`, `TokenFree`:
  no other transaction has the row locked). An INSERT takes only key-share locks
  on the rows it refers to, which such an UPDATE does not block.
* A query with `include` is one read. Prisma may send several statements for it.
* An answer with an error changes nothing. When the first read of a request fails
  a check, the request is no step of the model; when a later one does, the request
  returns to `Idle`.
* Unique indexes are there as in the schema and its migrations: one blog and one
  room per connection (of deleted ones too), one token per user and type. There is
  none on the address of a user: a migration of 2025-07-20 dropped it.
* `find` on a list whose query has no `orderBy` returns any member of the set.
* The email service accepts a mail or fails; what it accepts arrives or not.
* S3 carries a put, copy or delete out at once or fails, and no rollback undoes it.
* A unique name makes an INSERT of it wait for a transaction that has inserted the
  same, and fail when that commits (`InsertTag`); the foreign keys of links cascade.
* Ids are time-sorted and come from one server, as the chat and the pages assume.

### Abstractions

* Users, rows, addresses and token values are model values or numbers. Titles,
  contents, pictures and nicknames are left out.
* `UserConnection` takes who has verified the email as a constant; `Account`
  models how that comes about. It keeps no user row but `live`: the revival of a
  deleted account by an overlapping whole-row write is in `Account`.
* A connection names its blog and its room, as the unique indexes make it do.
* The cascade reads the blog and its posts in one step, and the room and its
  messages in one; blog and room come in either order.
* In `Account`, `verified` and `password` hold the token value they were set with.
  One flag, `old`, is both expiry and the interval of a resend: both are five
  minutes from the last UPDATE of the row (the trigger of the table sets
  updated_at, and only a create or a reissue leaves an unused token). A token
  value is used as long as a mail with it exists: a client can only present what
  was mailed.
* A reissued token is generated in the step that reads the row.
* In `PostFiles` a url is an attachment and the directory of its path. Of a body the
  model keeps the set of urls in its contents, those that are there more than once
  (`twice`), and its `fileUrls`, which nothing compares with the contents. What is
  moved and linked is what `fileUrls` list. `Replace` changes the first occurrence of
  an old url, as `String.replace` does: one that is there twice stays beside the new
  one. How far the two lists may differ is bounded (`Loose`). The author has one
  request out at a time (two patches that overlap are in `CoupleSpace`), and the
  jobs run beside it.
* `row[a] = "gone"` stands for a deleted row; identities of attachments are never
  used twice. In `Portraits` a picture nothing refers to may stand for a new one.
* A new row with its upload is one step in `PostFiles` (`Upload`), since nobody
  knows the url before its COMMIT.
* `Endpoints` gives what may be refused, not when: `Requests` takes any refusal.
  That a check refuses the right requests is what the other modules say. The second
  of two refusals that are thrown alike is left out, and so are reads that refuse
  nothing.
* In `Comments` the reader chooses the order of the pages: by id or by updatedAt,
  rising or falling. The order of createdAt is that of the id, as the server sets both
  when it makes a comment and neither changes; of several orders in one request the
  first decides, and without any Prisma takes the id of the cursor. A trigger sets
  updated_at on every UPDATE, each of which is a transaction of its own; `stamp` is
  that column and `clock` the time, one clock for server and database, on which no two
  writes fall together. The range of a cursor begins where the row of the cursor
  is when the page is read.
* The find of comments stands for the other paginated queries (posts, users,
  connections, messages), which share its base class, response builder, statements
  and orders.
* `ReadHistory` in `Chat` stands for asking for all the pages of the history: one query
  answers `take` rows. Messages are never taken out of the pages, and one inserted
  between two of them is emitted to whoever has entered.
* In `Chat` each of the two partners has one socket at a time.

Several properties have exceptions, and each exception is a history variable that
says what happened, never what the state should be: `past` in `PostFiles`
("broken", "rough", "undone", explained at `Trouble`), `unowned` in `Portraits`,
`stale`, `left`, `come`, `torn`, `moved` and `strayed` of the reader in `Comments`.
Each of them is a real weakness of the code, and the property says that there is no
other. Dropping an exception makes TLC show the weakness in question: two patches whose jobs
overlap leave the contents of the first; a file used in the contents and as the
thumbnail is deleted when it leaves one of them; a patch of a nickname brings a
deleted picture back; a deleted comment that is the cursor of a page hides the next,
and one that is updated while it is the cursor, in the order of updatedAt, hides all
that are left or shows them again.

Bounds, all in guards and all named: `RowsLeft`, `PostsLeft`, `MessagesLeft` (a
create starts only while an identity is left for its row), `MaxInFlight` (requests
at the same time in `CoupleSpace`), `MaxTokens` (token values in `Account`), and
the sizes of the constant sets. In `PostFiles` `MaxPosts` (requests that create or
patch the post), `MaxBehind` (jobs still running when one begins) and `OneBreak` (no
request begins and nothing fails after the first thing that is "broken": the
properties say nothing after that but `RowHasFile` and `JobsEnd`) and `MaxLoose` (urls
by which a body's `fileUrls` and contents differ, or that are there twice, one less
in each further request); `MaxComments`, `MaxChanges`; `MaxMessages`, `MaxSessions`.

## Runs

| Run | Instance | Shows |
|---|---|---|
| `UserConnection_concurrent` | 3 users, 2 rows, 2 requests | for overlapping requests: types; deletedAt agrees with status; what a request is about to write it is entitled to; only entitled moves |
| `UserConnection_locks` | 2 users, 1 row, 3 requests | every request ends |
| `UserConnection_stale_answer` | 2 users, 1 row, 2 requests | violated: only a PENDING row is answered |
| `UserConnection_two_accepted` | 3 users, 2 rows, 1 request | violated: a user has one accepted connection |
| `CoupleSpace_concurrent` | 3 users, 1 connection, 1 post, 1 message, 2 of 3 requests at a time | no blog or room without a connection that was once accepted; authors are parties; the cascade is all or nothing; the composition implements `UserConnection` |
| `CoupleSpace_serial` | 3 users, one of them unverified, 3 connections, 1 request | for requests that do not overlap: one request out per user and none crossing; the handlers implement `ConnectionLifecycle`; nothing live is left under a disconnected connection, nothing revives |
| `CoupleSpace_locks` | 2 users, 1 connection, a disconnect beside a request to the space | every request ends: edits that wait for a blog or a post the cascade has locked, and a disconnect with or without a blog and a room |
| `CoupleSpace_orphan_post` | 2 users, 1 connection, a disconnect beside a create | violated: a live post has a live blog |
| `Account_concurrent` | 2 accounts, 2 addresses, 2 requests, 2 tokens | a token acts only for the user, the address and the purpose it was mailed for; no stored email token is unsent |
| `Account_serial` | 2 accounts, 1 address, 1 request, 4 tokens | for requests that do not overlap: one live account per address; a link is used once; a live link stays; a deleted account is frozen |
| `Account_lost_token` | 1 account | violated: a user has an email token |
| `Services_side_by_side` | each component alone, see below | files, answers, pages, messages, pictures and tags: what is in the next table |

`Services_side_by_side` composes components that share no row, file or socket. A
step of one cannot be seen by another, so the product of their behaviours shows
nothing a single component does not; the variable `scene` fixes which one runs, and
the others rest. What is shared with other modules (the post, the room, the user,
the blog) is in each of them the one column its properties depend on, with the
steps others may take on it (`RemovePost`, `DeleteChatRoom`).

| Property | Says |
|---|---|
| `RowHasFile` | an attachment has its file, but for a deletion the database took back |
| `ContentsHaveFiles`, `LastPatchShows` | once the jobs of a patch are through, the images of the post can be shown and its contents are those of the last patch |
| `ListedAreLinked`, `NothingIsLeft`, `ThumbnailHasFile` | and, when nothing went wrong, what `fileUrls` listed is out of temp/ and linked, the post shows old urls only of what was not listed or is there twice, what was removed is gone (but for what `fileUrls` list beyond the contents), the thumbnail is there |
| `JobsEnd` | detached jobs end, whoever holds the rows they wait for |
| `EveryAnswerIsDocumented` | what an endpoint answers is what its decorator promises, with the exceptions `Undocumented` names |
| `ErrorLeavesNoRow` | an error answer means that no row was changed, but for the token of an unsent password link |
| `CursorWalkIsComplete`, `OffsetWalkIsComplete` | how many comments a walk through the pages can miss or repeat, in each order, and because of what |
| `NoMessageMissed` | who enters the room first and reads the history later has all messages |
| `PortraitHasFile`, `OldPortraitIsRemoved` | a picture that is shown exists, one that is not does not |
| `PostTagsAreLast` | a post has the tags of its last request, all of them |

Its bounds: two attachments, one image and one other file (`Images` matters to the
handler that deletes), three post requests, so that a file is added, replaced and
removed, one job left behind, and a first body that may list a file too many or too
few or show one twice; 2 writers, 4 comments, 2 changes and pages of 2, so that a
walk has two full pages and changes fall between and inside them; 2 partners with 2
sockets each and 2 messages; 2 requests and 3 pictures (an old one and a new one
each); 2 requests, posts and tag names, which is what a name or a post in common
needs. `Requests` has no bound: one request at a time through each of the endpoints.
Its properties are checked over 1.06 million states. Larger instances of single
components have been checked with the same properties: `PostFiles` with `MaxLoose` 3
(9.1 million states) and with one differing url in every request (13.5 million);
`Comments` with 6 comments and 3 changes in pages of 2 (11.1 million) and 4 comments
and 3 changes in pages of 1 (3.9 million).

Why the bounds are enough. Every race in these handlers is between a copy one
request holds and one write of another: two requests show it, and a third only
adds a waiting place at a lock, which `UserConnection_locks` has. Two rows are
needed for the checks that compare rows, three users for a user between two
others, three rows for a second and third request after an answered one. One
connection is enough for the races inside one space, as handlers touch only the
rows of one connection; `CoupleSpace_serial` has three because an account may start
again after a disconnect. Two accounts and two tokens are what a mix-up needs; four
tokens let one account receive, lose by age, and receive again.

The serial runs say what the code's checks guarantee on their own. Most of these
properties do not survive overlapping requests; the three violated runs on
overlap show how, and PROJECT.json says so at each hazard: there a property about
requests that do not overlap only says that the check is there and what it is worth. The property that
fails in `UserConnection_two_accepted` needs no overlap at all: accepting does
not check what creating does.

Each property has a mutant, an operator next to the one it changes, with the bug
that property is there to find.

Deadlock is not checked: the system may really stop, since every user may delete
the account, in `Account` the tokens are bounded, and so are ids, requests and
sockets in the components of `Services`.

Fairness. `FairSpec` and `SpaceFairSpec` assume strong fairness of the server's
steps for each request it has started (Node's event loop and the database go on),
and nothing about clients, failures or time. Strong and not weak only because a
step may wait for a row lock: PostgreSQL queues the waiting and serves them in
turn. In `CoupleSpace_locks` a patch or a deletion waits for rows the cascade has
locked, until that commits or is cut short: a transaction left open with its locks
is what `EverySpaceRequestEnds` finds, and so is a handler of the cascade that does not
return when there is no blog or room. `FilesFairness`
assumes weak fairness of the author's request and of the detached jobs taken
together; weak is enough because a job that waits for a row waits for another job
or for the request, and some step is always enabled. Failing (`FailJob`) is not
part of what is fair: `JobsEnd` holds because what cannot commit is refused.

## Findings

1. An answer overwrites an answer (`UserConnection_stale_answer`).
2. Two accepted connections (`UserConnection_two_accepted`).
3. A live post of a deleted blog (`CoupleSpace_orphan_post`).
4. A user without an email token, who cannot get one, since the resend only
   renews the token (`Account_lost_token`).

PROJECT.json has the lines and the words of the code each one contradicts.

One more disagreement needs no run: `user-error-message.constant.ts:10` and `:14`
answer a resend that comes too early with "Cannot resend ... for at least 1 hour", for
both kinds of token, and so do the names of the two codes (`..._AN_HOUR`), while the
code refuses it for five minutes (`user-verify-token.entity.ts:63-101`, which
`Account.MayReissue` follows).

## Proofs

TLAPS proves, for all values of the constants:

* `TypeCorrect`, `DeletedMeansTerminal`, `Entitled`: `TypeOK`,
  `DeletedIffTerminal` and `RequestsAreEntitled` are invariants, for any number of
  overlapping and aborted requests. They are proved together, as `IInv`: types need
  that a request holds a row that is there (`RequestsAreEntitled`), and that needs
  the types. `RequestStep` is the lemma for steps that change only a request,
  `RowStep` for steps that write a row and end a request; the proof of `NextIInv`
  has one step per action.
* `EntitledMovesOnly`: the action property, from `IInv`. Entitlement survives
  because a row keeps its two users: a stale check of *who* stays true, although a
  stale check of the *status* does not (finding 1).
* `SerialOneRequestOut` and `SerialLifecycle`, from the assumption `OneAtATime`
  (requests do not overlap). `SerialInv` adds to `IInv` that what the request in
  flight has read still holds (`ReadsAreCurrent`). `SerialLifecycle` maps initial
  states and every step to `ConnectionLifecycle`, with the status of a row as its
  phase.

* `SpaceImplements`: every step of `CoupleSpace` is a step of `UserConnection` or
  leaves its variables alone, so `IInv` and the theorems above hold of the
  composition too (`SpaceEntitled` is one of them).
* `SpaceTypeCorrect`, `SpaceOnlyAfterAnswer`, `AuthorsBelong`: `SpaceTypeOK`,
  `SpaceNeedsConnection` and `AuthorsAreParties` are invariants of `CoupleSpace`,
  proved together as `SpaceInv`. To `IInv` it adds what is left true of the reads a
  request made some statements ago (`KnowsItsRows`: an insert's connection was
  answered, a sender is a party, an edited post has a row) and of what the event
  handlers found (`FoundIsThere`). The argument is that rows are only
  soft-deleted, keep their users and place, and a connection does not return to
  PENDING (`ConnsStay`, `SpaceStays`): such facts cannot become stale, while "is
  live" and "is ACCEPTED" can, and are not in `SpaceInv`. `ReadStep`, `WriteStep`
  and `WorkerKeeps` carry the invariant over the three kinds of steps.
* `CascadeAllOrNothing`: the action property `CascadeIsAtomic`, from `SpaceInv`.
* `SerialLiveSpace`, `SerialPostHasBlog`, `SerialMessageHasRoom`,
  `SerialNothingRevives`: `LiveSpaceHasConnection`, `LivePostHasBlog`,
  `LiveMessageHasRoom` and `NothingRevives`, for `MaxInFlight = 1` and finite sets of
  workers and handlers. `SerialSpace` adds to `SpaceInv` that one request at most is
  in flight (`Alone`), that what it has read is still so (`WorkerKnows`,
  `HandlerKnows`: "is live" and "is ACCEPTED" now included), and that the event
  handlers of an open disconnect have found every live row there is. With a second
  request in flight a live post can outlive its blog (finding 3).

* `AccountTypeCorrect`, `OwnerProved`, `TokensWereMailed`: `TypeOK`,
  `OwnerProvedAddress` and `EmailTokenWasMailed` of `Account`, for overlapping
  requests and detached handlers. The inductive invariant says that every request
  is honest about the copy it holds (`RequestOK`: what it is about to write was
  proved by a mail), that events, rows and tokens are (`EventOK`, `UserOK`,
  `TokenOK`), and that a token value belongs to one user and kind for good
  (`Claims`), in whatever request, event, mail or row it is. An address never
  changes and tokens are never reused, so no stale copy can make that false.
* `SerialOneAccount`, `SerialLinkOnce`, `SerialLinkStays`, `SerialDeletedFrozen`:
  `OneAccountPerEmail`, `LinkIsUsedOnce`, `LiveLinkStays` and `DeletedIsFrozen`, from
  `OneAtATime`. The detached handlers still run beside the one request. `SerialInv`
  says that they disturb nothing it has read (`ReadsHold`), because the handler of
  `UserCreated` is the only one to make a user's first email token (`FirstTokens`).
* `FilesTypeCorrect`, `RowsHaveFiles`: `FilesTypeOK` and `RowHasFile` of `PostFiles`.
  The invariant adds that the jobs that have written rows have written different
  ones (`LocksExclude`), that a row once in the directory of posts stays there
  or is deleted, and that what a job has copied is there (`JobOK`). Without the
  locks one job could delete the file another has just copied. `JobGoes` and
  `JobEnds` are the lemmas for steps inside a job's transaction and for its end.
* `ContentsKeepFiles`, `LastPatchStays`, `ListedAreMoved`, `RestIsGone`,
  `ThumbnailKeepsFile`: what `PostFiles` promises once all jobs are through
  (`ContentsHaveFiles`, `LastPatchShows`, `ListedAreLinked`, `NothingIsLeft`,
  `ThumbnailHasFile`). The properties speak of states with no job; the invariant
  `SettledInv` has to speak of the states in between, of what the jobs that run will
  make of the post. It does so with the post they work towards (`Target`: the row
  that waits for its COMMIT, or the committed one). While `past` holds nothing
  `broken` (`Clean`), the one job that writes contents has those of `Target`
  (`JobsHaveTarget`), the files they name are in S3 (`FilesStay`), and no remover is
  about a file `Target` keeps or another job moves (`RemoversSpare`).
  While `past` is empty (`Smooth`), what its `fileUrls` list and is not linked has a job
  that links it, and what is linked is mentioned by its old url only if it was there
  twice (`ContentsAreLinked`); no remover is about what contents or `fileUrls` name
  (`NamedAreSpared`), the thumbnail is none of that (`ThumbIsAlone`), and what is moved
  and no more named has a job that removes it (`RestIsRemoved`). `ReplaceFacts` says
  which urls are in the contents after they were rewritten. `past` only grows, so each half need only survive steps after
  which nothing has gone wrong. `Begun` says what the author's UPDATE leaves the jobs
  to do; `JobGoesSettles` and `JobEndsSettles` are the steps of any job.
* `PortraitsTypeCorrect`, `PortraitsHaveFiles`, `OldPortraitsGo`: from `OneWrites`
  (one request at a time is behind its UPDATE, the row being locked) and
  `HandlersOf` (the handlers that run are those the written path calls for).
* `TagsTypeCorrect`, `TagsAreLast`: from the lock of the post's row, which orders
  the requests for one post, and from what a request knows of the tags it is about
  to link: they are committed, or it has inserted them itself.
* `ChatTypeCorrect`, `NothingMissed`: from `EnteredIsInRoom`, a client that was told
  it has entered is in the room, so that what is committed after it read the
  history is sent to it.
* `CommentsTypeCorrect`, `CursorWalkShowsAll`, `OffsetWalkShowsAll`: `CommentsTypeOK`,
  `CursorWalkIsComplete` and `OffsetWalkIsComplete`, for any number of comments and
  writers, any page size and each order. By cursor (`CursorInv`): a comment that stays
  and comes no later than the cursor has been shown (`Passed`), but for one per page
  with a deleted cursor (`PassedOver`). In the order of updatedAt the comments that
  were updated are set apart (`Unfound`): an UPDATE gives its row the greatest stamp
  there is (`StampsDiffer`, `UpdatedLast`), so it moves to one known end of the order,
  and no other pair of rows changes places (`Agree`). By page number (`OffsetInv`): the pages read reach up
  to a position; a comment that stays is missing only if its position has since come
  below the end of the pages read, and is shown twice only if it has since gone
  beyond. Positions in a set are one to one (`PositionOrders`), so that one comment
  that comes or goes moves one other at most across that end (`OneMovesAcross`), and one
  that is moved by an UPDATE does both (`OneMoves`): this is why the loss is counted by
  the changes, and it rests on the theorems about `Cardinality` of the library.
* `RequestsTypeCorrect`, `NoRowOfAnError`, `EveryErrorIsDocumented`: from
  `RequestsInv`. An error is one of those its guard, pipes or handler can throw, or
  the server's own (`ErrorsKnown`), and a request that has thrown keeps no row, since
  a row is kept before the end only without a transaction, and then by a step behind
  it (`RowsKept`). What this needs of the endpoints is proved of each of the 32 from
  its definition: a handler without a transaction refuses nothing after a row, and
  but for `SendPasswordLink` does nothing at all (`RowsComeLast`), and each error it
  may meet becomes an answer of its document or of `Undocumented`
  (`AllMayBeAnswered`, `AnswerIsKnown`). `Requests` has no constants: TLC sees all its
  states too. The proof says why, and which of the tables' facts matter.
* `EachRunsAsAlone`, `ServicesTypeCorrect`, `ServicesSafe`: `Services` implements the
  specification of each of its components, with the fairness of the jobs, and so its
  type invariant and every safety invariant of its run follow, for all constants.

TLC has checked `SettledInv` (2 attachments and 3 requests), `CommentsInv` (5 comments in pages of 2, 4 in pages of 1) and
`RequestsInv` (all states) as invariants before they were proved.

Assumptions on constants: `VerifiedAssumption`, `NoneAssumption`, `NoneIsNoRow`,
`NoneIsNoItem`, `NoneIsNoUrl`, `NoneIsNoPost`, `NoPictureAssumption` (`None` and
`NoPicture` are no user, identity, row, url or picture), `Partners` and `TagPosts`
are not empty, and bounds are natural numbers. TLC evaluates them in the runs.

Only model-checked: liveness (`EveryRequestEnds`, `EverySpaceRequestEnds`, `JobsEnd`),
which depends on fairness and so on ENABLED, and the prover does not reach that. The
four violated properties are TLC's as well.

## Answers the document of the interface leaves out

`Requests.Undocumented` names them: a missing token (401) at five endpoints whose
decorators omit it; 403 `PERMISSION_DENIED` for a private post (the decorator
promises `YOU_ARE_NOT_PART_OF_A_CONNECTION`); 422 instead of the documented 404 when
the requester of a connection is gone; and the link of a verification mail with a
wrong token, thrown as the framework's 401, which no filter takes and which is
answered by a 500. The last endpoint is hidden from the document.

## Not modelled

* Signing and verifying JWTs, and hashing of passwords: libraries that keep no state.
  Which guard stands where is in `Endpoints`.
* The shapes of requests and answers: DTOs, mappers, validators of single fields,
  and the predicates of `Guard`, which the DTOs make unreachable with a bad value.
  The colon query and its parsing are modelled by what they refuse.
* The texts and links of the mails and the SMTP transport behind the email service.
  What its two methods send, and that they may fail, is `Account.Mail` and the steps
  that send.
* Prisma, the request context, configuration, logging: infrastructure without state;
  what they promise is under the assumptions above.
* Which fields of a body pass the validation pipe. It drops its own options after each
  request (`custom-validation.pipe.ts:21`), so that unknown fields pass from the second
  request on; where a controller spreads the body behind the id of the caller, as
  `user-connection.controller.ts` does, such a field may take its place. In every
  module the user of a request is the one its token names.
* Migrations as steps, and deployment (Docker, nginx, CI): no program logic.
* Validation of uploaded files (type, size): no state depends on it.
* More than one server: sockets, rooms and ids are those of one process, as the code
  has it (no adapter between gateways).
