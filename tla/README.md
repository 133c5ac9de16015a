# Verification of test-acg-server

The server is a NestJS application (Node.js, one process) over MySQL (Sequelize)
and MongoDB (Mongoose). It signs users up and keeps their sessions, chats with a
remote model service, turns a chat into a course, and records visits of a landing
page. Handlers are asynchronous: each yields at every `await`, and between two
awaits of one handler any other handler may run. There are no transactions and no
locks, so that every check-then-write spans awaits. The modules here model those
interleavings, TLC checks them on small instances, and TLAPS proves the main
safety properties for every value of the constants.

Paths below are relative to the repository (`src/...`).

## 1. Inventory

| Component | Source | State | Operations | Module |
|---|---|---|---|---|
| Users | `src/users` | table `users` (unique `email`, `username`) | create, confirmEmail, update, updatePassword, resetPassword, delete, deleteByEmailDev, look-ups | Accounts |
| Auth | `src/auth` | the refresh cookie of each browser; access guard | signUp, confirmEmail, signIn, refreshTokenAccess, logout, resetPasswordEmail, resetPassword, updatePassword | Accounts, Sessions |
| Jwt | `src/jwt` | four secrets | generateToken, generateAuthTokens, verifyToken | Accounts |
| Common | `src/common` | none | validateEntity, saveEntity, removeEntity, error wrappers | Accounts |
| Mailer | `src/mailer` | mails in the transport | sendConfirmationEmail, sendResetPasswordEmail | Accounts |
| ApiService | `src/api` | token cache (in memory) | request, get, post, getAccessToken, refreshAccessToken, loginWithCredentials | ApiClient |
| Course | `src/course` | tables Course, Topic, Subtopic, SubtopicLink | createCourse and the calls below it; two reads | Courses |
| Landing | `src/landing` | collection `statistics`, cookie `id` | visit, getDemoClick, learnMoreClick, add-email | Landing |
| Chat | `src/chat` | tables Chat, Message, Plan | sendMessage, generatePlan, generateCourse; two reads | Chat |
| Csrf | `src/csrf` | cookie `_csrf` | draw a token, compare cookie and header | not modelled |
| Message | `src/message` | table Message, written by Chat only | generated stub, not registered | entity in Chat |
| Configuration | `src/config`, `src/main.ts`, `src/app.module.ts` | environment | wiring | constants and assumptions |

How they interact: AuthController drives AuthService, which calls UsersService,
JwtService and MailerService. UsersService saves and removes rows through
CommonService. ChatService and CourseService call the remote service through
ApiService, and ChatService.generateCourse calls CourseService.createCourse.
Landing is independent of the rest. What handlers share is the two databases, the
token cache, and the cookies of one browser.

What is hard here, by component, and what makes the component correct:

* **Users and Auth.** Two counts before an insert (`users.service.ts:24-34`), an
  entity loaded at one await and saved at a later one (`:47-94`,
  `common.service.ts:53`), a second look-up after a save (`auth.service.ts:65`),
  tokens nobody can revoke, mails that may be lost or arrive late, and a crash
  between the insert and the mail. Correct means: accounts are unique; confirmed
  means that the link was received; sessions are opened only for proven addresses;
  no save undoes another column or brings a removed account back; a removed
  account goes quiet. Browsers send requests that overtake each other, and answers
  set and clear one cookie (`auth.controller.ts:146, 262`): a logout that nothing
  overlapped is final.
* **Jwt.** A token carries a user id and no kind, so only the four secrets tell
  the kinds apart (`jwt.service.ts:143-173`).
* **ApiService.** Several calls share one cache, which two grants may write half
  and half (`api.service.ts:61-69`); tokens expire and are revoked while in hand.
  Correct means: one retry, always with a newer token, and every call ends.
* **Course.** `Promise.all` over calls that run on after a sibling failed, and
  link inserts that nobody awaits (`course.service.ts:96-100`). Correct means: no
  orphan rows, and an answered course is whole.
* **Landing.** No write is awaited (`landing.service.ts:21, 26, 29, 57`), so it is
  applied after the answer or never, and one failing write ends the process: on
  Node 20 an unhandled rejection is fatal. Correct means: nothing recorded is lost
  and an address is stored once.
* **Chat.** The history is read, the message is stored, the remote is asked, its
  answer is stored, a summary goes on to a plan (`chat.service.ts:61-109, 138-183`):
  seven awaits, any of which may fail or be the last before the process ends, and
  posts of one chat interleave at all of them. Messages are ordered by a
  `createdAt` of whole seconds. Correct means: an exchange is stored front to back;
  only overlapping posts miss each other; the order never reverses cause and
  effect; a plan does not give way to an older one; nothing is lost to a remote
  that stays silent.

`PROJECT.json` lists these hazards one by one, each at its line.

## 2. Modules and their correspondence to the code

| Module | Contents |
|---|---|
| `AccountLifecycle` | abstract specification: register, prove, activate, open a session, close |
| `AccountLifecycle_proof` | what the abstract specification promises |
| `Accounts` | the account service, refining AccountLifecycle |
| `Accounts_proof` | proofs about Accounts: the inductive invariant |
| `AccountsSteps_proof` | proofs about the steps of Accounts, and the refinement |
| `Sessions` | browsers with their refresh cookie in front of Accounts (composition) |
| `Sessions_proof` | proofs about Sessions: browsers and server implement Accounts |
| `ApiCall` | abstract specification of one call: at most two requests, one end |
| `ApiClient` | ApiService with its cache, refining ApiCall |
| `ApiClient_proof` | proofs about ApiClient |
| `Landing`, `Landing_proof` | the landing page and proofs about it |
| `Courses`, `Courses_proof` | createCourse and proofs about it |
| `Chat`, `Chat_proof` | posts, plans and orders of a chat, and proofs about them |
| `MC*` | instances for TLC: model values, symmetry, the shape of a plan |

**Granularity.** A step is what a handler does from one await to the next: the
result of the awaited statement and the local code that follows it, up to and
including the next call handed over. A statement on a database is atomic. A
handler's record (`h[r]`, `call[c]`, `stage[n]`) holds its await and what it
loaded, so that data read before an await really is stale after it.

**Accounts.** `users` is the table, `h[r]` the handler of request r with the entity
it loaded, `tokens` what somebody outside received, `mails` what is in the
transport. `owner` (the address an id was created for) and `answer` (the last
status) are histories. Each endpoint of AuthController and UsersController that
changes state is an action, and each of its later awaits another: SignUp,
CountUsername, Insert, SendMail; ConfirmEmail, Save, FindConfirmed, Mint; and so
on. Save is `validateEntity` and `Model.save`: it writes the changed column, and
nothing if the row is gone. `Fail` is a rejected statement, `Crash` the end of the
process. A client may present any token it received, also an old one or one of
another kind. Data is abstracted: addresses and user names are classes of
spellings that the collation does not tell apart, a hash is its password, and a
token is its kind and user id. Expiry is a refusal that may come at any time.
`Accepts` is the set of verdicts that entity validation may return: the runs take
both, and the locked class-validator gives only the rejecting one (see 6). A PATCH
without a name validates and saves an unchanged entity; `deleteByEmailDev` answers
204 also when its statement failed and the row is still there.

**Sessions.** It extends Accounts by what lies between a browser and a handler.
`jar[b]` is browser b's cookie jar, `trip[r]` the request that occupies slot r:
sent (with the cookie the jar held then), held by its handler, or on its way back
with what its answer does to the cookie. `Arrive` starts a handler of Accounts:
`refresh-access` and `logout` with the cookie of the request
(`refreshTokenFromReq`: 401 without one), every other request by `Enter`.
`Handling` turns the end of a handler into an answer: `saveRefreshCookie` wherever
a pair of tokens was signed, `clearCookie` for a logout answered 200. The two
handlers of UsersController that remove an account call `clearCookie` with a name
that is never set and with another path: no cookie is cleared, and the model
leaves it. `Break` loses a request or an answer, `Lapse` is the cookie's expiry.
`out` is a history: b logged out with nothing else under way. A cookie the browser
holds is signed (`cookie-parser` drops others), so a jar holds only what an answer
put there.

**ApiClient.** `cache` has the two keys. `call[c]` holds the await, the token in
hand, the token it was turned away with, and whether it is on its retry. Grants
are numbered, so that "newer" is ">". `Expire` drops a cache entry (TTL or
eviction), `Revoke` is the remote forgetting a token.

**Courses.** A plan is a forest (`Parent`) over courses, topics, subtopics and
links. Every call has a stage: insert, ask (topics wait for the remote), wait (for
the calls it made), and the three ends: done, failed, killed. `given` are the links
the remote gave and `spoiled` the subtopics it gave no list for, or one that ends in
a malformed entry: those throw after their row, and the links before that entry, are
on their way. `pending` are link inserts nobody awaits. `LinkFails` is the rejection of one of them: the process
ends, and each insert under way has reached MySQL or not. The tables have no
foreign keys: `@ForeignKey` without an association creates no constraint, so that
only the order of awaits protects the tree.

**Chat.** A post makes one exchange and an order one course; each happens once, so
that its slot also serves as its history. `stage[r]` is the statement or exchange
that r awaits, or its end: "answered"; "excused", a 201 that carries the caught
error (`chat.service.ts:126, 202`); "failed", a 500 or no answer at all. A message
is its post and its kind. Its `createdAt` (`at`) is taken when `create` is called
(`HandOver`), before the insert lands, and cut to the second by the column type.
`plan[c]` is the one Plan row of chat c, or its absence: no code creates a row, so
only the chats of `Seeded` have one, from outside. `hist` and `earlier` are
histories: what a post read, and which posts had been answered in its chat when it
was made. Rows of table Chat are written and never read by these operations, so
they are no variable, and a post may name any chat: neither existence nor the
owner is checked. `Crash` ends the process (an unhandled rejection elsewhere does
it): each statement under way has reached MySQL or not. An order whose course row is
stored waits in stage "topics" for what is below it, which asks the remote and is
module Courses.

**Landing.** `docs` is the collection, `pending` the bag of writes handed to the
driver, `cookie` what each browser holds. `Apply` applies a pending write at any
time and in any order: the driver has a pool of connections. A save sends only
what changed (`$push` of the address, `$set` of a country that is new), and an update of a
missing document does nothing. `WriteFails` is an unhandled rejection: handlers
vanish, and what was handed over has reached MongoDB or not, some of it after the
restart. Whether geoip locates an ip is an input.

## 3. Runs

| Run | Question | Bounds |
|---|---|---|
| `accounts_signup` | uniqueness, confirmation, sessions, quiet removal, refinement, the inductive invariant | 2 requests, 2 ids, 2 addresses, 2 names; both verdicts of the validation, lost mails, crashes |
| `accounts_updates` | lost updates and password changes | 3 requests on one row, 2 passwords, 2 names; failing statements, both verdicts of the validation |
| `accounts_answers` (module Sessions) | the cookie, final logouts; every request is answered | 1 browser with 2 requests under way, 1 account; lost mails, broken connections, expiring cookies |
| `api_client` | retry, stale tokens, refinement, termination | 2 calls, 3 grants; all faults |
| `landing` | nothing lost, duplicates only by overlap, country kept | 2 requests, 1 browser, 2 ids, 1 address, 2 writes under way; all faults |
| `landing_answers` | documents, accepted addresses and clicks land | 3 requests, 1 id; failing queries |
| `courses` | orphans, wholeness, answers if the remote answers, nothing but the remote stalls, links | 2 courses, 3 topics, 3 subtopics, 2 links; all faults |
| `chat` | front to back, complete histories, causal order, plans, courses of plans in force, every question lands, every request ends if the remote answers | 2 posts, 1 order, 2 chats (one with a Plan row), 2 seconds; all faults |
| `accounts_conflict`, `accounts_validation`, `landing_unique`, `landing_saved` | documented behaviour that the code does not have (6) | the smallest instance that shows it |

Why the bounds are enough. Two handlers are what a race needs: one reads, the other
changes what was read, the first goes on. `accounts_updates` takes three so that two
saves of rows loaded before a third save occur. Two ids let an address be
registered, removed and registered again while requests that loaded the first
account, or hold its tokens, are under way. Three grants let two calls refresh and one of them retry. In
Landing two ids let a cookie-less browser's overlapping requests draw two documents,
and two writes under way let one overtake the other; one browser is the sharp case,
since handlers share nothing of a browser but its cookie. `landing_answers` takes a
single id and a third request instead: a document's fate does not depend on the
others', and the third request keeps overtaking the first two. In `accounts_answers`
one browser is the sharp case again, since browsers share nothing, and two requests
are one that overlaps a logout. In Chat two posts read and store around each other,
one may come after the other was answered, both may write the one plan, and the
order reads it in between; two seconds let messages share one or not. In Courses the
first course has a topic with two subtopics and one with one (siblings on both
levels), and the second has a topic without subtopics, so that `Promise.all([])`
occurs and a crash reaches another course. Every bound is a CONSTANT: `UserIds`,
`Ids`, `MaxGrants`, `MaxWrites`, `MaxSecond`, and `Room` keeps requests within the
ids left to draw. The safety results are proved without the bounds (5).

`CHECK_DEADLOCK FALSE` stands where the system really rests: in `MCCourses`, where
every call is made once and has ended, in `MCChat`, where every request has ended
or waits for a silent remote and the clock stops, and in `MCLanding` and
`MCLandingSaved`, where the ids of the bound were drawn by requests that a crash left
unanswered. Every other run checks
deadlock.

Symmetry is used in safety runs only, over sets whose elements no definition names.

## 4. Fairness

* Accounts: `WF` of `Resume(r)` for each request: Node's event loop runs every
  pending continuation, and the database driver settles every statement. Nothing is
  assumed of clients, mails or faults. In `accounts_answers` a mail may stay in
  the transport for ever, and handlers still answer, since none awaits it.
* Sessions: the same `WF`, of `Continue(r)`. Nothing is assumed of the network, and
  a request that never arrives is not "in flight" for `Answered`.
* ApiClient: `WF` of `Proceed(c)` for each call. This includes that the remote
  answers or breaks each exchange: the HTTP client sets no timeout, so a silent
  remote stalls a call for ever. Completion is claimed under that assumption only.
* Landing: `SF` of each handler and `WF` of the application of each write handed
  over. The handlers' fairness is strong only because the bound `MaxWrites` may
  hold one back while others hand over writes; the driver's queue has no bound.
  "Lands" is claimed for runs in which no write fails; a failing write loses what
  it carried, and the model shows it.
* Courses: one `WF` for all statements on the database and returns of calls. Since
  no call is made twice, finitely many steps are possible, and one condition lets
  none wait for ever. The remote's responses (`Respond`) are not part of it: the HTTP
  client sets no timeout (`course.service.ts:129`, `api.service.ts:54`), so a
  topic may wait for its links for ever. `Answered` states the remote's fairness as
  its hypothesis; `OnlyRemoteStalls` holds without it, and says that a course that is
  never answered has a topic waiting for the remote; `LinksLand` needs nothing of it.
  `LinkFails` is never forced.
* Chat: one `WF` for all statements on the database, for the same reason. The
  remote is not part of it, neither for a post nor for an order, whose stage
  "topics" ends with the remote's answers: `QuestionLands` holds although a silent
  remote may leave every request waiting, and `Answered` states the remote's fairness
  as its hypothesis.

## 5. Proofs

All theorems are checked by TLAPS from nothing but the named assumptions and the
hypotheses in their statements, for any size of the constant sets. Every invariant
and action property of a passing run, and both refinements, are theorems; TLC
checked each formula first.

**Accounts_proof**: `Invariance` (`IInv`), `TypeCorrect`, `Uniqueness`,
`Confirmation`, `SessionTokens`. The four invariants are not inductive alone: a
handler suspended between its check and its write carries what it found out, and
the proof needs that to be still true. `IInv` adds `HandlerOK` (a suspended
handler's id was created; a handler that is about to confirm has seen the received
link, and its row is confirmed and has the address of its id; a handler that is
about to sign works for a proven address; one that is about to store a password
holds an access token, or a reset token, of its id) and `OwnersKnown` (a row keeps
the address its id was created for). The facts are stable since `tokens` and
`owner` only grow. The proof has one step per action. Assumptions: the null values
are no addresses, ids or rows, and `KeyAssumption`, that the four secrets differ.
The configuration schema does not enforce the latter; without it the properties
fail (mutant `VerifiesAnyKind`). Uniqueness rests on the unique indexes, not on the
counts.

**AccountsSteps_proof**: what a step may do. From `IInv`, every step has one of six
effects on rows, addresses and tokens (`Effect`): it registers an account whose
address nobody has, signs session tokens for a proven address, saves one column of
a loaded entity, removes a row, delivers a mail, or leaves them all. From that one
case distinction follow
* `ColumnsKept` (`ColumnsIndependent`: a column of a row that stays changes only by
  the save of a request that means that column), `PasswordsAuthorized`
  (`PasswordChangeAuthorized`: the very request whose save changes a password was let
  in with a link or token of the account) and `QuietOnceRemoved`
  (`QuietAfterRemoval`). The last needs that every handler that signs or writes for an id carries the id, and
  that a handler gets an id only from a row that exists;
* `ForwardOnly`: a removed account stays removed, also under a late save of an entity
  loaded before, a confirmed one confirmed, and no late save rewrites an address or a username;
* `FollowsLifecycle`: Accounts implements AccountLifecycle. A registration maps to
  `Register`, a delivered confirmation mail to `Prove`, the save that confirms to
  `Activate`, a signed pair to `OpenSession`, a removal to `Close`; everything else
  is a stutter, such as a second confirmation, or a save that finds its row gone.

`AwaitsRunOut` is the safety core of `Answered` (below).

**AccountLifecycle_proof**: `LifecyclePromises` and `LifecycleForward`, so that the
refinement says something: no two open accounts share an address, none is active or
has a session but at a proven address, a closed account stays closed and an active
one is never pending again.

**Sessions_proof**: `Implements` (`BrowsersSpec => Spec`: every step of browsers and
server is a step of Accounts or a stutter), `BehindBrowsers` (hence uniqueness,
confirmation, proven sessions, the lifecycle and the step properties above hold
behind any number of browsers), `CookiesSigned`, `LoggedOut`. The invariant `BInv`
adds that a request has a handler just while it is held, that a logout is answered
at once and its 200 clears the cookie, and that nothing under way of a browser that
is out can bring the cookie back (`Harmless`): such a request carries no cookie and
does not enter, so it signs nothing. Assumption: the null values are no tokens.

**ApiClient_proof**: `Invariance` (`IInv`), `TypeCorrect`, `RetryFresh`,
`StaleForgiven`, `KeepsPromise` (ApiClient implements ApiCall: initial states map to
initial states, and each step to a step or a stutter), `AwaitsRunOut`. `IInv` adds
`CallOK`: a call on its retry remembers what it was turned away with, and from its
grant on holds a newer token. It holds whatever others write into the cache,
because a retry never reads the access token from there.

**Landing_proof**: `TypeCorrect`, `SavesFind`, `Lossless`, `LateOnesRefused`,
`CountryStays`, `DocumentsOnTheirWay`, `AnswersKept`. `IInv` adds that ids known to
handlers were drawn, that an undrawn id has neither document nor pending write, and
that at most one insert is under way for an id. Hence an insert never replaces a
document, and the rest follows from what a single write makes of a document
(`AppliedKeeps`). The last two are claimed while no write fails: a document that a
cookie or a handler refers to is stored or its insert is under way, and a write
leaves the queue only by taking effect.

**Courses_proof**: `TypeCorrect`, `Orphanless`, `Whole`, `NoneWaitForEver`,
`StepsRunOut`. `IInv` adds that a call runs only below a call that has made its
calls (`StartedBelow`), that a call is past its insert only with its row stored
(`StoredFirst`), that a call is done only after those below it (`DoneBelow`), and
that exactly the given links of finished subtopics are handed over (`HandedOver`).
`WaitInv` adds that only topics ask, that subtopics never wait, and that what a call
waits for was made and is not gone (`AwaitedExist`), so that below an unanswered
course something can always come (`Unblocked`): it is the induction over the three
levels that excludes a wait for nothing. `Remaining` is the set of the steps still
to be taken, which each step makes smaller. Assumption: the levels are disjoint and
`Parent` respects them, which uuids and the nesting of the calls give; `StepsRunOut`
takes finite plans.

**Chat_proof**: `TypeCorrect`, `StoredFrontToBack`, `HistoriesComplete`,
`CausallyOrdered`, `PlansKept`, `PlansBehindCourses`, `LogAppendOnly`,
`StepsRunOut`. `IInv` adds what the stage of a post says about its rows (which
messages are stored, which has its time), that messages in a history are stored
before and stamped no later, that a post answered before another was made has
nothing under way any more, where the plan in a row and in an order's hand came
from, and that an order which has read its plan has one that nobody who was answered
before the order had seen give way (`UpToDate`). Assumptions: posts, orders and the null values are disjoint.

**Only model-checked**: the liveness properties (`Answered` of Accounts, Courses and
Chat, `OnlyRemoteStalls`, `Completed`, `DocumentLands`, `AddressLands`,
`ClickLands`, `LinksLand`, `QuestionLands`), since fairness and ENABLED are out of
the prover's reach. What is proved of them for all instances is what they rest on
besides fairness: a measure that bounds the steps of a request and that nothing
sends back (`AwaitsRunOut` of Accounts: 3 awaits, of ApiClient: 13; `StepsRunOut`
of Courses and of Chat), and that the awaited thing really does what is promised
when it comes (`DocumentsOnTheirWay`, `AnswersKept`, `NoneWaitForEver`). What is left to TLC is that the awaited step is enabled under
the fairness of section 4, which it checks on the instances of section 3.

## 6. Where code and documentation disagree

Each is a run that TLC must find violated.

* `ConflictReported`: the insert of `UsersService.create` (`users.service.ts:28`)
  is not wrapped by `throwDuplicateError`. Of two overlapping sign-ups the loser
  gets 500, and the controller documents 409 ("Email already in use").
* `SaveFlushes`: `validateOrReject` on an entity without class-validator metadata
  rejects under the locked class-validator 0.14.1, so `saveEntity` never saves: at
  this commit no confirmation, new name or new password reaches the table. The
  other account runs let the validation accept or reject (`Accepts = {TRUE,
  FALSE}`), so that they contain what the locked version does, and also what a
  version or a setting that lets unknown values pass would do: their properties
  about a save that succeeds speak of the latter. The proofs hold for every
  `Accepts`.
* `AddressUnique`: two overlapping submissions of one landing address both find it
  unused and both store it. `NoLateDuplicate` says that this is the only way.
* `EmailSaved`: the save of an accepted address is not awaited
  (`landing.service.ts:57`). If it fails, the catch that answers a failing database
  with 500 has been left, the client has its 200 ("Email saved",
  `landing.controller.ts:103`), the address is lost, and the process ends.

Further observations, which are behaviours of the models and no run of their own.
`generatePlan` updates a Plan row that no code creates, so `generateCourse` reads
null and is answered 500 unless the row came from elsewhere
(`chat.service.ts:172, 206`). A caught error is returned as a 201 answer (`:126,
202`), and its question stays in the chat without an answer. An answer that came
with a plan carries no `chatId` (`:185`), so that the client of a new chat does not
learn it. Nothing records that a course was made: two orders of one chat make two
courses. The plan is read after its summary and stored as the user's message
(`:166`), so later histories show it as such. A course with no plan yet in its row
is stored before the call fails on the missing plan (`course.service.ts:38`). A
refresh, sign-in or confirmation that overlaps a logout can set the cookie again
after it (`auth.controller.ts:146`); `LogoutHolds` says that only overlap does.
Removing an account clears no cookie (`users.controller.ts:118`).
`confirmEmail` looks the user up again by address after its save
(`auth.service.ts:65`) and signs for whatever account has the address by then, which
after a removal and a new sign-up is one that is not confirmed; `SessionsProven` says
that the address was proven all the same. As long as `SaveFlushes` fails, that line is
not reached. Two changes of one password that both compared the old one are both
answered 200, and the later save stays (`users.service.ts:84`).
`findCourseById` of a missing course fails with 500 where 404 is documented.
`GET /users/:email` validates the address as a uuid and always answers 400.
`GET /chat/chats` is shadowed by `GET /chat/:id`. On the landing page a click of a
visitor without a document, applied before the document's insert, is dropped, and
the first submission of such a visitor is answered 500 if its look-up overtakes
the insert; both are behaviours of `Landing`.

## 7. Not modelled

* Reads that only answer (`findAll`, `GET /me`, `findCourseById`, `findTopicById`,
  `getChatById`, `getUserChats`): they change nothing, and rows they join are never
  removed.
* Csrf: the server keeps nothing, and a refused request of the landing page changes
  nothing.
* Message: a stub. Configuration and bootstrap: wiring.
* Formatting (slugs, names, mail templates) and time, but for Chat's `createdAt`:
  expiry is a refusal that may happen at any moment.
* A chat's calls of the remote go through ApiClient. Chat takes from it what
  `ApiCall` promises, one end of each call; the two are not composed in one run.

## 8. Plan

What is left:

1. Proofs: the promises of `ApiCall` itself, as AccountLifecycle has them; a chat's
   calls as users of what `ApiCall` promises.
2. Course reads while a course is being created: two or more queries that see a
   tree grow.
3. Pages of the landing site with their Csrf tokens in front of Landing, as
   Sessions is in front of Accounts.
