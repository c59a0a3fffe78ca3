# Verification of the forum

TLA+ models of the forum server in `src/`, the TLC configurations that model-check them, and
theorems about them with proofs that TLAPS checks. Paths below are relative to the repository.

1. [The system](#1-the-system)
2. [The modules and how they correspond to the code](#2-the-modules)
3. [The runs](#3-the-runs)
4. [Fairness](#4-fairness)
5. [The proofs](#5-the-proofs)
6. [Where code and documents disagree](#6-where-code-and-documents-disagree)
7. [What is not modelled](#7-what-is-not-modelled)
8. [Plan](#8-plan)
9. [Running it](#9-running-it)

## 1. The system

One Go process serves HTML forms over HTTP. It keeps a SQLite database, a directory of uploaded
pictures, and two kinds of state in memory: rate limiter buckets and OAuth states. `net/http` gives
each request a goroutine. `database.Open` gives all of them one pool of connections with foreign
keys on and SQLite's defaults otherwise: a rollback journal, one writer at a time, deferred
transactions and the driver's busy timeout of 5 s. There are no background jobs but the cleanup
goroutines of the limiters.

A request passes, from the outside in: headers, logging and recovery (`web.WithMiddleware`), the rate
limiters, authentication, the router, a handler, a service, a repository.

| Component | State it keeps | Operations | Correct when |
|---|---|---|---|
| **Sessions** `session/manager.go`, `repository/sessions.go`, `middleware/auth.go`, `service/auth.go`, `handler/login.go`, `logout.go`, `oauth_success.go` | table `sessions` (one row per user), each browser's cookie | authenticate, create cookie, replace session, log out | at most one session per user; a cookie that has ended never signs in; a session ends only by its own logout or its user's next login |
| **Reactions** `repository/reactions.go`, `service/reaction.go`, `handler/*_reaction.go` | `post_reactions`, `comment_reactions` | toggle, in a read-decide-write transaction | toggles are atomic, none is lost, nobody waits for ever |
| **Token bucket** `middleware/rate_limit.go` | buckets by client, a mutex, a cleanup goroutine | `Allow`, `removeStale`, `Stop` | no window admits more than burst + refill; the advertised wait is enough; `Stop` returns |
| **HTTP limits** `middleware/rate_limit_http.go` | one global limiter, one per rule | choose rule, spend, refuse with Retry-After | every request that reaches a limited handler has been counted; the wait that is announced is enough for the limiter that announces it; what the global one announces is not enough for the rule |
| **Post creation and pictures** `handler/post_creation.go`, `service/post.go`, `repository/posts.go`, `upload/` | `posts`, `post_categories`, the upload directory | save picture, validate, insert with links, remove the picture again | whole posts or none; a post's picture exists; files are not forgotten |
| **OAuth flow** `oauth/state_store.go`, `state_cookie.go`, `github_handler.go`, `github_callback.go` | flows in memory, a state cookie per provider | begin, callback | an attempt is used at most once, by its own browser and provider |
| **Accounts** `service/auth.go`, `service/oauth_login.go`, `repository/users.go`, `oauth_accounts.go`, `handler/register.go` | `users`, `oauth_accounts` | register, first login of an identity, later logins | accounts appear whole, with one way in; an identity opens its own account only |
| **Database and migrations** `database/`, `migrations/*.sql` | the schema, `schema_migrations` | open, migrate | schema and recorded version agree; only a complete schema is served; a restart always gets there |
| **Comments** `repository/comments.go`, `service/comment.go`, `handler/comments.go` | `comments` | one guarded INSERT | a comment has a post |
| **Post lists and detail** `repository/posts.go`, `handler/posts.go` | none (reads) | filter, count, load categories and reactions | a list is of one moment, a post's page of one and its comments of one later |
| **Categories** `repository/categories.go` | `categories` (seeded) | list | – |
| **OAuth providers** `oauth/*_provider.go`, `provider_http.go` | none | exchange a code, fetch the user | – |
| **Routing** `web/router.go` | none | method and path to handler | it reads a path as the limits do |
| **Startup and shutdown** `app/`, `cmd/forum` | the listener, the connections, the pool, the limiters' goroutines | start in stages, serve, stop within a deadline | everything that was opened is closed; success means that no request was cut off; a signal ends the process |
| **Configuration** `config/` | none | load, validate | what loads can be served |
| **Recovery** `middleware/recovery.go` | none | turn a panic into 500 | a panic gives the write lock back |
| **TLS, headers, logging, templates, static files** | none | – | – |

How they meet: authentication reads `sessions` and `users` for every request; login, registration, posts
and reactions share SQLite's one write lock; an OAuth callback that succeeds goes on to the accounts,
and these go on to the same session code as a password login; a comment that has been committed is the
target of reactions; pages are read between the commits of all of these; migrations decide what all
repositories find. The limits stand in front of the router and decide from the same path which limit a
request has; shutdown closes the listener, waits for the connections, and takes limiters and pool away.

What is hard in this code: requests of one user that overlap (login against login, toggle against toggle,
first login against first login); reads that are used after another request has written; SQLite locks that
are refused at once or waited for; errors in the middle of a transaction, and after a cookie header or a
file was already written; a crash between the upload directory and the database; callbacks that are
repeated, late or in the wrong browser; clock readings that overtake each other; starts that are killed in
the middle of an upgrade; pages read in several statements; two parsers of one path; and a shutdown whose
deadline, signals, panics and open transactions meet in any order. `PROJECT.json` lists these hazards, each at its line.

## 2. The modules

Each component has a module `X`; where the component makes a promise that can be said without its
steps, an abstract specification `XService` that `X` is shown to implement; and `XProofs`. Constants are
declared with an `ASSUME` in `X`. `Forum` declares those that the two modules about content share, `Reactions`
and `ContentReads`; the theorems about both are in `ContentProofs`. A definition under a comment "Fault:" is not part of the
specification: it is a mistake the code could have contained, and is there to show that a property would
notice it.

A common convention: `pc[r]` is the place of the goroutine of request `r`, and one action is what it does
between two calls that others can observe (a SQL statement, a file operation, a critical section, a clock
reading). A statement that writes takes SQLite's write lock (`writer`); the transaction's own view is
`draft` and a COMMIT publishes it. Every statement may fail instead. A crash resets the requests in flight
and what was not committed.

### Sessions, SessionService

| TLA+ | code |
|---|---|
| `sessions` | table `sessions`: id, user, expiry in whole seconds |
| `jar` | the browser's session cookie with its `Expires` |
| `found`, `who` | the row authentication has read; the `CurrentUser` of the context |
| `login`, `reply` | the session under construction; the last `Set-Cookie` of the response |
| `FindSession`, `CheckExpiry` | `Authenticate`: `ByID`, the comparison with the clock, `users.ByID` |
| `Credentials` | `AuthService.Login`, or what an OAuth callback has established |
| `CreateCookie`, `CreateSession` | `Manager.Create` (writes the header first), `CreateSession` (computes the row's expiry later) |
| `ReplaceDelete`, `ReplaceInsert`, `ReplaceCommit`, `ReplaceFail` | `SessionRepository.Replace` and the handler's answer to its error |
| `Logout`, `LogoutFail` | `LogoutHandler` |

`granted` and `late` are history: every row ever committed, and whether a cookie had already ended when
its request arrived. `SessionService` says: a user has at most one active session, a login replaces it in
one step, a logout ends one, an identifier is never active again.

### Reactions, ReactionService

The two tables and two repositories have the same code; a target is a post or a comment. `shared`,
`writer` and the place "pending" are SQLite's SHARED, RESERVED and PENDING locks: a deferred transaction
that has read and asks to write while another holds RESERVED is refused at once (`Refused`), and a COMMIT
waits for the readers to leave (`AskExclusive`, `Commit`). `CheckTarget`, `SelectValue`, `Write` are the
statements of `toggleReaction`; `Transition` has each statement's effect on the row that is there when it
runs, not on the row that was read. `Locate` is `PostIDForComment`, after the commit. `ReactionService`
says: an accepted request toggles exactly once between its arrival and its answer, a refused one never. An accepted one may be answered
with an error after it has toggled, when `PostIDForComment` fails.

### RateLimiter, TokenBucket

`Sample` is the clock reading at the head of the method `Allow`, the action `Allow` its critical section, `TakeTick` and
`RemoveStale` the cleanup goroutine, `TakeStop`, `StopCall` and `StopReturn` the channels of `Stop`. A tick
of the model's clock refills one unit and a request costs `Refill` units, so that all quantities are whole
numbers. `since`, `spent` and `denied` are an observer's: a window opened at any time, what each client was
admitted for in it, and when a client was last refused.

`TokenBucket` says what all this amounts to: a level for each key that time alone fills, up to the burst and
`Slack` (how late a caller may be) above it, and that admitted calls draw from. Its level is the bucket's tokens
and the time since its last refill, and the full level where there is no bucket (`Drawable`).
`HttpLimits` is built on `TokenBucket`, not on `RateLimiter`: mutex, removal and cleanup have been dealt with.

### PostCreation, PostService

`CreateTemp`, `CheckImage`, `Rename` and `SaveFail` are `Storage.Save`; `ValidatePost`, `InsertPost`, `Link`,
`Commit` and `TxFail` are `PostService.Create` with `PostRepository.Create`; `Cleanup` is the handler's removal
of a picture whose post failed; `Panic` is a panic before the commit, with the deferred removal of the temporary
file and the deferred rollback, but without the removal of a stored picture. `temp` and `published` are the files of the directory; `leaked` is history: what
a crash, a panic or a failed removal has left behind. A form's name stands for the random name of its picture and
tells submissions apart.

### OAuthFlow, OAuthService

One handler each for GitHub and Google, with the same code. `Start` draws a state and takes the clock,
`Save` is the critical section of `OAuthStateStore.Save` (which also drops expired flows), `Callback` the
cookie comparison, `Consume` the critical section of `Consume`, `Exchange` the calls of the provider and
`onSuccess`. The comparison of providers in `Consume` is never what refuses: each provider has a cookie of its
own, so a state that passed the cookie is its provider's. `sent` holds the states that a browser has taken to a provider: only these come back, in any
browser and any number of times. `OAuthService` says: an attempt is taken at most once and the login it
leads to is in the browser and with the provider it was begun with.

### Identity, IdentityService

`Register` and `Create` are `AuthService.Register` with `UserRepository.Create`. `Callback`, `FindAccount`, `CheckEmail`,
`InsertUser`, `Link`, `Commit` and `Load` are `OAuthLoginService.Login` with `CreateUserWithOAuthAccount`:
`InsertUser` is the `INSERT ... ON CONFLICT DO NOTHING` with its two look-ups and the loop over candidates.
`Candidate` has `oauthUsernameCandidate` up to what can collide: for names of 32 characters the number
takes the place of the end, so that candidate 2 may be the name itself (`Full`). Rows are never changed or
removed, so the tables only grow. `IdentityService` says: accounts appear whole, with fresh id, email and
name; an identity signs in to the account it made.

### Migrations

`Ensure`, `Check`, `Execute`, `Refuse`, `Record`, `Commit` are `Migrate` and `applyMigration`; `Exit` is any
error, timeout, shutdown or kill, `Serve` what the handlers of a serving process do to rows. A database is
the set of recorded versions, the set of tables, and the set of tables that have rows; `Consistent` keeps
these sets to what foreign keys allow. `Executable` and `RowsAfter` are what each SQL file needs and does,
with the cascade of `DROP TABLE users`, which the foreign keys of the connection cause. `Init` is what any
earlier release, with any number of the five files, could have left.

### ContentReads, PageService

| TLA+ | code |
|---|---|
| `posts`, `links`, `comments`, `votes` | `posts`, `post_categories`, `comments`, the two reaction tables |
| `PublishPost`, `CommentOfOthers`, `React` | what other requests commit, whole: `PostCreation` and `Reactions` show that it is |
| `Arrive`, `FirstStatement` | `HomeHandler`'s choice among the filters, with the user each needs; `PostDetailHandler`, `CommentSubmissionHandler` |
| `CategoryExists` | `SELECT 1 FROM categories` of `ListByCategory` |
| `Partners`, `VotesOn`, `Joined`, `Sum`, `SelectPosts` | the joins, groups and sums of `List`, `ListByCategory`, `ListByAuthor`, `ListLikedByUser`, `Detail` |
| `ReadPosts`, `ReadLinks`, `ReadComments` | the statements, one after the other, without a transaction |
| `InsertComment`, `ParentExists` | `CommentRepository.Create` with its foreign key |

A join is a set of rows, each with its partner, so that a group has as many rows as SQL gives it: a partner
too many would count a reaction twice. `stage[r]` is the place of request `r` here. `PageService` says what a page promises: one look at the forum for a
list, one more for the comments of a post. The refinement holds because a post is never changed: its links
are committed with it, and so are still the same when `categoriesForPosts` reads them.

### Routes, Config, HttpLimits, Lifecycle

These four are one specification, each extending the one before it; `Lifecycle` has its `Next`.

`Routes` has two pure functions of method and path. `Rule` is `requestRateLimitRule`, which splits `URL.Path`;
`Handler` is `NewForumRouter` behind `http.ServeMux`, which cleans paths, adds slashes, and matches the
path as it was sent: it does not split at a slash that came encoded. `LimitOf` is the limit that each handler is
meant to have. `Config` has what `Load` accepts of the environment and what it makes of it.

| TLA+ | code |
|---|---|
| `place[r]` | where connection `r` is: closed (`idle`), `connected` without a request, in front of a limiter, in a handler, in a transaction |
| `level`, `refused` | the six limiters by client, each a `TokenBucket` |
| `AskGlobal`, `AskRule`, `TooMany` | `HTTPRateLimiter.Middleware`, `writeRateLimitExceeded` |
| `window`, `told`, `promised` | history: an observer of one limiter and client; the Retry-After a client was told, by which limiters and for what; the limiters whose wait a request has heeded |
| `run` | the place of `main` and `Run`: the stages of the start (`After`), the `select`, the shutdown, the deferred cleanup |
| `serve`, `sent` | the goroutine that serves, and the buffer of `serverErrors` |
| `Shutdown`, `Drained`, `Deadline` | `http.Server.Shutdown`: close the listener, wait for the accept loop, then for the connections or the deadline |
| `Panic` | a panic in a handler: the deferred rollback, then `Recovery` |

A tick is half a second, which is the price of a request at the global limiter; all prices and the waits
of `retryAfterForRule` are whole numbers of ticks. Handlers are what the other modules are about; here they may
open a transaction, end, or panic.

## 3. The runs

| Run | Instance | States | Checks |
|---|---|---|---|
| `sessions_race` | 2 users, 2 browsers (2 tabs in one), 3 requests, 2 identifiers, clock still | 346,412 | `TypeOK`, `StaleStaysGuest`, `Attributed`, `CookieBacked`, `EndsOnlyOwn`, `ImplementsService` |
| `sessions_clock` | 1 user, 2 tabs, 2 identifiers, `Duration` 3, 2 ticks a second, 4 ticks | 843,719 | `CookieNeverOutlivesRow`, `WriterReleased` |
| `reactions_race` | 1 user, 1 comment, 3 requests | 81,254 | `TypeOK`, `SeenIsCurrent`, `ImplementsService`, `EveryRequestEnds` |
| `limiter_window` | 1 client, 2 callers, 2 callers of `Stop`, burst 2, refill 2, removal after 6, delay 1, 7 ticks | 2,820,520 | `TypeOK`, `WindowBound`, `RetryAfterSuffices`, `ImplementsBucket`, `StopReturns` |
| `content_pages` | 1 request of any kind, 2 users and guests, 2 posts, 1 comment, 2 categories and an unknown one, 3 reactions | 2,005,247 | `PagesTypeOK`, `ImplementsPages` |
| `server_lifecycle` | 2 connections of 1 client, 3 requests, 6 environments, buckets of 3 ticks, windows of 2 | 2,201,414 | `TypeOK`, `RulesHold`, `CleanStop`, `WaitSuffices`, `StopsOnSignal` |
| `limits_retry` | 1 connection of 1 client, 1 comment, 1 environment, buckets of 4 ticks | | `RetryAfterIsValid`: violated, section 6 |
| `posts_crash` | 2 requests, 3 submissions, an existing and an unknown category | 712,008 | `TypeOK`, `PicturesPresent`, `OrphansExplained`, `ImplementsService` |
| `oauth_callbacks` | 2 providers, 2 browsers, 2 requests, 2 attempts, lifetime 1, 2 ticks | 1,785,611 | `TypeOK`, `AttemptsLast`, `ImplementsService` |
| `identity_logins` | 2 requests, 3 emails (one with capitals), 1 base name of full length, 2 identities | 405,173 | `TypeOK`, `OneWayIn`, `ImplementsService`, `EveryRequestEnds` |
| `migrations_restart` | 2 processes, 3 exits, every earlier database | 90,064 | `TypeOK`, `SchemaRecorded`, `ServedComplete`, `AccountsKept`, `AllServe` |
| `migrations_upgrade` | 1 process, 1 exit, every earlier database | | `RowsKept`: violated, section 6 |

Why the bounds are enough:

- **sessions_race.** A user has at most one row and a login touches the rows of its own user only, so two
  users and two logins (an identifier each) show every interference between logins; the third request
  is the page or logout that runs among them. The first browser has two requests, so that answers can
  arrive in the other order. `IdsLeft` keeps an identifier in reserve for every login that has begun:
  `uuid.NewString` never runs out. Time is the question of the other run. The only symmetry is over users
  and identifiers, which the configuration never names.
- **sessions_clock.** The two expiries are computed at two clock readings and truncated to seconds; two
  ticks a second make fractions, four ticks let the whole duration pass, and one login's row can
  replace another's. No symmetry, since a liveness property is checked.
- **reactions_race.** The deadlock of readers and a writer needs two requests and a lost update two; the
  third comes in while a COMMIT is pending. A comment is the longer case of the two targets: it may be
  missing or be published meanwhile, and its handler reads once more after the commit. Rows of other users and
  targets are other keys, which no statement touches; the proofs have any number of them.
- **limiter_window.** `InactiveAfter` is the least value the assumption allows (burst × refill + 2 × delay),
  where removal is most dangerous; seven ticks hold an idle period, a removal and calls after it. Keys do
  not interact, and two callers can overtake each other. The second caller of `Stop` finds the channel closed
  already; it may come before or after the goroutine has gone and the first has returned. No symmetry, since a
  liveness property is checked.
- **limits_retry.** A bucket of four ticks holds one comment or four requests of any kind: after a comment that is
  let through and three more requests the client has met both limiters.
- **content_pages.** Requests that only read do not meet: one is enough, of every kind. Its page can be torn
  by a post, a link, a comment or a reaction that comes between any two statements; two posts and two users
  make groups with none, one and two reactions, and three reactions allow one to be taken back or turned.
- **server_lifecycle.** Reactions cost two ticks and pages one, so a bucket of three is at its limit after one
  reaction and one page, and a client can be refused by either limiter; the wait of two ticks passes within the
  instance. Two connections are what a client needs to spend in parallel, and what a shutdown needs to find
  one in a transaction and one elsewhere. The requests are a reaction with a slash encoded that reaches its
  handler, the same with another slash encoded, which the mux sends elsewhere, and a page. `Slack` is 0, since
  late callers are the question of `limiter_window`; the proofs have any slack, bucket, window and requests.
  The environments are two that start, with and without HTTPS, and four that must not.
- **posts_crash.** Requests meet only in the write lock and in the names of files. The third submission is
  one after a crash. `CategoryIds` has an identifier that is not in the table.
- **oauth_callbacks.** Two attempts of one browser, of two, of one provider or of two are all in the
  instance; one may expire, and two callbacks may present one state at once.
- **identity_logins.** Two requests are enough for every pair of register and first login; the one base
  name makes both collide, and it is of full length, so that a candidate is tried twice. The third email is a
  spelling that registration never stores. `MaxSuffix` bounds the names people register, not the loop.
- **migrations_restart.** Any two overlapping starts, and at most three ends of a process, at every place
  of a migration; the proofs cover any number.

Deadlock is checked in every run but `server_lifecycle` and `limits_retry`, where the process ends.

## 4. Fairness

Weak fairness of a goroutine's own next step is what the Go scheduler gives; nothing is assumed about
clients, which may never come back, or about faults, which need not happen.

- `Sessions`: `WF(Serve(r))`. A wait for the write lock ends because its owner goes on, or by the busy
  timeout, which is one of the failures.
- `Reactions`: `WF(Work(r))`. The busy timeout ends the wait of a first read (`Timeout`). A COMMIT gets
  no such help here although SQLite would end it too: what is shown is the stronger fact that the readers
  always leave, because a refused writer rolls back.
- `RateLimiter`: `WF(Cleanup)`; `SF(TakeStop)`, because a `select` with several ready cases picks one at
  random and so does not pass over the closed channel for ever; `WF(StopReturn(s))`.
- `Lifecycle`: `WF(Running)` and `WF(Serving)`: `Run` goes on, and so does the goroutine that serves, whose
  `Accept` returns once the listener is closed. The deadline of the shutdown is among the steps of `Run`.
  Handlers and clients have no fairness: `StopsOnSignal` must hold with a handler that hangs. `Exit` has none
  either, so that a goroutine that was left behind would be seen before the process ends.
- `Identity`: `WF(Step(r))`, which includes the busy timeout.
- `Migrations`: `WF(Step(s))`. `Start` is among the steps, because `compose.yml` says
  `restart: unless-stopped`. `MaxExits` bounds the failures: `AllServe` says that when these have ended the
  server runs, which is the most that can be true.

## 5. The proofs

TLAPS checks all of it, for every value of the constants that satisfies the `ASSUME` of the module. Clock bounds
and other bounds on counters are such constants too.

| Module | Theorems | Inductive invariant, and why the property needs it |
|---|---|---|
| `SessionsProofs` | `TypeCorrect`, `Inductive`, `StaleCookieIsGuest`, `RequestsAttributed`, `CookiesBacked`, `OnlyOwnLogoutEnds`, `EndedForGood`, `ServiceImplemented`, `CookieExpiresFirst` | `IInv`. That a dead cookie stays dead needs that an identifier names one row for ever (`OneRowPerId`, `IdsFresh`) and that a login that has not committed uses a fresh one (`LoginPending`); that a commit replaces one row only needs that the draft is the committed table with the transaction's own changes (`DraftSound`). `Dated` follows the two expiries of a login: the cookie's is computed first and truncation to seconds is monotone (`ToSecondMonotone`). |
| `ContentProofs`, on `Reactions` | `TypeCorrect`, `Inductive`, `NoLostUpdate`, `ServiceImplemented`, `WaitsEnd` | `Inv`: who has read holds SHARED until it ends, a COMMIT needs to be alone (`LocksSound`), so what was read is still there at the write (`SeenIsCurrent`), and the draft differs from the table by one toggle (`DraftSound`). |
| `ContentProofs`, on `ContentReads` | `PagesInductive`, `PagesTypeCorrect`, `PagesImplemented`, `PagesSound` | `PagesInv`: a handler runs the statements of its own kind of request (`StageSound`), without which the second statement could belong to another page. `PagesSound` adds that a user has one reaction to a target (`OneVote`) and that an identifier names one post, with a category (`RowsSound`). |
| `RateLimiterProofs` | `TypeCorrect`, `Inductive`, `WindowBounded`, `RetryAfterHonoured`, `BucketImplemented`, `StopIsFinal` | `Inv`: `Account` says that what was spent in a window, with what the bucket still holds, came from a full bucket and from time that has passed; `ClockSound` bounds the readings in flight, which makes a removed bucket one that would have been full; so its removal is a stutter of `TokenBucket` (`RemovalUnseen`). |
| `PostCreationProofs` | `TypeCorrect`, `Inductive`, `PicturesKept`, `NoForgottenFile`, `ServiceImplemented`, `AnswersHold` | `Inv`: names are not shared (`NamesOwn`), the files of a request agree with its place (`FilesSound`), one transaction has the lock (`TxSound`). `PostsWhole` carries a form that was validated to its commit. |
| `OAuthFlowProofs` | `TypeCorrect`, `Inductive`, `ServiceImplemented`, `OnlyOwnAnswersEnd`, `UsedOnce` | `Inv`: a state belongs to one attempt (`BegunOnce`, `SaveFresh`), cookies name attempts of their browser and provider (`JarSound`, `RequestSound`), a state in exchange is in one request and not in the store (`HeldOnce`). `MadeBefore` is for `OnlyOwnAnswersEnd`: what `Save` drops is over. `UsedOnce` rests on `SaveFresh` and `HeldOnce`: a state that has led to a login comes back neither by a `Save` nor by a second callback. |
| `IdentityProofs` | `TypeCorrect`, `Inductive`, `OneWayInEach`, `ServiceImplemented`, `OwnersKept` | `Inv`: ids are given in order (`IdsGiven`), what the writer has looked at is free until it commits (`StillFree`), a request that loads a user has the account for it (`Entitled`). `OwnersKept` is shown of `IdentityService`, and holds of the tables because they implement it. |
| `MigrationsProofs` | `TypeCorrect`, `Inductive`, `SchemaIsRecorded`, `OnlyCompleteServed`, `AccountsStay`, `OnlyMigration4Loses`, `StartsGoOn` | `Inv`: the database is at one version (`AtVersion`), what a process has found applied stays so (`Progress`), the draft is the next version (`Drafted`). The lemma `RepeatedRefused` is why the check before the transaction is safe: a file that was applied meanwhile cannot be executed again. |
| `LifecycleProofs` | `RuleFollowsRoute`, `TypeCorrect`, `StopIsClean`, `StopIsReached`, `RulesAreKept`, `WaitIsEnough` | `Orderly` ties each place of `Run` to what is open, and says that the accept loop ends without error only after `Shutdown`. `Sending`: the value of the goroutine that serves is sent once and is there until `Run` takes it. `Booked`: what the observed limiter let through has been paid for out of its bucket. `Promised`: a client that waits has nobody else in front of the limiters (`Quiet`), what it was told covers the price of the limiters it was told of (`Kept`), and once it asks again it is alone (`Alone`) and finds the price in the bucket (`Reserved`). |

`RuleFollowsRoute` is about every method and every path: whatever reaches a handler was counted by the limiter
of that handler, also when slashes come encoded. The proof splits on the number of segments (`PostToOne`,
`PostToMore`), and `RulesAreKept` rests on it.

`PagesImplemented` compares two ways to compute a page: joins, groups and sums over rows on the side of
the code, sets and cardinalities on the side of `PageService`. A group of a `LEFT JOIN` has a row for each partner,
or one with NULL; the rows of a group and the reactions they come from are in bijection (`SameCount`), the NULL row
adds nothing (`NullUncounted`), and so the sums are the counts (`GroupCounts`, `CountMatching`). With that a
statement is one look at the tables (`PostsSelected`, `CommentsSelected`). The second statement of a page is a
second look: what it reads of the links is what the first one would have read, because links are committed with
their post and stay (`PublishMaps`).

Some theorems state more than the runs check:

- `WaitsEnd` and `StopIsReached` are the safety halves of `EveryRequestEnds` and `StopsOnSignal`. Every step leads on
  (`MovesOn`, `Onward`), and what a request, `Run` or the goroutine that serves waits for is there already or is
  a step away of someone who waits for nobody (`ReadersMove`, `Handover`). Fairness is all that is left to assume.
- `PagesSound`: a list has a post once; likes and dislikes together are no more than there are users; categories
  read by a later statement are all that the post has.
- `EndedForGood`: a user has one session at most, and an identifier that was replaced or logged out never
  authenticates again.
- `UsedOnce`: the state of a login is in no store and in no other exchange, and is not drawn again.
- `OwnersKept`: id, email and name are keys; an account made by an identity is that identity's alone and has no
  password; who has signed in through a provider owns the account.
- `AnswersHold`: who is told of a post has it, with a category; who is refused has none, and no picture but one
  that a panic or a failed removal has left; posts stay.
- `StopIsFinal`: after any `Stop` has returned no bucket is removed.
- `StartsGoOn`, of `AllServe`: a migration can be executed on every schema that a release or a start has left, so a
  start is refused only where another has applied that version since the check, which the next start finds; and
  who holds the write lock is never refused its record.
- `OnlyMigration4Loses` delimits what section 6 says of migration 4: while nobody serves, rows are lost in the commit
  of migration 4 and in no other step, and it leaves what was in users and categories.

Assumptions worth knowing:

- `RateLimiter`: `InactiveAfter >= Full + 2 * MaxDelay`. The code removes after 10 minutes and every bucket
  is full after one; the rest is how late a caller may reach the mutex. The proof needs the assumption
  exactly where a bucket is removed and made again full.
- `Sessions`, `OAuthFlow`: identifiers and states are never drawn twice (`uuid.NewString`, `GenerateState`).
- `HttpLimits`: a full bucket pays for one request of every rule that is asked for (a minute does, for all six).
- `ContentReads`: the users are finitely many, so that a count is a number.
- `PostCreation`: pictures have names of their own (random names in `Storage.Save`).

Every invariant, action property and refinement that a passing run checks is stated by a theorem.

**Only model-checked**: liveness (`WriterReleased`, `EveryRequestEnds` of both modules, `StopReturns`,
`AllServe`, `StopsOnSignal`), which with fairness and `ENABLED` is out of the prover's reach.
The abstract specifications have no theorems of their own: what follows from them is stated of the modules that
implement them (`OwnersKept`, `UsedOnce`, `EndedForGood`, `AnswersHold`, `PagesSound`).

## 6. Where code and documents disagree

- **Unknown categories** (read off the code, without a run). `src/internal/web/handler/post_creation.go:37` says that the
  reader "validates submitted category identifiers"; the interface has no such method and
  `CategoryRepository.ValidateIDs` is never called. In `posts_crash` a form with an unknown category goes through the
  picture and into the transaction, where the foreign key refuses it. No post is harmed
  (`ImplementsService` holds): the client is told of an internal error instead of a bad request.
- **Upgrade over migration 4** (`migrations_upgrade`). `004_oauth_accounts.sql` begins with
  `PRAGMA foreign_keys = OFF`, so that `users` can be rebuilt without what refers to it, but it runs in a
  transaction, where SQLite ignores that pragma, on a connection with foreign keys on. `DROP TABLE users`
  then deletes its rows with their cascades: users and categories stay (`AccountsKept`, proved); the sessions
  of a database of version 1 to 3 and the posts, comments and reactions of one of version 2 or 3 go. No other
  migration takes a row away (`OnlyMigration4Loses`, proved).
  `docs/PRD.md:240` asks of the deployment that an existing database remains unchanged.

- **Retry-After of the global limiter** (`limits_retry`). `docs/tasks.md:581` asks that "`Retry-After` is valid when
  present", `docs/PRD.md:163` to include it "when it can be calculated accurately". Whatever the global limiter
  refuses is told one second (`rate_limit_http.go:186`), without a look at the limiter of the request's rule. TLC
  uses up the bucket of a comment, then the global one, waits the second, and is refused by the rule; a login can
  have 12 seconds to go. What does hold, and is proved, is `WaitSuffices`: the wait is enough for the limiter that
  announced it, and one of a rule's limiter also for the global one.

## 7. What is not modelled

- **A panic after `Manager.Create`** has written the cookie: `Recovery` answers 500 and the `Set-Cookie` header goes
  with it, for a session that may not exist. `CookieBacked` is about errors, not about that. Such a cookie signs nobody
  in. A panic after the commit of a post answers an error for a post that exists. Panics are modelled in `PostCreation`,
  before the commit, and in `Lifecycle`.
- **How much of a table is lost**: `Migrations` keeps which tables have rows, so a migration that took some rows
  of a table and left others would not be seen.
- **Rounding** of `float64` tokens: TLC has no floating point. For the limits in use the wait that is announced,
  times the rate, is at least one token in `float64` too (12 · (5/60) is 1), so that `RetryAfterSuffices` is not
  a matter of rounding.
- **Spelling of emails** across the two ways in: registration stores lower case, providers' emails are
  taken as they come. The model keeps both kinds (`Emails`, `LowerEmails`), and nothing promises one account
  per mailbox.
- **Code that nothing calls**: `SessionRepository.DeleteExpired`, `CategoryRepository.ValidateIDs`,
  `OAuthAccountRepository.Create` and `FindByUserID`.
- **Providers**: their HTTP exchanges answer or fail in `OAuthFlow`; that they refuse an unverified email
  themselves is why `Identity` has no such case.
- **Hashing and form rules**: what `bcrypt` and the validators compute is one outcome, accepted or not.
- **The order of a list, times and texts** of posts and comments: `ORDER BY created_at, id` over values that
  `ContentReads` does not keep.
- **`clientKey`**: a client is the key that it makes of `RemoteAddr`; all addresses that do not parse are one.
- **TLS constants, headers, log lines, templates, static files**: no state and no order to get wrong. What
  `WriteHeader` does after a response has begun is not modelled: templates are rendered into a buffer first.

## 8. Plan

Built, in this order: `Sessions` (with `SessionService`), `Reactions` (`ReactionService`), `RateLimiter`,
`PostCreation` (`PostService`), `OAuthFlow` (`OAuthService`), `Migrations`, `Identity` (`IdentityService`),
`TokenBucket`, `ContentReads` (`PageService`), `Routes`, `Config`, `HttpLimits`, `Lifecycle`, with their proofs.

Next:

1. The providers: the choice of a GitHub user's primary verified address, the PKCE verifier that goes with a
   state, as part of `Exchange`.
2. `Lifecycle` over `Migrations` and `Sessions`, whose crashes are now of any moment: with the pool closed by a
   deadline as one of their causes.

## 9. Running it

    tlc -config sessions_race.cfg MCSessions      # any run of PROJECT.json, with its module
    tlapm SessionsProofs.tla                      # any of the ...Proofs modules

A passing run takes between seconds and four minutes. `PROJECT.json` maps every definition to the lines it
models, names the runs, and has for every checked property a mistake that makes TLC report its violation.
