# CSU-STAR backend: formal models

TLA+ models of the CSU-STAR backend (`src/`: a Go service over Postgres, Redis,
Tencent COS and WebSockets), configurations that check them with TLC and proofs
that TLAPS checks. One module per component; a module named `M` has its small instances
in `MCM` or, where several components share one run, in the module of the run:
`MCEvaluations`, `MCModeration`, `MCRegistration`, `MCResourceUpload` or `MCServices`. The
proofs about a run `MCM`, and all modules in it, are in `M_proofs`; those about the hub
are in `Services_proofs`. `PROJECT.json` lists
the runs, says for every definition which lines of the source it models, and lists
the hazards of the code with the properties that watch them.

Run a model with `tlc -config Ledger.cfg MCPointsLedger`, check proofs with
`tlapm PointsLedger_proofs.tla`.

## 1. The system

The process serves HTTP with gin, one goroutine per request. Handlers
(`internal/handler`) parse and answer; services (`internal/service`) decide;
repositories (`internal/repo`) run gorm over Postgres at READ COMMITTED. There
is no lock in the process across requests except inside the realtime hub, so
what interleaves is single SQL statements, Redis commands and COS calls. Three
facts shape all models:

* a plain `SELECT` takes no lock, so a transaction that decides on what it read
  may write after another one has changed it; only `FOR UPDATE` (one place),
  advisory locks (two places) and the row locks of `UPDATE`s serialize;
* Redis, COS, mail and Postgres share no transaction: a request is a sequence of
  calls, each of which may fail, and the process may end between any two;
* nothing is retried or compensated in the background except what the hourly
  and daily tasks of the scheduler recompute.

| component | state | operations | talks to | what is hard |
|---|---|---|---|---|
| Points ledger (`misc_repo`, `resource_repo`, `points_reward_helpers`, `admin_repo`) | `users.points`, `free_download_count`, `points_records`, `download_records` | download, reward, daily check-in, adjustment, row edits, binding an e-mail | called by uploads, evaluations, registrations, administrators | stale reads before relative updates, whole-row saves, the clock passing midnight |
| Upload and deletion (`resource_service`, `resource_repo`, `tencent_cos`) | upload sessions in Redis, objects in COS, `resources` | prepare, client's PUT, finalize, abort, delete, expiry | ledger (reward), course totals | three stores, partial failure, a session used by several requests |
| Realtime hub (`internal/realtime`, `ws_handler`) | registered clients, their channels, broadcast queue, three goroutines per connection | register, publish, broadcast, drop, ping, close | publishers are all services that notify | closed channels, slow consumers, goroutine lifetimes |
| Course totals and social (`social_service`, `social_repo`, `course_repo`, `aggregate_repo`) | `likes`, `favorites`, counters of `resources` and `courses` | like, favorite, view, download, delete, move, recalculate, hourly refresh | scheduler, uploads, moderation | two ways of maintaining one number, snapshots written late |
| E-mail captchas (`auth_service`) | Redis keys for captcha, 60 seconds, proof | send, verify, consume | mail pool, registration | read and write of a key in separate commands |
| Registration, invitations (`auth_service`, `invitation_repo`) | `users`, `invitations`, keys of codes | register, bind, create a code, reward both sides | captchas, ledger | six calls without a transaction around them |
| Login and tokens (`auth_service`, `jwt_auth`) | two blacklist entries of a pair of tokens in Redis | login, refresh, logout, the check of every request | bans | blacklist read and written in two commands |
| Bans and rate limits (`security_service`, `admin_repo`) | abuse counters in Redis, ban columns of `users`, `user_violations` | count abuse, record a violation, ban, unban, edit, automatic end | every request | bans written or ended on a stale row |
| Moderation (`admin_service`, `admin_repo`) | reports, feedback, audit log | file, resolve, dismiss, answer feedback | comments, uploads, notifications | status tested without a lock, effects before the row is saved |
| Evaluations (`course_service`, `teacher_service`) | course and teacher evaluations and their mirrors, counts, replies | create, update, link, unlink, delete, reply | ledger, notifications | a mirrored pair kept by several writes; names hidden by a chain of replies |
| Comments (`comment_service`) | `comments`, `comment_count` of resources | create, answer, delete, hourly refresh | notifications, reports | answers of deleted comments; counts written from a snapshot |
| Notifications (`misc_service`, `admin_repo`, `notification_helpers`) | notices of one user and to all, marks of who read which, announcements, the number an open page was told | send, push, publish, edit, withdraw, read one, read all, prune | hub | a push before the commit it announces; numbers counted and pushed in two steps |
| Scheduler, rankings, caches (`task`, `aggregate_repo`, `pkg/utils/redis`) | cached pages of courses and teachers, ranking tables, sorted sets | read and fill, invalidate, hourly refresh, daily pruning | everything | fills that come after the invalidation, half-written snapshots |
| Contribution score (`misc_service`) | score and level of a user | compute, upsert | evaluations, uploads | computed and written in two steps |
| OAuth (`oauth_service`, `user_repo`) | bindings of identities to accounts | login, bind | ledger (new account), bans | found free first and bound later; two unique indexes decide |
| Mail (`mail_provider_service`, `pkg/mailer`) | channels in Postgres, their cached list, a round-robin cursor for every level | administration of channels; send with tries and a time limit | captchas | a failure whose mail was delivered; one limit for all levels |
| Wiki (`wiki_service`, `wiki_repo`) | categories, documents, the cached tree and pages | create, edit, place, publish, delete, read | none | caches filled late; a category deleted while a document is placed in it |
| Compass (`compass_service`, `compass_repo`) | authors and writers, applications and edit requests, pages, their history, collections, root pages of courses | ask, review, create, edit, link | none | statements without a transaction |
| Corrections and supplement requests (`supplement_request_service`, `admin_service`) | requests to correct or add a course or a teacher | file, approve, reject | course and teacher tables, notifications | double approval |
| Search, lists, detail pages | none | queries, page caches | caches | stale pages |
| Handlers, router, config, commands | configuration | parsing, wiring | everything | none of its own |

What makes each component correct: the ledger explains every balance, downloads
are paid for, one check-in a day; an approved resource has its files and a
session makes one resource; the hub survives slow and broken clients and forgets
none; totals follow rows and drift is repaired; captchas and codes are used a
bounded number of times, rewards are earned; a token is refreshed once; a ban is
neither lost nor ended early and violations escalate; a report has its effects
once; mirrors and counters agree with rows; a push has a row; a ranking is
never half-written for good; a level is that of the latest score;
what a reader is shown of courses, teachers and the wiki is what the tables say; a
mail is tried on every channel there is time for and comes once; an approval goes
with its right.

## 2. Modules and how they map to the code

In every module a request is a record, one per goroutine, in `req[p]` (or `worker`,
`handler`, `client`, `caller`, `post`, `editor`, `hand`, `messenger`, so that modules
can be composed). Its `stage` names the next call it will make; its other fields hold what it has read.
A call to a store, or a transaction whose reads cannot be stale when it writes,
is one action. The constants `Procs` stand for overlapping requests; a goroutine
that has answered takes another request. Operators called `Faulty...` are
plausible bugs, used to make sure that each property can fail; they belong to no
specification.

**PointsLedger.** A row of `users` and the journal as two sums per user (`spent`
for type download, `earned` for the rest), with check-in rows counted per day.
`BeginDownload`/`CommitDownload` split `DownloadResource` at the stale read of
the user; the charge is relative. `BeginCheckin`, `EnterCheckin`,
`RefuseCheckin`, `CommitCheckin` are `DailyCheckin` with its window computed
before the transaction, the advisory lock, the count and the insertion stamped
by the clock then. `Reward` and `AdjustUserPoints` are atomic: relative, or under
`FOR UPDATE`. `BeginSave`/`CommitSave` are the edits of administrators that read
a row and `Save` all of it. `Midnight` moves the clock. An account made by OAuth
gets its default points without a record (`UnrecordedGrant`). Left out: the
`balance` column of records, e-mail texts, which resource is downloaded (a
second download of the same file is charged again by the code, too).

**ResourceUpload.** Upload sessions, objects and rows as three stores.
`Load` reads a session and leaves it there; a finalize looks for every object
(`CheckObject`), commits (`CommitFinalize`) or discards; an abort deletes the
objects; `CloseSession` deletes the key; `BeginDelete`, `CommitDelete` are the owner's
deletion, whose update asks that the row is not deleted, `BeginAdminDelete`,
`CommitAdminDelete` that of an administrator, who reads the status without a lock and
updates whatever it is by then; both go on with `RemoveObject` and `EndDelete`;
`ReportDelete` leaves the objects. Every call may fail (`Faults`) and the process may
end (`Die`). `reloads` is history: how often a session was loaded while another request
was at work on it or after it had been used up; so are `deletions`, how often a row was
deleted, and `overtaken`, how many administrators had read it before the first time.
Left out: ZIP handling.

**UploadQuota.** The counters of one user in Redis that limit calls in an hour and the
bytes and files of uploads in a day. `CountCall` is INCR with the TTL it looks up,
`ExpireCounter` the EXPIRE that follows if there is none, `SetCounter` the SET of a
counter of bytes or files to what was read, less the call, plus what is asked for; an
upload goes through its three counters one after the other, and `EndCounter` is the end
of a key at any moment between. The limits are switched on. `granted` and `asked` are
history: what was let through, and what was asked for, in the life of a counter. `spoilt`
says that another request counted between INCR and SET of one that set the counter
(`raced`), or that the counter ended there (`outlived`); `broken` that an EXPIRE failed.

**RealtimeHub.** Hub, channels and the goroutines of a connection. `SendToUser`
runs under the read lock, `RemoveClient` under the write lock, so each is one
step; `SendReady` and the answer to a `Ping` hold no lock and may find the
channel closed (`PanicReady`, and the second branch of `Ping`: the panic runs the
deferred calls of `readPump`). `drops` are the goroutines `enqueue` starts to
unregister a slow client. `WriteError`, `ReadError` and `WriteClose` end the
pumps. Only the number of messages in a channel is kept.

**CourseAggregates.** Rows of resources, likes and favorites, and the totals of
courses. `Adjusted` is `AdjustCourseAggregates` (never below zero); `StatsOf` is
the query of both recalculations, over what the course shows (`Shown`). A transaction that has written rows and not
committed is in `req`, with `RowLocked`, `CourseLocked`, `FavoriteLocked` for the
locks it holds; a recalculation is a snapshot step and a write step. `Unlike` is one
step where there is a like, because its deletion locks the row of the resource up to the
commit; where there is none nothing is locked, and reading the course (`BeginUnlike`)
and lowering its total (`CommitUnlike`) are two. `hits`
stands for views and downloads, which are maintained alike. Left out: totals of
teachers, evaluation counts, the download count's own unique index.

**EmailCaptcha.** The keys `captcha:repeat`, `captcha`, `captcha:verified`.
`BeginCaptcha` (the key of the 60 seconds is absent; the mail goes out),
`SetRepeat`, `StoreCaptcha`; `BeginVerify` (read and compare), `SetProof`,
`DeleteCaptcha` or `KeepCaptcha` (its deletion fails); `ConsumeProof`; expiries.
Captchas are numbered as they are mailed. Left out: who may ask for which
purpose, wrong guesses (they change nothing), the domain policy.

**Registration.** `Register` call by call: `ConsumeProof` (GETDEL), `Lookup`,
`FindInviter`, `FillCache`, `CreateUser`, `ConsumeInvitation`, `Uncache`,
`RewardInvitee`, `RewardInviter`; `GetOrCreateActiveInvitation` as `BeginInvite`
(under the advisory lock), `InsertInvitation`, `CacheInvitation`; `BindEmail` and
two binds of one user that overlap (`RebindEmail`); `Fail` anywhere. `joined`
records registrations answered with success. How an address is proved is
EmailCaptcha; here `Prove` may happen at any time, which is more than that module
allows. Left out: the password, codes of an older length that are replaced, the
points themselves (PointsLedger's `Reward`).

**Bindings.** Accounts and the identities of one provider that are bound to them. What the
provider says is an input (`Exchange`). A login finds its binding (`FindOauthUser`) or
misses it (`MissOauthUser`) and then inserts account and binding in one transaction
(`CreateOauthUser`); a bind looks (`FindBound`, `MissBound`) and inserts
(`CreateUserOauthBinding`). An insertion needs what the two unique indexes ask for
(`Free`); whoever loses, or fails, is `FailOauth`. `promised` is history: what requests
answered with success were told.

**Evaluations.** Tables `course_evaluations` and `teacher_evaluations`, whose rows
may be linked to a row of the other table that mirrors them. A request reads its
evaluation (`BeginCreate`, `BeginUpdate...`, `BeginDelete...`), writes in a
transaction (`WriteCreate`, `WriteUpdate` with its cases `StaySingle`, `Link`,
`Unlink`, `StayLinked`; `WriteDelete`), which locks the rows in `writes` until
`Commit` or `Rollback`; the counts of the courses and teachers concerned are computed
from a snapshot before the commit. `BeginRelation`/`WriteRelation` change which
teacher gives which course, which decides what is visible. Left out: averages and
scores.

**EvaluationReplies.** Replies to an evaluation and the names they show, of their
author (`ShownAuthor`) and of whom they address (`ShownAddressee`), which the code
derives when it reads them, from the reply that was answered or, when that is `NULL`,
from the evaluation. `Ways` are the ways of reading: lists and single replies look at
what is anonymous; a single reply whose second query fails names its addressee
(`NamingAddressee`); the page of one evaluation, which also answers its creation and its
change, names everybody (`NamingAuthor`). `notices` is who was told. Left out: what
changes between the two queries of one list or one single reply.

**Comments.** Comments of a resource, a course or a teacher in two levels, and the
count of a resource. `BeginCreateComment`/`InsertComment`, `BeginDeleteComment`/
`SoftDeleteComment` split the checks from the transaction; `BeginCount`/`FinishCount`
is the statement of the hourly refresh, whose snapshot may be older than what it
overwrites. `ListedOn` is what readers get, `HiddenOn` the answers that stay active
under a deleted comment.

**Moderation** extends Comments. `ReadReport`, then `ResolveReport` (with `Effect`,
what the resolution does to the thing reported, in one transaction with the row) or
`DismissReport`; the row is saved whole, as it was read. `ReadFeedback` and
`SaveFeedback` handle feedback, whose notification depends on the status that was
read.

**Catalogue.** Courses, teachers, who gives what, and the cached details and lists of
both. `ReadPage`, `ReadLinked` (the second query of a detail) and `FillPage` are the
read-through cache, `CleanPage` one DEL of a
request that wrote (`Invalidated` names the keys it deletes, which are not all that
show the entry). `AskCorrection`, `AskAddition`, `ReadPetition`, `AcceptCorrection`,
`AcceptAddition`, `RejectPetition` are the requests of users and their review.

**LockOrders.** The rows that each kind of transaction of Postgres locks, in its order:
`tx[s]` has the plan and how far it has come. The `Begin...` actions are the transactions
that lock more than one row of users, resources, courses, teachers or evaluations; `LockRow`
takes the next row when nobody holds it, `CommitTx` and `RollBackTx` end the transaction.
Left out: transactions that lock one row, which hold nothing while they wait, and rows that
everybody who takes them takes first or last. It extends no other module: what the other
modules do by a rollback or a failure may be such a deadlock.

**Rankings.** One ranking on its way to its readers. The hourly refresh reads the scores
(`BeginRanking`), replaces the table of the best in one transaction (`ReplaceRows`), reads
it back (`ReadRanking`) and makes the sorted set in Redis like it, command by command:
`ListMembers` (ZRANGE), `AddMembers` (ZADD), `DropMembers` (ZREM), `SetTime` (EXPIRE);
`FailRefresh` ends it before any of them. A reader counts (`BeginView`), takes a page
(`TakeRange`) and looks up what it names (`Look`), or falls back to the table or the rows
with two queries (`FallBack`, `CountRanking`, `ListRanking`). `kind` says whether the
ranking has a table, a sorted set or both. The lists of random courses and teachers are
replaced by `BeginDraw`, `DeleteDrawn` and `PushItem`, which `BreakDraw` may stop.
`repaired` is history: the last refresh had no failure and nothing has changed since it
began. Left out: how a score is computed, paging, the dimension of a ranking.

**Review** is abstract: a case is filed, seen pending by a reviewer, and decided;
whoever saw it pending may decide it again, and the user is told every verdict.
Moderation (`ReportReview`) and Catalogue (`PetitionReview`) implement it by
`INSTANCE Review WITH ...`; both are checked as the temporal property `Reviewed`.
`VerdictIsTold` and `DecisionsAreFinal` are what it promises.

**Access.** The ban columns of a user, violations, the abuse counter, and pairs of
tokens with their two blacklist entries. `Enforce` reads the account of every
request; a lapsed ban is ended by `Lift`, which writes the row it had read. Banning,
unbanning and editing by administrators read (`BeginChange`) and save the row
(`SaveUser`). `CountAbuse` (INCR), `ReadViolation`, `WriteViolation` are the way to a
ban of the system. `CheckRefresh` reads the blacklist, `FinishRefresh` writes it.
Time is one action, `LetBanLapse`. A blacklist entry lasts as long as its token here. In
the code it has a fixed TTL of 604,800 seconds (`auth_service.go:363`, `:373`), and the
token the configured `refresh_expiration`, which is the same in `config.yaml`: with a
longer one a used or withdrawn token would be accepted again after seven days.

**MailPool.** Channels, the cached list of them (`ListChannels`, `StoreChannels`,
`ForgetChannels`, `InvalidateChannels`), and the sending of a mail: `EnterLevel`
takes the level's channels in the order of their ids (`InOrder`) from the next place of its
cursor, `Try` has four outcomes (delivered or not,
reported as such or not), `GiveUp` ends it. Time is counted in tries that time out.

**Wiki.** Documents and categories of one section. `BeginTree`, `ReadTree`, `ReadPage`,
`ReadName` and `Store` fill the caches, each read one query (that of the category may
fail, and the page then has no name for it), `WriteDoc`, `SetDocPublished`, `DeleteDoc`, `DropCategory` and the
writes of categories commit, and `Invalidate` empties the caches after them or fails.
`shown[k].late` is history: the key is out of date and nobody is going to remove it.

**Compass.** Applications and requests to edit a page with their review (`Grant` and
`Settle` are two statements, in this order), pages with their history (`WritePage`,
`AppendHistory`), collections (`InsertCollection`, `TieCollection`) and root pages of
courses (`PlantCourseRoot`, `LinkCourseRoot`). The code runs these without a
transaction, so each is an action and `Stumble` may end a request between any two.
Left out: the command that imports and repairs pages (`cmd/repair_compass_wiki`,
`docengine/wiki_import.go`); it writes them without a history, so what is said of pages
and their history is about pages that only requests write.

**Notifications.** Notices of a user and notices to all, marks of who has read one
to all, and announcements, which are shown through notices. `SendNotice`/`PushNotice`
commit first and push after; `SendInside`/`CommitNotice`/`RollBack` push inside a
transaction. `SaveBulletin` is the whole-row save of an announcement. `told[u]` is
what the open page of `u` has been made to believe: pushes add, a number that was
counted (`CountUnread`) and sent (`Tell`) replaces it; `why` is history and says which
of the known causes made it wrong. `GrowOld` and `Purge` are the retention.

The modules of runs that have several components join modules that share no variable
(EvaluationReplies and Rankings stand beside Evaluations, UploadQuota beside
ResourceUpload, Bindings beside Registration, Catalogue and LockOrders beside Moderation; Access, MailPool, Wiki, Compass and
Notifications share nothing but goroutines). Exploring their product would say
nothing more, so a variable `part`, constant in a behaviour, says which of them
works; within a part, some inputs are kept still, as the comments of these modules
say. A property of such a run joins the corresponding ones of its modules, and
`Faulty...` operators that no mutant uses are there to break its other conjuncts.

## 3. Runs

| run | instance | states | what it shows |
|---|---|---|---|
| Ledger | 1 user, 2 requests, 3 days | 118,057 | as long as nobody saves whole rows: `LedgerMatchesPoints`, `DownloadsPaid`, `OverdraftBounded`, `OwnDayCheckinOnce`, `LateCheckinsBounded`; `CheckinAnswered` under fairness |
| Ledger_lostupdate | 1 user, 2 requests | violation | `LedgerMatchesPoints` fails with row edits of administrators |
| Ledger_midnight | 1 user, 2 requests, 2 days | violation | `OneCheckinPerDay` fails |
| Upload | 1 session, 2 files, 2 rows, 3 requests, all faults; 1 user with 3 counters, 2 requests | 586,634 | `FinalizedPerLoad`, `FilesLostOnlyByReuse`, `DeletedPerReader` (only administrators who had read a row before its deletion delete it again); `UploadSound` (quotas are kept except by overlaps, nobody pays twice, counters end) |
| Hub | 2 connections of 2 users, channels of 2 | 15,842 | `HubSurvives` (each channel is closed once, and the hub sends on open ones), `ServedOrClosed`; `DeadIsRemoved`, `DroppedIsClosed` under fairness |
| Aggregates | 1 user, 2 resources, 2 courses, 2 overlapping requests | 622,875 | `LikeCountExact`, `DriftExplained` (action property), `RepairedWhenQuiet` under fairness |
| Captcha | 1 address, 3 requests, 4 mails | 167,680 | `MailsBounded`, `CaptchaUsesBounded` |
| Captcha_minute | 1 address, 2 requests, 2 mails | violation | `OneMailPerMinute` fails |
| Registration | 2 addresses, 1 inviter, 2 codes, 3 requests; 2 identities, 2 accounts, 3 requests | 654,200 | `RegistrationSound` (a login that worked works for good, nobody is locked out), `RewardsEarned`, `SuccessIsComplete`, `OnePendingInvitation` |
| Evaluations | 1 course, 2 teachers, 2 row ids in each table, 2 overlapping requests of 4; 1 evaluation with 2 replies; a ranking of 2, a list of 2 random courses | 328,277 | `PairsExplained`, `CountsExplained`, `NamesExplained`: a pair or a count is lost only by the overlaps they list, and a name that lists and single replies hide only by the changes it lists; `RankingsSound` (an undisturbed refresh repairs a ranking, readers agree) |
| Moderation | 3 comments of a resource or a course, 2 reports, 1 feedback; 1 course, 1 teacher, 2 names, 1 petition; 2 requests; 3 transactions over 1 user, 2 resources, 2 courses, 1 teacher, 1 pair of evaluations | 327,850 | `Reviewed` (Moderation and Catalogue implement Review), `CommentCountExplained`, `PagesExplained`; `ModerationSound` (reports have their effect once, deadlocks have the known causes) |
| Services | 13 parts, 2 requests each, see below | 683,186 | `AccessSound`, `BansExplained` (Access); `MessagesSound` (MailPool, Notifications); `DocumentsSound`, `DocumentsExplained` (Wiki, Compass, announcements) |

**Bounds.** Users, resources, addresses and inviters do not interact except
through the rows they share, so one or two of each reach every conflict; two
overlapping requests reach every conflict of a pair, and three are used where a
third one makes a difference (a session, a code or a captcha loaded by two while
a third renews it). `MaxDay = 2` allows a request to cross midnight, and another
one in the next night. `MaxEarned`, `MaxDownloads`, `MaxMails`, `MaxReloads`,
`MaxRequests`, `MaxDrops` only stop counters that would grow forever; each lets
the count it bounds reach at least the value at which its property would first
fail, and the proofs hold for all of them. `MaxRequests = 2` lets two requests of
Aggregates overlap with any number of refreshes, uploads and reports; it is also
what "once requests stop" means in `RepairedWhenQuiet`. Symmetry is used only in
runs without liveness properties.

In Services, each part has two goroutines and what its question needs: one account
with two pairs of tokens, up to four recorded violations (three bring a ban for ever,
the fourth comes after it) and one tolerated call (`AbuseLimit`); up to three channels
on two levels, one of them from the configuration, two tries and time for two, so that
a level may use up either; two documents, one category, two slugs; two
members, two compass pages, one course and two forms; one receiver, two notices and
one announcement. `Turns = 6` is a common multiple of the sizes of levels, so the
cursor that is counted up to it chooses as one without end does. `MaxRequests = 4` in
Evaluations lets two requests break a pair and two more meet what they left.
Compared with overlaps of two requests, those of three add nothing to properties that
speak of one write on one stale row; `PairsBounded`, which speaks of all requests at
once, counts the goroutines that there are.

In Upload, the limit of calls is 1 and those of bytes and files are 2, so that a request
can be let through, and another refused, on each; `MaxCounter = 2` stops what is counted,
and a set counter still goes to 3, above its limit. Only one counter is looked at in a
behaviour; the two others end as soon as they have a time to live, because a request
meets them one after the other. In Evaluations, `TopN = 1` of two ranked courses leaves
one out, and `DrawSize = 2` lets a list be broken off in its middle; only the first of the two
courses is ever taken off the list, which reaches a ranked and an unranked one, and
the next step of a reader after its answer is its end, since an answer is judged when it
is given. A third identity or account in Bindings would meet the same two indexes.

In the part of LockOrders, three transactions allow circles of three, in which one that is
opposed to nobody may take part (a view that waits for a course, between a finalize and a
download); two resources and two courses are needed for two moves in opposite directions.
A transaction that has locked nothing yet, or everything, goes on before anything else
happens; neither can be part of a circle.

**Deadlock** is checked where the model never has to stop. Ledger, Captcha,
Evaluations, Moderation and Services use up row ids or reach their bounds, so their
configurations switch it off.

**Fairness.** Ledger: a transaction that has its locks goes on (`WF` of the
commits), and Postgres serves the waiters of a lock in order, so a check-in that
finds the lock free again and again gets it (`SF` of entering or refusing). Hub:
`Run` keeps serving and Go's `select` starves no ready channel (`WF` of the three
receptions); pumps go on, because every write has a deadline and a closed
connection fails its reads (`WF`); nothing forces a healthy connection to end.
Aggregates: a request goes on or fails, because Postgres breaks deadlocks (`WF`),
the ticker starts a refresh (`WF`) and a refresh that is tried every hour
succeeds some time (`SF`). No arrival of a request is ever fair. The
other runs check safety only and assume none: each of their requests may stop for good
after any of its steps.

## 4. Findings

* **Lost update of points** (Ledger_lostupdate). `BanUser`, `UnbanUser` and
  `UpdateUser` read a user without a lock and `Save` every column
  (`admin_repo.go:612`). A reward that commits in between is gone from
  `users.points` and still in `points_records`.
* **Two check-ins on one day** (Ledger_midnight). `DailyCheckin` fixes its window
  before it starts its transaction (`misc_repo.go:288`) and stamps the row later.
  A request that crosses midnight counts in the old day and inserts in the new.
  What does hold is `OwnDayCheckinOnce`, and `LateCheckinsBounded` for the rest.
* **Several captchas within 60 seconds** (Captcha_minute). The key is read before
  the mail is sent and set after it (`auth_service.go:82`, `:103`). What does hold
  is `MailsBounded`: one for every overlapping request.

Disagreements that have no run of their own, because they turn on what is deployed or
on a comment's emphasis:

* The audit rows of a ban by the system have operator 0 (`security_service.go:131`,
  `:220`, `:237`), and `database/schema.sql:403` makes `operator_id` refer to `users`.
  With that schema the transaction rolls back and violations are never recorded. Access
  keeps both outcomes (the rollback is `Fail`).
* `mail_provider_service.go:27` says the time to live of the cached list matters only
  for edits made in the database by hand. A request that listed the channels before a
  write and stores them after the invalidation needs it too (`ListKnown`).
* `oauth_service.go:87` tells a bind that lost a race from other failures by
  `gorm.ErrDuplicatedKey`, and `auth_service.go:312` does the same. gorm gives that error
  only when it is opened with `TranslateError`, which `cmd/main.go:49` does not do;
  `social_service.go:86` and `teacher_service.go:892` therefore also look at the text of
  the error. The loser of such a race gets an internal error (`FailOauth`).
* `src/README.md:247` lists a cache of the ranking of teachers. `syncTeacherRankingRedis`
  is never called, so there is none and readers always take the table (`kind = "teachers"`).

* `course_service.go:251` and its siblings answer a second evaluation by the same user with
  a conflict when the insertion breaks a unique index, and `database/schema.sql` has none on
  the two tables. Evaluations therefore has two evaluations of one user where two requests
  overlap.

Weaker facts that properties state on purpose: an account can be overdrawn by one
charge per overlapping download (`OverdraftBounded`); a session may make a second
resource or lose the files of one if it is loaded twice (`FinalizedPerLoad`,
`FilesLostOnlyByReuse`); two administrators, or an administrator after the owner, both
delete a resource, purge its files and tell the uploader (`DeletedPerReader`); totals of
courses drift in the listed ways (`KnownDrift`), among them an unlike without a like,
which lowers the course it had read although the resource may have moved on; a captcha may prove its address several times
(`CaptchaUsesBounded`); a registration that loses its code ends as an account
without rewards and an error (allowed by `RewardsEarned`).

The properties named `...Explained` and `...Known` of the later modules list in the same
way all that can go wrong: two overlapping requests break a pair of evaluations
(`PairsExplained`) or a count (`CountsExplained`); deleting a reply can name an anonymous
author to whom another reply is addressed (`NamesExplained`), a single reply names its
addressee if its second query fails, and the page of one evaluation names every author
and addressee of its replies whether they are anonymous or not
(`course_service.go:1045`, `teacher_service.go:924`, of which `NamesExplained` says nothing); answers stay counted under
a deleted comment (`CommentCountExplained`); pages of courses and teachers stay out of
date after resolved edits that delete other keys (`PagesExplained`); a ban can be lifted
or shortened from a stale row (`BansExplained`); a document can end up in a deleted
category (`OrphansExplained`); one edit of a compass page can take back another, and a
course can get two root pages (`EditsExplained`); an announcement deleted during its
edit is back (`ReturnsExplained`); a mail can come twice (`CopiesExplained`); an open
page can believe a wrong number of unread notices (`NewsKnown`). Overlapping uploads can
exceed a quota, and a count whose day ended during a request is carried over into the next
one (`QuotaKept`, `NothingCountedTwice`); refused uploads count too, and each renews the
day of its counters. Courses that are no longer listed keep their places in the ranking, so its
number can be larger than what is shown (`AnswersAgree`). Transactions that lock rows in opposite
orders can deadlock (`DeadlocksKnown`): a download (user, resource, course) and a finalize
or a new evaluation (the user last); linked evaluations of one course and one teacher that
begin on different sides, or with a relation of the two on one of them; an update of a
linked pair and its removal, which begins with the mirror; and two that lock several courses
or several teachers (moves, updates that change what the mirror rates, the hourly refresh).
Postgres rolls one of them back, its request is answered with an internal error and nothing
tries again; a view or a like can be that one. All other transactions, in any number, never
wait in a circle. Of the reports of one
resource only one can be resolved, since the second finds it deleted and fails
(`OneResolution`).

## 5. Proofs

All theorems hold for any finite set of requests and any value of the bounds and limits,
from the assumption named in the module of the component, which TLC evaluates in the
runs: `LedgerAssumption`, `HubAssumption`, `AggregateAssumption`, `CaptchaAssumption`,
`UploadAssumption`, `QuotaAssumption`, `RegistrationAssumption`, `BindingsAssumption`,
`AccessAssumption`, `MailAssumption`, `NoticesAssumption`, `CommentsAssumption`,
`ModerationAssumption`, `CatalogueAssumption`, `LocksAssumption`, `EvaluationAssumption`,
`ReplyAssumption`, `RankingsAssumption`. They say that the sets of requests, or of the rows
that are counted, are finite, that bounds are numbers, that the value for "none" is none of
the ids and that the tables of twins have different ids; a ranking has room for one at
least (`rankingTopN` is 100).

Each proof has the same shape: an inductive invariant, one lemma for every action (or
group of actions that change the same things) that the action keeps it, and a temporal
theorem that joins them. A theorem about a module whose run joins several is stated for
its own specification (`AccessSpec`, `MailSpec`, ...); `RunIsCovered` shows how a run
that keeps its parts apart is a behaviour of each.

* **PointsLedger_proofs.** `TypeCorrect` and `CheckinOnce` for the whole
  specification, whole-row saves included; `LedgerHolds`, `DownloadsArePaid` and
  `OverdraftIsBounded` for `AccountSpec`, without them. `Books` (the two balances)
  is inductive with the types alone, because every write is relative.
  `OwnDayCheckinOnce` is not inductive: a request between its count and its
  insertion must still be right, so the invariant adds that it holds the lock
  (`HolderInv`) and that its window is still empty (`CountInv`).
  `OverdraftBounded` counts the requests in flight and so is inductive itself; the
  work is in what a step does to that cardinality. `LateCheckinsAreFew` counts the
  requests whose window is an earlier day in the same way; `LateInv` adds that no
  window is ahead of the clock and nothing late has happened on a day to come.
* **CourseAggregates_proofs.** `AggregateTypes`, `LikesAreCounted`, `TotalsDriftAsKnown`.
  Totals are sums over sets, which the model computes with the fold of the library. The
  fold is shown to be the number of pairs in a pile of one layer for each resource
  (`TotalSplit`, `FoldIs`): a least set on which the two would differ cannot exist, since
  both take out the same element. Adding a resource, a hit or a like to a sum is then a
  fact about the size of a set. `Inv` adds to the types and the like counts that a
  resource that was not uploaded has no hits, likes or favorites (`Unborn`), that requests
  are about uploaded resources (`Asked`), and that a favorite about to be inserted is not
  there, one about to be deleted is, and no two requests hold the same one
  (`FavoritesApart`). The counter of a resource is the number of its likes, since row and
  counter change in one transaction under the row's lock; an unlike that finds no like
  changes neither. `TotalsDriftAsKnown` takes a
  course whose totals agree with its rows (`Agree`) and a step that is none of the known
  drifts (`Unknown`), and shows for every action that they agree afterwards: no total is
  cut off at zero in such a step (`AgreeBounds`, `AgreeFavorite`).
* **EmailCaptcha_proofs.** `CaptchaTypes`, `CaptchaUses`, `MailsAreBounded`. The
  bound on the uses of a captcha needs `CaptchaInv`: a captcha belongs to one
  address (`Owned`), before it is stored only its own request has it (`Fresh`),
  and while it is stored its uses are exactly the requests about to delete it,
  after which the uses and the requests still proving are together no more than
  all (`Counted`).
* **ResourceUpload_proofs.** `OneResourcePerLoad`, `FilesKept`, `RepeatedByOvertakenOnly` and
  `UploadIsSound`. `LoadsCounted` charges every row, and every finalize that may still
  make one, to a load of its session; `UsedOnceOrReloaded` says how far a session has
  come that was never loaded again: one request, one row, and the objects that a
  finalize has seen, or a row needs, are there. `DeletionsCounted` adds
  to the deletions of a row that is deleted the administrators who still hold it as
  present: together they are no more than one and those who were overtaken. For UploadQuota (`QuotaInv`), `AllReadWell` relates what a request
  has read to what was let in meanwhile, unless a race or an end of the counter is
  marked; that is what `QuotaKept` and `NothingCountedTwice` need.
* **Registration_proofs.** `EveryRewardIsEarned`, `SuccessStaysComplete`,
  `OneInvitationWaits`, `RegistrationIsSound`. `PaidOnce` compares what an inviter was
  paid with the codes used up by registrations that are over (`Settled`), so a
  registration on its way to the reward is not counted yet; `RegisteredOnce` and
  `CodesUsed` say that an address and a code belong to one request; `OneInserts` is
  what the advisory lock gives. For Bindings (`BindingsInv`) the two unique indexes are
  `OneIdentityEach` and `MadeWithIdentity`.
* **Services_proofs.** Access: `AccessIsSound`, `BansAreExplained`; `RowsKnown` says of
  rows in the table and of rows that requests hold that they count no violation which is
  not recorded, `SpentForPairs` and `PairsBounded` count the requests with a token. Wiki
  and Compass: `DocumentsAreSound`; what an editor has in hand was there when it looked
  (`KnownWork`, `KnownHand`), and the last write of a page is in its history or about to
  be (`WritesLogged`). `DocumentsAreExplained` is the action property of the three
  modules of documents. MailPool and Notifications: `MessagesAreSound`; `Sorted` says
  where a mail has come in its list, `Tallied` what its tries came to; `Informed` says
  what an open page knows, save what is under way, and `Undisturbed` what a goroutine that
  met no other can rely on. RealtimeHub: `HubInv` joins the types, `ClosedOnce`,
  `RegisteredIsOpen`, `ServedOrClosed` and `WaitingIsNew` (a client that waits to be
  registered was never registered, so registering it opens no closed channel); from it
  follow `HubTypes`, `HubKeepsRunning` (`HubSurvives`) and `NobodyForgotten`.
* **Evaluations_proofs.** `PairsBreakByOverlap` and `CountsErrByOverlap` rest on `EvalInv`:
  what a transaction has written fits the tables (`Fitting`), no other transaction has one
  of its rows (`RowsApart`), and either it takes the mirror of everything it writes along
  and counts all it concerns (`AllSound`), or its evaluation is `Lost`. `Lost` says more
  than that the evaluation is not as it was read: the rows that show this are gone or are
  the transaction's own, so until its commit nobody can make it look untouched again
  (`LostStays`). A transaction that is not astray when it commits was therefore sound when
  it wrote. `HiddenNamesStay`: a reply that waits to be inserted answers a reply that was
  there, of the same evaluation, or nothing (`GoodReply`); what a reply answers
  (`NamesStep`) and its own anonymity (`AuthorStep`) change only by the steps named. `RankingsAreKnown`: `BoardWritten`
  says what of the sorted set is already what was computed, command by command,
  `SoFarRight` what an undisturbed refresh has read and done so far, and `ViewsRight` what
  a reader under which nothing changes has in hand; `OneDraw` does the same for the lists of random courses.
  `RankingsAreSound` puts the three modules together.
* **Moderation_proofs.** Review, Comments, Moderation, Catalogue and LockOrders.
  `VerdictIsTold` and `DecisionsAreFinal` are about the abstract review: `ReviewInv` adds
  to `Told` that a case under review was filed (`Reviewable`). `CasesAreReviewed` is the
  refinement: every step of Moderation and of Catalogue maps to a step of Review or to
  none, under the mapping of the two `INSTANCE Review`; so the two theorems hold of
  reports, corrections and supplement requests. `CountsAreShown` needs that replies are
  one level deep and on the page of what they answer (`Placed`): then what is listed and
  what is hidden divide the active comments (`SeenAreActive`), and every action but the
  write of a refresh keeps the count. `PagesAreExplained` compares, write by write, the
  keys that show an entry with those that are deleted. `ModerationIsSound` adds the
  effect of a resolved report (`Effective`) and the deadlocks. For these, `LocksInv` says
  that a transaction locks rows upwards in every order of the tables it agrees with
  (`Ordered`). Of transactions of which no two are opposed, all agree with one order;
  whoever waits, in a circle, for a row of the highest level waits for somebody who waits
  on that level too, so both walk one table, which makes them opposed (`NoCircle`).

Only model-checked:

* liveness (`CheckinAnswered`, `DeadIsRemoved`, `DroppedIsClosed`, `RepairedWhenQuiet`),
  which rests on fairness and ENABLED and is outside of the prover's reach. All other
  properties of the passing runs are theorems.

## 6. Plan

Done, most important first: money, files, connections, totals, accounts; then
evaluations and comments, moderation and its abstract Review, courses, teachers and
their caches, access and bans, mail, wiki, compass, notices, rankings, quotas, bindings,
lock orders; the proofs of all of these, save what section 5 leaves to TLC.

Models still to come: contribution score and levels, reordering in the wiki, comments and
the hot score of compass pages.

## 7. Not modelled

* Search, lists and detail pages change nothing; the cached ones are in Catalogue.
* Handlers, middleware, router, configuration and commands only parse, word and wire.
* OAuth exchanges with the providers are outside services, whose answers are inputs of
  Bindings.
* Password hashing, contents of tokens and mail templates are data that no property
  here tells apart.
* The contribution score is a sum computed from rows and upserted; the next contribution
  repairs a refresh that was lost.
* Limits by address count like those by user (`BeginCall`); no two users share one here.
* The mail an administrator sends to test a channel, images of the wiki, the compass's
  import and its store in memory (for development) keep no state the modules share.
