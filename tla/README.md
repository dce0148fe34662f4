# A verification project for the Burrow API

The Burrow API (NestJS, PostgreSQL through Prisma, Redis) lets verified employees find flats and
flatmates and talk to each other. This directory models the parts of it that keep state which
several requests, a nightly job, crashes and the clock touch at the same time, checks the models
with TLC and proves their main invariants with TLAPS.

Contents: 1 the system, 2 the models, 3 the runs, 4 the proofs, 5 what the code does not keep,
6 what is not modelled, 7 the plan.

## 1. The system

One or more Node processes serve HTTP under `/api/v1`. A handler is a chain of `await`s; between
two of them any other handler, in the same process or another, may run. Shared state lives in
PostgreSQL rows and Redis keys; only the SSE subscriber map and the company-domain allowlist live
in a process. There are no distributed locks. A Prisma `$transaction` is atomic, and a single
`updateMany` with a filter re-evaluates the filter on the committed row once it has the row lock
(READ COMMITTED). Everything else is check-then-act.

| Component (under `src/src`) | State | Operations | What is hard |
|---|---|---|---|
| Conversation requests `messaging/messaging.service.ts` | `Conversation` row of a pair: status, initiator, decision marks | create, accept, reject, send (the recipient's first message accepts), reopen | block check and row read precede the write by several awaits; reopening is an update by id |
| Archive job `messaging-pending-archive.service.ts` | the same row | nightly `updateMany` | measures age from `createdAt`, races with everything above |
| Blocks and reports `safety/safety.service.ts` | `Block`, `Report` rows, mail batching in Redis | block, unblock, report, each sweeping pending requests | block row and sweep are two writes; report search is outside its transaction |
| Number sharing `messaging.service.ts` | `NumberShareRequest` rows, `numbersShared` | request, respond | search and create are two awaits; the answer is written by id |
| Quotas `messaging-rate-limit.service.ts` | Redis counter per user and day; sorted set of sends | reserve, refuse, release; send rate | races for the last slot, midnight, a release after a partial failure |
| OTP codes `auth/services/otp.service.ts` | Redis hash per purpose and identifier; set of deliveries | issue, record, verify, invalidate | one command at a time; HINCRBY revives a deleted key; no TTL between HSET and EXPIRE |
| PIN lockout `auth/services/pin.service.ts` | Redis failure window, lock, lockout events, recovery flag | record failure, lock, clear, recover | failures racing at the limit; a success clearing a lock just set |
| Auth flows `auth/auth.service.ts` | signed tokens, `email-rebind-meta` key | sign-up, login, recovery, e-mail change | several calls that rely on each other's leftovers |
| Unread counts `messaging.service.ts` | Redis cache with a TTL of 5 s | read-through, delete on write | a count computed before a write is cached after it |
| Accounts `users`, `profiles`, `listings`, `admin` | soft deletion, visibility, phone verification | upserts, deletion, ban, restore | writes in flight undo a deletion; flags set from old reads |
| Manual review `admin/admin.service.ts`, `domain.service.ts` | `ManualReviewRequest`, allowlist cache | approve, reject | both may win; effects after the commit may fail |
| Lists `messaging`, `browse`, `admin` | keyset cursors held by the client | next page | rows arrive, move and leave between two pages |
| Uploads `uploads/uploads.service.ts` | Redis counter per user and hour, metadata of a pending upload, the bucket | sign, confirm | quota taken before the work that may fail; the signed URL and the metadata end at different times |
| Commute `maps/maps.service.ts` | Redis counter per day, cached answers | commute, with up to two paid calls | races for the last unit, refunds, midnight |
| Address limits `auth-ip-rate-limit.interceptor.ts`, `admin.service.ts` | sorted set per address; counter with a TTL | admit, refuse | counted before or after the request is added; INCR and EXPIRE are two commands |
| Fields and public pages `listings`, `profiles` | the fields of a row; the rows a page is made of | PUT, PATCH, GET | a PATCH writes back what it read; a page is several reads |
| SSE `messaging/sse.service.ts` | in-process map of subscribers | subscribe, publish | events reach who is connected here and now; tabs of one user come and go |
| Mail, infrastructure, seeds | none that operations race on | | |

Interactions: the message handlers call the block check, the quota, the unread cache and SSE;
blocking and reporting write the conversation row behind their back; the archive job does too;
the auth flows, phone verification and account deletion share the OTP and PIN keys.

What makes each component correct:

- *Requests*: a request is decided once, by the user who was asked or by time; a rejection locks
  its initiator out and nobody else; before acceptance the recipient sees one message; status and
  marks agree; a block leaves no request of the blocked user pending; no request waits for ever.
- *Number sharing*: numbers become visible only by the agreement of the user who was asked; an
  answer stands; no second open request.
- *Quotas*: the counter is the number of rows plus slots in flight; the cap holds whatever races.
- *OTP*: the attempts counter never lags behind the guesses; a spent code stays spent; every code
  has an end; deliveries stay within the hourly limit.
- *PIN, flows*: enough failures lock; a lock is not lifted by what started before it; one burst is
  one lockout; recovery leaves the account usable.
- *Unread*: a stale count disappears on its own; only what the viewer was shown is marked as read.
- *Lists*: what stays in place is listed once.
- *Accounts*: what was deleted stays invisible. *Who holds an address*: only of an allowed company,
  and by a code of one's own request. *Budgets*: what was paid for is used or given back.
- *Limits*: no window admits more than its limit, a refusal counts for nobody, and a lockout ends.
- *Reports*: a report that is pending is not filed twice, a ban closes them, the admin hears of each.
- *Edits*: a saved field is lost only to an edit that overlaps it. *Pages*: what was hidden before
  the request is not shown. *Streams*: an open one misses no event.

## 2. The models

Every `await` on the database or on Redis is a step. A transaction, one SQL statement and one
Redis command are atomic. A handler's record `req[h]` holds whose request it is, its next step and
what it has read; what it read may be out of date when it acts on it. Logging, DTOs and wording are
left out.

### `Pair.tla`

The two participants and `Clients`, which says how their requests overlap:
`"free"`, any number at once (two tabs, a retry after a client timeout);
`"perUser"`, each client waits for an answer before its next request, as the web client does in
one tab; `"serial"`, one request at a time in the system. A property that needs one of these says so.

### `Conversation.tla`

| Model | Code |
|---|---|
| `conv` | the row: status, `initiatedByUserId`, `acceptedAt`, `rejectedByUserId`, `archivedAt` (set or not), `createdAt` older than 30 days (`overdue`) |
| `blocks` | `Block` rows |
| `CheckBlockedByTarget`, `CheckViewerBlocked` | the two queries of `assertCanMessage` |
| `FindForCreate`, `InsertConversation`, `ReopenConversation` | `createConversation`: read, then one of two transactions |
| `FindForAccept`, `FindForReject`, `CommitAccept`, `CommitReject` | accept and reject: read, block check, guarded `updateMany` |
| `FindForSend`, `CommitAccept`, `CommitPost` | `sendMessage`: implicit acceptance, or a message in an active thread |
| `FindBlock`, `InsertBlock`, `SweepPending` | `blockUser`: three awaits |
| `FileReport`, `Unblock` | `createReport` (one transaction), `unblockUser` |
| `ThirtyDaysPass`, `ArchiveStalePending` | time; the nightly job |
| `Fail` | every answer that no variable decides: recipient not found, rate limits, an existing pending report, a failed query, a crash |

History: `acked` (blocks whose call has answered), `early` (messages of each user while the
current request is pending, saturating at `MaxEarly`), `ignored` (the current request is 30 days
old). What follows the commit (SSE, cache deletions) is in `Inbox.tla`. No handler lives through
`ThirtyDaysPass`.

### `RequestLifecycle.tla`

What the row promises to its two users: an abstract machine of status, initiator and who rejected,
with the actions `Request`, `Accept`, `Decline`, `Expire`. `Conversation!KeepsPromise` is the
refinement, under the mapping of the row's fields; blocks, handlers and the clock disappear. Two
requests that cross (each user reopens the archived row) are allowed by it: the second replaces
the first, and the row still has one initiator and one recipient.

### `NumberShare.tla`

`shared`, the `requests` rows by id, `blocks`, and the handlers. `FindForRequest` takes the
snapshot of `numbersShared` that `AfterBlockCheck` uses two queries later; `FindPending` and
`CreateRequest` are two steps; `Respond` is the transaction that updates by id. The conversation
stays ACTIVE, which `Conversation.tla` shows it does once accepted. Blocks change at any time, a
user's own only while they have no request waiting (under `"perUser"`).

### `NewConversationQuota.tla`

One user's counter per UTC day. `Reserve` is INCR and the comparison of its result, `Refuse` the
DECR that follows, `Insert` the transaction, `LoadFails` a failure after it, `Release` the DECR of
the catch block on the key of *its* day. `Die` leaves the slot taken, `Midnight` moves the day
between any two steps. History: rows per day, slots `lost`, slots given back in the `wrong` place.

### `Allowance.tla`

What the counters per day or hour promise: a unit is granted while one of its period is left, and
given back at most once; a unit given back to the wrong period raises the cap of that one alone
(`Spec`), or there is none (`ExactSpec`). Refined by `NewConversationQuota` and `MapsBudget`
(`Spec`) and by `Uploads` (`ExactSpec`), each as its property `KeepsAllowance`.

### `MapsBudget.tla`

`getCommute`. `Lookup` is the end without a key (an estimate), the cached answer, or the way to
`Count`: INCR and the comparison. `CallWithTraffic`, `CallWithoutTraffic` are the two calls, `Store`
the SET of the answer, `Refund` the DECR on the key of *its* day, `Refuse` the DECR of a refused
unit. `Die`, `ExpireEntry` and `Midnight` come at any time. History: units `kept`, refused ones
`stuck`, `surplus` of another day.

### `Uploads.tla`

| Model | Code |
|---|---|
| `Reserve`, `Refuse`, `Sign`, `SaveMeta`, `FailPut` | `signUpload`: INCR and its DECR, the signature, the SET of type and size for 900 s |
| `Upload` | the client's PUT to the bucket (outside the code), while the URL works: in its declared size or another |
| `ReadMeta`, `Head`, `Confirm`, `FailConfirm` | the confirmation: GET, HEAD and the comparison of the size, DEL |

An object is named by its random key, which is used once. Time ticks in 300 s. History: `spent` (a
confirmation took its metadata) and `fitted` (the bucket had it in its declared size at some time).

### `SlidingWindow.tla`

Both limits that are a sorted set of times. `limiter = "send"` is `assertMessageSendRate`: `Add`,
`Trim`, `Count`, and `Remove` when refused. `limiter = "auth"` is the interceptor of the auth routes:
`Trim`, `Count`, then `Add`. A request takes `Life` ticks at most, which is less than a window.
History: `met`, the requests that were in the set's commands together.

### `AdminLogin.tla`

The counter of `POST /admin/login` from one address: `Attempt` is INCR, `SetTtl` the EXPIRE by the
request that created the key, `Compare` the password, `Die` a death between the two commands. The
counter saturates at `Most`; a success stores nothing, so it counts as a failure does. History:
`orphaned` (the key lost who would have set its TTL).

### `ReportFiling.tla`, `ReportMail.tla`

The rows of reports on one user: `FindUser`, `FindPending` and `Commit` are `createReport`, `Patch` is
`patchReport`, `FindForBan` and `Ban` are `banUser`, `DeleteAccount` is the owner's. A topic is a
reporter with a conversation or without. And the mail that follows the commit:

| `ReportMail` | Code |
|---|---|
| `lastAge`, `count`, `countAge` | `admin:last-report-email`, `admin:pending-report-count` and its TTL |
| `File` | `createReport` once its transaction is committed |
| `GetLast` | GET of the time of the last mail: a mail, or the count only |
| `CountReport` | INCR, which leaves a key that was absent without a TTL |
| `GetCount`, `SendMail`, `SetLast`, `ResetCount` | the batch mail: GET, the mail, SET of the time read before, SET 0 |
| `Fail` | a rejected command, a mail that fails, a death |

Time ticks in 2.5 minutes; the hour of the count is cut to three ticks, still longer than the five
minutes of the window. History: `counted`, `told`, `silent` say where each report has gone.

### `RowEdits.tla`, `PublicView.tla`

`RowEdits` has the fields of a row that exists, each with the edit whose value it holds. `Read` is the
SELECT of a PATCH or the start of a PUT, `Write` the UPDATE of every field, `Fail` the refusals.
`PublicView` has the reasons that hide a page (`bars`) and a request that looks for them one SELECT
after the other (`Find`) and then applies the rules of `visibility-rules.ts` (`Decide`). It checks what a
request can know: a page may still be shown though at no single moment all its reasons were absent.

### `SseFanout.tla`

The map from a user to the streams of that user. `Subscribe` adds the subject, `Open` is the framework
subscribing to it, `Close` the finalizer, `Publish` the loop over the set, `Restart` the end of the
process. History: `got` and `due`, what each stream was sent and should have been.

### `OtpCode.tla`

The hash and the delivery set of one purpose and identifier. `Stored` and `SetTtl` are HSET and
EXPIRE; `CountAttempt` is the HINCRBY that makes a deleted key exist again, without a code and
without a TTL; `Accept` and `Drop` are the DEL of whatever is there by then. Codes are numbered in
the order they are stored; the TTL is abstracted to none, set before the last HSET, set after it.
The bypass for demo identifiers is left out.

### `Account.tla`

One user's `User`, `Profile` and `Listing` rows, and the requests that write them.

| Model | Code |
|---|---|
| `user`, `profile`, `listing` | `deletedAt`, `phoneNumber`, `phoneVerified`; there or not, `deletedAt`, content, `profileCompletion`; there or not, `isActive` |
| `Begin` | the JWT guard lets in a user who is not deleted; from there on no handler asks again unless a step below says so |
| `FindUser`, `SaveProfile`; `FindForPatch`, `FindUserForPatch`, `UpdateProfile` | `profiles.putMine` (an upsert that clears `deletedAt`), `profiles.patchMine` |
| `FindForPut`, `FindListing`, `FindOwner`, `SaveListing`; `Deactivate` | `listings.putMine` on no row, `createMine`; `deactivateMine` |
| `FindPhone`, `SetPhone`; `FindForVerify`, `VerifyCode`, `MarkVerified`, `FindProfile`, `RefreshCompletion` | `users.patchPhone`, `users.verifyPhone` |
| `CommitDelete`; `FindForBan`, `CommitBan` | `users.deleteAccount`, `admin.banUser`: one transaction each |
| `QueryListings`, `LoadLister` | the two SELECTs of `browseFlats` |

A profile's content is its score without the ten points of the phone (`Scores`); `Completion` adds
them. `Overlap` says whether the owner's own requests overlap; the admin and the viewer always do.
History: `proven` (a code for the current number was accepted since it was set), `interrupted` (a
verification ended before it refreshed the completion), `gone` (the deletion met a write under way,
or not). Deadlock is not checked in its runs: an account that is deleted stays so and the owner is
turned away, so the system stops.

### `PinLockout.tla`

The four Redis keys of one account, and the requests that compare its PIN or lift its lock.

| Model | Code |
|---|---|
| `fails`, `lock`, `events`, `recover` | `pin:fail:<email>` (sorted set), `pin:lockout:<userId>`, `pin:lockoutEvents:<userId>` (sorted set), `pin:recoverRequired:<userId>` |
| `BeginLogin`, `ReadLock`, `ReadRecover` | `auth.login` up to `assertNotLocked`: lock and flag are read by two commands |
| `BeginDelete`, `Erase`, `ClearAll` | `users.deleteAccount`: compares the PIN without asking for the lock |
| `CompareWrong`, `AddFail`, `CountFails`, `DropFails` | `recordFailedPinAttempt` |
| `SetLock`, `AddEvent`, `CountEvents`, `SetRecover` | `applyLockout` |
| `CompareRight`, `Clear` | `clearPinFailureState` after the right PIN |
| `BeginReset`, `ClearRecovery`, `ClearFails` | `auth.recoverVerifyAndReset` after the code was accepted |
| `FailAges`, `LockExpires`, `EventAges`, `RecoverExpires` | the sliding windows and the TTLs |
| `Abandon`, `Die` | a failed query or a crash; `Die` counts what it leaves undone |

An entry leaves a window when it is too old rather than when the next ZREMRANGEBYSCORE removes it;
that command, the ZADD and the PEXPIRE are one step. No handler lives through a TTL. Attempts on an
address without an account only add a failure and are left out, as is the clearing at sign-up.
History: `guesses` (wrong PINs of logins since the lock was last lifted), `lost`, `stalled` and
`left` (deaths and what they left undone), `calm`, `opened`, `since` (the last reset). Deadlock is
not checked: a deleted account stops.

### `Inbox.tla`

One thread as its viewer reads it. `sent` and `read` are the messages to the viewer that are
committed, and those with a `readAt`; `cache` is `messaging:unread:<viewer>`; `connected` the
viewer's SSE stream.

| Model | Code |
|---|---|
| `BeginSend`, `CommitSend`, `DropCount`, `DropOwn`, `Publish` | `sendMessage` in an ACTIVE thread: the transaction (its `createdAt` is taken when it begins), two DELs, the events |
| `Accept` | `acceptConversationRequest`, which deletes no count |
| `Reply`, `DropOthersOfReply`, `DropCount` | the viewer's own message, which accepts a pending request |
| `FetchMessages`, `MarkListed` | `listMessages`: the page, then the update of its unread rows by id |
| `MarkRead` | `markMessagesRead`, with an anchor |
| `MissCount`, `Count`, `StoreCount`, `CountExpires` | `getUnreadCount`: GET, the query, SET with 5 s |
| `DropFails` | a rejected DEL: the request answers an error after its commit |
| `Connect`, `Disconnect` | the subscriber map of `sse.service.ts` |

A message is its number in the order of `createdAt`. History: `late` (requests whose count was
overtaken), `excused` (why the cached count may be wrong), `listed` and `anchor` (what the viewer
was shown or named), `missed` (messages whose send was answered and that an open stream was not
told of), and the request flag `away` (the viewer had no stream at some time since the commit). Other event types and the DEL
of the other user's count by `markMessagesRead`, which touches none of these variables, are left out.

### `KeysetPaging.tla`

One client that walks one of eight lists (`Lists`) while its rows change. A row is whether it
exists, its sort key, whether it passes the filters (`fits`), and whether its summary is dropped
after the query (`hidden`). Each list has its cursor condition (`ThreadAfter`, `RequestAfter`,
`MessageAfter`, `FlatAfter`, `FlatmateAfter`, `ReportAfter`, `ReviewAfter`), translated from its own
`where`; `Sliced` and `Advance` are `take: limit + 1`, the slice and the next cursor. The inbox
lists build each summary by queries of its own (`Summarise`). What can change depends on the list:
messages neither move nor leave, threads move with `lastMessageAt`, flats sorted by move-in date
with an edit. No thread lacks a `lastMessageAt`, so the null branch of its cursor is left out;
`best_match` is `newest` in the code. History: `kept`, the rows listed at the start of the walk and
not touched since.

### `Identity.tla`

Who may hold which work address: three flows that meet in the user rows and the allowed domains.

| Model | Code |
|---|---|
| `AskReview`; `FindForApprove`, `CommitApprove`, `ReadAllowlist`, `SetCache`, `RefreshFails`; `FindForReject`, `CommitReject` | `auth.manualReview`; `admin.approveManualReview` with `refreshAllowlist`; `admin.rejectManualReview` |
| `Restart` | `DomainService.onModuleInit`, which goes on with an empty list when it cannot load it |
| `RequestSignup`, `FindForSetPin`, `CreateUser` | `signupRequestOtp` with `signupVerifyOtp`, `signupSetPin`: the look at the account and the domain, the hashing, the insert |
| `VerifyPhone`, `FindTaken`, `Issue`, `SetMeta` | `phoneVerify`, `phoneUpdateEmail` |
| `ReadMeta`, `VerifyRebind`, `MoveEmail`, `DropMeta` | `confirmNewEmail` |

Codes are those of `OtpCode.tla`, here only there or not, and issued or refused; a right code is
any code that is there. A recovery token stands for its account; the code also compares the tokens
themselves, which only refuses more. `RequestSignup` joins the code and its check, which have no
effect on other flows until the token is used. One process: another one keeps its own `cached`.
`OneAdmin` says whether decisions of admins overlap. History: `asked` (accounts a code was made for,
per address), `strangers` (accounts moved by a code made before they asked), `behind` (the last
refresh failed).

### Proof modules

`NumberShareProofs`, `OtpProofs` and `PinProofs` extend the module they are about. `AccountProofs`,
`ConversationProofs`, `RateLimitsProofs`, `AllowancesProofs` and `SharedRowsProofs` extend one of the
five `MC` modules below that join components, so that their theorems speak of the properties that the
runs name; each theorem is about the specification of one component
(`Box!Spec => []WrongCountExplained`), and one theorem a module says that the joined specification
implies those of its components (`PartsKeepTheirSpecs`, `AccountKeepsItsSpec`).

### The `MC` modules

`MCNumberShare`, `MCOtpCode`, `MCPinLockout`, `MCIdentity` and `MCConversation` (for the two runs of
section 5) extend their module with the symmetry sets. `MCAccount` extends `Identity` and instantiates
`Account`: the runs are of `Account` only, with `Identity` at rest on no addresses and no reviews (its
own run is that of `MCIdentity`), and `AccountProofs` speaks of both. Four others check several
components in one run:

| Module | Extends | Instantiates |
|---|---|---|
| `MCConvInboxLogin` | `Conversation` | `Inbox`, `AdminLogin`: the components with fairness |
| `MCRateLimits` | `NewConversationQuota` | `SlidingWindow`, `ReportMail`: limits kept in Redis |
| `MCAllowances` | `MapsBudget` | `Uploads`: the refinements of `Allowance` |
| `MCSharedRows` | `RowEdits` | `KeysetPaging`, `PublicView`, `ReportFiling`, `SseFanout`: rows and streams several requests share |

The components of such a module have no variable in common and none reads what another writes: their
interleavings are the product of their behaviours, and a property that speaks of one component holds in
the product exactly if it holds of that component alone. So a behaviour picks one component, `part`, at
the start and leaves the others at one first state. The states of the run are the sum of the components',
each with all of its own interleavings. Fairness is asked of the chosen part only. Where an instance has
the property `P`, the `MC` module names it again with the comment a reader needs; conjunctions such as
`RateExact` join the type invariant and the two directions of one statement.

## 3. The runs

| Run | Instance | What it shows |
|---|---|---|
| `conv_inbox_login` | Conversation: 2 handlers, `perUser`; Inbox: 2 handlers, 3 messages, 1 failure of Redis; AdminLogin: 3 logins, limit 2, 2 ticks; fairness | one request of each user in flight, with blocks, reports, ageing and the job at any point: `RecipientDecides`, `OneIntroEach`, the refinement `KeepsPromise`, and the liveness `RequestsExpire`; `WrongCountExplained`, `ReadMeansListed`, `AnsweredMeansAnnounced` and the liveness `CountCatchesUp`; `LockedForEverExplained` and the liveness `LockoutEnds` |
| `share_per_user` | 2 handlers, 3 rows | `ConsentOfBoth`, `AnswersAreFinal`, `OneOpenRequestEach`, `NothingWithBlocked` |
| `rate_limits` | NewConversationQuota: 3 handlers, cap 2, 2 days; SlidingWindow: 4 requests, limit 2, a window of 3 ticks; ReportMail: 3 handlers, 4 reports | `SlotAccounting`, the refinement `KeepsAllowance`; `RateExact` (`WithinLimit`, `RefusedWhenFull`); `ReportsAnnounced` (`WindowKept`, `EveryReportHeard`) |
| `otp_races` | 3 handlers, 2 attempts, 1 resend, limit 1, 2 codes, 1 crash | `GuessesBounded`, `CodesExpire`, `AcceptedIsSpent`, `HourlyCap` |
| `account_owner_waits` | 3 handlers, 2 numbers, 2 scores, `Overlap = FALSE` | `DeletionSticks`, `VerifiedMeansProven`, `VerifiedCounts` |
| `pin_lockout` | 2 handlers, 2 failures, 2 lockouts, up to 3 events, 1 death | `GuessesBounded`, `LockoutsRecover`, `ResetOpens` |
| `identity` | 2 handlers, 2 accounts, 2 addresses of 2 domains, a review of each, `OneAdmin = TRUE` | `CacheCatchesUp`, `MembersAllowed`, `MovedByOwnCode` |
| `allowances` | MapsBudget: 3 handlers, 1 route, budget 2, 2 days; Uploads: 2 objects, 2 confirmations, limit 1, 2 hours | the refinements `KeepsAllowance` and `UploadsKeepAllowance`; `UploadsConsistent` (`QuotaAccounting`, `LiveUrlHasMeta`, `SpentOnUpload`) |
| `shared_rows` | RowEdits: 3 edits, 3 fields; KeysetPaging: 3 rows, 2 times, pages of 1 and 2; PublicView: 1 request, any change between its reads; ReportFiling: 3 handlers, 2 topics, 2 reports; SseFanout: 2 users, 4 streams, 3 events | `LostToOverlapOnly`; `PagesExact` (`NoRepeats`, `NothingSkipped`); `ShownUnlessBarred` (`ShownWasFree`, `HiddenForReason`); `ReportsSettled` (`DuplicatesMet`, `BanClosesReports`); `StreamsServed` (`MapHasLiveStreams`, `NothingMissed`) |
| `conv_blocked_request`, `conv_fresh_archived`, `browse_lister_gone` | the same, as small as shows it | section 5 |

The runs check `TypeOK` of `Identity` and of every component that a composed run instantiates, as the
first conjunct of a property above; the types of all models are proved (section 4), and so are the
invariants that no run names (`RowConsistent`, `DecidedOnce`, `Undisturbed`, `SharedMeansAccepted`,
`CapUpToWrongReleases`, `AttemptsAccounted`, `FullWindowLocks`, `WindowBounded`, `PostingFindsNone`,
`BudgetAccounting`, `GrantedWithinBudget`, `ValuesWereSaved`).

Why the bounds are enough.

- Under `perUser` each of two users has at most one handler, so two handlers are all there can be.
  A pair is the unit of the conversation row: no step reads another pair's.
- `MaxEarly = 2` tells none, one and more than one apart, which is all the properties ask.
- Three rows let a user be declined, ask again, and both ask at once; no step relates more than two.
- Cap 2 with three handlers lets one be refused while two hold slots; two days give one midnight,
  and a handler meets at most one. `FewFaults` stops at two lost and two misplaced slots a day:
  each fault moves both sides of the accounts alike. The proofs of section 4 have no such bound.
- Three handlers are an issue and two verifications, or two issues and a verification; two codes
  give a code and its replacement, fresh or resent; a limit of 1 is reached and overrun.
- Of the three account handlers one is the owner's, one the admin's and one the viewer's, or two
  admins; two numbers are an old and a new one, and two scores tell a stale content from a new one.
- Two PIN handlers fail, lock, log in, delete or reset in any pair; limits of two failures and two
  lockouts are reached by one burst of two and overrun by a third event; one death leaves any of
  the steps of a lockout undone. The proofs hold for any number of handlers and any limits.

- The inbox has an intro and two more messages, so that one is listed while another is committed
  and both may commit in the opposite order; two handlers are a count and what overtakes it, or two
  changes. A second failure of Redis only repeats the first.
- Three rows with two times have ties and pages that end inside a tie; pages of one and two rows
  take three, two or one request to walk them. More rows add pages of the same two kinds.
- Two accounts on two addresses, each of a domain that is allowed only after its review, can sign up,
  move, be deleted, and ask for one address together; two handlers put any two awaits of two
  requests against each other. Nothing but the users' own rows grows in this model.

- Three handlers on a budget of 2 let one be refused while two hold a unit; two days give a refund on
  the other side of midnight. `FewUnits` bounds the histories; the proofs have no such bound.
- Two objects on a limit of 1 give a refusal, and two confirmations race for one object; a second hour
  lets a refusal cross the hour. Signature, metadata and hour end at different ticks.
- Four requests with a limit of 2 fill a window and leave two that race to be refused or let in; a
  window of three ticks has requests of its beginning, middle and end, and time that leaves it.
- Three logins are the one that creates the key, one that is refused and one in between; `Most = 4`
  tells the counts up to the limit and beyond it apart.
- Three requests file two topics, so that two meet on one while another files the other, and two
  reports are the two that may be duplicates of each other, or of different topics; four mailed reports
  are a mailed one, one counted, one counted during the batch mail and the one that comes too late.
- Three edits are one that is lost, the one that brings the old value back and one between them; two
  fields would do for that, the third tells naming some of the others from naming all.
- One request is all a page has: requests of the viewer change nothing, so two do not meet.
- Four streams give each of two users two tabs, or one user four; three events show which missed one.

Deadlock is checked in every run but `pin_lockout`, those of `Account`, and `shared_rows`, whose edits,
ids and streams are used up. Symmetry is over handlers, confirmations and accounts, and over edits,
streams and requests named as handlers are, where they are interchangeable, in safety runs only.

Fairness of `conv_inbox_login`, part by part. Inbox: weak fairness of the steps of a request that has
begun (a Node process goes on with its promises) and of `CountExpires` (Redis expires keys). Nobody is assumed to send, read,
poll or connect; that the thread is changed no more comes from the bound on messages.

Conversation: weak fairness of `ThirtyDaysPass` and `ArchiveStalePending`. Time
passes, and `@Cron` calls the job every night; a night that fails is followed by another. Nothing
is assumed of users or handlers. A row that keeps being reopened leaves PENDING each time.

AdminLogin: weak fairness of each login's steps once it has begun (or of its death) and
of `Tick`. The server goes on with what it began, Redis counts time. Attempts go on or stop as they
like.

Every property of a passing run has a mutant: a definition with a suffix such as `OffByOne`,
`Forever`, `KeepingKey`, defined next to the one it replaces, which is the bug that property is
there to catch.

## 4. The proofs

TLAPS checks every proof to the last leaf, for all values of the constants that satisfy the named
assumptions: two different users, `Nobody` neither of them (`UsersAssumption`), the three values of
`Clients` (`ClientsAssumption`), bounds that are naturals, finite sets of handlers
(`QuotaAssumption`, `OtpAssumption`, `PinAssumption`, `MapsAssumption`, `WindowAssumption`,
`UploadsAssumption`, `InboxAssumption`), scores that are naturals (`AccountAssumption`), pages of at
least one row (`PagingAssumption`), a login limit below the count at which the model saturates
(`LoginAssumption`), and that each review and address has an address and a domain
(`IdentityAssumption`).
TLC evaluates each of them in a run.

| Module | Theorems | Argument |
|---|---|---|
| `ConversationProofs`, `Conversation` | `TypeCorrect`, `MarksConsistent`, `DecidedAtMostOnce` in every mode of `Clients`; `NothingDisturbed`, `RecipientAlwaysDecides`, `PromiseKept`, `RejectionLocks`, `OneIntroOnly` for `perUser` and `serial` | the write of a decision looks at the status again but not at the initiator, and a reopening looks at neither. `Undisturbed` says why that is enough when a client waits: only the deciding user's own request could have made the row theirs, and a user has one request in flight. With it each step maps to a step of `RequestLifecycle` or to a stutter, and `RejectLock` follows from the refinement. `OneIntroEach` needs two facts more: a thread that is written to is ACTIVE (`PostsAreActive`), and who reopens a row that the other user has opened meanwhile has written nothing there (`NoneYet`). |
| `NumberShareProofs` | `TypeCorrect`, `BothConsent` in every mode; `NobodyElseAnswers`, `AnswersStand`, `SharingExplained`, `OneOpenAtATime`, `NothingSharedWithBlocked` for `perUser` and `serial` | the answer is written by id; `Unanswered` says that the request is still open by then, since only the other participant can answer it and has one request in flight. `NoneOpen` and `NoOwnBlock` say the same of a creating handler's search and of a handler past its block check: only a request of the same user could undo what it found |
| `ConversationProofs`, `Inbox` | `WrongCountsExplained`, `ReadsWereListed`, `AnswersWereAnnounced` | `RequestSound`: what a request has read is still true when it acts on it. The page it marks was listed; the count it stores is the present one unless it is in `late`; and while it tells of a message, the viewer was away at some time since the commit if they are away now. Every step is one of four kinds, each a lemma: a request goes on while thread and count rest, changes the thread and is then to delete the count, ends, or the stream changes. |
| `ConversationProofs`, `AdminLogin` | `LockoutsExplained` | `OneExpirer`: at most one login is to set the TTL, it created the key, and the key lives until it does |
| `RateLimitsProofs`, `NewConversationQuota` | `TypeCorrect`, `SlotsAccountedFor`, `CapHolds`, `ImplementsAllowance` | `Balanced`, day by day: the cap alone is not inductive, the counter must be known never to forget a slot in flight. Counting is by the finite-set lemmas `CountsMove`, `InsertersHold`. |
| `RateLimitsProofs`, `SlidingWindow` | `RatesAreExact` | a window is named by the age of its beginning, so that `WindowsHold` speaks of every window and not only of those that a request begins. A request that is let in counted all that matters: only added requests are in the set (`Members`), none leaves it before its window is over (`KeptYoung`), what was trimmed stays away (`TrimmedStays`), a request ends well within a window (`Clocks`), and one from an address that met nobody races alone and found room (`Alone`, `RoomLeft`). `RefusalsHold` says of who met nobody and is refused, already before its removal from the set, that the window was full |
| `RateLimitsProofs`, `ReportMail` | `ReportsAreAnnounced` | both properties are kept with what a notifier knows: the report is filed and not yet counted (`OwnReport`), no other request notifies about it (`OneNotifier`), and once the mail is out it and the batch that was read are told (`Covered`); reports are numbered in the order of their commits (`Numbered`) |
| `OtpProofs` | `TypeCorrect`, `AttemptsNeverForgotten`, `GuessesAreBounded`, `EveryCodeExpires`, `AcceptedOnce`, `HourlyCapHolds` | `Accounted`, code by code: a verification is let in by the attempts it reads, so these must not lag behind the guesses by more than the handlers about to count and those that died |
| `AccountProofs`, `Account` | `TypeCorrect`, `DeletionIsFinal` whatever overlaps; `VerifiedIsProven`, `VerifiedIsCounted`, `PostingOverwritesNone` for `Overlap = FALSE` | a deletion sticks because, once it is clean, the guard lets nobody start and nobody is left between its check and its write (`NobodyRevives`). For one owner's request at a time, what it has read still holds when it writes (`ReadHolds`): the admin writes none of it except towards deleted. |
| `AccountProofs`, `Identity` | `IdentityTypes`, `MembersStayAllowed`, `MovesAreOwn`; `CacheIsRefreshed` for `OneAdmin = TRUE` | `Sound`: what a request carries from one call to the next stays true, because allowed domains and the accounts that asked for an address are only ever added; `StoreSound` says the same of the key that carries it between the two calls. The cache needs one decision at a time (`OneDecides`): then the list that was read is still the present one when it is stored (`ListIsLatest`). |
| `PinProofs` | `TypeCorrect`, `EnoughFailuresLock`, `EnoughLockoutsRecover`, `ResetOpensAccount`, `WindowIsBounded`, `GuessesAreBounded` | `FullWindowLocks` and `LockoutsRecover` are inductive with the types; `ResetInv` adds the handlers between the lock and the end of a reset; `GuessInv` bounds the guesses by the window while there is no lock and by the logins already admitted (`Admitted`) from the lock on. `Apart` says that the three sets of handlers it counts do not overlap. |
| `AllowancesProofs`, `MapsBudget` | `TypeCorrect`, `UnitsAccountedFor`, `BudgetHolds`, `ImplementsAllowance` | `Balanced` again, day by day: the counter is what is kept, stuck and held less the surplus, and what is granted stays within the budget and the surplus. With it every step grants, gives back or leaves a day alone. |
| `AllowancesProofs`, `Uploads` | `UploadsAreConsistent`, `UploadsImplementAllowance` | `MetaYounger`: the metadata of a URL that works was written after its signature, so it outlives the URL; `FittedSeen`: a confirmation about to take the metadata saw the object in its declared size. Each step maps to a step of `Allowance!ExactSpec`, hour by hour |
| `SharedRowsProofs`, `RowEdits` | `TypeCorrect`, `EditsOverlapOrStay`, `FieldsWereSaved` | a PATCH writes back what it read: `RowHolds` says that each field has the value of a saved edit that named it, which is the latest or whose successor was saved in an overlap; `ReadHolds` says the same of the fields a PATCH under way has read and does not name, so that its write keeps `RowHolds`. No bound on edits or fields. |
| `SharedRowsProofs`, `KeysetPaging` | `PagesAreExact` | the eight cursor conditions are one (`PagesAfter`): beyond the row that the cursor was made of, in an order that is total although keys have ties (`PagesOrder`). The cursor names a row, and a message at its place (`CursorNames`). `KeptPlaced` says where a kept row is: after the cursor exactly if it was not returned, or, while summaries are built, on the fetched page. What a page leaves out comes after what it takes, so nothing falls between two pages |
| `SharedRowsProofs`, `PublicView` | `ShownUnlessBarredAlways` | `Informed`: a reason that held from the first query on is among those found or can still be told by a query to come (`Left`), and what was found held at some time during the request |
| `SharedRowsProofs`, `ReportFiling` | `ReportsAreSettled` | `MeetEachOther`: two requests of one topic past their search know of each other; `MeetTheirRows`: so do one past its search and the request that made a pending report of its topic, for the search found none |
| `SharedRowsProofs`, `SseFanout` | `StreamsAreServed` | inductive as it stands, with the types |

TLC has checked each inductive invariant before its proof; the strengthenings are stated beside their
proofs. Every safety invariant, action property and refinement that a passing run names is proved; an
operator of an instance (`Upload!Cardinality`) is a symbol of its own to the prover, and a lemma says
that it is the library's. Only model-checked are the liveness properties `RequestsExpire`,
`CountCatchesUp` and `LockoutEnds`: liveness under fairness and ENABLED are outside what this prover
does. So is induction over data: no proof here needs it, and no module declares a RECURSIVE operator.
That a behaviour of a joined specification is one of each of its components is a theorem
(`PartsKeepTheirSpecs`, `AccountKeepsItsSpec`): what is proved of a component holds of the run. The
converse, that the run leaves out no behaviour of a component (section 2), is an argument about the
product, not a theorem.

## 5. What the code does not keep

Three runs end in a counterexample; the rest was seen while building the models.

- `conv_fresh_archived`: reject, reopen, and the nightly job: `createdAt` is that of the first
  request, so a request of the same day is archived (`messaging-pending-archive.service.ts:27`).
- `conv_blocked_request`: the block check of a create comes several awaits before its transaction;
  a block placed and answered in between leaves the blocked user's request pending.
- `browse_lister_gone`: `browseFlats` asks for listings whose lister has a live profile and loads
  the listers with a further query; a ban or deletion in between meets the `throw` that the code
  calls an invariant (`browse.service.ts:150`), and the viewer's page fails.
- One unit of the daily budget pays for the call with traffic and for the retry without,
  and a unit whose calls failed is given back: a day sees more calls than `MAPS_DAILY_BUDGET`, which
  `API_CONTRACT.md:985` calls the maximum of calls (`maps.service.ts:238`).
- The time of the last mail is read before the mail and written after it, so two
  reports filed at once send two mails within five minutes (`safety.service.ts:317`), where
  `API_CONTRACT.md:971` promises one at most; `WindowKept` names the reasons.
- Every admin login is counted before its password is compared, so logins that
  succeed lock the address too; `API_CONTRACT.md:1063` speaks of failed ones (`admin.service.ts:72`).
- With `Clients = "free"` in `share_per_user`, `AnswersAreFinal` fails: of two answers of one user in
  flight the second overwrites the first, and a decline follows an acceptance that has already
  shared the numbers (`messaging.service.ts:1217`).
- The catch block of `createConversation` gives the slot back although the row is saved when
  building the answer fails (`messaging.service.ts:875`); the user exceeds the daily cap by one each
  time. `CapUpToWrongReleases` counts these.

With `Overlap = TRUE` in `account_owner_waits`, `VerifiedMeansProven` fails (a number changed
between the code and the flag is verified without a code), `VerifiedCounts` fails (a profile saved
with the flag read before the verification) and `PostingFindsNone` fails (two POSTs of one owner).
`DeletionSticks` holds only for a deletion that meets no write: `API_CONTRACT.md:1143` says that a
ban "soft-deletes profile, deactivates listing", and a profile upsert or a listing save already
under way brings them back (`profiles.service.ts:134`, `listings.service.ts:181`). The deletion
mail invites to sign in again within 30 days (`users.service.ts:170`), while login looks only for
accounts that are not deleted (`auth.service.ts:213`).

`OneOpenRequestEach` is of each user: both users who ask for numbers at once open two requests
(`messaging.service.ts:1151`), although `API_CONTRACT.md:829` allows one only "if none pending".

What `PinLockout` shows without breaking its properties: a burst of failures can count several
lockouts, each handler that sees the full window one (`pin.service.ts:46`), so that one burst may
demand the recovery that is meant for three lockouts; the DEL at the end of a lockout whose lock a
right PIN has lifted meanwhile takes later failures with it; the deletion of an account compares
PINs while it is locked, which the bound on guesses leaves out (`users.service.ts:141`); and a
lockout under way when the PIN is reset can demand the recovery again afterwards, which is why
`ResetOpens` asks for a calm reset.

Three more appear when `Clients` is changed in the configurations above, and are the reason why
the theorems name a mode. Under `"free"`, `RecipientDecides` fails (a stale accept meets the
request that the same user has just opened on the reopened row) and `RejectLock` fails (the second
of two creates lifts the rejection that came after the first). Under `"perUser"`,
a pending thread may hold two messages (both users reopen an archived row: two intros, one request),
which is why `OneIntroEach` counts one of each user.

What `Inbox` shows: `POST accept` deletes no cached count, and a count computed before a change may
be cached after it, so either is wrong for at most five seconds; a message whose DEL fails is saved
but answered with an error and announced to nobody, and a client that retries sends it twice
(`messaging.service.ts:1067`); two sends that overlap may leave `lastMessageAt` at the older message;
and `PATCH read` up to a message also marks those that commit late with an earlier `createdAt`.

With `OneAdmin = FALSE` in `identity`, `CacheCatchesUp` fails: of two refreshes that overlap, the one
that read fewer rows may be stored last, and an approved company stays unknown until the next
refresh or restart (`domain.service.ts:42`). An approval and a rejection of one request may both
succeed (`admin.service.ts:351`, `:384`). The unique index on `users.email` also covers deleted rows:
whoever signs up with the address of a deleted account passes the check for live ones and gets a 500
from the insert (`auth.service.ts:188`); and `confirmNewEmail` updates by id, also an account that was
deleted meanwhile (`auth.service.ts:458`).

What the models of this part name without breaking a property: a report counted while the batch mail
is on its way is wiped by the SET to zero (`safety.service.ts:351`), and one counted with no report
after it in the hour is told to nobody (`silent` in `ReportMail`); a mail that fails after the commit answers
an error and the retry mails nothing; two reports of one topic that meet are both stored
(`safety.service.ts:211`, `met`), and one that found the user before a ban stays pending after it
(`late`); a failure after the reservation wastes a unit of the upload quota (`uploads.service.ts:130`);
auth requests that meet between the count and the addition pass together over the limit
(`auth-ip-rate-limit.interceptor.ts:32`), as `WithinLimit` says; a death between INCR and EXPIRE locks an
address out of the admin login for ever (`orphaned`); and a PATCH brings back a field that an
overlapping edit has saved (`listings.service.ts:231`, `profiles.service.ts:182`).

## 6. What is not modelled, and why

- Of events: their types and content, the heartbeat (no state) and the sweep (it finds nothing).
- `validatePlace` of the maps (one call, no state), distances and estimates, the parsing of upload keys,
  types and sizes: data that no property tells apart.
- Session cookies and `getMe`; demo accounts and the bypass of their codes; avatars; the export of a
  user's data and the reads of one's own rows: single reads.
- The daily limit of browse (a counter that only grows); filters, ranking and the content of a page: a
  row passes or does not.
- Mail and SMS transports, configuration, health, logging, seeds, DTO mapping: no state of their
  own that operations race on.
- Two different pairs at once: no operation of a pair reads the row of another. Two addresses, users
  or days at once where the key is per address, user or day, for the same reason.
- Which mail holds which code (`otp.service.ts:91`), and what the text of the deletion mail promises
  (`users.service.ts:170`): text or data that no model here represents.

## 7. The plan

Done, in this order: `Pair`, `RequestLifecycle`, `Conversation`, `NumberShare`,
`NewConversationQuota`, `OtpCode`, `Account`, `PinLockout`, their proofs, `KeysetPaging`, `Inbox`,
`Identity`, `Allowance`, `MapsBudget`, `Uploads`, `ReportMail`, `ReportFiling`, `SlidingWindow`,
`AdminLogin`, `RowEdits`, the proofs of `MapsBudget` and `RowEdits`, `PublicView`, `SseFanout`; then the
proofs of `SseFanout`, `ReportFiling`, `PublicView`, `KeysetPaging`, `Uploads`, `SlidingWindow`,
`ReportMail`, `AdminLogin`, `Inbox` and `Identity`.

Next, most important first:

1. `NoPendingFromBlocked` for `"serial"`, with its proof.
2. For `Overlap = TRUE` and `Clients = "free"`, what still holds of the properties that need a client
   that waits: which overlap explains each failure.
3. A second process: its own allowlist cache and subscriber map beside the shared rows and keys.
