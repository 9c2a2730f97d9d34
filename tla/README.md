# A verification project for the Texas Renters inspection app

TLA+ models of the parts of this repository where steps of several actors meet, TLC runs that
check them on small instances, and TLAPS proofs of what holds for every value of the constants.
Paths are relative to `src/`. `PROJECT.json` maps each definition to the source lines it stands for.

Contents: [the system](#the-system) · [the modules](#the-modules) · [the runs](#the-runs) ·
[where the code and its comments disagree](#where-the-code-and-its-comments-disagree) ·
[fairness](#fairness) · [what is proved](#what-is-proved) · [what is only model-checked](#what-is-only-model-checked) ·
[what is not modelled](#what-is-not-modelled) · [plan](#plan) · [running it](#running-it)

## The system

A technician walks a rental property with a phone (`mobile/`, React Native), often without signal.
The app records a video and answers per area and the technician's position during a shift. It holds
all of it until the API (`backend/`, NestJS on PostgreSQL and Redis) has answered. The office uses a
web console (`web/`, Next.js). The API also talks to Jobber (visits), Propertyware (records),
Cloudflare Stream (video) and AI providers.

| component | state it keeps | operations that change it | talks to |
|---|---|---|---|
| Session service, `backend/src/auth/session.service.ts` | rows of `refresh_token` | `signIn`, `refresh`, `signOut`, `revokeAllFor`, `enforceSingleDevice`, `issueSession` | every client; the identity provider writes the same rows |
| Identity provider and password reset, `local-identity.provider.ts`, `password-reset.service.ts` | password hashes, reset links | `setPassword`, `issueAndDeliver`, `reset` | session rows, mail |
| Handset session, `mobile/src/auth/session.ts` | keychain, `cached`, `unsaved`, `inFlightRefresh` | `load`, `refresh`, `adopt`, `persist`, `saveUnsaved`, `signIn`, `signOut` | session service; every request of the app awaits `getSession` |
| Offline write queue, `mobile/src/storage/mutation-queue.ts`, `repositories/api/offline-writes.ts` | one JSON value in the key-value store | `enqueueMutation`, `removeMutation`, `recordAttempt`, `drainQueue`; `sendSavedFirst`, `queueOnConnectionFailure`, `dropQueuedWrite` | the API's writes; the upload state of an area |
| Location queue and sender, `mobile/src/location/` | a second JSON value, the line of changes, the send guard | `append/remove/deferLocationFixes`, `drainLocationQueue`, the location task, the foreground timer | handset session; location ingest |
| Location ingest, `backend/src/technician/technician-location.service.ts` | one row per fix | `record` | handset; console (latest position, timeline) |
| Server cache, `backend/src/cache/` | Redis values under versioned namespaces, fills under way, the connection | `getOrLoad`, `bumpNamespace`, single flight | every cached read of the API |
| Upload pipeline of the phone, `repositories/api/repositories.ts`, `mobile/src/media/` | upload records, transfer progress | `tick`, pause, resume, retry, resumable transfer, snapshot flush | the video API, the write queue |
| Inspection video, `backend/src/media/inspection-video.service.ts` | upload sessions, video rows | create, complete, webhook, `reconcileStuckVideos` | Cloudflare Stream, the lifecycle |
| Inspection lifecycle, `backend/src/technician/technician.service.ts`, `admin/admin.service.ts`, `shared/src/state` | area and inspection status | start, complete, skip, reopen, submit; review, hold, finalize, cancel | the write queue, video, AI review, the Jobber outbox |
| Media processing and AI review, `media-processing.service.ts`, `visual-review.service.ts` | analysis status | queue, process, retry, advance | providers |
| Jobber connection and tokens, `backend/src/integrations/jobber/` | the organization's token pair | renew, connect, disconnect | Jobber; every worker that calls it |
| Jobber sync workers, `backend/src/workers/jobber-sync/` | outbox tasks, imported visits | arm, send, mark, re-arm; import | Jobber |
| Propertyware sync | imported records, run lease | scheduled import | Propertyware |
| Planning and publishing, `backend/src/planning/` | plans, their stops | build, publish, edit, unschedule | the outbox, the sync, inspections |
| Time tracking | derived visits | derive per technician and day | stored fixes |
| Realtime, presence and push | sockets, push tokens | hints to refetch | console, app |
| Deploy requests; gateway, health, mail, client errors, OpenAPI; administration; console; app screens | little of their own, or single-transaction edits | | |

How the parts meet: the phone's components share one JavaScript thread, so they interleave only at an
`await`, and nothing orders two operations that await the same store unless the code says so. The
API's handlers interleave at each query, and nothing but a transaction or a unique index keeps two
apart. Phone and API meet over a network that loses requests and answers.

### What is hard here, and what would make each part correct

* **Session service.** A refresh token is single use; a replay must end the family, and only a replay
  may; a technician has one handset; a new password ends old sessions. Each handler reads, awaits
  and writes.
* **Handset session.** Rotation makes a lost or unsaved answer dangerous, because the phone then offers a
  retired token, which looks like theft. A locked iPhone refuses keychain writes; the OS kills the process.
* **Write queue.** An entry is sent or it stays; a newer write replaces an older one; a Change Evidence
  never overtakes the submission it undoes; nothing superseded is owed.
* **Location queue.** Two JavaScript contexts of one process (the task, the timer) change one value;
  the store can fail; a request can hang in the background where no timer runs; an abandoned send can
  come back. A fix must not leave the phone before the server has it, and sending must never stop for good.
* **Server cache.** A read must not return what was cached before the last acknowledged write.
* **Upload pipeline and video.** Pause against a running pass; a lapsed link renewed while the last
  chunk lands; webhook, sweep and reviewer reporting on one video in any order. A recording must not be
  gone at both ends, and what has arrived must be noticed.
* **Inspection lifecycle.** Handlers judge what they read and write it in a later transaction: the
  submission counts areas that change, the office and a late analysis move the same status. Whichever of
  submission and last analysis ends second, the review must be reached, and Jobber must be told.
* **Jobber connection.** A refresh token is spent once and many callers want it at the same moment; the office
  disconnects or connects another account while a renewal is out.
* **Publishing and the two-way sync.** A visit lives in the console and in Jobber, nothing spans the two, and Jobber cannot be asked whether a
  lost call arrived. The work must be booked once, and a day given on either side must reach the other and not be undone.

`PROJECT.json` lists the hazards at their lines; those without a property say why.

## The modules

| module | models | relation |
|---|---|---|
| `SessionService` | the session rows of one account and the handlers that read and write them | |
| `SessionOverlap` | which rows change under a handler that has read them | **extends** `SessionService` with a history |
| `HandsetSession` | one phone's session, over a lossy network | **composed** with `SessionService` |
| `MutationQueue` | the offline write queue, the writes that feed it and the drain | |
| `FixDelivery` | *abstract*: what the phone promises about a position fix | |
| `LocationQueue` | location queue, sender, timer, task and ingest | **implements** `FixDelivery` |
| `FreshReads` | *abstract*: what a cached read promises | |
| `ServerCache` | the read-through cache, Redis and the connection to it | **implements** `FreshReads` |
| `InspectionVideo` | one recording at the API and at Cloudflare | |
| `VideoUpload` | the phone's upload queue and the transfer of that recording | **composed** with `InspectionVideo` |
| `InspectionLifecycle` | one inspection from its start to its review, and its completion in the Jobber outbox | |
| `JobberConnection` | the credentials of an organization's connection, and Jobber's own view of them | |
| `VisitPublishing` | one visit of a quarter plan: published, changed, booked in Jobber by the outbox, synced back | |
| `MC…` | the symmetry sets and cut-offs of the runs | the module they are named after |
| `…Proofs` | theorems and proofs of the module they are named after (`SessionProofs`: of `SessionService`, `SessionOverlap` and `HandsetSession`) | **extend** the module and `TLAPS` |

### SessionService

State: the columns of `refresh_token` as sets and functions over tokens (`issued`, `revoked`, `expired`,
`replacedBy`, `deviceOf`, `fromConsole`), the profile (`technician`, `isActive`), how often the
password was replaced, and per handler the await it is suspended at (`req[r].stage`). `parent` and
`openedWith` are history variables.

| code | actions |
|---|---|
| `signIn` up to the password comparison | `SignIn` |
| `enforceSingleDevice`: take-over, `findFirst`, the 409; then the update after the read | `EnforceSingleDevice`, `RetireSameDevice` |
| `issueSession` | `IssueSession` |
| `refresh`: the read and its verdict; the replay branch; the transaction | `RefreshRead`, `EndReplayedFamily`, `Rotate` |
| `signOut`; `setPassword`'s transaction; the office switching a profile off | `SignOut`, `SetPassword`, `SetActive` |
| the clock passing `expiresAt`; a failed query or restart between two awaits | `Expire`, `HandlerFails` |

Clients are arbitrary: any token may be presented at any time. A handler that refuses and writes nothing
is not an action of its own. The token's hash, the access token and credential lookup are abstracted.

### HandsetSession

State: the keychain (`stored`), the module variables `cached`, `unsaved` and `inFlightRefresh`
(`renewal`), `saveUnsaved`'s write under way (`flush`), the sign-in or sign-out under way (`user`), and
whether the phone is on screen, which on iOS decides if the keychain may be written. A keychain write is
begun, and later lands or is refused; two begun together land in either order. `Kill` clears everything
but the keychain. `ServeRenewal`, `ServeSignIn` and `ServerStep` run the actions of `SessionService` for
this phone's requests and carry back the answer, which can be lost at either end. Another phone signs in
through a third handler.

`crossed` records that two unordered writers of the session were under way at once: what the code does
then is the subject of `handset_signout`, and the other properties say what holds short of it.

### MutationQueue

State: the queue as it is stored, and for each actor (the drain, and each write being made) the copy
it has read and what it does next. Each queue operation is `ReadQueue` and a write that replaces the
whole value (`Save`, `Remove`, `CountAttempt`, `Overtake`), as in the code. `Press` is the technician
making a write; `WriteAnswered` is the outcome of `sendSavedFirst` or `queueOnConnectionFailure`;
`StartDrain`, `Pick`, `DrainAnswered` and `DrainEnds` are `drainOfflineWrites`. An area's submission, its
Change Evidence and a note stand for the kinds of entry: saved before it is sent; saved first and
undoing another; sent first and saved on failure. The server answers with anything it could answer.

### LocationQueue and FixDelivery

State: the queue, which fixes are backed off (`waiting`), the line of changes (`lastChange`), the sends
under way with their batch and whether their minute has passed, the guard (`flight`), the timer's
await (`running`), the access token and its shared renewal, requests on the wire, and how many rows the
server has per fix. A change joins the line (`ChangeQueue`), reads when its turn comes
(`ReadForChange`), and writes the trimmed result (`WriteChange`); either can fail. A send goes through
`ReadsQueue`, `ReadsAgain`, `Posts` or `Renews`, `Answered` or `BackOff`. `MinutePasses` is
`ABANDON_SEND_AFTER_MS`. `Kill` leaves the store and the wire.

`FixDelivery` has three variables and says what may happen to a fix: the phone keeps it, the server
stores it, the phone lets go of what the server has or would refuse, the oldest make room, and a
store that cannot be read is started again. The refinement maps `held` to the queue, `stored` to
the fixes with a row, and `torn` to a change that read a failing store. The throttle of
`sendRecordedFixes` is left out on purpose: the task may ask at any moment, which allows more than the code.

### ServerCache and FreshReads

State: the record as a number of writes (`db`), the namespace counter and the values in Redis by version,
the connection (`connected`; `degraded` after a failed command, until the next `ready`; `retrying`;
`ended` once `retryStrategy` gives up), the loads of single flight by version, and where each read and each write stands.

| code | actions |
|---|---|
| `getOrLoad`: availability, `namespaceVersion`, `read`, join or start a load | `Begin`, `ReadVersion`, `ReadValue`, `Direct`, `DirectFails` |
| `loadAndStore`: the second read, the loader, the store with a TTL | `SecondRead`, `Loads`, `LoadFails`, `Stores`, `Expire` |
| a write's transaction; `bumpWithRetry`; the answer to its caller | `Commit`, `Bump`, `Acknowledge` |
| `RedisCacheConnection`'s events; Redis; the process | `SocketCloses`, `Ready`, `GivesUp`, `RedisRestarts`, `ApiRestarts` |

A command fails, is skipped because the connection is away, or timed out after having been carried out.
`FreshReads` is the promise: a read answers with a value the record has had, no older than the last
write acknowledged when the read began. `excused` is set where an invalidation, the counter or Redis's data
is lost, and only there is the second half given up; `OldValuesGo` says what is left then.

### InspectionVideo and VideoUpload

`InspectionVideo` keeps the recording's row, its area, Cloudflare's videos by uid, notifications under way,
and each handler between its awaits.

| code | actions |
|---|---|
| `createUploadSession`: the row, `deliveredSession`, `renewSession`, the write | `ReadRow`, `LookAtStream`, `AppliedForAsk`, `DeleteStale`, `CreateUpload`, `WriteRow`, `AskFails` |
| `applyWebhook`: find the row, update it, finish the area and queue the analysis | `FindRow`, `ApplyReport`, `FinishReport` |
| who calls it: a notification, `reconcileStuckVideos`, a reviewer's player | `Notified`, `NotificationLost`, `SweepAsks`, `ReviewerAsks` |
| `process()` and `retryFailedAnalysis`; `onModuleInit` | `ProcessStarts`, `ProcessEnds`, `AnalysisRetried`; `ApiRestarts` |
| Cloudflare | `Encodes`, `LinkLapses` |

`VideoUpload` adds the queue's item, the recording's file, the pass of `tick()` and the chunks on the wire:
`Resumes`, `Asks`, `SessionArrives`, `SessionRefused`, `AskTimesOut`, `AskDies`, `ReadsOffset`, `LinkIsDead`,
`RequestFails`, `ChunkLands`; `Pause`, `Resume`, `Retry`, the camera interrupting (`CameraStarts`), `list()` handing a
delivered recording over (`HandsOver`) and `Kill`. A pass works on the item it found and writes its outcome over
what the item says by then; a chunk the pass has given up may still land.

Two history variables mark what the properties except. `crossed`: a report was written on a row that names another video by then, or of a
video that has been deleted; or `renewSession` deleted the video, or pointed the row at a new one, when the row had
been given another video or marked uploaded since it looked. A last chunk that lands between the look and the deletion is *not* excepted while
the row does not say the recording arrived. `overtaken`: a report from before the encode (`inprogress`, `pendingupload`) was written on
a finished row, which is then never finished again.

### InspectionLifecycle

State: the inspection's `status` and `finalizedAt`, each area's status and recording, the `VISIT_COMPLETED` row of the
outbox with the worker that drains it, and for each handler and each analysis what it judged (`at[c].op`, `at[c].saw`).

| code | actions |
|---|---|
| `startInspection`, `completeRoom` with `confirmAreaRecording`, `skipRoom`, `reopenRoom` | `Starts`, `Completes`, `RecordingJudged`, `Skips`, `ChangeJudged` |
| `completeInspection`, `couldNotAccess` | `SubmitJudged`, `NoAccessJudged` |
| `transitionReview`, `finalizeInspection`, the office's `completeInspection`, `updateInspection` cancelling | `OfficeJudged` |
| `reopenInspection`, `createEvidenceRequest` | `Reopens`, `RequestsEvidence` |
| a recording arriving and its analysis; `advanceInspection` | `BytesArrive`, `Reported`, `Analysed`, `AnalysisRetried` |
| the write after a judgement, with `enqueueJobberCompletion` in its transaction | `HandlerStep`, `HandlerFails` |
| `run`, `send` and `mark` of the outbound worker | `WorkerStep`, `WorkerFails` |

A write that repeats its judgement in the `WHERE` clause does so in the model, and one that names the row alone does not;
`crossed` records that a handler wrote over a status it had not read, or put back an area a submission had counted.

### JobberConnection

State: the `jobber_connection` row; Jobber's view of each consent (`of`, how often it was renewed, whether it is `dead`);
`APP_DISCONNECT` notices; the handlers; renewals by who began them, and `inFlight`, the one callers join. A refresh token
is a consent and how often it was renewed, so spending one twice is visible.

| code | actions |
|---|---|
| `requestDetailed` with its 401 retry, `getAccessToken`, `refresh` | `Calls`, `HandlerStep` |
| `performRefresh`, `store`, `requireReauthorization` | `RenewalStep` |
| `completeAuthorization`: exchange, store, `fetchAccount`, the judgement of another account | `Connects`, `Exchanges`, `ExchangeFails`, `HandlerStep` |
| `disconnect`, `markDisconnected`, the notice from Jobber | `Disconnects`, `DisconnectedThere`, `NoticeArrives` |
| the clock; the process | `Lapses`, `Restarts` |

### VisitPublishing

State: the plan's status and its one stop; inspections by the order they are made, each with its two outbox rows (`book`, a
`TBP_VISIT_CREATE`; `move`, a `VISIT_RESCHEDULE`); the stop's own rows (`listing`, a `TBP_JOB_UNSCHEDULED`; `leaving`, a
`TBP_VISIT_UNSCHEDULE`); `import`, the sync's row per visit with the day it last fetched (`seen`); Jobber's visits; and where each request, the worker and a
sync stand and what they have read. A row that is `PENDING` or `FAILED` is `due`.

| code | actions |
|---|---|
| `publish`: `claim`, the batch read again until it is empty, the plan's status | `Claim`, `ReadBatch`, `FinishPlan` |
| `queueUnscheduled`; `publishStop` with its transaction, `adoptable`, `fail` | `QueueUnscheduled`, `StopWaits`, `StopTriedAgain`, `AdoptImported`, `StopAsked`, `MakeInspection`, `AdoptExisting`, `StopFails` |
| `TbpStopEditService.edit`, `placeOne` | `EditStop`, `EditWrites`, `PlaceOne`, `Unlist`, and then as above |
| `updateInspection` with another day | `Reschedule`, `RescheduleWrites`, `RescheduleRefused` |
| `TbpUnscheduleService.unschedule` | `Unschedule`, `UnscheduleBooked`, `UnscheduleRefused`, `ClearDay`, `DayCleared` |
| the outbound worker: `run`, `bookUnscheduledJob`, `unscheduleVisit`, `bookVisit`, `pushSchedule` | `Pick`, `ListReads`, `LeaveReads`, `BookReads`, `MoveReads` |
| its calls, what it writes after them, `mark` | `CreateVisit`, `CreateUnheard`, `PushDay`, `DeleteVisit`, `CallFails`, `VisitOnStop`, `ClaimVisit`, `MarkSent`, `MarkFailed` |
| `syncVisit`, `processVisit`, `heldConsoleEdits`, `applyChanges`, `removeWithdrawnInspection` | `FetchVisit`, `LeftAlone`, `VisitUnmet`, `VisitMet`, `Follow`, `Withdraw`, `ImportVisit`, `ImportNoted` |
| Jobber's own office; the process | `DatedInJobber`, `ApiRestarts` |

`crossed` records that a row changed while somebody who had read it was waiting (`ChangedUnder`), and `history` what else the code does not
recover from. The properties say what holds short of that; [below](#where-the-code-and-its-comments-disagree) is what happens then.
`wanted` is the day somebody decided last while both systems agreed.

## The runs

| run | question | result |
|---|---|---|
| `sessions` | What survives every interleaving of two handlers: device, console mark and password are kept through exchanges (`ExchangeKeepsSession`), only an exchanged token looks replayed (`ReplayMeansExchanged`)? And until one has changed rows under the other: one live handset (`OneHandsetUncrossed`), no session older than its password (`PasswordEndsSessionsUncrossed`), one successor per token (`SingleUseUncrossed`), nobody evicted unasked (`NoEvictionUncrossed`)? | holds |
| `handset` | Is a phone taken for a thief only after a real loss (`ReplayOnlyAfterLoss`), does it let go of a live session only on sign-out (`KeepsLiveSession`), does a restart find what was in use (`RestartFindsSession`)? | holds |
| `handset_signout` | Is signed out final (`SignedOutStays`)? | violated |
| `queue` | One entry per target (`OneEntryPerTarget`); nothing lost while operations do not overlap (`SentOrStaysUncrossed`); the drain keeps an area's order (`DrainKeepsAreaOrder`)? | holds |
| `queue_lost` | Is nothing lost whatever overlaps (`SentOrStays`)? | violated |
| `location` | At most one young send (`OneYoungSend`), the whole an implementation of `FixDelivery` (`Delivered`), and every usable fix leaves the queue though the app is never opened again, unless a renewal is never answered (`SentUnlessRenewalHangs`)? | holds |
| `cache` | Is the cache an implementation of `FreshReads` whatever Redis does (`KeepsFresh`), and does what was cached too old go away (`OldValuesGo`)? | holds |
| `video` | Is a recording never gone at both ends (`EvidenceKeptUncrossed`), is its arrival noticed though notifications are lost (`ArrivalNoticedUnlessRestarted`), does its analysis end unless an overtaken report undoes it (`SettlesUnlessOvertaken`), and is the phone's queue never held up for good (`NeverStuckSending`)? | holds |
| `lifecycle` | Does a job submitted as walked have every area done (`WalkedMeansDone`), does the status make only legal moves (`LegalMoves`), is Jobber owed only what has happened (`OwedOnlyWhenDone`) and told in the end (`JobberHears`), is the review reached whichever ends last (`ReviewReached`)? | holds |
| `publishing` | Is a visit of a quarter booked once, however requests, retries, syncs and restarts meet (`BookedOnceUncrossed`), and do console and Jobber agree on its day, the one decided last, whenever nobody has anything left to do (`AgreedAtRest`), and does it come to that (`ConsoleAgreesWithJobber`)? | holds |
| `lifecycle_resubmit` | Is a submission that was judged complete taken (`SubmissionTaken`)? | violated |
| `jobber` | Is there one renewal at a time (`OneRenewal`), does a connection hold the credentials of the account the office connected (`OwnCredentialsUncrossed`), and must the office consent again only when it has to (`ConsentLasts`)? | holds |

Each passing run also checks its module's type invariant (that of `SessionService` is part of `HandsetTypeOK`; that of `LocationQueue` includes that
no fix is stored twice, `StoredOnce`).

### Bounds, and why they are enough

* **Sessions.** Three tokens make a sign-in, an exchange and a second exchange or sign-in. Two handlers
  suffice for a pairwise race; the handlers share nothing but the rows. One named device is enough, since a sign-in may also name
  none and the two count as different handsets. One password change separates old from new. Tokens, devices and requests are
  symmetric (only compared for equality), and the run checks no liveness.
* **Handset.** Four tokens: sign-in, two renewals, and another phone's or a second sign-in; three in
  `handset_signout`, whose counterexample needs two. `phoneA` and the three request names play fixed
  roles, so only the tokens are permuted.
* **Queue.** Two writes by the technician of any of three kinds, with the drain and a kill: each
  property relates at most two entries, and a lost update needs two operations. `MaxAttempts` is 2, so an
  entry can be tried, counted and given up; the code's ceiling is larger.
* **Location.** Three fixes with a queue of two make the cap bite; a batch of two is the smallest in which
  "the oldest, and always the newest" differs from "the oldest". Fix 2 is one the server refuses, so it sits
  between two good ones. Two sends are an abandoned one and its successor. One fault of any kind (a failing read, a
  failing write, no session, a lost answer, a hang, a kill) per behaviour. The queue holds no more than a batch, so one usable fix more than a batch is outside these bounds: four fixes, a queue
  of three and a batch of two, two deliveries, have been checked once (786 840 states), too long for the suite, and `Delivered` is proved for any sizes.
* **Cache.** Two readers (one fills, one joins or reads what was filled), one writer, one write: a stale read needs an
  old fill and one bump. `MaxVersion` leaves room for a bump tried twice. Three faults: a failed bump, an outage
  and a restart in one behaviour.
* **Video.** Two chunks (a recording can be half there), three Cloudflare videos (the first, and one more per
  fault), two faults, two runs of the analysis (one retry). One upload-session handler at a time, whose deletion still races with the last
  chunk and with reports: with two that overlap the plain `EvidenceKept` fails, which `crossed` records; the theorem has any number.
* **Lifecycle.** One area whose photograph may stand for a recording, a technician's and an office's request at once, one
  reopening or request for evidence, one fault; the visit came from Jobber. The safety properties also hold with two technician
  requests (6.5 million states), and are proved for any number of areas and requests.
* **Jobber.** Two handlers, two accounts, two consents, one lapse, one fault (2.2 million states); it also holds with
  two faults (11 million), too long for the suite.
* **Publishing.** Two requests of the office, three decisions (publish, unschedule, and one in Jobber or a second edit), two days, two visits
  (the booked one and its replacement), three inspections, one fault. Once a history is excused nothing but its type is asked of it, and
  `MCVisitPublishing` follows it with one request at a time only; a history that is not excused is followed with both. Four decisions have
  been checked too, with excused histories cut off.
* **Deadlock** is checked in every run but `video`, `lifecycle`, `lifecycle_resubmit` and `publishing`, where the recording, the inspection or the
  visit may really be finished. Every bound is a constant named in its module.

## Where the code and its comments disagree

Three runs find a behaviour that a comment of the code excludes; `PROJECT.json` quotes the lines.

1. `SignedOutStays`: a renewal that is out when the technician signs out is adopted when it is answered
   (`mobile/src/auth/session.ts:343`).
2. `SentOrStays`: two queue operations that overlap write an older copy over a newer one
   (`mutation-queue.ts:83`); `location-storage.ts` has a line of changes for this reason.
3. `SubmissionTaken`: once Jobber's row of a visit exists, a later submission writes a second one, and the unique key's refusal
   aborts the transaction the submission is in (`jobber.outbound.ts:104`); the comment expects the row to be left alone.

The qualified properties (`…Uncrossed`, `…Unless…`, and the history variables in their conclusions) mark behaviours that modelling
showed. The first contradicts a comment too; it has no run of its own, and replacing `overtaken` by `FALSE` in
`SettlesUnlessOvertaken` makes the run `video` show it. No comment excludes the others.

* **A late report strands a finished recording.** Somebody asks Cloudflare, or is notified, while the recording is being encoded; the answer
  `inprogress` waits while the encode ends, the `ready` is written and the analysis finishes; then the older report is written and puts the row
  from READY (or FAILED) back to PROCESSING (`inspection-video.service.ts:1116-1121`: only a repeated `ready` leaves the status alone).
  Every later `ready`, the sweep's too, is such a repeat, so nothing but a restart of the API moves the row on. The comment at `:1111-1115` is about
  that state: it "left a recording "in progress" with nothing left to move it on, which also holds up finalizing the inspection".
  `overtaken` records it.
* Two of the phone's writers of its session that overlap may land in either order: an older answer saved over a newer one
  (`session.ts:188`), or the refusal of an old renewal wiping the session of a sign-in beside it (`session.ts:336`). Hence `crossed` in
  `RestartFindsSession` and `KeepsLiveSession`.

* Two sign-ins that overlap both find nothing live and both write a row (`session.service.ts:301`, `:333`); a sign-in or refresh judged
  before a password change writes its row after it. Hence the properties named `…Uncrossed`.
* A write that was held stays queued after a later write about the same thing was accepted online, and the drain then puts
  the old value back.
* A renewal that is never answered is joined by every later send, and none ends (`session.ts:253`, `:307`); the sixty-second guard
  covers a hung request, not a hung renewal.
* A recording that arrives while the API restarts, and whose notification is lost, has a failed row the sweep never asks about
  (`inspection-video.service.ts:1261`). Two upload-session handlers that overlap may delete the video that was completed and marked (`:1361`), as may
  one beside a report of it. A report may be written on a row that names another video by then (`:1116`, by the row's id). A repeated `ready`
  completes an area that was changed since.
* The review is not reached when the last recording could not be encoded after the submission, or when the process ended between the last
  analysis and `advanceInspection` (`media-processing.service.ts:518`). A handler that judged earlier overwrites a frozen status (`admin.service.ts:2717`).
  A Change Evidence judged before a submission counted the areas leaves a submitted job with an area that is not done (`technician.service.ts:1241`). A request
  for evidence leaves the completion owed to Jobber.
* A Jobber renewal that is out when the office disconnects stores its answer, and the connection reads as connected again
  (`jobber.tokens.service.ts:152`). If the account cannot be fetched after a consent, another account's tokens stay under the old account's
  name (`jobber.service.ts:119`). Two consents that overlap are judged by one another's tokens.
* Publishing and the two-way sync (`VisitPublishing`, what `crossed` and `history` excuse):
  * A visit is booked twice when the answer of `visitCreate` is lost or the process ends before the inspection claims it; when the process
    ends between the stop getting its unscheduled visit and the task being marked (`jobber-outbound.worker.ts:763`), since `bookUnscheduledJob` never asks
    whether the stop has a visit; when `placeOne` read the stop before the worker booked it; when two runs of the worker overlap, a
    person's and the scheduler's (`jobber.controller.ts:185`).
  * An inspection unscheduled while its booking is under way, by a request that read it as not booked, leaves its visit in Jobber with nothing
    here; the worker's claim and mark then name rows that are gone, which ends its run. A visit the sync imports before it is claimed makes a second inspection,
    and its claim is refused until the task is given up.
  * `publish` of a dated stop does not delete its `TBP_JOB_UNSCHEDULED` row, as `placeOne` does (`tbp-publish.service.ts:248`): the row is marked
    sent without a visit, or books one beside the stop's own if it has come back off its day.
  * Unscheduling again re-arms the one `TBP_VISIT_UNSCHEDULE` row of the stop for the newer visit; a deletion of an older one
    that was pending or given up is forgotten (`tbp-unschedule.service.ts:386`).
  * Publish and an edit that have read different days make two inspections. An edit that races an import leaves the stop on one day and its
    inspection on another. `fail` marks a stop failed that the sync has given its inspection meanwhile.
  * A reschedule between `bookVisit`'s read and its claim queues no push. One between a sync's `heldConsoleEdits` and its write is overwritten.
  * `pushSchedule` leaves the import's stored copy as it was. Until a sync has fetched our own push, the next reschedule is compared with
    the older copy, judged changed in Jobber and withdrawn, though nobody changed it there (`jobber-sync.worker.ts:1195`; the comment at
    `:1168` means a change "after the edit was made"). `Settled` keeps such a day out of `wanted`.
  * A plan left `PUBLISHING` by a process that ended cannot be claimed or edited again.

## Fairness

Five specifications state fairness; the others check safety alone. It is weak fairness but for one action: nothing else is needed of an action
that keeps being disabled. Faults are bounded by `MaxFaults`: a network that refuses for ever allows no promise.

* **`LocationSpec`**: the line of changes reading and writing (the store answers, or fails, in finite time); a
  renewal under way being answered (or becoming `hung`, which is not fair); the location task asking for a send, since a
  shift that is being recorded keeps delivering positions; each send's own next step, the server handling what has reached it, a minute
  passing, a back-off ending. None for opening the app, for the timer (which runs only then), or for the abort that would end a hung
  request, because a phone in a pocket gives none of them.
* **`CacheSpec`**: a load goes on (every command has a timeout, every query ends), every TTL runs out, and a closed socket is opened again
  or given up. None for reads or writes.
* **`UploadSpec`**: handlers take their next step, Cloudflare encodes and keeps notifying until it has its 200, the sweep runs every five minutes
  and retries an analysis, `process()` starts and ends, the pass takes its step on the phone, a chunk on the wire lands. None for the technician:
  a paused or failed item waits for a person, which `NeverStuckSending` allows.
* **`LifecycleSpec`**: what has begun goes on, an analysis ends and is retried by the sweep, and the outbox is drained every five minutes. Nobody
  has to submit, review or reopen anything.
* **`PublishingSpec`**: a request that has begun ends, the worker drains the outbox and a sync goes on. Strong fairness of fetching each visit, because one
  sync at a time takes turns among them; the schedule covers them all. Nobody has to decide anything.

## What is proved

All theorems hold for every value of the constants under the named assumption of the module (sentinels lie outside the sets they
are used with, bounds are natural numbers, at least one attempt, one fix, a batch of two, one area). TLC evaluates the assumptions in the runs.
Every safety property of the passing runs is proved: each invariant, each action property and each refinement.

* **SessionProofs**, the sessions in the API. `TypeCorrect`: by one lemma over all actions. `ExchangesKeepSession` and `ReplaysWereExchanged`: for
  any number of overlapping handlers; the inductive invariant `Lineage` joins the two with type correctness and the fact that a handler about to
  rotate holds a row that exists (`TypeInv`). `OneHandsetHolds`,
  `PasswordEndsSessionsHolds`, `SingleUseHolds`, `NoEvictionHolds`: for any number of handlers, until one has changed rows under
  another. Here the invariant must also say what a suspended handler knows: past `enforce` no other handset is live,
  past `retire` none is, a handler about to rotate holds an unrevoked token, and
  what it carries was opened with the current password. `NothingChangedUnder` shows that those facts last as long as nobody
  writes under the handler that holds them: they are what a crossing destroys.
* **SessionProofs**, the phone's session. `HandsetUsesSessionService`: the composition only takes steps of `SessionService`, so that what is
  proved of the service holds of it. `HandsetInv` says which tokens the phone knows (`Known`), that what the server refused is dead
  (`RefusedIsDead`), that unless two writers crossed `cached` is the newest of what is unsaved and what is stored, and `flush` saves what is unsaved
  (`Keychain`), and that unless something was lost as well no token the phone may offer has been exchanged (`NotReplayed`). It gives `HandsetTyped`, `ThiefOnlyAfterLoss`,
  `RestartKeepsSession` and `LiveSessionKept`.
* **MutationQueueProofs.** `QueueTypeCorrect`; `OneEntryPerTargetHolds`: for every interleaving, since
  each copy being changed is itself free of duplicates; `SentOrStaysUncrossedHolds`: the invariant
  `KeptInv` says that while nothing has overlapped, the copy an operation has read is the stored
  queue. `DrainKeepsAreaOrderHolds`: the invariant `Stamps` relates the drain's list to the stored
  queue by `queuedAt`.
* **LocationQueueProofs.** `LocationInv` is the conjunction of `SenderInv` (guard and timer name
  sends under way, and at most one is young), `LineInv` (a change in line belongs to the send that
  awaits it, and only the head has been read), `DataOK`, `ChangesOK` (a copy read by the head is the
  queue, unless torn; what a "sent" change removes has rows at the server), `BatchesOK` (a send whose
  request is off the wire and not failed has its batch stored) and `RestOK`. It gives `LocationTypeCorrect`,
  `OneYoungSendHolds` and `StoredOnceHolds`. `DeliveredHolds` is the refinement: every step of
  `LocationQueue` is a step of `FixDelivery` or a stutter. The write of the head
  (`WriteDelivers`) is where the invariant is needed, because only it changes what the phone holds.
* **ServerCacheProofs.** `KeepsFreshHolds` is the refinement, for any number of readers and writers. The invariant `CacheInv` says, unless excused, that
  what is kept under the namespace's version is as new as every write acknowledged or about to be, that nothing is kept beyond it
  (`NamespaceFresh`), and that what a read may still be given is no older than its floor (`ReadersServed`): a read holds an old version, so
  it is the floor at its beginning that has to be remembered.
* **VideoUploadProofs.** `UploadTyped` and `VideoTypeCorrect`; `EvidenceKeptHolds`: the invariant `Backed` says the phone keeps what the row does
  not say is uploaded, the row says so only of a whole video, and a report under way or a notification only of one that had `Arrived`: it
  is whole, or `renewSession` has deleted it since.
* **InspectionLifecycleProofs.** One invariant, `Sound`: a handler that goes on judged a status it accepts (`Judgements`), while a submission has counted
  the areas they stay done (`CountedDone`), and an outbox row the worker holds is due unless a reopening withdrew it (`HeldRowDue`). It gives
  `LifecycleTypeCorrect`, `WalkedMeansDoneHolds`, `OwedOnlyWhenDoneHolds` and, as an action property, `LegalMovesHolds`.
* **JobberConnectionProofs.** `TypeInv`, `RenewalInv` (whoever waits waits for the renewal under way) and `CredentialInv`: unless crossed, a token that
  is kept is the one Jobber would renew or its renewal was just granted (`Live`), the row and what a consent put aside are of the account the office
  connected (`Owned`), and consents do not overlap (`Apart`). They give `ConnectionTyped`, `RenewalsOneAtATime`, `CredentialsAreOwn` and `ConsentsLast`.
* **VisitPublishingProofs**, for any number of requests at once, days, visits, inspections, decisions and faults. `TypeInv` gives `PublishingTypeCorrect`: that no
  stop points at an inspection that is gone and no two inspections share a day or a visit rests on which row a request, the worker and the sync have in
  hand (`WorkInHand`, `RowsKept`). The other two hold until rows changed under somebody who had read them, or something happened that the code does not
  recover from. Neither ends again, so a step that leaves the history quiet began in a quiet one, and there whoever waits finds what he has read
  (`RequestUndisturbed` and its companions): `crossed` is exactly what would break the induction.
  * `BookedOnceHolds`, from `BookingInv`. It names the one visit that counts at every moment (`Current`: in the hands of the worker that made it,
    its inspection's, or the stop's), and says that every other one Jobber still has is on its way out and has a copy no sync makes an inspection of
    (`OthersDismissed`, `OneStanding`), that a request still finds the stop as it read it (`RequestsFresh`), that what the worker makes a visit for has
    none yet (`WorkFresh`), and that a stop owed a place on the Unscheduled list has neither visit nor inspection (`ListedAlone`).
  * `AgreedAtRestHolds`, from `RestInv`. To conclude that nothing is left to do only where both systems agree, it must say what is
    owed while they do not: a booked stop without a visit has a row that will book it (`VisitOwed`), a stop for the Unscheduled list has a visit or is owed one
    (`ListOwed`), the visit that counts is there and is not one the syncs leave alone (`VisitsStand`, `CopiesTrue`), and the day decided last is in Jobber or on
    its way there, while no sync or push that holds an older day undoes it before it has arrived (`WantedKept`: the relation between the row, the stored copy,
    a visit that was fetched and a push that has begun, which `heldConsoleEdits` depends on).

  TLC checked both invariants before they were proved: `RestInv` exhaustively on the instance of the run with four decisions, cut off where the history is
  excused (352 259 states), and an earlier form of it, not to the end, with three days, three visits, four inspections, five decisions and two faults. A witness
  confirms that a state is reached in which nothing is left to do, nothing has crossed and a day was wanted.
  `AgreedAtRest` is the safety half of `ConsoleAgreesWithJobber`: what fairness adds is that such a state is reached.

## What is only model-checked

* The liveness properties (`SentUnlessRenewalHangs`, `OldValuesGo`, `ArrivalNoticedUnlessRestarted`, `SettlesUnlessOvertaken`, `NeverStuckSending`, `JobberHears`,
  `ReviewReached`, `ConsoleAgreesWithJobber`): fairness is out of the prover's reach.
* That each excuse is needed: the theorems say what holds short of it, and the behaviours listed [above](#where-the-code-and-its-comments-disagree), which TLC
  showed, say what happens beyond.

## What is not modelled

Components marked `not_modelled` in `PROJECT.json` name their reason. Inside the modelled ones:

* **Sessions, phone.** A keychain write is one value, though `session-storage.native.ts` writes it in chunks; a late 401 to a request made
  with an older session is not an actor; the web console's session between browser tabs; the links of `password-reset.service.ts`
  (the model begins with the new password).
* **Write queue.** The answer to a queued write is judged in the step that receives it, though `roomRecordingStillUploading` is asked
  after an await; the dozen other kinds of entry, each of which behaves as one of the three.
* **Location.** Starting, stopping and restarting the recording of a shift, `keepWorthwhile` and `followMotion`.
* **Upload and video.** Removing a recording on the phone, the whole-file and multipart uploads, photographs; the legacy status `PROCESSING`.
* **Lifecycle.** Areas that are not required, the HVAC, lockbox and services questions, several recordings of one area.
* **Jobber and planning.** Cancelling a visit, technicians and texts, companions, visits deleted in Jobber, two runs of the worker or a sync at
  once, several stops; building a plan and its routes; the Propertyware lease.
* **Awaits that are one step.** Where no property tells the difference, a read, an await and a write are one step: `load()` of the phone's session;
  `list()`'s read of the server and its removal of a delivered recording; the creation of the media row and the area's update in
  `createUploadSession` (`:773`, `:815`); `completeRoom` and `skipRoom`; the `APP_DISCONNECT` notice's lookup and `markDisconnected`; the look
  at `jobberUnscheduleState` before a stop is written; `processVisit` from its read to its write, one sync at a time. The worker of
  `VisitPublishing` reads one due row at a time, whereas `run()` reads a batch of rows once, whose later rows may be stale by then.
* **Left out of a handler.** An access-token envelope that cannot be read (`jobber.tokens.service.ts:66`, `:131`), which asks for a new consent;
  `CompanionStillOpenError`, on which the outbound worker waits; the failures of `publishStop` that come of
  configuration (`NOT_ROUTED`, `JOBBER_EDITS_OFF`, `resolveInspectionPlan`), which mark the stop failed before anything is made.
* **The rest.** Screens, camera, geometry, report layout, field mapping of the integrations, and everything that is a call to a provider and
  nothing else; the search of `quarter-planner.service.ts`, which is a heuristic over distances without a stated optimum.

## Plan

Done: `SessionService`, `HandsetSession`, `MutationQueue`, `FixDelivery` and `LocationQueue`, `FreshReads` and `ServerCache`,
`InspectionVideo` and `VideoUpload`, `InspectionLifecycle`, `JobberConnection` and `VisitPublishing`, and the proofs of all of them. What would add most next:

1. Two runs of the worker of `VisitPublishing` at once, and a second stop beside the first.
2. The chunked keychain as a refinement of the one-value keychain of `HandsetSession`.
3. The request layer's late 401, as a third writer of the phone's session.
4. `InspectionLifecycle` as the server of `MutationQueue`, with the judging of an early refusal split from its answer.
5. The reset link: burnt, then the password is set, and a crash between the two.

The suite stays at a dozen runs, one per distinct question.

## Running it

In this directory:

    tlc -workers 2 -config queue.cfg MCMutationQueue
    tlapm MutationQueueProofs.tla

`PROJECT.json` gives each run's module and configuration. The longest runs take a few minutes.
