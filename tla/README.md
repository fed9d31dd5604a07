# Verification of the Streamforge backend

TLA+ models of the Streamforge backend (`src/`), the TLC configurations that
check them on small instances and TLAPS proofs of their main properties.
`PROJECT.json` lists the runs, the properties, the source lines each definition
models and the hazards the properties are aimed at.

## 1. Inventory of the system

Fifteen NestJS services (one process each, single-threaded, `async`/`await`)
talk gRPC to the gateway and Kafka to each other.  Every service is hexagonal:
a command handler, a domain aggregate, and adapters for PostgreSQL or MongoDB
(Prisma, mongoose), Redis and Kafka, most of them wrapped in a *resilience
handler* from `libs/handlers` (cockatiel: exponential retry around a
consecutive circuit breaker, then a translation of the error).

| Component | State it keeps | Operations | Correct when |
|---|---|---|---|
| api-gateway | none (cookies and tokens) | HTTP to gRPC; after login, looks the user up in the read service | somebody with an account is not sent to the sign-up page |
| users | `User` table, unique authUserId, email, handle | createProfile, updateProfile, theme, language, notification, phone; publishes on `users` | every saved user is announced, nothing is announced that was not saved; an update is lost only to one that overlaps it; a verified number was verified |
| channel | `Channel` table, unique userId | create, update, monetise, verify; publishes on `channel` | the same |
| videos | `Video` table with a state machine (draft, uploading, processing, published, failed) | saveDraft, verify upload, update; consumes the transcoder's result | a video in processing has its files; an upload is completed once; drafts are announced |
| video-transcoder | BullMQ queue, files in S3 | one job per video, ffmpeg, publishes the result | an announced video can be played; it is announced once; every readable video is announced |
| comments | Redis set and sharded counter, Redis stream, `Comment` table | claim, buffer, cron flush | every accepted comment is stored; counters agree with sets |
| reaction | two Redis sets and sharded counters per video, stream, MongoDB | like, unlike, dislike, undislike, cron flush | a user likes or dislikes, never both; counters agree with the sets, the stream with both |
| views | Redis set and counter, stream, database | watch, cron flush | one view per user and video |
| read | MongoDB projections of users, channels and videos | consumes the topics, answers queries | every event is projected once, none is skipped |
| email | none | consumes `users`, sends the welcome mail | everybody who signed up gets a mail |
| authz | OpenFGA (external) | check, write | a thin wrapper |
| libs/handlers | retry and breaker state per adapter | execute | bounded calls per operation; one error out |
| libs/clients, common, contracts, utils, proto | none | constructors, types, shard function | - |
| analytics, history, playlist, subscribe | none | empty services | - |

**Interaction.** A command handler saves through its repository and then
`commit()`s its aggregate; the CQRS event bus hands the domain event to a
handler nobody awaits, which sends an integration event with the Kafka
producer.  The read and email services are consumer groups of the topic
`users`.  Comments, reactions and views never publish: they go through Redis to
a cron job (*write-behind*).

**Hard behaviours.**  Two requests of one user interleave at every `await`;
cron executions overlap; the process dies between two steps and Redis, Kafka
and the databases survive; a call may fail after its effect took place, and the
handlers then retry it; Kafka delivers again after a rebalance; ioredis sends a
command again after a reconnection; save and publish are not atomic; a
projection is stale when the gateway decides from it.  `PROJECT.json`,
"hazards", lists these at their lines, with the properties that cover them.

## 2. The modules

| Module | Models | Checked by |
|---|---|---|
| `WriteBehind` | abstract: what a write-behind buffer promises | as the property `BufferSpec` |
| `CommentsService` | the comments service: claim in Redis, stream, cron flush, database | `MCComments` + `comments_*.cfg` |
| `CommentsService_proofs` | theorems about `CommentsService` | TLAPS |
| `AtLeastOnce` | abstract: what a Kafka consumer group promises | as `ReadDelivers`, `EmailDelivers` |
| `AtLeastOnce_proofs` | its theorem | TLAPS |
| `Onboarding` | sign-up: users, read and email services and the topic between them | `MCOnboarding` + `onboarding_*.cfg` |
| `Onboarding_proofs` | theorems about `Onboarding` | TLAPS |
| `UserProfiles` | the update commands of the users service | `MCUserProfiles` + `users_*.cfg` |
| `UserProfiles_proofs` | theorems about `UserProfiles` | TLAPS |
| `VideoLifecycle` | the videos service: draft, upload, verification, update | `MCVideoLifecycle` + `videos_lifecycle.cfg` |
| `VideoLifecycle_proofs` | theorems about `VideoLifecycle` | TLAPS |
| `Transcoding` | the video-transcoder: consumer, BullMQ queue, worker, S3, publication | `MCTranscoding` + `transcoding_*.cfg` |
| `Transcoding_proofs` | theorems about `Transcoding` | TLAPS |
| `Engagement` | the reaction and views services: Lua scripts, counters, stream | `MCEngagement` + `engagement_commands.cfg` |
| `Engagement_proofs` | theorems about `Engagement` | TLAPS |
| `RetryContract` | abstract: what the caller of a resilience handler may rely on | as `ContractSpec` |
| `Resilience` | the six handlers of `libs/handlers`: concurrent calls, retry, breaker, dead letters | `MCResilience` + `resilience_*.cfg` |
| `Resilience_proofs` | theorems about `Resilience` | TLAPS |

Definitions whose names start with `Bug` are plausible mistakes in the code,
each next to the definition it would replace.  No specification uses them; they
are the mutants of `PROJECT.json`, and every property of every passing run is
violated by at least one.

### 2.1 CommentsService

State and code:

| Variable | Stands for |
|---|---|
| `up` | the service process |
| `pc` | where each CreateComment command is: before the claim, between `incrementCommentsCounter` and `bufferComment`, or how it was answered |
| `usersSet`, `counter` | the two kinds of Redis keys of `comments.lua` |
| `last`, `stream` | the Redis stream; an entry is a number and holds its command |
| `grouped`, `cursor`, `pel` | the consumer group: its last-delivered id and pending entries |
| `rows` | how many rows of the `Comment` table came from each entry |
| `phase`, `batch`, `attempts`, `saved` | each execution of `processCommentsMessages`: its batch, failed inserts, and whether one of them was committed |
| `faults` | a bound, see below |

`Claim` and `BufferComment` are the two halves of the command, with the crash
and every other command between them; `ReadBatch`, `SaveMany`,
`SaveManyRetried`, `AlreadySaved`, `SaveManyFailed` and `Acknowledge` are the
cron job step by step; `Start` is `onModuleInit` with `createStream`; `Crash` is the death of the
process.  A call to Redis does one of four things (`Calls`): it runs and
answers, it is refused, it runs and its reply is lost, or it runs twice after a
reconnection (`Resends`, the default of ioredis, `redis.client.ts:15-17`).  An
insert whose answer is an error may have been committed (`saved`).  The ids of the
rows are made once for the batch (`redis-buffer.adapter.ts:151`) and are the
primary key, so a retry after such an insert is refused; a unique violation is not
retried, and the job ends before the `XACK` (`AlreadySaved`): the entries are rows
and stay pending.  The handler passes
`(videoId, userId)` to a cache operation declared `(userId, videoId)`, so
`usersSet` and `counter` are keyed by users: the model does what the code does,
and both parameters range over `Ids`.

Abstractions: a comment is the command that made it (its text is never looked
at); ids are model values; `ShardOf` is any function of the concatenated pair,
which the code hashes modulo 64; the retries of a `ReplyError` run nothing and
are part of one call; the breaker's threshold is 10 consecutive failures, far
beyond the number of faults in any run.  Blocking (`BLOCK 5000`) is delay, an
empty read is a stutter.

What the properties say (each comment in the module says more):

* `AckedIsSaved`, `OneFlushPerEntry`, `SavedOnce`: whatever crashes, fails or
  overlaps, an acknowledged entry is in the database, overlapping jobs have
  disjoint batches, and no entry becomes two rows.
* `OneEntryPerPair`, `CommentedIsBuffered`, `AlreadyHasOrigin`: racing commands
  of one user and video buffer one comment; who is told "Commented on video"
  is in the stream; who is told "already commented" is told so because of
  another command, which may itself have failed after its claim.  The first and
  the last need that no command is resent: a resent `XADD` buffers twice, a
  resent script answers 0 to the command that made the claim.
* `CounterMatchesSet`: shard by shard the counter is the size of the set, also
  with resent commands.
* `CommentsAreKept`, `EntriesSettle`, `CommentsAreSaved`: without a fault an
  answered comment is at every moment in the stream, in the hands of a job or
  exactly one row, and every comment reaches the database.  With one, entries may
  stay pending for ever, because the job only reads `>`; they never hold up later
  entries.  `StrandedOnlyByFault`, that nothing pending is without a job before the
  first fault, is the lemma behind the first; it is proved and has no run.
* `BufferSpec`: the stream, the group and the table implement `WriteBehind`.
* `SetHoldsCommenters` is what `comments.lua:1-3` says of its keys; the code
  violates it, because of the swapped arguments (`create-comment.handler.ts:31`).
  `getTotalCommentsCounter(videoId)` therefore always sums to 0.

### 2.2 Onboarding

| Variable | Stands for |
|---|---|
| `signup`, `attempts` | each CreateProfile command and the failed attempts of its insert, then of its publication |
| `users` | the `User` table: whose rows it holds |
| `publishing` | events between `commit()` and the answer of `producer.send`; only in memory |
| `log` | the partitions of the topic `users`; the key of an event is its id |
| `position`, `committed` | how far each consumer group is, and its committed offsets |
| `projections`, `mails` | the user projection in MongoDB; welcome mails sent |
| `faults` | a bound |

`CreateProfile` is the command when its insert succeeds; `AlreadyExists`,
`SaveRetried` and `SaveFailed` are the branches of `PrismaHandler.execute`;
`PublishMessage`, `PublishRetried` and `PublishFailed` those of the publisher
handler, whose dead-letter branch logs, sleeps a second and sends nothing.
`SaveUser` and `SendEmail` are `eachMessage` of the two groups;
`SaveUserFailed` and `SendEmailFailed` their failures, after which the message is
delivered again because the consumer handler rethrows everything.
`CommitOffset` and `ConsumerCrash` are kafkajs.  There is no action for an event
whose email is already projected: `create` throws each time, the position does
not move, nothing changes.

Abstractions: retries inside the consumer handler are deliveries; the other
events of the topic, which both services ignore, are left out; the gateway is
what makes a person sign up twice (two of the three commands of the instance
have one email).  Both groups exist before the first event: outside development
a group that joins later starts at the end of the topic (`fromBeginning`).  The
read service's group is called `comments` (`kafka.adapter.ts:26`), which no
other service uses.

* `FactsHappened` ("events are facts that already happened", `README.md` of the
  repository): nothing is published, projected or mailed about a user who is not
  in the table.
* `ReadDelivers`, `EmailDelivers`: each group implements `AtLeastOnce`, handling
  in order what it moves past; `PassedIsProjected` and `PassedIsMailed`, that no
  group moves past an event it did not handle, follow and are proved from them.
* `LostOnlyByFault`, `EverybodyArrives`: without a fault nobody is lost on the way
  to the projection or to the mail, and everybody answered "User signup successful" is projected and mailed.  One
  fault is enough to lose somebody: a crash or a failed publication after the
  insert, or an insert that was committed and answered with an error, whose retry
  the command's own row refuses.
* `SmoothWithoutFault`: without a fault the read group is never held up and
  nobody gets two mails.  With one, a second delivery of a projected event holds
  up its partition.  `MailsGetThrough`: the email group never is.

### 2.3 Resilience

| Variable | Stands for |
|---|---|
| `phase`, `runs`, `outcome` | each `execute()` call: where it is, how often its operation was started (`attempts` of the Kafka handlers), what it was answered |
| `circuit`, `failures` | the state of the shared breaker and the count of its `ConsecutiveBreaker` |
| `prober`, `awaits` | the call whose probe the half-open state holds, and the one each waiting call awaits |
| `letters` | the calls whose message was handed to `publishToDlq` |

One module stands for the six handlers, which differ in constants: what they
retry (`errorsToHandle`), what their breaker counts (the same, except the Redis
cache: `handleAll`) and what becomes a dead letter (Kafka events only).  The
policies are cockatiel's: `Start`, `Probe`, `AwaitProbe` and `Reject` are the
four things its breaker does with an attempt, `Succeed`, `Fail` and `GiveUp` what
follows a result, first for the breaker and then for the retry.  Every `await`
ends an action, so a result may reach a breaker that is no longer in the state in
which the call started: a late success empties the count of an open circuit, a
late failure opens the circuit under a probe, and a second probe may start while
the first is still out.  Time is abstracted: a backoff ends at any moment, an
open circuit may cool down at any moment (`CoolDown`).  The translation of a
final error into an exception class changes no state and is left out, as is the
dead letter itself, which is logged and not sent.

* `ContractSpec`: a call's operation runs at most `MaxRetries + 1` times, it is
  answered once, "ok" only if it ran, a retried error only after every retry; a
  broken circuit may refuse it at any moment.  This is what `CommentsService` and
  `Onboarding` assume of a call that goes through a handler: their `...Retried`
  actions are bounded, their `...Failed` actions always possible.
* `ProbeInFlight`, `CallsEnd`, `HalfOpenSettles`: a half-open circuit and all who
  wait depend on a probe that is in flight, so every call is answered and the
  circuit leaves the half-open state.
* `ClosedBelowThreshold`: a closed circuit has fewer than `Threshold` failures on
  its count, unless an uncounted error has closed it.  In the handlers that count
  only some errors a probe answered by, say, a unique-constraint error closes the
  circuit with a full count, and the next failure opens it again.
* `BreakerJustified`: nobody is turned away before `Threshold` operations failed.
* `LettersAreFinal`: no dead letter is written while a retry is left.
* `DlqAfterAttempts` is what the configuration `sendToDlqAfterAttempts: 5` says;
  no code reads it, and the run shows a message given up after one attempt.

### 2.4 UserProfiles

| Variable | Stands for |
|---|---|
| `phase`, `tries` | each update command: before it found its user, between the read and the answer of the update, or how it ended; the failed attempts of its update |
| `rows` | the `User` table |
| `copy` | the aggregate a command has changed in memory |
| `outbox`, `topic` | events between `commit()` and the answer of the producer; events on `users` |
| `before` | history: which commands had ended when another one read its user |
| `faults` | a bound |

The five handlers (profile, language, theme, notification, phone) do the same
three things: find the user, change the aggregate (`FindAndChange`, or `Refuse`
when there is no user or a value object throws), write every column of the row
(`Update`, `UpdateRetried`, `UpdateFailed`).  The await between the two is where
other commands come in.  The value of a column is the command that supplied it,
which is all the properties ask of it.  `Overflow` is the RPC controller whose
methods call themselves (`rpc.controller.ts:60-98`); which do is the constant
`Recursive`.

* `KeptUnlessOverlapped`: what an answered command supplied stays until a later
  command supplies it again, unless a command of the same user ran at the same
  time.  The write is of the whole row and is retried after attempts that may
  have been committed, so it has to be shown that retries, failures and crashes of
  other commands take nothing back.
* `VerifiedWasVerified`: a phone number marked as verified is one that a
  verification saw.  A verification that races with a change of the number brings
  the old number back, never the new one verified.
* `SerialUnlessOverlapped` (an action property): a command that nobody overlapped
  writes what it would have written had find and update been one step, in every
  attempt; a retry of a stale row cannot hide behind a fault.
* `UpdatesAreAnnounced` is what the repository's `README.md:101-102` says; the
  code violates it: only the language handler commits its aggregate.

### 2.5 VideoLifecycle

| Variable | Stands for |
|---|---|
| `draft`, `saves` | the SaveDraft command of each video, and the failed attempts of its insert |
| `phase`, `tries`, `copy`, `before` | the UpdateVideo and VerifyUploadedMedia commands, as in `UserProfiles` |
| `rows` | the `Video` table: state, whether the file identifiers are set, who supplied the details |
| `objects` | what clients have uploaded to S3 |
| `outbox`, `topic` | drafts being announced, and announced on `videos` |
| `faults` | a bound |

`SaveVideo`, `Sign` and `PublishMessage` are a draft: insert, two signed URLs,
`commit()`.  `VerifyRawMedia` looks at S3 for both files (a missing one throws);
only then does the command read the row, and only a `DRAFT` is accepted
(`EnsureState`).  `Written` is what Prisma writes: an identifier the aggregate
does not have is `undefined` and leaves its column alone, while the state is
always written.  A slow update therefore takes a verified video back to a draft.
The details are one value, the last command that supplied them: an update is taken
to give all of them, while the guards of `updateDetails` (`video.aggregate.ts:131-134`)
change only the fields the command has.

* `ProcessingIsUploaded`: a video in processing has both files, although the look
  at S3, the read and the write are three steps and updates write in between.
* `KeptUnlessOverlapped`, `VerifiedOnce`: a verification or an update is taken
  back only by a command that ran at the same time, and only so can an upload be
  completed twice.
* `SerialUnlessOverlapped`: as for users, each write of a command that nobody
  overlapped is that of the command on the row as it is.
* `DraftsLostOnlyByFault`: without a fault every draft in the table is announced or
  on its way.

### 2.6 Transcoding

| Variable | Stands for |
|---|---|
| `event` | each video's event on `videos`: not sent, to be delivered, handled |
| `job`, `made`, `stalls` | the BullMQ job named after the video: its state, attemptsMade, stalls |
| `current`, `stage` | the worker: one job at a time, and how far its attempt is |
| `todo`, `uploading` | `runWithConcurrency`: segments not started, segments in flight |
| `orphans` | uploads that a failed attempt has left in flight |
| `objects`, `manifests` | S3 |
| `announced` | `video.processed` events |
| `build` | never changes: what the transcoder was built with |
| `forgotten`, `redelivered`, `faults` | jobs the queue has removed; bounds |

`Consume`, `ConsumeFailed` and `Redeliver` are the consumer, whose handler awaits
`queue.add` and rethrows; adding a job the queue knows does nothing.  `Take` to
`Complete` are `process()` step by step, and each of its failures is
`FailAttempt`: the job waits again or is failed for good, and because
`Promise.race` and `Promise.all` reject at once, uploads in flight go on as
`orphans` beside those of the next attempt (`OrphanEnds`).  `Stalled` and
`RemoveOnComplete` are BullMQ.  The delays of the backoff are left out.

The code cannot get to the end: its raw key (`raw/raw/<id>`) is not the one the
videos service signs (`videos/raw/<id>`), and its `sizeBytes` is a bigint, which
`JSON.stringify` refuses.  Both are actions of the model (`RawFileMissing`,
`CannotSerialise`).  `Builds` says which combinations a run starts from: the
code's, and the code with one or both mended, so that what lies behind the first
failure is checked too.

* `PlayableWhenAnnounced`: a manifest's segments are all in S3, and an announced
  video has its manifest, in every order in which uploads end.
* `RepeatsBounded`: until the queue removes a job (an hour after completion) its
  video is announced once, and again only for a fault, however often the event is
  delivered, and never more often than it has attempts and stalls; after that a
  redelivery may cost one announcement more.
* `SilentOnlyByFault`: in the mended builds a readable video whose event was
  handled is announced or has a job that still runs, unless there were as many
  faults as a job has attempts, or more than it may stall.  The failures of the
  other video, redeliveries and forgotten jobs never cost it its result.
* `ResultIsAnnounced`: and it is announced in the end.
* `VideoServiceWillKnow` is the comment at `bullmq-transcoder.worker.ts:53`; with
  the code's own build it is violated without a fault.

### 2.7 Engagement

| Variable | Stands for |
|---|---|
| `members`, `counter` | the Redis sets and sharded counters: likes, dislikes, views |
| `latest` | the streams, kept as what a reader was last told of each user and video |
| `phase` | each command: before its script, sent but unheard of, between script and XADD, or how it ended |
| `build` | never changes: the script names the adapters find on their client, the stream adapters that have a client, how a reaction is written to the stream |
| `muddled` | history: pairs whose last change overlapped another or was hit by a fault |
| `faults` | a bound |

`RunScript` is all five Lua scripts: each takes the user off one list, puts them
on another, and moves the counters of the pair's shard by what `SREM` and `SADD`
answered.  `Record` and `Buffer` are the two calls of a command, `ReplyLost` is
ioredis sending a script again.

At this commit no command of the two services gets through, for three reasons,
each a field of `Build`:

* `scripts`: the reaction adapter defines `videoLikesCountIncr` and so on, and calls
  its scripts under other names, so each of its commands ends in `NotAFunction`.
* `clients`: the `client` of the views' stream adapter is never assigned
  (`redis-buffer.adapter.ts:28` of views, an empty constructor at line 43).  After the script
  of `watch` its XADD throws (`NoClient`), and the command ends `unbuffered`.  The
  adapter's `onModuleInit` fails the same way, so that the process does not even
  start; the model has the handler, as the first call would find it.
* `entries`: `bufferReaction` writes the aggregate itself, in which user, video and
  status are nested private fields, and the reader asks for them at the top.  The
  views are written as a snapshot, which has them there.  `Append` is what a reader
  is told, which of a nested entry is nothing (`Legible`).

The instance has two builds: the services as they are, and all three mended.

* `CountersExact`: likes and dislikes of a video are disjoint, and each shard of a
  counter is the number of users of its set that hash there: also after a script
  that ran twice.
* `StreamTellsSets`: in a build whose commands reach the reader (`Carried`), the
  stream, from which the database is to be written, ends with what the sets say,
  unless the last change of the pair was disturbed.  It says nothing of the services
  as they are, where a view is counted in Redis and in no stream.  Script
  and XADD are two calls, so two overlapping commands may reach the stream in the
  other order, and a failed append leaves it behind; the next undisturbed change
  makes it good.
* `AlreadyHasReason`: without a fault a like, dislike or view is answered as a
  repetition only because another command of the same user did it before.

## 3. The runs

| Run | Instance and bounds | Shows |
|---|---|---|
| `comments_faults` | 2 users, 1 video, 3 commands (two for one pair), 2 overlapping jobs, batches of 1, 1 retry, 3 faults, fairness | the flush and claim properties, the refinement, `EntriesSettle`, `CommentsAreSaved` |
| `comments_resends` | the same, batches of 2, resent commands | `CounterMatchesSet` and `CommentedIsBuffered`, which survive resent commands |
| `comments_keys` | no fault | the violation of `SetHoldsCommenters` |
| `onboarding_faults` | 3 sign-ups (two of one person), 2 partitions, 1 retry, 2 faults, fairness | every safety property, both refinements, `EverybodyArrives`, `MailsGetThrough` |
| `users_updates` | 1 user, 6 commands (two change the phone number, one verifies it, language, one refused, one overflows), 1 retry, 2 faults | `KeptUnlessOverlapped`, `VerifiedWasVerified`, `SerialUnlessOverlapped` |
| `users_events` | 1 command, 1 fault, fairness | the violation of `UpdatesAreAnnounced` |
| `videos_lifecycle` | 1 video, 2 verifications, 2 updates, 1 refused update, 1 retry, 2 faults | the five properties of `VideoLifecycle` |
| `transcoding_jobs` | 2 videos (one without a video stream), 3 segments, 2 uploads at a time, 2 attempts, 1 stall, 1 redelivery, 2 faults, three builds, fairness | the properties of `Transcoding` |
| `transcoding_announced` | the same with the code's build and no fault | the violation of `VideoServiceWillKnow` |
| `engagement_commands` | 1 video, 2 users of one shard, 8 commands (two watch), 2 faults, the services as they are and mended, symmetry of the two that watch | `CountersExact`, `StreamTellsSets`, `AlreadyHasReason` |
| `resilience_kafka` | 3 calls, 1 retry, threshold 2, three kinds of error of which one is retried and counted, fairness | every safety property, the contract, `CallsEnd`, `HalfOpenSettles` |
| `resilience_dlq` | 2 calls, 2 retries | the violation of `DlqAfterAttempts` |

The bounds suffice for the interesting cases: two commands of one pair race
while a third shares or does not share their shard; two jobs overlap with
entries left for a third read; two faults allow a failure and then the failure
of its repair (a retried insert and a crash, a lost reply and a redelivery).
Retries are 3 in the code and 1 here: the properties depend on there being a
retry, and the proofs hold for any number.  Three calls of a handler are a probe,
a late result of an older call and a call that waits or probes again.  Two updates
and two verifications of one row give every order of their reads and writes,
a retried stale write under a newer one included.  Three segments with two uploads
at a time leave one to start and two in flight when an attempt fails; with two
attempts the orphans of the first meet the uploads of the second.  The second
video keeps the worker busy while the first waits.  Properties of one video or
user need no second one: nothing relates them in these services but the worker
and the shards.

Deadlock checking is off: when all commands are answered and everything is
flushed or announced the model rightly stops.

**In three places an instance differs from the code**, so that what lies behind a
fault of the code is not left unchecked.  `users_updates` takes the RPC methods of
the language and the verification as if they reached their handlers (the theme's
overflows, as in the code).  `transcoding_jobs` and `engagement_commands` include
mended builds next to the code's own: of the download key and the type of the size,
and of the script names, the views' client and the reactions' entries.
`StreamTellsSets`, and of `CountersExact` and `AlreadyHasReason` what concerns
reactions, is about the mended build; the code's own counts views and buffers
none.  The theorems hold for every
`Recursive` and every `Builds`.

**Fairness.**  Weak fairness of: restarting the process (the orchestrator does),
the step a running command, job or publication is waiting for (its promise
settles), the cron job's next step (`@Cron`), the consumers' next message (kafkajs
polls), BullMQ's check for stalled jobs, and in `Resilience` the result of an
operation, the end of a backoff and the continuation of a waiting call.  One
strong fairness: that the worker takes a job (`Take`), which is enabled only while
the worker is idle; BullMQ's waiting list is first in, first out, so a job that
waits is taken after those before it.  Nothing is assumed of clients, crashes, or
faults.

## 4. What is proved

TLAPS proves, for every value of the constants that satisfies the module's
assumption:

* `CommentsService_proofs`: `TypeCorrect`, `AckedEntriesAreSaved`,
  `FlushesAreDisjoint`, `EntriesAreSavedOnce`, `StrandedNeedsFault`,
  `AnsweredCommentsAreKept`, `OneEntryForEachPair`, `CommentedMeansBuffered`,
  `AlreadyMeansAnother`, `CounterIsSetSize`, `ImplementsWriteBehind` and, through
  the refinement, `EntriesGoInOrder` (acknowledged, stored, accepted): all the safety properties of the
  runs, for any number of users, videos, commands, overlapping jobs and faults.
* `AtLeastOnce_proofs`: `NeverSkips`.
* `Onboarding_proofs`: `TypeCorrect`, `EventsAreFacts`, `LossNeedsFault`,
  `HeldUpNeedsFault`, the refinements `ReadImplementsAtLeastOnce` and
  `EmailImplementsAtLeastOnce`, and from these and `NeverSkips` the theorems
  `NoUserIsSkipped` and `NoMailIsSkipped`.
* `UserProfiles_proofs`: `TypeCorrect`, `VerifiedNumbersWereVerified`,
  `AnswersAreKept`, and the action property `UpdatesAreSerial`.
* `VideoLifecycle_proofs`: `TypeCorrect`, `ProcessingHasFiles`,
  `AnsweredCommandsAreKept`, `UploadsCompleteOnce`, `DraftLossNeedsFault`,
  and the action property `UpdatesAreSerial`.
* `Transcoding_proofs`: `TypeCorrect`, `AnnouncedCanBePlayed`,
  `AnnouncementsAreBounded`, `SilenceNeedsFaults`.
* `Engagement_proofs`: `TypeCorrect`, `CountersAreExact`, `RepetitionHasReason`,
  `StreamFollowsSets`.
* `Resilience_proofs`: `TypeCorrect`, `ProbesAreInFlight`, `StaleCountHasReason`,
  `CountingAllIsExact`, `LettersComeLast`, `BreakingIsJustified`, its consequence
  `FewCallsNeverBreak` for finitely many calls with few runs between them, and the
  refinement `KeepsContract`, for any number of concurrent calls, retries and errors and any
  threshold.

Arguments.  Hardly any of the properties is inductive alone.

* *Flushing.*  `FlushInv` adds that a job's batch is pending, so that two jobs
  cannot get the same entry (a read takes entries beyond the cursor, and all
  pending ones are behind it); that a job in its acknowledging phase has
  inserted its batch; and that while a job inserts, the entries of its batch have
  one row if an attempt was committed and none otherwise, entries beyond the cursor
  having none (`OwnsBatch`).  An entry is inserted only by the job that read it, and
  no entry is read twice, so `SavedOnce` follows.
  `CommentsAreKept` then combines this with `StrandedOnlyByFault` and
  `CommentedIsBuffered`.
* *Claims.*  `ClaimInv` adds that an entry or a command in progress has the
  claim of its pair and excludes another, and that each claim has a command that
  made it.
* *Counters* (comments and engagement).  Inductive with the types and the
  finiteness of the sets, by the cardinality of a set with one element more or less.
* *Onboarding.*  The refinements need only the type invariant and `FactsHappened`
  needs that the insert precedes `publishing`.  `LostOnlyByFault` is `Told`, that
  without a fault every user is being published or in the topic, together with
  `NoUserIsSkipped` and `NoMailIsSkipped`.  `SmoothWithoutFault` needs
  `OnceInv`: while there is no fault, an event being published is not in the
  topic, the topic holds nothing twice, and what was projected or mailed lies
  behind the group.  The next message is then not behind it, so its email is
  not projected, as emails are unique in `users`.
* *Updates.*  `VerifiedInv` says of copies what `VerifiedWasVerified` says of
  rows, since a copy becomes the row.  `KeptInv` has two parts: `OrderInv`, that
  `before` only holds commands that have ended and that a copy has what its own
  command supplied; and `CopiesKeep`, that a copy whose command read after an
  answered one holds what that one supplied.  A write, retried or not, is then
  either of a copy that keeps an earlier answer or of a command that overlaps it.
  `SerialUnlessOverlapped` adds `FreshCopies`: the copy of a running command that
  nobody overlapped is that command's change of the row as it is, or the row has
  it already because an attempt that seemed to fail wrote it.
  Videos use the same argument, with `NoneFollows` for the state: no verification
  is accepted after one that nothing overlapped.
* *Videos.*  `UploadInv`: rows and copies that are in processing have both files,
  and so has a command whose look at S3 succeeded.
* *Transcoding.*  `JobInv`: the worker's job is active and a waiting or active job
  has attempts left.  `UploadInv`: while uploading, each segment is to do, in
  flight or in S3; after it, the manifest is there.  Orphans only add objects.
  `RepeatsInv` is an account: a job that may still publish and an event that is
  still to be consumed each owe an announcement, and what was announced together
  with what is owed never exceeds one, the faults and the redeliveries; while the
  queue remembers the job an event owes nothing, so the redeliveries drop out, and
  the attempts made and the stalls bound it as well.  `CostInv` is the account of
  the other side: the attempts made, the stalls and the death of a worker that the
  queue has not noticed yet are each paid for by a fault of their own, so a job
  can fail only when the faults are enough.
* *Engagement.*  `StreamInv` says of each undisturbed pair that at most one
  command stands between its script and its XADD, and that appending it, or
  having appended it, makes the stream agree with the sets, for the services whose
  entries reach the reader.  `ReasonInv`: without
  a fault everybody on a list was put there by a command that was counted.
* *Resilience.*  `RunsLeft`: a call that still has to run has a run left, a
  running one has run, and only an ended call has an answer.  Two lemmas carry
  the rest: a result of a probe never leaves the circuit half-open
  (`ProbeDecides`), and whoever awaits a probe is released with its result
  (`ReleasedKeepsProbes`).  `JustifiedInv` relates the breaker's count to the
  number of failed runs, as the cardinality of a set of pairs of call and run;
  `FewCallsNeverBreak` bounds that set by the runs the calls are allowed.

The type invariants are proved and take no run of their own.  Only model-checked:
the liveness properties (`EntriesSettle`, `CommentsAreSaved`, `EverybodyArrives`,
`MailsGetThrough`, `CallsEnd`, `HalfOpenSettles`, `ResultIsAnnounced`), which are
out of the prover's reach.

## 5. Not modelled

Everything listed `not_modelled` or `partly` in `PROJECT.json`, with the reason
there.  Some parts deserve a word.

* *Dependency wiring* is not modelled.  At this commit several services are
  between two layouts: their Nest modules do not provide every port their handlers
  inject (`RpcModule` of users has no repository, nothing imports
  `KafkaPublisherModule`; videos, video-transcoder and views are alike).  The
  modules model the handlers and adapters composed as their constructors and ports
  intend.
* The *videos* pipeline cannot complete its protocol: `VerifyUploadedMediaHandler`
  has no `@CommandHandler` and never commits its aggregate, so nothing asks for a
  transcoding; the service's own consumer waits for `VIDEO_TRANSCODED_EVENT`, a
  name nobody publishes.  `markTranscoded`, `failProcessing` and `publish` of the
  aggregate have no caller, so `PROCESSING` is the last state of a row in
  `VideoLifecycle`.  `Transcoding` takes the event as given.
* *Channels.*  `create` inserts a row, and the integration events built from its
  two domain events throw (`occurredAt` is never assigned), so nothing is
  published; had it been, the topic is `channel` and the read service subscribes to
  `channels`.  The other commands look the channel's owner up by an id of another
  kind and find no row.  What is left is one insert, with nothing to say about it.
* *Projections of channels and videos.*  The listener passes `event.payload` where
  the handlers expect the event, so each of them throws before it reaches the
  database, and the event holds up its partition.  No state changes.
* *The flush jobs of reactions and views.*  The reaction service creates its
  consumer group when it is destroyed, so the job never reads; the views buffer's
  client is never assigned, so the service cannot start.  The commands up to the
  stream are in `Engagement`; a write-behind job that works is `CommentsService`.
* The *Kafka buffers* are not bound by any module.
* Reads (query handlers, the gateway's translations) and the construction of
  clients change no state, *authz* hands each call to OpenFGA; wiring, configuration, DTOs and value
  objects' wording make up most of the remaining lines.

## 6. Plan

Apart from the insert of a channel and the calls to OpenFGA, every operation that
changes state at this commit is modelled.  What comes next depends on the code:

1. When the flush jobs of reactions and views start to read: both as refinements
   of `WriteBehind`, with the unique constraint that makes a whole batch fail on
   one repeated reaction.
2. When the verification of an upload is committed and its name agrees with the
   consumer's: `VideoLifecycle` and `Transcoding` composed over the topic `videos`,
   with the state machine's last states.
3. When channels publish: their creation as a second instance of the pattern of
   `Onboarding`, and the read group over several topics.
4. A version column on `User` and `Video`: `KeptUnlessOverlapped` without its
   exception.
