--------------------------- MODULE CommentsService ---------------------------
(***************************************************************************)
(* The comments service: a comment is first claimed in the Redis cache     *)
(* (one Lua script: a set that remembers who commented, and a sharded      *)
(* counter), then buffered in a Redis stream, and later flushed by a cron  *)
(* job that reads a batch through a consumer group, inserts it into        *)
(* PostgreSQL and acknowledges it.                                         *)
(*                                                                         *)
(* The service process may crash between any two steps; what Redis and     *)
(* PostgreSQL hold survives.  A command sent to Redis may be refused, may  *)
(* run and lose its reply, or may run twice: the ioredis client is built   *)
(* with its default options (redis.client.ts:17), under which a command in *)
(* flight when the connection drops is sent again after the reconnection.  *)
(***************************************************************************)
EXTENDS Integers, FiniteSets

CONSTANTS
  Users, Videos,   \* the ids of the users and of the videos
  Shards,          \* the counter shards (64 in the code)
  ShardOf,         \* getShardFor of a concatenated pair of ids
  Requests,        \* the CreateComment commands
  UserOf, VideoOf, \* the userId and the videoId of a command
  Flushes,         \* the executions of the cron job that may overlap
  BatchSize,       \* COUNT of XREADGROUP (10 in the code)
  MaxRetries,      \* retries of a failed createMany (3 in the code)
  MaxFaults,       \* bound: crashes, failed calls and resent calls
  Resends          \* whether a dropped connection resends its commands

Ids == Users \cup Videos

ASSUME CommentsAssumption ==
  /\ IsFiniteSet(Users) /\ IsFiniteSet(Videos)
  /\ ShardOf \in [Ids \X Ids -> Shards]
  /\ UserOf \in [Requests -> Users]
  /\ VideoOf \in [Requests -> Videos]
  /\ BatchSize \in Nat \ {0}
  /\ MaxRetries \in Nat
  /\ MaxFaults \in Nat
  /\ Resends \in BOOLEAN

VARIABLES
  up,         \* whether the service process runs
  pc,         \* what each command is doing, or was answered
  usersSet,   \* video_comments_users_set:<id>
  counter,    \* video_comments_counter:<id>:<shard>
  grouped,    \* whether the consumer group exists
  last,       \* id of the newest entry of the stream
  stream,     \* the command whose comment each entry holds
  cursor,     \* last-delivered-id of the consumer group
  pel,        \* pending entries: delivered, not acknowledged
  rows,       \* rows of the Comment table made from each entry
  phase,      \* what each execution of the cron job is doing
  batch,      \* the entries it read
  attempts,   \* failed createMany attempts of this batch so far
  saved,      \* whether one of them was committed all the same
  faults      \* bound: faults so far

cacheVars == <<usersSet, counter>>
streamVars == <<last, stream, rows>>
groupVars == <<grouped, cursor, pel>>
flushVars == <<phase, batch, attempts, saved>>
vars == <<up, pc, cacheVars, streamVars, groupVars, flushVars, faults>>

Entries == 1..last

(* What a call to Redis may do: how many times the command runs, and       *)
(* whether the caller gets an answer or an exception.  A ReplyError that   *)
(* the handler retries has run nothing, so its retries are part of one     *)
(* call here.                                                              *)
Answered == [runs |-> 1, ok |-> TRUE]
Refused == [runs |-> 0, ok |-> FALSE]
ReplyLost == [runs |-> 1, ok |-> FALSE]
Resent == [runs |-> 2, ok |-> TRUE]
Calls == {Answered, Refused, ReplyLost} \cup (IF Resends THEN {Resent} ELSE {})

Fault == faults < MaxFaults /\ faults' = faults + 1
Counted(call) == IF call = Answered THEN UNCHANGED faults ELSE Fault

TypeOK ==
  /\ up \in BOOLEAN
  /\ pc \in [Requests -> {"new", "buffering", "commented", "already", "failed"}]
  /\ usersSet \in [Ids -> SUBSET Ids]
  /\ counter \in [Ids -> [Shards -> Nat]]
  /\ grouped \in BOOLEAN
  /\ last \in Nat
  /\ stream \in [Entries -> Requests]
  /\ cursor \in 0..last
  /\ pel \subseteq 1..cursor
  /\ rows \in [Entries -> Nat]
  /\ phase \in [Flushes -> {"idle", "saving", "acking"}]
  /\ batch \in [Flushes -> SUBSET (1..cursor)]
  /\ attempts \in [Flushes -> 0..MaxRetries]
  /\ saved \in [Flushes -> BOOLEAN]
  /\ faults \in 0..MaxFaults

Init ==
  /\ up = FALSE
  /\ pc = [r \in Requests |-> "new"]
  /\ usersSet = [k \in Ids |-> {}]
  /\ counter = [k \in Ids |-> [s \in Shards |-> 0]]
  /\ grouped = FALSE
  /\ last = 0
  /\ stream = <<>>
  /\ cursor = 0
  /\ pel = {}
  /\ rows = <<>>
  /\ phase = [f \in Flushes |-> "idle"]
  /\ batch = [f \in Flushes |-> {}]
  /\ attempts = [f \in Flushes |-> 0]
  /\ saved = [f \in Flushes |-> FALSE]
  /\ faults = 0

-----------------------------------------------------------------------------
(* Definitions whose names start with Bug are plausible mistakes in the    *)
(* code; nothing here uses them.  Each one is substituted for the          *)
(* definition that follows it to see that the properties notice.           *)

(* XGROUP SETID instead of CREATE: a restart rewinds the group.            *)
BugRewind ==
  /\ grouped' = TRUE
  /\ cursor' = 0
  /\ UNCHANGED pel

(* The process starts: it creates the consumer group at the beginning of   *)
(* the stream, and leaves an existing group (BUSYGROUP) as it is.          *)
CreateStream ==
  /\ grouped' = TRUE
  /\ cursor' = IF grouped THEN cursor ELSE 0
  /\ UNCHANGED pel

Start ==
  /\ ~up
  /\ up' = TRUE
  /\ CreateStream
  /\ UNCHANGED <<pc, cacheVars, streamVars, flushVars, faults>>

(* The process dies: the commands and the flushes in progress die with it. *)
Crash ==
  /\ up
  /\ Fault
  /\ up' = FALSE
  /\ pc' = [r \in Requests |-> IF pc[r] = "buffering" THEN "failed" ELSE pc[r]]
  /\ phase' = [f \in Flushes |-> "idle"]
  /\ batch' = [f \in Flushes |-> {}]
  /\ attempts' = [f \in Flushes |-> 0]
  /\ saved' = [f \in Flushes |-> FALSE]
  /\ UNCHANGED <<cacheVars, streamVars, groupVars>>

-----------------------------------------------------------------------------
(* The script without its test of SADD's reply.                            *)
BugAlwaysCount(setKey, shard, member) ==
  /\ usersSet' = [usersSet EXCEPT ![setKey] = @ \cup {member}]
  /\ counter' = [counter EXCEPT ![setKey][shard] = @ + 1]

(* comments.lua: SADD, and INCRBY and 1 only when the member was new.      *)
CommentVideoScript(setKey, shard, member) ==
  /\ usersSet' = [usersSet EXCEPT ![setKey] = @ \cup {member}]
  /\ counter' = IF member \in usersSet[setKey]
                THEN counter
                ELSE [counter EXCEPT ![setKey][shard] = @ + 1]

(* The reply is always 1.                                                  *)
BugAlwaysNew(setKey, member, call) == 1

(* The answer of the script: 1 on the run that added the member, so a      *)
(* second run of a resent call answers 0.                                  *)
ScriptAnswer(setKey, member, call) ==
  IF call.runs = 1 /\ member \notin usersSet[setKey] THEN 1 ELSE 0

(* The cache operation, with the parameters the adapter declares.  The     *)
(* command handler calls it with the two ids in the other order.           *)
IncrementCommentsCounter(userId, videoId, call) ==
  IF call.runs = 0
  THEN UNCHANGED cacheVars
  ELSE CommentVideoScript(videoId, ShardOf[<<userId, videoId>>], userId)

(* First half of the command: claim the comment in the cache.              *)
Claim(r) ==
  /\ up /\ pc[r] = "new"
  /\ \E call \in Calls :
       /\ Counted(call)
       /\ IncrementCommentsCounter(VideoOf[r], UserOf[r], call)
       /\ pc' = [pc EXCEPT ![r] =
                   IF ~call.ok THEN "failed"
                   ELSE IF ScriptAnswer(UserOf[r], VideoOf[r], call) = 0
                        THEN "already"
                        ELSE "buffering"]
  /\ UNCHANGED <<up, streamVars, groupVars, flushVars>>

(* XADD of r's comment, as often as the call runs.                         *)
AddToStream(r, call) ==
  /\ last' = last + call.runs
  /\ stream' = [i \in 1..(last + call.runs) |-> IF i <= last THEN stream[i] ELSE r]
  /\ rows' = [i \in 1..(last + call.runs) |-> IF i <= last THEN rows[i] ELSE 0]

(* The exception of XADD is caught and dropped.                            *)
BugUnheardFailure(r) ==
  /\ up /\ pc[r] = "buffering"
  /\ \E call \in Calls :
       /\ Counted(call)
       /\ AddToStream(r, call)
       /\ pc' = [pc EXCEPT ![r] = "commented"]
  /\ UNCHANGED <<up, cacheVars, groupVars, flushVars>>

(* Second half of the command: buffer the comment and answer.              *)
BufferComment(r) ==
  /\ up /\ pc[r] = "buffering"
  /\ \E call \in Calls :
       /\ Counted(call)
       /\ AddToStream(r, call)
       /\ pc' = [pc EXCEPT ![r] = IF call.ok THEN "commented" ELSE "failed"]
  /\ UNCHANGED <<up, cacheVars, groupVars, flushVars>>

-----------------------------------------------------------------------------
(* The group's cursor after n reads of '>', each of at most COUNT entries. *)
After(n) == IF cursor + n * BatchSize <= last THEN cursor + n * BatchSize ELSE last

(* XREAD from a remembered position that no read moves.                    *)
BugReadAgain(f) ==
  /\ up /\ phase[f] = "idle"
  /\ cursor < last
  /\ pel' = pel \cup ((cursor + 1)..After(1))
  /\ batch' = [batch EXCEPT ![f] = (cursor + 1)..After(1)]
  /\ phase' = [phase EXCEPT ![f] = "saving"]
  /\ UNCHANGED <<up, pc, cacheVars, streamVars, grouped, cursor, attempts, saved, faults>>

(* No COUNT: everything is delivered, and the first messages processed.    *)
BugUnboundedRead(f) ==
  /\ up /\ phase[f] = "idle"
  /\ cursor < last
  /\ cursor' = last
  /\ pel' = pel \cup ((cursor + 1)..last)
  /\ batch' = [batch EXCEPT ![f] = (cursor + 1)..After(1)]
  /\ phase' = [phase EXCEPT ![f] = "saving"]
  /\ UNCHANGED <<up, pc, cacheVars, streamVars, grouped, attempts, saved, faults>>

(* The job waits until nothing is pending.                                 *)
BugReadWhenClear(f) ==
  /\ up /\ phase[f] = "idle"
  /\ cursor < last /\ pel = {}
  /\ cursor' = After(1)
  /\ pel' = (cursor + 1)..After(1)
  /\ batch' = [batch EXCEPT ![f] = pel']
  /\ phase' = [phase EXCEPT ![f] = "saving"]
  /\ UNCHANGED <<up, pc, cacheVars, streamVars, grouped, attempts, saved, faults>>

(* XREADGROUP.  '>' asks for entries never delivered to the group, so the  *)
(* entries of a read whose reply is lost stay pending; an empty read gives *)
(* the job nothing to do.                                                  *)
ReadBatch(f) ==
  /\ up /\ phase[f] = "idle"
  /\ cursor < last
  /\ \E call \in Calls :
       LET read == IF call.ok THEN (After(call.runs - 1) + 1)..After(call.runs) ELSE {}
       IN /\ Counted(call)
          /\ cursor' = After(call.runs)
          /\ pel' = pel \cup ((cursor + 1)..After(call.runs))
          /\ batch' = [batch EXCEPT ![f] = read]
          /\ phase' = [phase EXCEPT ![f] = IF read = {} THEN "idle" ELSE "saving"]
  /\ UNCHANGED <<up, pc, cacheVars, streamVars, grouped, attempts, saved>>

(* The ids are made anew by every attempt (or by the database).            *)
BugFreshIds(f) ==
  rows' = [i \in Entries |-> IF i \in batch[f] THEN rows[i] + 1 ELSE rows[i]]

(* createMany is committed: one new row for each message of the batch.     *)
(* The rows carry the ids that processMessages gave them when it read the  *)
(* batch, and the id is the primary key, so that of all the attempts for   *)
(* one batch only one can be committed.                                    *)
InsertMany(f) ==
  /\ ~saved[f]
  /\ rows' = [i \in Entries |-> IF i \in batch[f] THEN rows[i] + 1 ELSE rows[i]]

Leave(f) ==
  /\ phase' = [phase EXCEPT ![f] = "idle"]
  /\ batch' = [batch EXCEPT ![f] = {}]
  /\ attempts' = [attempts EXCEPT ![f] = 0]
  /\ saved' = [saved EXCEPT ![f] = FALSE]

SaveMany(f) ==
  /\ up /\ phase[f] = "saving"
  /\ InsertMany(f)
  /\ phase' = [phase EXCEPT ![f] = "acking"]
  /\ attempts' = [attempts EXCEPT ![f] = 0]
  /\ UNCHANGED <<up, pc, cacheVars, last, stream, groupVars, batch, saved, faults>>

(* An attempt fails with an error that the database handler retries (the   *)
(* insert may still have been committed) and attempts are left.            *)
SaveManyRetried(f) ==
  /\ up /\ phase[f] = "saving" /\ attempts[f] < MaxRetries
  /\ Fault
  /\ \/ InsertMany(f) /\ saved' = [saved EXCEPT ![f] = TRUE]
     \/ UNCHANGED <<rows, saved>>
  /\ attempts' = [attempts EXCEPT ![f] = @ + 1]
  /\ UNCHANGED <<up, pc, cacheVars, last, stream, groupVars, phase, batch>>

(* A retry of a committed insert is refused: the ids exist.  A unique      *)
(* violation is not retried, it ends the job before XACK.                  *)
AlreadySaved(f) ==
  /\ up /\ phase[f] = "saving" /\ saved[f]
  /\ Leave(f)
  /\ UNCHANGED <<up, pc, cacheVars, streamVars, groupVars, faults>>

(* saveMany catches the exception, so that the batch is acknowledged.      *)
BugAckUnsaved(f) ==
  /\ up /\ phase[f] = "saving"
  /\ Fault
  /\ phase' = [phase EXCEPT ![f] = "acking"]
  /\ UNCHANGED <<up, pc, cacheVars, streamVars, groupVars, batch, attempts, saved>>

(* The last attempt fails, or any attempt with an error that is not        *)
(* retried: the exception ends the job before XACK.                        *)
SaveManyFailed(f) ==
  /\ up /\ phase[f] = "saving"
  /\ Fault
  /\ InsertMany(f) \/ UNCHANGED rows
  /\ Leave(f)
  /\ UNCHANGED <<up, pc, cacheVars, last, stream, groupVars>>

(* XACK of the whole batch; the job ends whether it succeeds or not.       *)
Acknowledge(f) ==
  /\ up /\ phase[f] = "acking"
  /\ \E call \in Calls :
       /\ Counted(call)
       /\ pel' = IF call.runs = 0 THEN pel ELSE pel \ batch[f]
  /\ Leave(f)
  /\ UNCHANGED <<up, pc, cacheVars, streamVars, grouped, cursor>>

-----------------------------------------------------------------------------
Next ==
  \/ Start
  \/ Crash
  \/ \E r \in Requests : Claim(r) \/ BufferComment(r)
  \/ \E f \in Flushes :
       \/ ReadBatch(f)
       \/ SaveMany(f)
       \/ SaveManyRetried(f)
       \/ AlreadySaved(f)
       \/ SaveManyFailed(f)
       \/ Acknowledge(f)

Spec == Init /\ [][Next]_vars

(* Fairness: the orchestrator restarts the process, a command that has     *)
(* started goes on, the scheduler keeps starting the cron job and a job    *)
(* that has started goes on.  Nobody has to send a command.                *)
Fairness ==
  /\ WF_vars(Start)
  /\ \A r \in Requests : WF_vars(BufferComment(r))
  /\ \A f \in Flushes :
       WF_vars(ReadBatch(f) \/ SaveMany(f) \/ AlreadySaved(f) \/ Acknowledge(f))

FairSpec == Spec /\ Fairness

-----------------------------------------------------------------------------
(* Properties.                                                             *)

(* The counter of a set key, shard by shard, is the number of members that *)
(* fall in the shard: the script adds one exactly when it adds a member,   *)
(* however commands race, fail or are resent (comments.lua).               *)
CounterMatchesSet ==
  \A k \in Ids, s \in Shards :
    counter[k][s] = Cardinality({m \in usersSet[k] : ShardOf[<<m, k>>] = s})

(* No entry leaves the pending list before it is in the database: XACK     *)
(* follows createMany in processMessages, and no failure or crash between  *)
(* the two lets an unsaved entry be acknowledged.                          *)
AckedIsSaved == \A i \in (1..cursor) \ pel : rows[i] > 0

(* Overlapping cron executions never work on the same entry.               *)
OneFlushPerEntry ==
  \A f, g \in Flushes : f # g => batch[f] \cap batch[g] = {}

(* No entry becomes two comments, whatever fails: a retry of an insert     *)
(* that was committed and lost its answer is refused, because the ids were *)
(* made once for the batch, and neither a restart nor another execution of *)
(* the job inserts an entry that was left pending.                         *)
SavedOnce == \A i \in Entries : rows[i] <= 1

(* Why the three above hold: a flush owns entries that are delivered and   *)
(* pending, the rows of its batch tell whether an attempt was committed,   *)
(* it acknowledges only what it inserted, and nobody inserts before        *)
(* delivery.                                                               *)
OwnsBatch(f) ==
  /\ batch[f] \subseteq pel
  /\ saved[f] => faults > 0
  /\ phase[f] = "idle" => batch[f] = {} /\ ~saved[f]
  /\ phase[f] = "saving" => \A i \in batch[f] : rows[i] = IF saved[f] THEN 1 ELSE 0
  /\ phase[f] = "acking" => \A i \in batch[f] : rows[i] > 0

FlushInv ==
  /\ \A f \in Flushes : OwnsBatch(f)
  /\ \A i \in (cursor + 1)..last : rows[i] = 0

(* Without a fault nothing is stranded: every pending entry is in the      *)
(* hands of a flush.  (After a fault it may be pending with no flush to    *)
(* finish it, since the job only ever reads '>'.)                          *)
StrandedOnlyByFault ==
  faults = 0 => \A i \in pel : \E f \in Flushes : i \in batch[f]

(* Without a fault a comment that was answered is never lost and never     *)
(* doubled: its entry waits in the stream, is in the hands of a flush, or  *)
(* is one row of the database.                                             *)
CommentsAreKept ==
  faults = 0 =>
    \A r \in Requests : pc[r] = "commented" =>
      \E i \in Entries :
        /\ stream[i] = r
        /\ i \in (cursor + 1)..last \/ (\E f \in Flushes : i \in batch[f]) \/ rows[i] = 1

SamePair(r, q) == UserOf[r] = UserOf[q] /\ VideoOf[r] = VideoOf[q]

(* At most one entry is buffered for a user and a video, however the       *)
(* commands race: the claim in the cache is atomic.  Only a resent XADD    *)
(* adds a second one.                                                      *)
OneEntryPerPair ==
  ~Resends => \A i, j \in Entries : SamePair(stream[i], stream[j]) => i = j

(* A command answered "Commented on video" has its comment in the stream.  *)
CommentedIsBuffered ==
  \A r \in Requests : pc[r] = "commented" => \E i \in Entries : stream[i] = r

(* Why: an entry or a command in progress has the claim of its pair, a     *)
(* pair is buffered by one command at a time and only once, and every      *)
(* claim can be traced to the command that made it.                        *)
ClaimInv ==
  /\ \A r \in Requests :
       pc[r] \in {"buffering", "already"} => VideoOf[r] \in usersSet[UserOf[r]]
  /\ \A i \in Entries :
       /\ VideoOf[stream[i]] \in usersSet[UserOf[stream[i]]]
       /\ pc[stream[i]] \in {"commented", "failed"}
  /\ \A r \in Requests : pc[r] = "buffering" =>
       /\ \A q \in Requests : pc[q] = "buffering" /\ SamePair(r, q) => r = q
       /\ \A i \in Entries : ~SamePair(r, stream[i])
  /\ ~Resends =>
       \A u \in Users, v \in Videos : v \in usersSet[u] =>
         \E q \in Requests :
           /\ UserOf[q] = u /\ VideoOf[q] = v
           /\ \/ pc[q] \in {"buffering", "failed"}
              \/ \E i \in Entries : stream[i] = q

(* A command is answered "already commented" only if another command for   *)
(* the same user and video buffered the comment, is about to, or saw an    *)
(* error: a claim is never lost without anyone being told.  Only a resent  *)
(* script call answers 0 to the command that made the claim.               *)
AlreadyHasOrigin ==
  ~Resends =>
    \A r \in Requests : pc[r] = "already" =>
      \E q \in Requests \ {r} :
        /\ SamePair(r, q)
        /\ \/ pc[q] \in {"buffering", "failed"}
           \/ \E i \in Entries : stream[i] = q

(* What the stream promises the rest of the service, see WriteBehind.      *)
Buffer == INSTANCE WriteBehind WITH
            accepted <- Entries,
            stored <- {i \in Entries : rows[i] > 0},
            settled <- (1..cursor) \ pel

BufferSpec == Buffer!Spec

(* Every entry of the stream is eventually acknowledged, or a fault has    *)
(* left it pending with no flush working on it; the job never stops        *)
(* reading because of entries it left behind.                              *)
Settled(i) ==
  i <= cursor /\ (i \in pel => \A f \in Flushes : i \notin batch[f])

EntriesSettle ==
  \A i \in 1..(2 * Cardinality(Requests)) : (i \in Entries) ~> Settled(i)

(* When nothing fails, a comment that was answered reaches the database.   *)
CommentsAreSaved ==
  \A r \in Requests :
    (pc[r] = "commented") ~> \/ faults > 0
                             \/ \E i \in Entries : stream[i] = r /\ rows[i] > 0

(* What comments.lua says of its keys: the set of a video holds the users  *)
(* who commented on it.                                                    *)
SetHoldsCommenters ==
  \A r \in Requests :
    pc[r] \in {"buffering", "commented"} => UserOf[r] \in usersSet[VideoOf[r]]

=============================================================================
