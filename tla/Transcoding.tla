----------------------------- MODULE Transcoding -----------------------------
(***************************************************************************)
(* The video-transcoder service: an event 'video.upload.verified' becomes  *)
(* a BullMQ job named after its video; one worker downloads the raw file,  *)
(* encodes it, uploads the segments a few at a time and then the manifest, *)
(* and publishes 'video.processed'.  Any failure ends the attempt, and the *)
(* next one begins with the download.  Uploads in flight when an attempt   *)
(* fails are not cancelled.                                                *)
(*                                                                         *)
(* Redis (the queue), S3 and the topic survive a crash of the process; the *)
(* job it worked on stays active until BullMQ finds it stalled.            *)
(***************************************************************************)
EXTENDS Integers, FiniteSets

CONSTANTS
  Videos,
  NoVideo,          \* none of them
  Unreadable,       \* raw files without a video stream
  Segments,         \* of the encoded video
  Concurrency,      \* uploads at a time (8 in the code)
  Builds,           \* what the transcoder may be built with, see Build
  Attempts,         \* of a job (3 in the code)
  MaxStalls,        \* maxStalledCount of BullMQ (1)
  MaxRedeliveries,  \* bound
  MaxFaults         \* bound: crashes and failed calls

(* The first part of the transcoder's raw key and the type of sizeBytes.   *)
(* The code is [rawRoot |-> "raw", sizeType |-> "bigint"]; the other       *)
(* builds are the code with one or both of them mended.                    *)
Build == [rawRoot : {"raw", "videos"}, sizeType : {"bigint", "number"}]

ASSUME TranscodingAssumption ==
  /\ NoVideo \notin Videos
  /\ Builds \subseteq Build
  /\ IsFiniteSet(Segments)
  /\ Concurrency \in Nat \ {0} /\ Attempts \in Nat \ {0}
  /\ MaxStalls \in Nat /\ MaxRedeliveries \in Nat /\ MaxFaults \in Nat

VARIABLES
  build,        \* never changes
  event,        \* the event of each video on the topic 'videos'
  job,          \* its job in the queue
  made,         \* attemptsMade of the job
  stalls,       \* how often it was found stalled
  current,      \* the video the worker is at
  stage,        \* and what it is doing
  todo,         \* segments whose upload this attempt has not started
  uploading,    \* segments whose upload is in flight
  orphans,      \* uploads in flight that an earlier attempt left behind
  objects,      \* segments in S3
  manifests,    \* videos whose manifest is in S3
  announced,    \* 'video.processed' events of each video
  forgotten,    \* videos whose finished job the queue has removed
  redelivered,  \* bound: redeliveries so far
  faults        \* bound: faults so far

queueVars == <<job, made, stalls>>
workerVars == <<current, stage, todo, uploading, orphans>>
storageVars == <<objects, manifests>>
bounds == <<redelivered, faults>>
vars == <<build, event, queueVars, workerVars, storageVars, announced, forgotten, bounds>>

Fault == faults < MaxFaults /\ faults' = faults + 1 /\ UNCHANGED redelivered

Stages == {"idle", "downloading", "encoding", "uploading", "publishing", "finishing"}

TypeOK ==
  /\ build \in Build
  /\ event \in [Videos -> {"unsent", "sent", "handled"}]
  /\ job \in [Videos -> {"none", "waiting", "active", "completed", "failed"}]
  /\ made \in [Videos -> 0..Attempts]
  /\ stalls \in [Videos -> 0..MaxStalls]
  /\ current \in Videos \cup {NoVideo} /\ stage \in Stages
  /\ todo \subseteq Segments /\ uploading \subseteq Segments
  /\ orphans \subseteq Videos \X Segments
  /\ objects \subseteq Videos \X Segments
  /\ manifests \subseteq Videos
  /\ announced \in [Videos -> Nat]
  /\ forgotten \subseteq Videos
  /\ redelivered \in 0..MaxRedeliveries /\ faults \in 0..MaxFaults

Init ==
  /\ build \in Builds
  /\ event = [v \in Videos |-> "unsent"]
  /\ job = [v \in Videos |-> "none"]
  /\ made = [v \in Videos |-> 0]
  /\ stalls = [v \in Videos |-> 0]
  /\ current = NoVideo /\ stage = "idle"
  /\ todo = {} /\ uploading = {} /\ orphans = {}
  /\ objects = {} /\ manifests = {}
  /\ announced = [v \in Videos |-> 0]
  /\ forgotten = {}
  /\ redelivered = 0 /\ faults = 0

-----------------------------------------------------------------------------
(* The consumer.                                                           *)
Verified(v) ==
  /\ event[v] = "unsent"
  /\ event' = [event EXCEPT ![v] = "sent"]
  /\ UNCHANGED <<build, queueVars, workerVars, storageVars, announced, forgotten, bounds>>

NewJob(v) ==
  /\ job' = [job EXCEPT ![v] = "waiting"]
  /\ made' = [made EXCEPT ![v] = 0]
  /\ stalls' = [stalls EXCEPT ![v] = 0]

(* Without a jobId every event makes a job.                                *)
BugNoJobId(v) == IF job[v] = "active" THEN UNCHANGED queueVars ELSE NewJob(v)

(* Adding a job whose id the queue knows, finished or not, does nothing.   *)
EnqueueProcessingJob(v) == IF job[v] = "none" THEN NewJob(v) ELSE UNCHANGED queueVars

Consume(v) ==
  /\ event[v] = "sent"
  /\ EnqueueProcessingJob(v)
  /\ event' = [event EXCEPT ![v] = "handled"]
  /\ UNCHANGED <<build, workerVars, storageVars, announced, forgotten, bounds>>

(* Nobody waits for the queue: the offset moves although the job was not   *)
(* added.                                                                  *)
BugNotAwaited(v) ==
  /\ event[v] = "sent"
  /\ Fault
  /\ event' = [event EXCEPT ![v] = "handled"]
  /\ UNCHANGED <<build, queueVars, workerVars, storageVars, announced, forgotten>>

(* The consumer handler rethrows, so the event is delivered again; the     *)
(* failed call may have added the job.                                     *)
ConsumeFailed(v) ==
  /\ event[v] = "sent"
  /\ Fault
  /\ EnqueueProcessingJob(v) \/ UNCHANGED queueVars
  /\ UNCHANGED <<build, event, workerVars, storageVars, announced, forgotten>>

Redeliver(v) ==
  /\ event[v] = "handled"
  /\ redelivered < MaxRedeliveries /\ redelivered' = redelivered + 1
  /\ event' = [event EXCEPT ![v] = "sent"]
  /\ UNCHANGED <<build, queueVars, workerVars, storageVars, announced, forgotten, faults>>

-----------------------------------------------------------------------------
(* The worker: one job at a time.                                          *)
At(v, s) == current = v /\ stage = s

Take(v) ==
  /\ stage = "idle" /\ job[v] = "waiting"
  /\ job' = [job EXCEPT ![v] = "active"]
  /\ current' = v /\ stage' = "downloading"
  /\ UNCHANGED <<build, event, made, stalls, todo, uploading, orphans,
                 storageVars, announced, forgotten, bounds>>

Rest ==
  /\ current' = NoVideo /\ stage' = "idle"
  /\ todo' = {} /\ uploading' = {}

(* An off-by-one: the attempt that fails is counted twice.                 *)
BugOneShort(v) == made[v] + 2 < Attempts

AttemptsLeft(v) == made[v] + 1 < Attempts

(* The process function throws: the job waits for its next attempt (after  *)
(* a backoff) or is failed for good, and uploads in flight go on.          *)
FailAttempt(v, stillUploading) ==
  /\ made' = [made EXCEPT ![v] = @ + 1]
  /\ job' = [job EXCEPT ![v] = IF AttemptsLeft(v) THEN "waiting" ELSE "failed"]
  /\ orphans' = orphans \cup ({v} \X stillUploading)
  /\ Rest
  /\ UNCHANGED <<build, event, stalls, announced, forgotten>>

(* Where the videos service lets clients upload, and where the transcoder  *)
(* looks.                                                                  *)
UploadKey(v) == <<"videos", "raw", v>>
RawKey(v) == <<build.rawRoot, "raw", v>>

Download(v) ==
  /\ At(v, "downloading") /\ RawKey(v) = UploadKey(v)
  /\ stage' = "encoding"
  /\ UNCHANGED <<build, event, queueVars, current, todo, uploading, orphans,
                 storageVars, announced, forgotten, bounds>>

(* NoSuchKey.                                                              *)
RawFileMissing(v) ==
  /\ At(v, "downloading") /\ RawKey(v) # UploadKey(v)
  /\ FailAttempt(v, {})
  /\ UNCHANGED <<storageVars, bounds>>

(* ffprobe finds a video stream and ffmpeg writes segments and manifest to *)
(* a local directory.                                                      *)
Transcode(v) ==
  /\ At(v, "encoding") /\ v \notin Unreadable
  /\ stage' = "uploading"
  /\ todo' = Segments
  /\ UNCHANGED <<build, event, queueVars, current, uploading, orphans,
                 storageVars, announced, forgotten, bounds>>

NoVideoStream(v) ==
  /\ At(v, "encoding") /\ v \in Unreadable
  /\ FailAttempt(v, {})
  /\ UNCHANGED <<storageVars, bounds>>

(* runWithConcurrency: an upload is started while fewer than Concurrency   *)
(* are in flight.                                                          *)
StartUpload(v, s) ==
  /\ At(v, "uploading")
  /\ s \in todo /\ Cardinality(uploading) < Concurrency
  /\ todo' = todo \ {s}
  /\ uploading' = uploading \cup {s}
  /\ UNCHANGED <<build, event, queueVars, current, stage, orphans,
                 storageVars, announced, forgotten, bounds>>

FinishUpload(v, s) ==
  /\ At(v, "uploading")
  /\ s \in uploading
  /\ uploading' = uploading \ {s}
  /\ objects' = objects \cup {<<v, s>>}
  /\ UNCHANGED <<build, event, queueVars, current, stage, todo, orphans,
                 manifests, announced, forgotten, bounds>>

(* One upload fails: Promise.race or Promise.all rejects at once.  What    *)
(* was sent may have arrived.                                              *)
UploadFailed(v, s) ==
  /\ At(v, "uploading")
  /\ s \in uploading
  /\ Fault
  /\ objects' \in {objects, objects \cup {<<v, s>>}}
  /\ FailAttempt(v, uploading \ {s})
  /\ UNCHANGED manifests

(* An upload that an earlier attempt left behind arrives, or fails unheard.*)
OrphanEnds(v, s) ==
  /\ <<v, s>> \in orphans
  /\ orphans' = orphans \ {<<v, s>>}
  /\ objects' \in {objects, objects \cup {<<v, s>>}}
  /\ UNCHANGED <<build, event, queueVars, current, stage, todo, uploading,
                 manifests, announced, forgotten, bounds>>

(* runWithConcurrency without its Promise.all.                             *)
BugNotAllUploaded == todo = {}

AllUploaded == todo = {} /\ uploading = {}

(* The manifest follows the segments; the local files are removed.         *)
UploadManifest(v) ==
  /\ At(v, "uploading") /\ AllUploaded
  /\ manifests' = manifests \cup {v}
  /\ stage' = "publishing"
  /\ UNCHANGED <<build, event, queueVars, current, todo, uploading, orphans,
                 objects, announced, forgotten, bounds>>

(* JSON.stringify refuses a bigint.                                        *)
Serialises == build.sizeType # "bigint"

Send(v) == announced' = [announced EXCEPT ![v] = @ + 1]

PublishMessage(v) ==
  /\ At(v, "publishing") /\ Serialises
  /\ Send(v)
  /\ stage' = "finishing"
  /\ UNCHANGED <<build, event, queueVars, current, todo, uploading, orphans,
                 storageVars, forgotten, bounds>>

CannotSerialise(v) ==
  /\ At(v, "publishing") /\ ~Serialises
  /\ FailAttempt(v, {})
  /\ UNCHANGED <<storageVars, bounds>>

(* Out of retries of the publisher handler; the event may be on the topic. *)
PublishFailed(v) ==
  /\ At(v, "publishing") /\ Serialises
  /\ Fault
  /\ made' = [made EXCEPT ![v] = @ + 1]
  /\ job' = [job EXCEPT ![v] = IF AttemptsLeft(v) THEN "waiting" ELSE "failed"]
  /\ Send(v) \/ UNCHANGED announced
  /\ Rest
  /\ UNCHANGED <<build, event, stalls, orphans, storageVars, forgotten>>

Complete(v) ==
  /\ At(v, "finishing")
  /\ job' = [job EXCEPT ![v] = "completed"]
  /\ Rest
  /\ UNCHANGED <<build, event, made, stalls, orphans, storageVars, announced, forgotten, bounds>>

(* A download, ffmpeg or the upload of the manifest fails.                 *)
StepFailed(v) ==
  /\ stage \in {"downloading", "encoding"} \/ (stage = "uploading" /\ AllUploaded)
  /\ current = v
  /\ Fault
  /\ manifests' \in {manifests} \cup (IF stage = "uploading" THEN {manifests \cup {v}} ELSE {})
  /\ FailAttempt(v, {})
  /\ UNCHANGED objects

-----------------------------------------------------------------------------
(* The queue.                                                              *)
StalledTooOften(v) == stalls[v] >= MaxStalls

(* A job whose worker died is found stalled and waits again, or is failed. *)
Stalled(v) ==
  /\ job[v] = "active" /\ current # v
  /\ IF StalledTooOften(v)
     THEN /\ job' = [job EXCEPT ![v] = "failed"]
          /\ UNCHANGED stalls
     ELSE /\ job' = [job EXCEPT ![v] = "waiting"]
          /\ stalls' = [stalls EXCEPT ![v] = @ + 1]
  /\ UNCHANGED <<build, event, made, workerVars, storageVars, announced, forgotten, bounds>>

(* A completed job is kept for an hour, a failed one for ever.             *)
RemoveOnComplete(v) ==
  /\ job[v] = "completed"
  /\ job' = [job EXCEPT ![v] = "none"]
  /\ forgotten' = forgotten \cup {v}
  /\ UNCHANGED <<build, event, made, stalls, workerVars, storageVars, announced, bounds>>

(* The process dies; what it was sending may still have arrived.           *)
Crash ==
  /\ stage # "idle"
  /\ Fault
  /\ objects' \in {objects \cup ({current} \X s) : s \in SUBSET uploading}
  /\ orphans' = {}
  /\ Rest
  /\ UNCHANGED <<build, event, queueVars, manifests, announced, forgotten>>

-----------------------------------------------------------------------------
Enqueue(v) == Verified(v) \/ Consume(v) \/ ConsumeFailed(v) \/ Redeliver(v)

Process(v) ==
  \/ Download(v) \/ RawFileMissing(v)
  \/ Transcode(v) \/ NoVideoStream(v)
  \/ \E s \in Segments : StartUpload(v, s) \/ FinishUpload(v, s)
  \/ UploadManifest(v)
  \/ PublishMessage(v) \/ CannotSerialise(v)
  \/ Complete(v)

Break(v) ==
  \/ StepFailed(v) \/ PublishFailed(v)
  \/ \E s \in Segments : UploadFailed(v, s)

Next ==
  \/ \E v \in Videos :
       \/ Enqueue(v) \/ Take(v) \/ Process(v) \/ Break(v)
       \/ Stalled(v) \/ RemoveOnComplete(v)
       \/ \E s \in Segments : OrphanEnds(v, s)
  \/ Crash

Spec == Init /\ [][Next]_vars

(* Fairness: kafkajs polls, the worker takes jobs as they come (first in,  *)
(* first out) and what it awaits settles, the queue looks for stalled      *)
(* jobs.                                                                   *)
Fairness ==
  \A v \in Videos :
    /\ WF_vars(Consume(v))
    /\ SF_vars(Take(v))
    /\ WF_vars(Process(v))
    /\ WF_vars(Stalled(v))

FairSpec == Spec /\ Fairness

-----------------------------------------------------------------------------
(* A manifest in S3 lists segments that are all there, and a video is      *)
(* announced only when its manifest is: no order in which uploads of this  *)
(* or of an earlier attempt end lets the manifest come first.              *)
PlayableWhenAnnounced ==
  \A v \in Videos :
    /\ v \in manifests => {v} \X Segments \subseteq objects
    /\ announced[v] > 0 => v \in manifests

(* Each announcement beyond the first is paid for by a fault, or by a      *)
(* redelivery that found the job forgotten; while the queue remembers the  *)
(* job, its attempts and stalls bound them too, whatever fails.            *)
RepeatsBounded ==
  \A v \in Videos :
    /\ announced[v] <= 1 + faults + redelivered
    /\ v \notin forgotten =>
         announced[v] <= 1 + faults /\ announced[v] <= Attempts + MaxStalls

(* No verified video that can be read is lost in silence: when the mended  *)
(* code is done with its event, the video is announced or has a job that   *)
(* still runs, unless there were as many faults as a job has attempts, or  *)
(* more than it may stall.                                                 *)
SilentOnlyByFault ==
  \A v \in Videos \ Unreadable :
    event[v] = "handled" /\ RawKey(v) = UploadKey(v) /\ Serialises =>
      \/ announced[v] > 0
      \/ job[v] \in {"waiting", "active"}
      \/ faults >= Attempts \/ faults > MaxStalls

(* A verified video that can be read is announced, although a crash or a   *)
(* failed call may have cost it an attempt: only as many of them as a job  *)
(* has attempts, or more crashes than it may stall, end it.                *)
ResultIsAnnounced ==
  \A v \in Videos \ Unreadable :
    event[v] = "sent" /\ RawKey(v) = UploadKey(v) /\ Serialises
      ~> announced[v] > 0 \/ faults >= Attempts \/ faults > MaxStalls

(* "now the video service will know that video was processed..."           *)
(* (bullmq-transcoder.worker.ts:53): without a fault every video that can  *)
(* be read is announced.                                                   *)
VideoServiceWillKnow ==
  \A v \in Videos \ Unreadable : event[v] = "sent" ~> announced[v] > 0 \/ faults > 0
=============================================================================
