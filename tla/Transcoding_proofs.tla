------------------------- MODULE Transcoding_proofs -------------------------
(***************************************************************************)
(* Proofs about the transcoder, for any number of videos, segments,        *)
(* uploads at a time, attempts, stalls, redeliveries and faults.           *)
(***************************************************************************)
EXTENDS Transcoding, TLAPS

(* The worker's job is the active one, and a job that may still run has an *)
(* attempt left.                                                           *)
JobInv ==
  /\ \A v \in Videos : job[v] \in {"waiting", "active"} => made[v] < Attempts
  /\ stage = "idle" <=> current = NoVideo
  /\ \A v \in Videos : current = v => job[v] = "active"

TypeInv == TypeOK /\ JobInv

USE DEF AttemptsLeft

LEMMA FaultType ==
  ASSUME TypeOK, Fault
  PROVE  faults' \in 0..MaxFaults /\ faults' # 0 /\ redelivered' = redelivered
BY TranscodingAssumption DEF TypeOK, Fault

LEMMA EnqueueType ==
  ASSUME TypeInv, NEW v \in Videos, EnqueueProcessingJob(v) \/ UNCHANGED queueVars
  PROVE  /\ job' \in [Videos -> {"none", "waiting", "active", "completed", "failed"}]
         /\ made' \in [Videos -> 0..Attempts] /\ stalls' \in [Videos -> 0..MaxStalls]
         /\ \A w \in Videos : job'[w] \in {"waiting", "active"} => made'[w] < Attempts
         /\ \A w \in Videos : job[w] = "active" => job'[w] = "active"
         /\ \A w \in Videos : job'[w] = job[w] \/ (job[w] = "none" /\ job'[w] = "waiting")
<1> USE TranscodingAssumption DEF TypeInv, TypeOK, JobInv, queueVars
<1>1. CASE UNCHANGED queueVars
  BY <1>1
<1>2. CASE NewJob(v) /\ job[v] = "none"
  BY <1>2 DEF NewJob
<1>3. QED
  BY <1>1, <1>2 DEF EnqueueProcessingJob

LEMMA FailType ==
  ASSUME TypeInv, NEW v \in Videos, NEW S \in SUBSET Segments, current = v, FailAttempt(v, S)
  PROVE  /\ job' \in [Videos -> {"none", "waiting", "active", "completed", "failed"}]
         /\ made' \in [Videos -> 0..Attempts]
         /\ \A w \in Videos : job'[w] \in {"waiting", "active"} => made'[w] < Attempts
         /\ \A w \in Videos \ {v} : job'[w] = job[w]
         /\ job'[v] \in {"waiting", "failed"}
         /\ orphans' \subseteq Videos \X Segments
         /\ current' = NoVideo /\ stage' = "idle" /\ todo' = {} /\ uploading' = {}
         /\ UNCHANGED <<build, event, stalls, announced, forgotten>>
<1>1. made[v] \in 0..Attempts /\ made[v] < Attempts
  BY DEF TypeInv, TypeOK, JobInv
<1>2. made[v] + 1 \in 0..Attempts
  BY <1>1, TranscodingAssumption
<1>3. orphans' \subseteq Videos \X Segments
  BY DEF FailAttempt, TypeInv, TypeOK
<1>4. QED
  BY <1>1, <1>2, <1>3 DEF FailAttempt, Rest, TypeInv, TypeOK, JobInv

LEMMA InitType == Init => TypeInv
BY TranscodingAssumption DEF Init, TypeInv, TypeOK, JobInv, Stages

LEMMA EnqueueKeepsType ==
  ASSUME TypeInv, NEW v \in Videos, Enqueue(v)
  PROVE  TypeInv'
<1> USE TranscodingAssumption DEF workerVars, storageVars, bounds
<1>1. CASE Verified(v)
  BY <1>1 DEF Verified, TypeInv, TypeOK, JobInv, queueVars
<1>2. CASE Consume(v)
  <2>1. event' \in [Videos -> {"unsent", "sent", "handled"}]
    BY <1>2 DEF Consume, TypeInv, TypeOK
  <2>2. QED
    BY <1>2, <2>1, EnqueueType DEF Consume, TypeInv, TypeOK, JobInv
<1>3. CASE ConsumeFailed(v)
  <2>1. faults' \in 0..MaxFaults /\ redelivered' = redelivered
    BY <1>3, FaultType DEF ConsumeFailed, TypeInv
  <2>2. QED
    BY <1>3, <2>1, EnqueueType DEF ConsumeFailed, TypeInv, TypeOK, JobInv
<1>4. CASE Redeliver(v)
  BY <1>4 DEF Redeliver, TypeInv, TypeOK, JobInv, queueVars
<1>5. QED
  BY <1>1, <1>2, <1>3, <1>4 DEF Enqueue

LEMMA WorkerKeepsType ==
  ASSUME TypeInv, NEW v \in Videos, Take(v) \/ Process(v)
  PROVE  TypeInv'
<1> USE TranscodingAssumption DEF storageVars, bounds, queueVars, At, Stages
<1>1. CASE Take(v)
  BY <1>1 DEF Take, TypeInv, TypeOK, JobInv
<1>2. CASE Download(v)
  BY <1>2 DEF Download, TypeInv, TypeOK, JobInv
<1>3. CASE RawFileMissing(v) \/ NoVideoStream(v) \/ CannotSerialise(v)
  <2>1. FailAttempt(v, {}) /\ current = v
    BY <1>3 DEF RawFileMissing, NoVideoStream, CannotSerialise
  <2>2. UNCHANGED <<storageVars, bounds>>
    BY <1>3 DEF RawFileMissing, NoVideoStream, CannotSerialise
  <2>3. QED
    BY <2>1, <2>2, FailType DEF TypeInv, TypeOK, JobInv
<1>4. CASE Transcode(v)
  BY <1>4 DEF Transcode, TypeInv, TypeOK, JobInv
<1>5. ASSUME NEW s \in Segments, StartUpload(v, s)
      PROVE  TypeInv'
  BY <1>5 DEF StartUpload, TypeInv, TypeOK, JobInv
<1>6. ASSUME NEW s \in Segments, FinishUpload(v, s)
      PROVE  TypeInv'
  BY <1>6 DEF FinishUpload, TypeInv, TypeOK, JobInv
<1>7. CASE UploadManifest(v)
  BY <1>7 DEF UploadManifest, TypeInv, TypeOK, JobInv
<1>8. CASE PublishMessage(v)
  <2>1. announced' \in [Videos -> Nat]
    BY <1>8 DEF PublishMessage, Send, TypeInv, TypeOK
  <2>2. QED
    BY <1>8, <2>1 DEF PublishMessage, TypeInv, TypeOK, JobInv
<1>9. CASE Complete(v)
  BY <1>9 DEF Complete, Rest, TypeInv, TypeOK, JobInv
<1>10. QED
  BY <1>1, <1>2, <1>3, <1>4, <1>5, <1>6, <1>7, <1>8, <1>9 DEF Process

LEMMA BreakKeepsType ==
  ASSUME TypeInv, NEW v \in Videos, Break(v)
  PROVE  TypeInv'
<1> USE TranscodingAssumption DEF storageVars, At, Stages
<1>1. CASE StepFailed(v)
  <2>1. FailAttempt(v, {}) /\ current = v /\ Fault /\ manifests' \subseteq Videos /\ objects' = objects
    BY <1>1 DEF StepFailed, TypeInv, TypeOK
  <2>2. faults' \in 0..MaxFaults /\ redelivered' = redelivered
    BY <2>1, FaultType DEF TypeInv
  <2>3. QED
    BY <2>1, <2>2, FailType DEF TypeInv, TypeOK, JobInv
<1>2. CASE PublishFailed(v)
  <2>1. faults' \in 0..MaxFaults /\ redelivered' = redelivered
    BY <1>2, FaultType DEF PublishFailed, TypeInv
  <2>2. announced' \in [Videos -> Nat]
    BY <1>2 DEF PublishFailed, Send, TypeInv, TypeOK
  <2>3. made[v] \in 0..Attempts /\ made[v] < Attempts
    BY <1>2 DEF PublishFailed, TypeInv, TypeOK, JobInv
  <2>4. made[v] + 1 \in 0..Attempts
    BY <2>3
  <2>5. QED
    BY <1>2, <2>1, <2>2, <2>3, <2>4 DEF PublishFailed, Rest, TypeInv, TypeOK, JobInv
<1>3. ASSUME NEW s \in Segments, UploadFailed(v, s)
      PROVE  TypeInv'
  <2>1. /\ FailAttempt(v, uploading \ {s}) /\ current = v /\ Fault
        /\ objects' \subseteq Videos \X Segments /\ manifests' = manifests
    BY <1>3 DEF UploadFailed, TypeInv, TypeOK
  <2>2. faults' \in 0..MaxFaults /\ redelivered' = redelivered
    BY <2>1, FaultType DEF TypeInv
  <2>3. uploading \ {s} \in SUBSET Segments
    BY DEF TypeInv, TypeOK
  <2>4. QED
    BY <2>1, <2>2, <2>3, FailType DEF TypeInv, TypeOK, JobInv
<1>4. QED
  BY <1>1, <1>2, <1>3 DEF Break

LEMMA NextType == TypeInv /\ [Next]_vars => TypeInv'
<1> SUFFICES ASSUME TypeInv, [Next]_vars
             PROVE  TypeInv'
  OBVIOUS
<1> USE TranscodingAssumption DEF workerVars, storageVars, bounds, queueVars
<1>1. ASSUME NEW v \in Videos, Stalled(v)
      PROVE  TypeInv'
  <2>1. CASE StalledTooOften(v)
    BY <1>1, <2>1 DEF Stalled, TypeInv, TypeOK, JobInv
  <2>2. CASE ~StalledTooOften(v)
    <3>1. stalls[v] \in 0..MaxStalls /\ stalls[v] < MaxStalls
      BY <2>2 DEF StalledTooOften, TypeInv, TypeOK
    <3>2. stalls[v] + 1 \in 0..MaxStalls
      BY <3>1
    <3>3. QED
      BY <1>1, <2>2, <3>2 DEF Stalled, TypeInv, TypeOK, JobInv
  <2>3. QED
    BY <2>1, <2>2
<1>2. ASSUME NEW v \in Videos, RemoveOnComplete(v)
      PROVE  TypeInv'
  BY <1>2 DEF RemoveOnComplete, TypeInv, TypeOK, JobInv
<1>3. ASSUME NEW v \in Videos, NEW s \in Segments, OrphanEnds(v, s)
      PROVE  TypeInv'
  BY <1>3 DEF OrphanEnds, TypeInv, TypeOK, JobInv
<1>4. CASE Crash
  <2>1. current \in Videos
    BY <1>4 DEF Crash, TypeInv, TypeOK, JobInv
  <2>2. objects' \subseteq Videos \X Segments
    BY <1>4, <2>1 DEF Crash, TypeInv, TypeOK
  <2>3. faults' \in 0..MaxFaults /\ redelivered' = redelivered
    BY <1>4, FaultType DEF Crash, TypeInv
  <2>4. QED
    BY <1>4, <2>2, <2>3 DEF Crash, Rest, TypeInv, TypeOK, JobInv, Stages
<1>5. CASE UNCHANGED vars
  BY <1>5 DEF vars, TypeInv, TypeOK, JobInv
<1>6. QED
  BY <1>1, <1>2, <1>3, <1>4, <1>5, EnqueueKeepsType, WorkerKeepsType, BreakKeepsType DEF Next

(* Every variable keeps its type; in particular a job never makes more     *)
(* than Attempts attempts, nor stalls more than MaxStalls times.           *)
THEOREM TypeCorrect == Spec => []TypeOK
<1>1. TypeInv => TypeOK
  BY DEF TypeInv
<1>2. QED
  BY <1>1, InitType, NextType, PTL DEF Spec
-----------------------------------------------------------------------------
(* While the worker uploads, every segment is still to be uploaded, in     *)
(* flight or in S3; it publishes when the manifest is there.               *)
UploadInv ==
  /\ stage = "uploading" =>
       \A s \in Segments : s \in todo \cup uploading \/ <<current, s>> \in objects
  /\ stage \in {"publishing", "finishing"} => current \in manifests

PlayInv == UploadInv /\ PlayableWhenAnnounced

(* Objects and manifests are never removed.                                *)
LEMMA StorageGrows ==
  ASSUME TypeInv, [Next]_vars
  PROVE  objects \subseteq objects' /\ manifests \subseteq manifests'
<1> USE DEF storageVars
<1>1. ASSUME NEW v \in Videos, Enqueue(v)
      PROVE  UNCHANGED storageVars
  BY <1>1 DEF Enqueue, Verified, Consume, ConsumeFailed, Redeliver
<1>2. ASSUME NEW v \in Videos, Take(v) \/ Process(v)
      PROVE  objects \subseteq objects' /\ manifests \subseteq manifests'
  BY <1>2 DEF Take, Process, Download, RawFileMissing, Transcode, NoVideoStream, StartUpload,
              FinishUpload, UploadManifest, PublishMessage, CannotSerialise, Complete
<1>3. ASSUME NEW v \in Videos, Break(v)
      PROVE  objects \subseteq objects' /\ manifests \subseteq manifests'
  BY <1>3 DEF Break, StepFailed, PublishFailed, UploadFailed
<1>4. ASSUME NEW v \in Videos,
             Stalled(v) \/ RemoveOnComplete(v) \/ \E s \in Segments : OrphanEnds(v, s)
      PROVE  objects \subseteq objects' /\ manifests \subseteq manifests'
  BY <1>4 DEF Stalled, RemoveOnComplete, OrphanEnds
<1>5. CASE Crash
  BY <1>5 DEF Crash
<1>6. CASE UNCHANGED vars
  BY <1>6 DEF vars
<1>7. QED
  BY <1>1, <1>2, <1>3, <1>4, <1>5, <1>6 DEF Next

(* A step that adds no manifest and announces nothing cannot break         *)
(* PlayableWhenAnnounced.                                                  *)
LEMMA QuietKeepsPlayable ==
  ASSUME TypeInv, [Next]_vars, PlayableWhenAnnounced, UNCHANGED <<manifests, announced>>
  PROVE  PlayableWhenAnnounced'
BY StorageGrows DEF PlayableWhenAnnounced

LEMMA InitPlay == Init => PlayInv
BY DEF Init, PlayInv, UploadInv, PlayableWhenAnnounced

(* An attempt that ends leaves the worker with nothing to keep.            *)
LEMMA RestKeepsUploads ==
  ASSUME Rest
  PROVE  UploadInv'
BY DEF Rest, UploadInv

LEMMA ProcessKeepsPlay ==
  ASSUME TypeInv, PlayInv, NEW v \in Videos, Process(v)
  PROVE  PlayInv'
<1> USE DEF storageVars, queueVars, At, PlayInv
<1>0. [Next]_vars
  BY DEF Next
<1>1. CASE Download(v)
  <2>1. PlayableWhenAnnounced'
    BY <1>0, <1>1, QuietKeepsPlayable DEF Download
  <2>2. QED
    BY <1>1, <2>1 DEF Download, UploadInv
<1>2. CASE RawFileMissing(v) \/ NoVideoStream(v) \/ CannotSerialise(v)
  <2>1. Rest /\ UNCHANGED <<manifests, announced>>
    BY <1>2 DEF RawFileMissing, NoVideoStream, CannotSerialise, FailAttempt
  <2>2. QED
    BY <1>0, <2>1, RestKeepsUploads, QuietKeepsPlayable
<1>3. CASE Transcode(v)
  <2>1. PlayableWhenAnnounced'
    BY <1>0, <1>3, QuietKeepsPlayable DEF Transcode
  <2>2. QED
    BY <1>3, <2>1 DEF Transcode, UploadInv
<1>4. ASSUME NEW s \in Segments, StartUpload(v, s) \/ FinishUpload(v, s)
      PROVE  PlayInv'
  <2>1. PlayableWhenAnnounced'
    BY <1>0, <1>4, QuietKeepsPlayable DEF StartUpload, FinishUpload
  <2>2. UploadInv'
    BY <1>4 DEF StartUpload, FinishUpload, UploadInv
  <2>3. QED
    BY <2>1, <2>2
<1>5. CASE UploadManifest(v)
  <2>1. {v} \X Segments \subseteq objects
    BY <1>5 DEF UploadManifest, AllUploaded, UploadInv
  <2>2. PlayableWhenAnnounced'
    BY <1>5, <2>1 DEF UploadManifest, PlayableWhenAnnounced
  <2>3. UploadInv'
    BY <1>5 DEF UploadManifest, UploadInv
  <2>4. QED
    BY <2>2, <2>3
<1>6. CASE PublishMessage(v)
  <2>1. v \in manifests /\ UNCHANGED <<storageVars, current>> /\ stage' = "finishing"
    BY <1>6 DEF PublishMessage, UploadInv
  <2>2. \A w \in Videos : announced'[w] > 0 => announced[w] > 0 \/ w = v
    BY <1>6 DEF PublishMessage, Send, TypeInv, TypeOK
  <2>3. current = v
    BY <1>6 DEF PublishMessage
  <2>4. QED
    BY <2>1, <2>2, <2>3 DEF PlayableWhenAnnounced, UploadInv
<1>7. CASE Complete(v)
  BY <1>0, <1>7, RestKeepsUploads, QuietKeepsPlayable DEF Complete
<1>8. QED
  BY <1>1, <1>2, <1>3, <1>4, <1>5, <1>6, <1>7 DEF Process

LEMMA BreakKeepsPlay ==
  ASSUME TypeInv, PlayInv, NEW v \in Videos, Break(v)
  PROVE  PlayInv'
<1> USE DEF storageVars, At, PlayInv
<1>0. [Next]_vars
  BY DEF Next
<1>1. CASE StepFailed(v)
  <2>1. Rest /\ UNCHANGED <<announced, objects>>
    BY <1>1 DEF StepFailed, FailAttempt
  <2>2. CASE manifests' = manifests
    BY <1>0, <2>1, <2>2, RestKeepsUploads, QuietKeepsPlayable
  <2>3. CASE stage = "uploading" /\ manifests' = manifests \cup {v}
    <3>1. AllUploaded /\ current = v
      BY <1>1, <2>3 DEF StepFailed
    <3>2. {v} \X Segments \subseteq objects
      BY <2>3, <3>1 DEF AllUploaded, UploadInv
    <3>3. QED
      BY <2>1, <2>3, <3>2, RestKeepsUploads DEF PlayableWhenAnnounced
  <2>4. QED
    BY <1>1, <2>2, <2>3 DEF StepFailed
<1>2. CASE PublishFailed(v)
  <2>1. v \in manifests /\ Rest /\ UNCHANGED storageVars
    BY <1>2 DEF PublishFailed, UploadInv
  <2>2. \A w \in Videos : announced'[w] > 0 => announced[w] > 0 \/ w = v
    BY <1>2 DEF PublishFailed, Send, TypeInv, TypeOK
  <2>3. QED
    BY <2>1, <2>2, RestKeepsUploads DEF PlayableWhenAnnounced
<1>3. ASSUME NEW s \in Segments, UploadFailed(v, s)
      PROVE  PlayInv'
  BY <1>0, <1>3, RestKeepsUploads, QuietKeepsPlayable DEF UploadFailed, FailAttempt
<1>4. QED
  BY <1>1, <1>2, <1>3 DEF Break

LEMMA NextPlay == TypeInv /\ PlayInv /\ [Next]_vars => PlayInv'
<1> SUFFICES ASSUME TypeInv, PlayInv, [Next]_vars
             PROVE  PlayInv'
  OBVIOUS
<1> USE DEF PlayInv, storageVars, workerVars
<1>1. ASSUME UNCHANGED <<current, stage, todo, uploading, manifests, announced>>
      PROVE  PlayInv'
  BY <1>1, QuietKeepsPlayable, StorageGrows DEF UploadInv
<1>2. ASSUME NEW v \in Videos, Take(v)
      PROVE  PlayInv'
  BY <1>2, QuietKeepsPlayable DEF Take, UploadInv
<1>3. ASSUME NEW v \in Videos,
             \/ Enqueue(v) \/ Stalled(v) \/ RemoveOnComplete(v)
             \/ \E s \in Segments : OrphanEnds(v, s)
      PROVE  PlayInv'
  BY <1>1, <1>3 DEF Enqueue, Verified, Consume, ConsumeFailed, Redeliver, Stalled,
                    RemoveOnComplete, OrphanEnds
<1>4. CASE Crash
  BY <1>4, RestKeepsUploads, QuietKeepsPlayable DEF Crash
<1>5. CASE UNCHANGED vars
  BY <1>1, <1>5 DEF vars
<1>6. QED
  BY <1>2, <1>3, <1>4, <1>5, ProcessKeepsPlay, BreakKeepsPlay DEF Next

(* What is announced can be played: runWithConcurrency starts every upload *)
(* and waits for all of them before the manifest, and uploads left over    *)
(* from an attempt that failed take nothing away.                          *)
THEOREM AnnouncedCanBePlayed == Spec => []PlayableWhenAnnounced
<1>1. PlayInv => PlayableWhenAnnounced
  BY DEF PlayInv
<1>2. QED
  BY <1>1, InitType, NextType, InitPlay, NextPlay, PTL DEF Spec

-----------------------------------------------------------------------------
(* What may still be announced: a job that waits or runs and has not yet   *)
(* published owes an announcement, and so does an event that is still to   *)
(* be consumed, since it may make a job.                                   *)
One(b) == IF b THEN 1 ELSE 0

Live(v) == job[v] = "waiting" \/ (job[v] = "active" /\ ~At(v, "finishing"))
Unconsumed(v) == event[v] # "handled"

(* An attempt that is to come or has not published yet: when its worker    *)
(* dies, the job gets another one only by stalling.                        *)
Ready(v) == job[v] = "waiting" \/ (current = v /\ stage # "finishing")

RepeatsFor(v) ==
  /\ announced[v] + One(Live(v)) + One(Unconsumed(v)) <= 1 + faults + redelivered
  /\ v \notin forgotten =>
       /\ job[v] = "none" => announced[v] = 0
       /\ announced[v] + One(Live(v)) <= 1 + faults
       /\ job[v] \in {"waiting", "active"} =>
            announced[v] + One(Ready(v)) <= made[v] + stalls[v] + 1
       /\ announced[v] <= Attempts + MaxStalls

RepeatsInv == \A v \in Videos : RepeatsFor(v)

LEMMA InitRepeats == Init => RepeatsInv
BY TranscodingAssumption DEF Init, RepeatsInv, RepeatsFor, Live, Unconsumed, One

LEMMA Counters ==
  ASSUME TypeInv, NEW v \in Videos
  PROVE  /\ announced[v] \in Nat /\ made[v] \in Nat /\ stalls[v] \in Nat
         /\ faults \in Nat /\ redelivered \in Nat
         /\ made[v] <= Attempts /\ stalls[v] <= MaxStalls
         /\ job[v] \in {"waiting", "active"} => made[v] < Attempts
BY TranscodingAssumption DEF TypeInv, TypeOK, JobInv

(* A step that does not touch a video, and does not end its attempt.       *)
LEMMA Bystander ==
  ASSUME TypeInv, NEW v \in Videos, RepeatsFor(v),
         faults' \in Nat, redelivered' \in Nat, faults <= faults', redelivered <= redelivered',
         event'[v] = event[v], job'[v] = job[v], made'[v] = made[v], stalls'[v] = stalls[v],
         announced'[v] = announced[v], v \in forgotten' <=> v \in forgotten,
         current' = v <=> current = v,
         current = v => (stage' = "finishing" <=> stage = "finishing")
  PROVE  RepeatsFor(v)'
<1>1. One(Live(v))' = One(Live(v)) /\ One(Unconsumed(v))' = One(Unconsumed(v))
  BY DEF One, Live, Unconsumed, At
<1>2. One(Ready(v))' = One(Ready(v))
  BY DEF One, Ready
<1>3. One(Live(v)) \in Nat /\ One(Unconsumed(v)) \in Nat /\ One(Ready(v)) \in Nat
  BY DEF One
<1>4. QED
  BY <1>1, <1>2, <1>3, Counters DEF RepeatsFor

LEMMA EnqueueKeepsRepeats ==
  ASSUME TypeInv, RepeatsInv, NEW v \in Videos, Enqueue(v)
  PROVE  RepeatsInv'
<1> USE DEF bounds, workerVars, storageVars, queueVars
<1>1. /\ UNCHANGED <<current, stage, announced, forgotten>>
      /\ event \in [Videos -> {"unsent", "sent", "handled"}]
      /\ event' = event \/ (\E e \in {"sent", "handled"} : event' = [event EXCEPT ![v] = e])
      /\ faults' = faults \/ faults' = faults + 1
      /\ redelivered' = redelivered \/ redelivered' = redelivered + 1
  BY DEF TypeInv, TypeOK, Enqueue, Verified, Consume, ConsumeFailed, Redeliver, Fault
<1>2. (NewJob(v) /\ job[v] = "none") \/ UNCHANGED queueVars
  BY DEF Enqueue, Verified, Consume, ConsumeFailed, Redeliver, EnqueueProcessingJob
<1>3. ASSUME NEW w \in Videos, w # v
      PROVE  RepeatsFor(w)'
  <2>1. event'[w] = event[w] /\ job'[w] = job[w] /\ made'[w] = made[w] /\ stalls'[w] = stalls[w]
    BY <1>1, <1>2, <1>3 DEF NewJob, TypeInv, TypeOK
  <2>2. QED
    BY <1>1, <2>1, Bystander, Counters DEF RepeatsInv
<1>4. CASE UNCHANGED queueVars
  <2>1. \/ /\ One(Unconsumed(v))' <= One(Unconsumed(v))
           /\ faults' >= faults /\ redelivered' = redelivered
        \/ /\ One(Unconsumed(v))' = 1 /\ One(Unconsumed(v)) = 0
           /\ faults' = faults /\ redelivered' = redelivered + 1
    <3>1. CASE Verified(v)
      BY <3>1, <1>1, Counters DEF Verified, One, Unconsumed
    <3>2. CASE Consume(v)
      BY <3>2, <1>1, Counters DEF Consume, One, Unconsumed
    <3>3. CASE ConsumeFailed(v)
      BY <3>3, <1>1, Counters DEF ConsumeFailed, Fault, One, Unconsumed
    <3>4. CASE Redeliver(v)
      BY <3>4, <1>1, Counters DEF Redeliver, One, Unconsumed
    <3>5. QED
      BY <3>1, <3>2, <3>3, <3>4 DEF Enqueue
  <2>2. One(Live(v))' = One(Live(v)) /\ One(Ready(v))' = One(Ready(v))
    BY <1>1, <1>4 DEF One, Live, Ready, At
  <2>3. /\ One(Live(v)) \in Nat /\ One(Ready(v)) \in Nat
        /\ One(Unconsumed(v)) \in Nat /\ One(Unconsumed(v))' \in Nat
    BY DEF One
  <2>4. RepeatsFor(v)'
    BY <1>1, <1>4, <2>1, <2>2, <2>3, Counters DEF RepeatsFor, RepeatsInv
  <2>5. QED
    BY <1>3, <2>4 DEF RepeatsInv
<1>5. CASE NewJob(v) /\ job[v] = "none"
  <2>1. job'[v] = "waiting" /\ made'[v] = 0 /\ stalls'[v] = 0
    BY <1>5 DEF NewJob, TypeInv, TypeOK
  <2>2. One(Live(v))' = 1 /\ One(Live(v)) = 0 /\ One(Ready(v))' = 1
    BY <1>5, <2>1 DEF One, Live, Ready
  <2>3. /\ redelivered' = redelivered
        /\ \/ One(Unconsumed(v))' = 0 /\ One(Unconsumed(v)) = 1 /\ faults' = faults
           \/ One(Unconsumed(v))' = 1 /\ One(Unconsumed(v)) = 1 /\ faults' = faults + 1
    <3>1. ~UNCHANGED queueVars
      BY <1>5, <2>1
    <3>2. CASE Consume(v)
      BY <3>2, <1>1 DEF Consume, One, Unconsumed
    <3>3. CASE ConsumeFailed(v)
      BY <3>3, <1>1 DEF ConsumeFailed, Fault, One, Unconsumed
    <3>4. QED
      BY <3>1, <3>2, <3>3 DEF Enqueue, Verified, Redeliver
  <2>4. RepeatsFor(v)'
    BY <1>1, <1>5, <2>1, <2>2, <2>3, Counters, TranscodingAssumption DEF RepeatsFor, RepeatsInv
  <2>5. QED
    BY <1>3, <2>4 DEF RepeatsInv
<1>6. QED
  BY <1>2, <1>4, <1>5

(* An attempt that fails has not announced the video before, unless the    *)
(* announcement itself is what failed.                                     *)
LEMMA FailedAttempt ==
  ASSUME TypeInv, RepeatsInv, NEW v \in Videos, current = v, stage # "finishing",
         made' = [made EXCEPT ![v] = @ + 1],
         job' = [job EXCEPT ![v] = IF made[v] + 1 < Attempts THEN "waiting" ELSE "failed"],
         Rest, UNCHANGED <<event, stalls, forgotten, redelivered>>,
         \/ faults' \in {faults, faults + 1} /\ announced' = announced
         \/ faults' = faults + 1 /\ announced' = [announced EXCEPT ![v] = @ + 1]
  PROVE  RepeatsInv'
<1>0. faults' \in Nat /\ faults <= faults'
  BY Counters
<1>1. ASSUME NEW w \in Videos, w # v
      PROVE  RepeatsFor(w)'
  <2>1. job'[w] = job[w] /\ made'[w] = made[w] /\ announced'[w] = announced[w]
    BY <1>1 DEF TypeInv, TypeOK
  <2>2. current' # w
    BY TranscodingAssumption DEF Rest
  <2>3. QED
    BY <1>0, <1>1, <2>1, <2>2, Bystander, Counters DEF RepeatsInv
<1>2. /\ made'[v] = made[v] + 1 /\ job[v] = "active"
      /\ job'[v] = "waiting" \/ job'[v] = "failed"
      /\ \/ announced'[v] = announced[v]
         \/ announced'[v] = announced[v] + 1 /\ faults' = faults + 1
  BY DEF TypeInv, TypeOK, JobInv
<1>3. One(Live(v)) = 1 /\ One(Ready(v)) = 1 /\ One(Unconsumed(v))' = One(Unconsumed(v))
  BY <1>2 DEF One, Live, Ready, At, Unconsumed
<1>4. One(Live(v))' \in 0..1 /\ One(Ready(v))' \in 0..1 /\ One(Unconsumed(v)) \in 0..1
  BY DEF One
<1>5. RepeatsFor(v)'
  BY <1>0, <1>2, <1>3, <1>4, Counters, TranscodingAssumption DEF RepeatsFor, RepeatsInv
<1>6. QED
  BY <1>1, <1>5 DEF RepeatsInv

LEMMA ProcessKeepsRepeats ==
  ASSUME TypeInv, RepeatsInv, NEW v \in Videos, Process(v)
  PROVE  RepeatsInv'
<1> USE DEF bounds, storageVars, queueVars
<1>1. CASE RawFileMissing(v) \/ NoVideoStream(v) \/ CannotSerialise(v)
  BY <1>1, FailedAttempt DEF RawFileMissing, NoVideoStream, CannotSerialise, FailAttempt, At
<1>2. CASE \/ Download(v) \/ Transcode(v) \/ UploadManifest(v)
           \/ \E s \in Segments : StartUpload(v, s) \/ FinishUpload(v, s)
  <2>1. /\ UNCHANGED <<event, job, made, stalls, announced, forgotten, current, faults, redelivered>>
        /\ stage # "finishing" /\ stage' # "finishing"
    BY <1>2 DEF Download, Transcode, UploadManifest, StartUpload, FinishUpload, At
  <2>2. QED
    BY <2>1, Bystander, Counters DEF RepeatsInv
<1>3. CASE PublishMessage(v)
  <2>1. /\ current = v /\ stage # "finishing" /\ stage' = "finishing" /\ job[v] = "active"
        /\ UNCHANGED <<event, job, made, stalls, current, forgotten, faults, redelivered>>
        /\ announced' = [announced EXCEPT ![v] = @ + 1] /\ announced \in [Videos -> Nat]
    BY <1>3 DEF PublishMessage, Send, At, TypeInv, TypeOK, JobInv
  <2>2. ASSUME NEW w \in Videos, w # v
        PROVE  RepeatsFor(w)'
    BY <2>1, <2>2, Bystander, Counters DEF RepeatsInv
  <2>3. /\ One(Live(v)) = 1 /\ One(Live(v))' = 0 /\ One(Ready(v)) = 1 /\ One(Ready(v))' = 0
        /\ One(Unconsumed(v))' = One(Unconsumed(v)) /\ One(Unconsumed(v)) \in Nat
    BY <2>1 DEF One, Live, Ready, At, Unconsumed
  <2>4. announced'[v] = announced[v] + 1
    BY <2>1
  <2>5. RepeatsFor(v)'
    BY <2>1, <2>3, <2>4, Counters, TranscodingAssumption DEF RepeatsFor, RepeatsInv
  <2>6. QED
    BY <2>2, <2>5 DEF RepeatsInv
<1>4. CASE Complete(v)
  <2>1. /\ current = v /\ stage = "finishing" /\ job[v] = "active" /\ job'[v] = "completed"
        /\ current' = NoVideo /\ \A w \in Videos \ {v} : job'[w] = job[w]
        /\ UNCHANGED <<event, made, stalls, announced, forgotten, faults, redelivered>>
    BY <1>4 DEF Complete, Rest, At, TypeInv, TypeOK, JobInv
  <2>2. ASSUME NEW w \in Videos, w # v
        PROVE  RepeatsFor(w)'
    BY <2>1, <2>2, Bystander, Counters, TranscodingAssumption DEF RepeatsInv
  <2>3. /\ One(Live(v)) = 0 /\ One(Live(v))' = 0
        /\ One(Unconsumed(v))' = One(Unconsumed(v)) /\ One(Unconsumed(v)) \in Nat
    BY <2>1 DEF One, Live, At, Unconsumed
  <2>4. RepeatsFor(v)'
    BY <2>1, <2>3, Counters DEF RepeatsFor, RepeatsInv
  <2>5. QED
    BY <2>2, <2>4 DEF RepeatsInv
<1>5. QED
  BY <1>1, <1>2, <1>3, <1>4 DEF Process

LEMMA BreakKeepsRepeats ==
  ASSUME TypeInv, RepeatsInv, NEW v \in Videos, Break(v)
  PROVE  RepeatsInv'
<1> USE DEF storageVars
<1>1. CASE StepFailed(v)
  BY <1>1, FailedAttempt DEF StepFailed, FailAttempt, Fault
<1>2. CASE PublishFailed(v)
  BY <1>2, FailedAttempt DEF PublishFailed, Fault, Send, At
<1>3. ASSUME NEW s \in Segments, UploadFailed(v, s)
      PROVE  RepeatsInv'
  BY <1>3, FailedAttempt DEF UploadFailed, FailAttempt, Fault, At
<1>4. QED
  BY <1>1, <1>2, <1>3 DEF Break

(* A worker that dies after it has published leaves a job that will        *)
(* publish again: the fault pays for it, and the stall.                    *)
LEMMA CrashKeepsRepeats ==
  ASSUME TypeInv, RepeatsInv, Crash
  PROVE  RepeatsInv'
<1>1. /\ UNCHANGED <<event, job, made, stalls, announced, forgotten, redelivered>>
      /\ faults' = faults + 1 /\ current' = NoVideo /\ stage' = "idle"
      /\ current \in Videos
  BY DEF Crash, Fault, Rest, queueVars, TypeInv, TypeOK, JobInv
<1>2. ASSUME NEW v \in Videos, v # current
      PROVE  RepeatsFor(v)'
  BY <1>1, <1>2, Bystander, Counters, TranscodingAssumption DEF RepeatsInv
<1>3. ASSUME NEW v \in Videos, v = current
      PROVE  RepeatsFor(v)'
  <2>1. job[v] = "active"
    BY <1>3 DEF TypeInv, JobInv
  <2>2. /\ One(Live(v)) \in Nat /\ One(Live(v))' = 1 /\ One(Ready(v)) \in Nat /\ One(Ready(v))' = 0
        /\ One(Unconsumed(v))' = One(Unconsumed(v)) /\ One(Unconsumed(v)) \in Nat
    BY <1>1, <2>1, TranscodingAssumption DEF One, Live, Ready, At, Unconsumed
  <2>3. One(Live(v))' <= One(Live(v)) + 1
    BY <2>2
  <2>4. QED
    BY <1>1, <2>1, <2>2, <2>3, Counters DEF RepeatsFor, RepeatsInv
<1>4. QED
  BY <1>2, <1>3 DEF RepeatsInv

LEMMA QueueKeepsRepeats ==
  ASSUME TypeInv, RepeatsInv, NEW v \in Videos, Take(v) \/ Stalled(v) \/ RemoveOnComplete(v)
  PROVE  RepeatsInv'
<1> USE DEF bounds, workerVars, storageVars, queueVars
<1>1. CASE Take(v)
  <2>1. /\ job[v] = "waiting" /\ job'[v] = "active" /\ \A w \in Videos \ {v} : job'[w] = job[w]
        /\ current = NoVideo /\ current' = v /\ stage' = "downloading"
        /\ UNCHANGED <<event, made, stalls, announced, forgotten, faults, redelivered>>
    BY <1>1 DEF Take, TypeInv, TypeOK, JobInv
  <2>2. ASSUME NEW w \in Videos, w # v
        PROVE  RepeatsFor(w)'
    BY <2>1, <2>2, Bystander, Counters, TranscodingAssumption DEF RepeatsInv
  <2>3. /\ One(Live(v)) = 1 /\ One(Live(v))' = 1 /\ One(Ready(v)) = 1 /\ One(Ready(v))' = 1
        /\ One(Unconsumed(v))' = One(Unconsumed(v)) /\ One(Unconsumed(v)) \in Nat
    BY <2>1 DEF One, Live, Ready, At, Unconsumed
  <2>4. RepeatsFor(v)'
    BY <2>1, <2>3, Counters DEF RepeatsFor, RepeatsInv
  <2>5. QED
    BY <2>2, <2>4 DEF RepeatsInv
<1>2. CASE Stalled(v)
  <2>1. /\ job[v] = "active" /\ current # v
        /\ \A w \in Videos \ {v} : job'[w] = job[w] /\ stalls'[w] = stalls[w]
        /\ UNCHANGED <<event, made, announced, forgotten, current, stage, faults, redelivered>>
        /\ \/ job'[v] = "failed" /\ stalls'[v] = stalls[v]
           \/ job'[v] = "waiting" /\ stalls'[v] = stalls[v] + 1
    BY <1>2 DEF Stalled, TypeInv, TypeOK
  <2>2. ASSUME NEW w \in Videos, w # v
        PROVE  RepeatsFor(w)'
    BY <2>1, <2>2, Bystander, Counters DEF RepeatsInv
  <2>3. /\ One(Live(v)) = 1 /\ One(Live(v))' \in 0..1 /\ One(Ready(v)) = 0 /\ One(Ready(v))' \in 0..1
        /\ One(Unconsumed(v))' = One(Unconsumed(v)) /\ One(Unconsumed(v)) \in Nat
    BY <2>1 DEF One, Live, Ready, At, Unconsumed
  <2>4. RepeatsFor(v)'
    BY <2>1, <2>3, Counters DEF RepeatsFor, RepeatsInv
  <2>5. QED
    BY <2>2, <2>4 DEF RepeatsInv
<1>3. CASE RemoveOnComplete(v)
  <2>1. /\ job[v] = "completed" /\ job'[v] = "none" /\ forgotten' = forgotten \cup {v}
        /\ \A w \in Videos \ {v} : job'[w] = job[w]
        /\ UNCHANGED <<event, made, stalls, announced, current, stage, faults, redelivered>>
    BY <1>3 DEF RemoveOnComplete, TypeInv, TypeOK
  <2>2. ASSUME NEW w \in Videos, w # v
        PROVE  RepeatsFor(w)'
    BY <2>1, <2>2, Bystander, Counters DEF RepeatsInv
  <2>3. One(Live(v))' = One(Live(v)) /\ One(Unconsumed(v))' = One(Unconsumed(v))
    BY <2>1 DEF One, Live, At, Unconsumed
  <2>4. RepeatsFor(v)'
    BY <2>1, <2>3 DEF RepeatsFor, RepeatsInv
  <2>5. QED
    BY <2>2, <2>4 DEF RepeatsInv
<1>4. QED
  BY <1>1, <1>2, <1>3

LEMMA NextRepeats == TypeInv /\ RepeatsInv /\ [Next]_vars => RepeatsInv'
<1> SUFFICES ASSUME TypeInv, RepeatsInv, [Next]_vars
             PROVE  RepeatsInv'
  OBVIOUS
<1> USE DEF bounds, workerVars, queueVars
<1>1. ASSUME UNCHANGED <<event, queueVars, current, stage, announced, forgotten, bounds>>
      PROVE  RepeatsInv'
  BY <1>1, Bystander, Counters DEF RepeatsInv
<1>2. ASSUME NEW v \in Videos, NEW s \in Segments, OrphanEnds(v, s)
      PROVE  RepeatsInv'
  BY <1>1, <1>2 DEF OrphanEnds
<1>3. CASE UNCHANGED vars
  BY <1>1, <1>3 DEF vars
<1>4. QED
  BY <1>2, <1>3, EnqueueKeepsRepeats, ProcessKeepsRepeats, BreakKeepsRepeats, QueueKeepsRepeats,
     CrashKeepsRepeats DEF Next

(* The jobId makes redelivered events harmless: only faults, and the queue *)
(* forgetting the job, let a video be announced again, and the attempts    *)
(* and stalls of a job bound how often.                                    *)
THEOREM AnnouncementsAreBounded == Spec => []RepeatsBounded
<1>1. TypeInv /\ RepeatsInv => RepeatsBounded
  <2>1. ASSUME TypeInv, RepeatsInv, NEW v \in Videos
        PROVE  /\ announced[v] <= 1 + faults + redelivered
               /\ v \notin forgotten =>
                    announced[v] <= 1 + faults /\ announced[v] <= Attempts + MaxStalls
    <3>1. One(Live(v)) \in Nat /\ One(Unconsumed(v)) \in Nat
      BY DEF One
    <3>2. QED
      BY <2>1, <3>1, Counters DEF RepeatsInv, RepeatsFor
  <2>2. QED
    BY <2>1 DEF RepeatsBounded
<1>2. QED
  BY <1>1, InitType, NextType, InitRepeats, NextRepeats, PTL DEF Spec

-----------------------------------------------------------------------------
(* What a job has cost: every attempt it made, every stall, and the worker *)
(* that died under it, is a fault of its own when the build is mended and  *)
(* the video can be read.                                                  *)
Sound(v) == RawKey(v) = UploadKey(v) /\ Serialises
Dead(v) == job[v] = "active" /\ current # v

CostFor(v) ==
  /\ job[v] \in {"waiting", "active"} => made[v] + stalls[v] + One(Dead(v)) <= faults
  /\ job[v] = "failed" => faults >= Attempts \/ faults > MaxStalls
  /\ job[v] = "completed" \/ v \in forgotten => announced[v] > 0
  /\ current = v /\ stage = "finishing" => announced[v] > 0
  /\ event[v] = "handled" /\ job[v] = "none" => v \in forgotten

CostInv == \A v \in Videos \ Unreadable : Sound(v) => CostFor(v)

LEMMA InitCost == Init => CostInv
BY TranscodingAssumption DEF Init, CostInv, CostFor, One, Dead

LEMMA SameBuild ==
  ASSUME [Next]_vars, NEW v
  PROVE  Sound(v)' = Sound(v)
<1>1. build' = build
  BY DEF Next, vars, Enqueue, Process, Break, Verified, Consume, ConsumeFailed, Redeliver, Take,
         Download, RawFileMissing, Transcode, NoVideoStream, StartUpload, FinishUpload,
         UploadManifest, PublishMessage, CannotSerialise, Complete, StepFailed, PublishFailed,
         UploadFailed, FailAttempt, Stalled, RemoveOnComplete, OrphanEnds, Crash
<1>2. QED
  BY <1>1 DEF Sound, RawKey, UploadKey, Serialises

(* A step that leaves a video, its job and its worker alone.               *)
LEMMA CostBystander ==
  ASSUME TypeInv, NEW v \in Videos, CostFor(v),
         faults' \in Nat, faults <= faults', announced'[v] \in Nat, announced[v] <= announced'[v],
         event'[v] = "handled" => event[v] = "handled" \/ job'[v] # "none",
         job'[v] = job[v], made'[v] = made[v], stalls'[v] = stalls[v],
         v \in forgotten' <=> v \in forgotten,
         current' = v <=> current = v,
         current' = v /\ stage' = "finishing" => stage = "finishing" \/ announced'[v] > 0
  PROVE  CostFor(v)'
<1>1. One(Dead(v))' = One(Dead(v)) /\ One(Dead(v)) \in Nat
  BY DEF One, Dead
<1>2. QED
  BY <1>1, Counters, TranscodingAssumption DEF CostFor

LEMMA EnqueueKeepsCost ==
  ASSUME TypeInv, NEW v \in Videos, Enqueue(v), NEW w \in Videos, CostFor(w)
  PROVE  CostFor(w)'
<1> USE DEF bounds, workerVars, storageVars, queueVars
<1>1. /\ UNCHANGED <<current, stage, announced, forgotten>>
      /\ faults' \in Nat /\ faults <= faults'
      /\ event'[w] = "handled" => event[w] = "handled" \/ Consume(v)
      /\ \A u \in Videos \ {v} : event'[u] = event[u]
  BY Counters DEF TypeInv, TypeOK, Enqueue, Verified, Consume, ConsumeFailed, Redeliver, Fault
<1>2. (NewJob(v) /\ job[v] = "none") \/ UNCHANGED queueVars
  BY DEF Enqueue, Verified, Consume, ConsumeFailed, Redeliver, EnqueueProcessingJob
<1>3. CASE w = v /\ NewJob(v) /\ job[v] = "none"
  <2>1. job'[v] = "waiting" /\ made'[v] = 0 /\ stalls'[v] = 0
    BY <1>3 DEF NewJob, TypeInv, TypeOK
  <2>2. One(Dead(v))' = 0
    BY <2>1 DEF One, Dead
  <2>3. current # v
    BY <1>3 DEF TypeInv, JobInv
  <2>4. QED
    BY <1>1, <1>3, <2>1, <2>2, <2>3, Counters DEF CostFor
<1>4. CASE ~(w = v /\ NewJob(v) /\ job[v] = "none")
  <2>1. job'[w] = job[w] /\ made'[w] = made[w] /\ stalls'[w] = stalls[w]
    BY <1>2, <1>4 DEF NewJob, TypeInv, TypeOK
  <2>2. event'[w] = "handled" => event[w] = "handled" \/ job'[w] # "none"
    <3>1. CASE w # v
      BY <1>1, <3>1
    <3>2. CASE w = v /\ Consume(v)
      BY <1>4, <2>1, <3>2 DEF Consume, EnqueueProcessingJob
    <3>3. QED
      BY <1>1, <3>1, <3>2
  <2>3. QED
    BY <1>1, <2>1, <2>2, CostBystander, Counters
<1>5. QED
  BY <1>3, <1>4

(* An attempt of a sound job fails only by a fault, which pays for it.     *)
LEMMA FailedCost ==
  ASSUME TypeInv, NEW v \in Videos, current = v, Fault,
         made' = [made EXCEPT ![v] = @ + 1],
         job' = [job EXCEPT ![v] = IF made[v] + 1 < Attempts THEN "waiting" ELSE "failed"],
         Rest, UNCHANGED <<event, stalls, forgotten>>,
         announced' \in {announced, [announced EXCEPT ![v] = @ + 1]},
         NEW w \in Videos, CostFor(w)
  PROVE  CostFor(w)'
<1>1. /\ faults' = faults + 1 /\ current' = NoVideo /\ stage' = "idle" /\ NoVideo \notin Videos
      /\ announced'[w] \in Nat /\ announced[w] <= announced'[w]
  BY TranscodingAssumption, Counters DEF Fault, Rest, TypeInv, TypeOK
<1>2. CASE w # v
  <2>1. job'[w] = job[w] /\ made'[w] = made[w]
    BY <1>2 DEF TypeInv, TypeOK
  <2>2. QED
    BY <1>1, <1>2, <2>1, CostBystander, Counters
<1>3. CASE w = v
  <2>1. /\ made'[v] = made[v] + 1 /\ job[v] = "active" /\ One(Dead(v)) = 0
        /\ job'[v] = IF made[v] + 1 < Attempts THEN "waiting" ELSE "failed"
    BY DEF TypeInv, TypeOK, JobInv, One, Dead
  <2>2. job'[v] = "waiting" => One(Dead(v))' = 0
    BY DEF One, Dead
  <2>3. QED
    BY <1>1, <1>3, <2>1, <2>2, Counters, TranscodingAssumption DEF CostFor
<1>4. QED
  BY <1>2, <1>3

LEMMA ProcessKeepsCost ==
  ASSUME TypeInv, NEW v \in Videos, Process(v),
         NEW w \in Videos \ Unreadable, Sound(w), CostFor(w)
  PROVE  CostFor(w)'
<1> USE DEF bounds, storageVars, queueVars
<1>1. CASE RawFileMissing(v) \/ NoVideoStream(v) \/ CannotSerialise(v)
  <2>1. v # w
    BY <1>1 DEF RawFileMissing, NoVideoStream, CannotSerialise, Sound
  <2>2. /\ FailAttempt(v, {}) /\ current = v
        /\ UNCHANGED <<event, stalls, announced, forgotten, faults>>
    BY <1>1 DEF RawFileMissing, NoVideoStream, CannotSerialise, FailAttempt, At
  <2>3. job'[w] = job[w] /\ made'[w] = made[w] /\ current' = NoVideo /\ stage' = "idle"
    BY <2>1, <2>2 DEF FailAttempt, Rest, TypeInv, TypeOK
  <2>4. QED
    BY <2>1, <2>2, <2>3, CostBystander, Counters, TranscodingAssumption
<1>2. CASE \/ Download(v) \/ Transcode(v) \/ UploadManifest(v)
           \/ \E s \in Segments : StartUpload(v, s) \/ FinishUpload(v, s)
  <2>1. /\ UNCHANGED <<event, job, made, stalls, announced, forgotten, current, faults>>
        /\ stage' # "finishing"
    BY <1>2 DEF Download, Transcode, UploadManifest, StartUpload, FinishUpload, At
  <2>2. QED
    BY <2>1, CostBystander, Counters
<1>3. CASE PublishMessage(v)
  <2>1. /\ current = v /\ UNCHANGED <<event, job, made, stalls, forgotten, current, faults>>
        /\ announced'[v] > 0 /\ announced'[w] \in Nat /\ announced[w] <= announced'[w]
    BY <1>3, Counters DEF PublishMessage, Send, At, TypeInv, TypeOK
  <2>2. QED
    BY <2>1, CostBystander, Counters
<1>4. CASE Complete(v)
  <2>1. /\ current = v /\ stage = "finishing" /\ job'[v] = "completed" /\ job[v] = "active"
        /\ current' = NoVideo /\ stage' = "idle" /\ \A u \in Videos \ {v} : job'[u] = job[u]
        /\ UNCHANGED <<event, made, stalls, announced, forgotten, faults>>
    BY <1>4 DEF Complete, Rest, At, TypeInv, TypeOK, JobInv
  <2>2. CASE w # v
    BY <2>1, <2>2, CostBystander, Counters, TranscodingAssumption
  <2>3. CASE w = v
    BY <2>1, <2>3, Counters DEF CostFor
  <2>4. QED
    BY <2>2, <2>3
<1>5. QED
  BY <1>1, <1>2, <1>3, <1>4 DEF Process

LEMMA BreakKeepsCost ==
  ASSUME TypeInv, NEW v \in Videos, Break(v), NEW w \in Videos, CostFor(w)
  PROVE  CostFor(w)'
<1> USE DEF storageVars
<1>1. CASE StepFailed(v)
  BY <1>1, FailedCost DEF StepFailed, FailAttempt
<1>2. CASE PublishFailed(v)
  BY <1>2, FailedCost DEF PublishFailed, Send, At
<1>3. ASSUME NEW s \in Segments, UploadFailed(v, s)
      PROVE  CostFor(w)'
  BY <1>3, FailedCost DEF UploadFailed, FailAttempt, At
<1>4. QED
  BY <1>1, <1>2, <1>3 DEF Break

(* The fault that kills a worker pays for the stall that follows, or for   *)
(* the failure of a job that has stalled too often.                        *)
LEMMA QueueKeepsCost ==
  ASSUME TypeInv, NEW v \in Videos,
         Take(v) \/ Stalled(v) \/ RemoveOnComplete(v) \/ Crash,
         NEW w \in Videos, CostFor(w)
  PROVE  CostFor(w)'
<1> USE DEF bounds, workerVars, storageVars, queueVars
<1>1. CASE Take(v)
  <2>1. /\ job[v] = "waiting" /\ job'[v] = "active" /\ \A u \in Videos \ {v} : job'[u] = job[u]
        /\ current = NoVideo /\ current' = v /\ stage' = "downloading"
        /\ UNCHANGED <<event, made, stalls, announced, forgotten, faults>>
    BY <1>1 DEF Take, TypeInv, TypeOK, JobInv
  <2>2. CASE w # v
    BY <2>1, <2>2, CostBystander, Counters, TranscodingAssumption
  <2>3. CASE w = v
    <3>1. One(Dead(v))' = 0 /\ One(Dead(v)) = 0
      BY <2>1 DEF One, Dead
    <3>2. QED
      BY <2>1, <2>3, <3>1, Counters DEF CostFor
  <2>4. QED
    BY <2>2, <2>3
<1>2. CASE Stalled(v)
  <2>1. /\ job[v] = "active" /\ current # v
        /\ \A u \in Videos \ {v} : job'[u] = job[u] /\ stalls'[u] = stalls[u]
        /\ UNCHANGED <<event, made, announced, forgotten, current, stage, faults>>
        /\ \/ job'[v] = "failed" /\ stalls[v] >= MaxStalls
           \/ job'[v] = "waiting" /\ stalls'[v] = stalls[v] + 1
    BY <1>2 DEF Stalled, StalledTooOften, TypeInv, TypeOK
  <2>2. CASE w # v
    BY <2>1, <2>2, CostBystander, Counters
  <2>3. CASE w = v
    <3>1. One(Dead(v)) = 1 /\ (job'[v] = "waiting" => One(Dead(v))' = 0)
      BY <2>1 DEF One, Dead
    <3>2. QED
      BY <2>1, <2>3, <3>1, Counters, TranscodingAssumption DEF CostFor
  <2>4. QED
    BY <2>2, <2>3
<1>3. CASE RemoveOnComplete(v)
  <2>1. /\ job[v] = "completed" /\ job'[v] = "none" /\ forgotten' = forgotten \cup {v}
        /\ \A u \in Videos \ {v} : job'[u] = job[u]
        /\ UNCHANGED <<event, made, stalls, announced, current, stage, faults>>
    BY <1>3 DEF RemoveOnComplete, TypeInv, TypeOK
  <2>2. CASE w # v
    BY <2>1, <2>2, CostBystander, Counters
  <2>3. CASE w = v
    BY <2>1, <2>3, Counters DEF CostFor
  <2>4. QED
    BY <2>2, <2>3
<1>4. CASE Crash
  <2>1. /\ UNCHANGED <<event, job, made, stalls, announced, forgotten>>
        /\ faults' = faults + 1 /\ current' = NoVideo /\ stage' = "idle"
    BY <1>4 DEF Crash, Fault, Rest
  <2>2. CASE w # current
    BY <2>1, <2>2, CostBystander, Counters, TranscodingAssumption
  <2>3. CASE w = current
    <3>1. One(Dead(w)) = 0 /\ One(Dead(w))' \in 0..1
      BY <2>3 DEF One, Dead
    <3>2. job[w] = "active"
      BY <2>3 DEF TypeInv, JobInv
    <3>3. QED
      BY <2>1, <2>3, <3>1, <3>2, Counters, TranscodingAssumption DEF CostFor
  <2>4. QED
    BY <2>2, <2>3
<1>5. QED
  BY <1>1, <1>2, <1>3, <1>4

LEMMA NextCost == TypeInv /\ CostInv /\ [Next]_vars => CostInv'
<1> SUFFICES ASSUME TypeInv, [Next]_vars,
                    NEW w \in Videos \ Unreadable, Sound(w), CostFor(w)
             PROVE  CostFor(w)'
  BY SameBuild DEF CostInv
<1> USE DEF bounds, workerVars, queueVars
<1>1. ASSUME UNCHANGED <<event, queueVars, current, stage, announced, forgotten, bounds>>
      PROVE  CostFor(w)'
  BY <1>1, CostBystander, Counters
<1>2. ASSUME NEW v \in Videos, NEW s \in Segments, OrphanEnds(v, s)
      PROVE  CostFor(w)'
  BY <1>1, <1>2 DEF OrphanEnds
<1>3. CASE UNCHANGED vars
  BY <1>1, <1>3 DEF vars
<1>4. CASE Crash
  BY <1>4, QueueKeepsCost
<1>5. QED
  BY <1>2, <1>3, <1>4, EnqueueKeepsCost, ProcessKeepsCost, BreakKeepsCost, QueueKeepsCost DEF Next

(* The queue keeps its promise in the mended code: a verified video that   *)
(* can be read is announced or still being worked on, unless as many       *)
(* faults as a job has attempts, or more than it may stall, came about.    *)
THEOREM SilenceNeedsFaults == Spec => []SilentOnlyByFault
<1>1. TypeInv /\ CostInv => SilentOnlyByFault
  BY DEF TypeInv, TypeOK, CostInv, CostFor, Sound, SilentOnlyByFault
<1>2. QED
  BY <1>1, InitType, NextType, InitCost, NextCost, PTL DEF Spec
=============================================================================
