--------------------------- MODULE VideoLifecycle ---------------------------
(***************************************************************************)
(* The videos service.  A draft is saved, URLs for its video and thumbnail *)
(* are signed, and only then is the draft announced; the client uploads to *)
(* S3 and asks for a verification, which looks at S3, reads the row,       *)
(* completes the upload in memory and writes the row back.  Updates of the *)
(* title and other details read and write the same row, its state          *)
(* included, so that a slow update takes a verified video back.            *)
(*                                                                         *)
(* The handlers are modelled as their constructors compose them.           *)
(***************************************************************************)
EXTENDS Naturals

CONSTANTS
  Videos,       \* the ids that SaveDraft commands generate
  Commands,     \* the calls of UpdateVideo and VerifyUploadedMedia
  KindOf,       \* which of the two each is
  VideoOf,      \* the id it gives
  Invalid,      \* the updates whose values fail validation
  Drafted,      \* who supplied the details of a draft
  MaxRetries,   \* of the database handler
  MaxFaults     \* bound: crashes and failed calls

Kinds == {"update", "verify"}

ASSUME VideoLifecycleAssumption ==
  /\ Drafted \notin Commands
  /\ KindOf \in [Commands -> Kinds]
  /\ VideoOf \in [Commands -> Videos]
  /\ MaxRetries \in Nat /\ MaxFaults \in Nat

VARIABLES
  draft,     \* where the SaveDraft command of each video is
  phase,     \* where each other command is, or how it ended
  rows,      \* the Video table
  copy,      \* the row as each command has changed it in memory
  saves,     \* failed attempts of each insert
  tries,     \* failed attempts of each update
  objects,   \* what clients have uploaded to S3
  outbox,    \* drafts whose event commit() has handed to its handler
  topic,     \* drafts announced on the topic 'videos'
  before,    \* history: <<c, d>> if c had ended when d read its video
  faults     \* bound: faults so far

draftVars == <<draft, saves>>
commandVars == <<phase, copy, tries, before>>
eventVars == <<outbox, topic>>
vars == <<draftVars, commandVars, eventVars, rows, objects, faults>>

(* details: the command that supplied the details an update changes.       *)
(* media: whether the two file identifiers are set.                        *)
Row == [state : {"none", "DRAFT", "PROCESSING"}, media : BOOLEAN,
        details : Commands \cup {Drafted}]
NoRow == [state |-> "none", media |-> FALSE, details |-> Drafted]

Files == {"video", "thumbnail"}
Fault == faults < MaxFaults /\ faults' = faults + 1

TypeOK ==
  /\ draft \in [Videos -> {"new", "signing", "answered", "failed"}]
  /\ phase \in [Commands -> {"new", "checked", "updating", "answered", "failed", "refused"}]
  /\ rows \in [Videos -> Row]
  /\ copy \in [Commands -> Row]
  /\ saves \in [Videos -> 0..MaxRetries]
  /\ tries \in [Commands -> 0..MaxRetries]
  /\ objects \subseteq Videos \X Files
  /\ outbox \subseteq Videos /\ topic \subseteq Videos
  /\ before \subseteq Commands \X Commands
  /\ faults \in 0..MaxFaults

Init ==
  /\ draft = [v \in Videos |-> "new"]
  /\ phase = [c \in Commands |-> "new"]
  /\ rows = [v \in Videos |-> NoRow]
  /\ copy = [c \in Commands |-> NoRow]
  /\ saves = [v \in Videos |-> 0]
  /\ tries = [c \in Commands |-> 0]
  /\ objects = {} /\ outbox = {} /\ topic = {} /\ before = {}
  /\ faults = 0

-----------------------------------------------------------------------------
(* SaveDraft: the insert, the two URLs, commit() and the answer.           *)
Saved(v) == rows[v].state # "none"

CreateFromDraft == [state |-> "DRAFT", media |-> FALSE, details |-> Drafted]

InsertVideo(v) == rows' = [rows EXCEPT ![v] = CreateFromDraft]

SaveVideo(v) ==
  /\ draft[v] = "new" /\ ~Saved(v)
  /\ InsertVideo(v)
  /\ draft' = [draft EXCEPT ![v] = "signing"]
  /\ UNCHANGED <<saves, commandVars, eventVars, objects, faults>>

(* An insert whose answer is an error may have been committed.             *)
SaveMaybe(v) == UNCHANGED rows \/ InsertVideo(v)

SaveRetried(v) ==
  /\ draft[v] = "new" /\ ~Saved(v) /\ saves[v] < MaxRetries
  /\ Fault
  /\ SaveMaybe(v)
  /\ saves' = [saves EXCEPT ![v] = @ + 1]
  /\ UNCHANGED <<draft, commandVars, eventVars, objects>>

SaveFailed(v) ==
  /\ draft[v] = "new" /\ ~Saved(v)
  /\ Fault
  /\ SaveMaybe(v)
  /\ draft' = [draft EXCEPT ![v] = "failed"]
  /\ UNCHANGED <<saves, commandVars, eventVars, objects>>

(* The retry finds the id taken by the row of its own first attempt.       *)
AlreadySaved(v) ==
  /\ draft[v] = "new" /\ Saved(v)
  /\ draft' = [draft EXCEPT ![v] = "failed"]
  /\ UNCHANGED <<saves, commandVars, eventVars, rows, objects, faults>>

(* The URLs are signed and the aggregate is not committed.                 *)
BugNoCommit(v) ==
  /\ draft[v] = "signing"
  /\ draft' = [draft EXCEPT ![v] = "answered"]
  /\ UNCHANGED <<saves, commandVars, eventVars, rows, objects, faults>>

Sign(v) ==
  /\ draft[v] = "signing"
  /\ draft' = [draft EXCEPT ![v] = "answered"]
  /\ outbox' = outbox \cup {v}
  /\ UNCHANGED <<saves, commandVars, topic, rows, objects, faults>>

(* The credentials for signing cannot be had.                              *)
SignFailed(v) ==
  /\ draft[v] = "signing"
  /\ Fault
  /\ draft' = [draft EXCEPT ![v] = "failed"]
  /\ UNCHANGED <<saves, commandVars, eventVars, rows, objects>>

(* The client puts a file at the URL it was given.                         *)
Upload(v, f) ==
  /\ draft[v] = "answered" /\ <<v, f>> \notin objects
  /\ objects' = objects \cup {<<v, f>>}
  /\ UNCHANGED <<draftVars, commandVars, eventVars, rows, faults>>

-----------------------------------------------------------------------------
(* Only the video is looked for.                                           *)
BugOnlyVideo(v) == <<v, "video">> \in objects

Exists(v) == \A f \in Files : <<v, f>> \in objects

VerifyRawMedia(c) ==
  /\ KindOf[c] = "verify" /\ phase[c] = "new"
  /\ Exists(VideoOf[c])
  /\ phase' = [phase EXCEPT ![c] = "checked"]
  /\ UNCHANGED <<draftVars, copy, tries, before, eventVars, rows, objects, faults>>

(* HeadObject throws: the command fails, it does not answer uploaded:      *)
(* false.                                                                  *)
MediaMissing(c) ==
  /\ KindOf[c] = "verify" /\ phase[c] = "new"
  /\ ~Exists(VideoOf[c])
  /\ phase' = [phase EXCEPT ![c] = "refused"]
  /\ UNCHANGED <<draftVars, copy, tries, before, eventVars, rows, objects, faults>>

CheckFailed(c) ==
  /\ KindOf[c] = "verify" /\ phase[c] = "new"
  /\ Fault
  /\ phase' = [phase EXCEPT ![c] = "refused"]
  /\ UNCHANGED <<draftVars, copy, tries, before, eventVars, rows, objects>>

-----------------------------------------------------------------------------
(* What a command makes of the row it read.                                *)

(* The aggregate is built as a new draft instead of from the snapshot.     *)
BugFromDraft(c, r) == [CreateFromDraft EXCEPT !.details = c]

(* updateDetails; an update is taken to supply every field.                *)
UpdateDetails(c, r) == [state |-> r.state, media |-> r.media, details |-> c]

CompleteUpload(r) == [state |-> "PROCESSING", media |-> TRUE, details |-> r.details]

Changed(c, r) == IF KindOf[c] = "verify" THEN CompleteUpload(r) ELSE UpdateDetails(c, r)

BugCompleteAgain(r) == TRUE

(* Only a draft can complete its upload.                                   *)
EnsureState(r) == r.state = "DRAFT"

Ready(c) == phase[c] = (IF KindOf[c] = "verify" THEN "checked" ELSE "new")

Accepts(c) ==
  /\ Saved(VideoOf[c])
  /\ c \notin Invalid
  /\ KindOf[c] = "verify" => EnsureState(rows[VideoOf[c]])

Ended(c) == phase[c] \in {"answered", "failed"}

(* The video is found and changed in memory.                               *)
FindAndChange(c) ==
  /\ Ready(c) /\ Accepts(c)
  /\ copy' = [copy EXCEPT ![c] = Changed(c, rows[VideoOf[c]])]
  /\ before' = before \cup {<<d, c>> : d \in {e \in Commands : Ended(e)}}
  /\ phase' = [phase EXCEPT ![c] = "updating"]
  /\ UNCHANGED <<draftVars, tries, eventVars, rows, objects, faults>>

(* There is no such video, a value object refuses a value, or the video is *)
(* no longer a draft.                                                      *)
Refuse(c) ==
  /\ Ready(c) /\ ~Accepts(c)
  /\ phase' = [phase EXCEPT ![c] = "refused"]
  /\ UNCHANGED <<draftVars, copy, tries, before, eventVars, rows, objects, faults>>

FindFailed(c) ==
  /\ Ready(c)
  /\ Fault
  /\ phase' = [phase EXCEPT ![c] = "refused"]
  /\ UNCHANGED <<draftVars, copy, tries, before, eventVars, rows, objects>>

(* Every column the update lists; an identifier that is not set is         *)
(* undefined, and Prisma leaves an undefined column as it is.              *)
Written(c) == [copy[c] EXCEPT !.media = @ \/ rows[VideoOf[c]].media]

UpdateOneVideoById(c) == rows' = [rows EXCEPT ![VideoOf[c]] = Written(c)]

Update(c) ==
  /\ phase[c] = "updating"
  /\ UpdateOneVideoById(c)
  /\ phase' = [phase EXCEPT ![c] = "answered"]
  /\ UNCHANGED <<draftVars, copy, tries, before, eventVars, objects, faults>>

UpdateMaybe(c) == UNCHANGED rows \/ UpdateOneVideoById(c)

(* The handler has given up, and its retries go on behind it.              *)
BugRetriesGoOn(c) ==
  /\ phase[c] \in {"updating", "failed"} /\ tries[c] < MaxRetries
  /\ Fault
  /\ UpdateMaybe(c)
  /\ tries' = [tries EXCEPT ![c] = @ + 1]
  /\ UNCHANGED <<draftVars, phase, copy, before, eventVars, objects>>

UpdateRetried(c) ==
  /\ phase[c] = "updating" /\ tries[c] < MaxRetries
  /\ Fault
  /\ UpdateMaybe(c)
  /\ tries' = [tries EXCEPT ![c] = @ + 1]
  /\ UNCHANGED <<draftVars, phase, copy, before, eventVars, objects>>

UpdateFailed(c) ==
  /\ phase[c] = "updating"
  /\ Fault
  /\ UpdateMaybe(c)
  /\ phase' = [phase EXCEPT ![c] = "failed"]
  /\ UNCHANGED <<draftVars, copy, tries, before, eventVars, objects>>

-----------------------------------------------------------------------------
PublishMessage(v) ==
  /\ v \in outbox
  /\ outbox' = outbox \ {v}
  /\ topic' = topic \cup {v}
  /\ UNCHANGED <<draftVars, commandVars, rows, objects, faults>>

PublishFailed(v) ==
  /\ v \in outbox
  /\ Fault
  /\ outbox' = outbox \ {v}
  /\ UNCHANGED <<draftVars, commandVars, topic, rows, objects>>

(* The process dies with its commands and events.  A command that had not  *)
(* read its video yet leaves nothing behind.                               *)
Crash ==
  /\ Fault
  /\ draft' = [v \in Videos |-> IF draft[v] = "signing" \/ (draft[v] = "new" /\ saves[v] > 0)
                                THEN "failed" ELSE draft[v]]
  /\ phase' = [c \in Commands |-> IF phase[c] = "updating" THEN "failed"
                                  ELSE IF phase[c] = "checked" THEN "refused"
                                  ELSE phase[c]]
  /\ outbox' = {}
  /\ UNCHANGED <<saves, copy, tries, before, topic, rows, objects>>

SaveDraft(v) ==
  \/ SaveVideo(v) \/ SaveRetried(v) \/ SaveFailed(v) \/ AlreadySaved(v)
  \/ Sign(v) \/ SignFailed(v)

Verify(c) == VerifyRawMedia(c) \/ MediaMissing(c) \/ CheckFailed(c)

Execute(c) ==
  \/ FindAndChange(c) \/ Refuse(c) \/ FindFailed(c)
  \/ Update(c) \/ UpdateRetried(c) \/ UpdateFailed(c)

Next ==
  \/ \E v \in Videos : SaveDraft(v) \/ PublishMessage(v) \/ PublishFailed(v)
  \/ \E v \in Videos, f \in Files : Upload(v, f)
  \/ \E c \in Commands : Verify(c) \/ Execute(c)
  \/ Crash

Spec == Init /\ [][Next]_vars

-----------------------------------------------------------------------------
Wrote(c) == phase[c] \in {"updating", "answered", "failed"}

Overlapped(c) ==
  \E d \in Commands \ {c} :
    /\ Wrote(d) /\ VideoOf[d] = VideoOf[c]
    /\ <<c, d>> \notin before /\ <<d, c>> \notin before

(* A video that is being processed, or whose files are set, has both files *)
(* in S3, although they are looked at long before the row is written and   *)
(* updates write the row in between.                                       *)
ProcessingIsUploaded ==
  \A v \in Videos :
    /\ rows[v].media => {v} \X Files \subseteq objects
    /\ rows[v].state = "PROCESSING" => rows[v].media

Survives(c, r) ==
  IF KindOf[c] = "verify"
  THEN r.state = "PROCESSING" /\ r.media
  ELSE r.details \in {c} \cup {d \in Commands : <<c, d>> \in before /\ KindOf[d] = "update"}

(* An answered command is taken back only by one that ran at the same      *)
(* time: a verified video stays in processing and an update stays until    *)
(* the next one, whatever fails or is retried before or after.             *)
KeptUnlessOverlapped ==
  \A c \in Commands :
    phase[c] = "answered" /\ ~Overlapped(c) => Survives(c, rows[VideoOf[c]])

(* A video in the table changes only under a command that is between its   *)
(* find and its update, and a command that has not overlapped another one  *)
(* of the video changes it exactly as if it found, changed and wrote in    *)
(* one step: the state and the files it writes were never stale.           *)
SerialUnlessOverlapped ==
  [][\A v \in Videos : Saved(v) /\ rows'[v] # rows[v] =>
       \E c \in Commands :
         /\ VideoOf[c] = v /\ phase[c] = "updating"
         /\ Overlapped(c) \/ rows'[v] = Changed(c, rows[v])]_vars

(* An upload is completed a second time only because an update that ran    *)
(* together with the first verification wrote the draft state back, or the *)
(* two verifications ran together.                                         *)
VerifiedOnce ==
  \A c, d \in Commands :
    /\ c # d /\ KindOf[c] = "verify" /\ KindOf[d] = "verify" /\ VideoOf[c] = VideoOf[d]
    /\ phase[c] = "answered" /\ phase[d] = "answered"
    => Overlapped(c) \/ Overlapped(d)

(* Without a fault every draft in the table is announced, or on its way:   *)
(* its command is signing or its event is being published.  (Saving comes  *)
(* first and announcing last, with two calls between them.)                *)
DraftsLostOnlyByFault ==
  faults = 0 =>
    \A v \in Videos : Saved(v) => draft[v] = "signing" \/ v \in outbox \cup topic
=============================================================================
