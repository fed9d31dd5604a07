------------------------ MODULE VideoLifecycle_proofs ------------------------
(***************************************************************************)
(* Proofs about drafts, verifications and updates, for any number of       *)
(* videos, commands, retries and faults.                                   *)
(***************************************************************************)
EXTENDS VideoLifecycle, TLAPS

LEMMA ChangedIs ==
  ASSUME NEW c \in Commands, NEW r \in Row
  PROVE  /\ Changed(c, r) \in Row
         /\ KindOf[c] = "verify" =>
              /\ Changed(c, r).state = "PROCESSING" /\ Changed(c, r).media
              /\ Changed(c, r).details = r.details
         /\ KindOf[c] # "verify" =>
              /\ Changed(c, r).state = r.state /\ Changed(c, r).media = r.media
              /\ Changed(c, r).details = c
BY DEF Changed, CompleteUpload, UpdateDetails, Row

LEMMA WrittenIs ==
  ASSUME TypeOK, NEW c \in Commands
  PROVE  /\ Written(c) \in Row
         /\ Written(c).state = copy[c].state /\ Written(c).details = copy[c].details
         /\ Written(c).media <=> copy[c].media \/ rows[VideoOf[c]].media
<1>1. VideoOf[c] \in Videos
  BY VideoLifecycleAssumption
<1>2. copy[c] \in Row /\ rows[VideoOf[c]] \in Row
  BY <1>1 DEF TypeOK
<1>3. QED
  BY <1>2 DEF Written, Row

LEMMA FaultType ==
  ASSUME TypeOK, Fault
  PROVE  faults' \in 0..MaxFaults
BY VideoLifecycleAssumption DEF TypeOK, Fault

LEMMA InitType == Init => TypeOK
BY VideoLifecycleAssumption DEF Init, TypeOK, Row, NoRow

LEMMA InsertType ==
  ASSUME TypeOK, NEW v \in Videos, InsertVideo(v)
  PROVE  rows' \in [Videos -> Row]
BY DEF TypeOK, InsertVideo, CreateFromDraft, Row

LEMMA UpdateType ==
  ASSUME TypeOK, NEW c \in Commands, UpdateOneVideoById(c)
  PROVE  rows' \in [Videos -> Row]
BY WrittenIs DEF TypeOK, UpdateOneVideoById

LEMMA NextType == TypeOK /\ [Next]_vars => TypeOK'
<1> SUFFICES ASSUME TypeOK, [Next]_vars
             PROVE  TypeOK'
  OBVIOUS
<1> USE VideoLifecycleAssumption DEF draftVars, commandVars, eventVars
<1>1. ASSUME NEW v \in Videos, SaveDraft(v)
      PROVE  TypeOK'
  <2>1. CASE SaveVideo(v)
    BY <2>1, InsertType DEF TypeOK, SaveVideo
  <2>2. CASE SaveRetried(v)
    <3>1. rows' \in [Videos -> Row]
      BY <2>2, InsertType DEF TypeOK, SaveRetried, SaveMaybe
    <3>2. saves' \in [Videos -> 0..MaxRetries]
      BY <2>2 DEF TypeOK, SaveRetried
    <3>3. QED
      BY <2>2, <3>1, <3>2, FaultType DEF TypeOK, SaveRetried
  <2>3. CASE SaveFailed(v)
    <3>1. rows' \in [Videos -> Row]
      BY <2>3, InsertType DEF TypeOK, SaveFailed, SaveMaybe
    <3>2. QED
      BY <2>3, <3>1, FaultType DEF TypeOK, SaveFailed
  <2>4. CASE AlreadySaved(v)
    BY <2>4 DEF TypeOK, AlreadySaved
  <2>5. CASE Sign(v)
    BY <2>5 DEF TypeOK, Sign
  <2>6. CASE SignFailed(v)
    BY <2>6, FaultType DEF TypeOK, SignFailed
  <2>7. QED
    BY <1>1, <2>1, <2>2, <2>3, <2>4, <2>5, <2>6 DEF SaveDraft
<1>2. ASSUME NEW v \in Videos, PublishMessage(v) \/ PublishFailed(v)
      PROVE  TypeOK'
  BY <1>2, FaultType DEF TypeOK, PublishMessage, PublishFailed
<1>3. ASSUME NEW v \in Videos, NEW f \in Files, Upload(v, f)
      PROVE  TypeOK'
  BY <1>3 DEF TypeOK, Upload
<1>4. ASSUME NEW c \in Commands, Verify(c)
      PROVE  TypeOK'
  BY <1>4, FaultType DEF TypeOK, Verify, VerifyRawMedia, MediaMissing, CheckFailed
<1>5. ASSUME NEW c \in Commands, Execute(c)
      PROVE  TypeOK'
  <2>1. CASE FindAndChange(c)
    <3>1. Changed(c, rows[VideoOf[c]]) \in Row
      BY ChangedIs DEF TypeOK
    <3>2. QED
      BY <2>1, <3>1 DEF TypeOK, FindAndChange
  <2>2. CASE Refuse(c) \/ FindFailed(c)
    BY <2>2, FaultType DEF TypeOK, Refuse, FindFailed
  <2>3. CASE Update(c)
    BY <2>3, UpdateType DEF TypeOK, Update
  <2>4. CASE UpdateRetried(c)
    <3>1. rows' \in [Videos -> Row]
      BY <2>4, UpdateType DEF TypeOK, UpdateRetried, UpdateMaybe
    <3>2. tries' \in [Commands -> 0..MaxRetries]
      BY <2>4 DEF TypeOK, UpdateRetried
    <3>3. QED
      BY <2>4, <3>1, <3>2, FaultType DEF TypeOK, UpdateRetried
  <2>5. CASE UpdateFailed(c)
    <3>1. rows' \in [Videos -> Row]
      BY <2>5, UpdateType DEF TypeOK, UpdateFailed, UpdateMaybe
    <3>2. QED
      BY <2>5, <3>1, FaultType DEF TypeOK, UpdateFailed
  <2>6. QED
    BY <1>5, <2>1, <2>2, <2>3, <2>4, <2>5 DEF Execute
<1>6. CASE Crash
  BY <1>6, FaultType DEF TypeOK, Crash
<1>7. CASE UNCHANGED vars
  BY <1>7 DEF TypeOK, vars
<1>8. QED
  BY <1>1, <1>2, <1>3, <1>4, <1>5, <1>6, <1>7 DEF Next

(* Every variable keeps its type; no insert and no update is retried more  *)
(* than MaxRetries times.                                                  *)
THEOREM TypeCorrect == Spec => []TypeOK
BY InitType, NextType, PTL DEF Spec

-----------------------------------------------------------------------------
(* What a step other than FindAndChange does to the rows: nothing, or it   *)
(* inserts a draft that is not there, or it writes the row of a command    *)
(* that is updating.                                                       *)
RowsKept == rows' = rows /\ \A c \in Commands : phase'[c] = "answered" <=> phase[c] = "answered"

RowInserted(v) ==
  /\ ~Saved(v) /\ rows' = [rows EXCEPT ![v] = CreateFromDraft]
  /\ \A c \in Commands : phase'[c] = "answered" <=> phase[c] = "answered"

RowWritten(d) ==
  /\ phase[d] = "updating" /\ rows' = [rows EXCEPT ![VideoOf[d]] = Written(d)]
  /\ \A c \in Commands \ {d} : phase'[c] = "answered" <=> phase[c] = "answered"

CommandsGoOn ==
  /\ UNCHANGED <<copy, before>>
  /\ \A d \in Commands : (Wrote(d)' <=> Wrote(d)) /\ (Ended(d) => Ended(d)')
  /\ \A d \in Commands : phase'[d] = "updating" => phase[d] = "updating"

LEMMA OtherSteps ==
  ASSUME TypeOK, [Next]_vars, ~\E d \in Commands : FindAndChange(d)
  PROVE  /\ CommandsGoOn
         /\ objects \subseteq objects'
         /\ RowsKept \/ (\E v \in Videos : RowInserted(v)) \/ (\E d \in Commands : RowWritten(d))
<1> USE DEF Wrote, Ended, draftVars, commandVars, eventVars
<1>1. ASSUME NEW v \in Videos, SaveDraft(v)
      PROVE  CommandsGoOn /\ objects' = objects /\ (RowsKept \/ RowInserted(v))
  BY <1>1 DEF SaveDraft, SaveVideo, SaveRetried, SaveFailed, AlreadySaved, Sign, SignFailed,
              SaveMaybe, InsertVideo, CommandsGoOn, RowsKept, RowInserted
<1>2. ASSUME NEW v \in Videos, PublishMessage(v) \/ PublishFailed(v)
      PROVE  CommandsGoOn /\ objects' = objects /\ RowsKept
  BY <1>2 DEF PublishMessage, PublishFailed, CommandsGoOn, RowsKept
<1>3. ASSUME NEW v \in Videos, NEW f \in Files, Upload(v, f)
      PROVE  CommandsGoOn /\ objects \subseteq objects' /\ RowsKept
  BY <1>3 DEF Upload, CommandsGoOn, RowsKept
<1>4. ASSUME NEW c \in Commands, Verify(c)
      PROVE  CommandsGoOn /\ objects' = objects /\ RowsKept
  BY <1>4 DEF TypeOK, Verify, VerifyRawMedia, MediaMissing, CheckFailed, CommandsGoOn, RowsKept
<1>5. ASSUME NEW c \in Commands, Execute(c), ~FindAndChange(c)
      PROVE  CommandsGoOn /\ objects' = objects /\ (RowsKept \/ RowWritten(c))
  <2>1. CASE Refuse(c) \/ FindFailed(c)
    <3>1. phase[c] \in {"new", "checked"}
      BY <2>1 DEF Refuse, FindFailed, Ready
    <3>2. QED
      BY <2>1, <3>1 DEF TypeOK, Refuse, FindFailed, CommandsGoOn, RowsKept
  <2>2. CASE Update(c)
    BY <2>2 DEF TypeOK, Update, UpdateOneVideoById, CommandsGoOn, RowWritten
  <2>3. CASE UpdateRetried(c) \/ UpdateFailed(c)
    BY <2>3 DEF TypeOK, UpdateRetried, UpdateFailed, UpdateMaybe, UpdateOneVideoById,
                CommandsGoOn, RowsKept, RowWritten
  <2>4. QED
    BY <1>5, <2>1, <2>2, <2>3 DEF Execute
<1>6. CASE Crash
  BY <1>6 DEF TypeOK, Crash, CommandsGoOn, RowsKept
<1>7. CASE UNCHANGED vars
  BY <1>7 DEF vars, CommandsGoOn, RowsKept
<1>8. QED
  BY <1>1, <1>2, <1>3, <1>4, <1>5, <1>6, <1>7 DEF Next

(* And what FindAndChange does.                                            *)
LEMMA FindShape ==
  ASSUME TypeOK, NEW d \in Commands, FindAndChange(d)
  PROVE  /\ VideoOf[d] \in Videos /\ rows[VideoOf[d]] \in Row /\ Accepts(d)
         /\ copy' = [copy EXCEPT ![d] = Changed(d, rows[VideoOf[d]])]
         /\ copy'[d] = Changed(d, rows[VideoOf[d]]) /\ copy'[d] \in Row
         /\ ~Wrote(d) /\ phase[d] # "answered"
         /\ phase' = [phase EXCEPT ![d] = "updating"]
         /\ before' = before \cup {<<e, d>> : e \in {x \in Commands : Ended(x)}}
         /\ UNCHANGED <<rows, objects, draft, outbox, topic, faults>>
         /\ \A c \in Commands : (Wrote(c)' <=> Wrote(c) \/ c = d) /\ (Ended(c)' <=> Ended(c))
         /\ \A c \in Commands : phase'[c] = "updating" <=> phase[c] = "updating" \/ c = d
         /\ \A c \in Commands : phase'[c] = "answered" <=> phase[c] = "answered"
<1>1. phase[d] \in {"new", "checked"}
  BY DEF FindAndChange, Ready
<1>2. VideoOf[d] \in Videos /\ rows[VideoOf[d]] \in Row
  BY VideoLifecycleAssumption DEF TypeOK
<1>3. Changed(d, rows[VideoOf[d]]) \in Row
  BY <1>2, ChangedIs
<1>4. QED
  BY <1>1, <1>2, <1>3 DEF TypeOK, FindAndChange, draftVars, eventVars, Wrote, Ended

-----------------------------------------------------------------------------
(* A row, in the table or in memory, whose files are set has its files in  *)
(* S3, and a command that is to complete an upload has seen them.          *)
GoodRow(v, r) ==
  /\ r.media => {v} \X Files \subseteq objects
  /\ r.state = "PROCESSING" => r.media

UploadInv ==
  /\ \A v \in Videos : GoodRow(v, rows[v])
  /\ \A c \in Commands : GoodRow(VideoOf[c], copy[c])
  /\ \A c \in Commands : phase[c] = "checked" => Exists(VideoOf[c])

LEMMA InitUpload == Init => UploadInv
BY DEF Init, UploadInv, GoodRow, NoRow

LEMMA ObjectsStay ==
  ASSUME TypeOK, [Next]_vars
  PROVE  objects \subseteq objects'
<1>1. CASE \E d \in Commands : FindAndChange(d)
  BY <1>1, FindShape
<1>2. QED
  BY <1>1, OtherSteps

LEMMA NextUpload == TypeOK /\ UploadInv /\ [Next]_vars => UploadInv'
<1> SUFFICES ASSUME TypeOK, UploadInv, [Next]_vars
             PROVE  UploadInv'
  OBVIOUS
<1>1. ASSUME NEW v, NEW r, GoodRow(v, r)
      PROVE  GoodRow(v, r)'
  BY <1>1, ObjectsStay DEF GoodRow
<1>2. ASSUME NEW c \in Commands, phase'[c] = "checked"
      PROVE  Exists(VideoOf[c])'
  <2>1. phase[c] = "checked" \/ Exists(VideoOf[c])
    <3>1. ASSUME NEW d \in Commands, FindAndChange(d)
          PROVE  phase[c] = "checked"
      BY <1>2, <3>1, FindShape DEF TypeOK
    <3>2. ASSUME NEW d \in Commands, Verify(d)
          PROVE  phase[c] = "checked" \/ Exists(VideoOf[c])
      BY <1>2, <3>2 DEF TypeOK, Verify, VerifyRawMedia, MediaMissing, CheckFailed
    <3>3. ASSUME NEW d \in Commands, Execute(d), ~FindAndChange(d)
          PROVE  phase[c] = "checked"
      BY <1>2, <3>3 DEF TypeOK, Execute, Refuse, FindFailed, Update, UpdateRetried, UpdateFailed
    <3>4. ASSUME NEW v \in Videos,
                 \/ SaveDraft(v) \/ PublishMessage(v) \/ PublishFailed(v)
                 \/ \E f \in Files : Upload(v, f)
          PROVE  phase' = phase
      BY <3>4 DEF SaveDraft, SaveVideo, SaveRetried, SaveFailed, AlreadySaved, Sign, SignFailed,
                  PublishMessage, PublishFailed, Upload, commandVars
    <3>5. CASE Crash \/ UNCHANGED vars
      BY <1>2, <3>5 DEF TypeOK, Crash, vars, commandVars
    <3>6. QED
      BY <1>2, <3>1, <3>2, <3>3, <3>4, <3>5 DEF Next
  <2>2. Exists(VideoOf[c])
    BY <2>1 DEF UploadInv
  <2>3. QED
    BY <2>2, ObjectsStay DEF Exists
<1>3. ASSUME NEW d \in Commands, FindAndChange(d)
      PROVE  UploadInv'
  <2> DEFINE r == rows[VideoOf[d]]
  <2>1. GoodRow(VideoOf[d], Changed(d, r))
    <3>1. VideoOf[d] \in Videos /\ r \in Row /\ GoodRow(VideoOf[d], r)
      BY <1>3, FindShape DEF UploadInv
    <3>2. CASE KindOf[d] = "verify"
      <4>1. Exists(VideoOf[d])
        BY <1>3, <3>2 DEF FindAndChange, Ready, UploadInv
      <4>2. {VideoOf[d]} \X Files \subseteq objects
        BY <4>1 DEF Exists
      <4>3. QED
        BY <3>1, <3>2, <4>2, ChangedIs DEF GoodRow
    <3>3. CASE KindOf[d] # "verify"
      BY <3>1, <3>3, ChangedIs DEF GoodRow
    <3>4. QED
      BY <3>2, <3>3
  <2>2. \A c \in Commands : GoodRow(VideoOf[c], copy'[c])
    BY <1>3, <2>1, FindShape DEF UploadInv, TypeOK
  <2>3. \A v \in Videos : GoodRow(v, rows'[v])
    BY <1>3, FindShape DEF UploadInv
  <2>4. QED
    BY <1>2, <1>3, <2>2, <2>3, FindShape DEF UploadInv, GoodRow
<1>4. CASE ~\E d \in Commands : FindAndChange(d)
  <2>1. \A c \in Commands : GoodRow(VideoOf[c], copy[c])'
    BY <1>1, <1>4, OtherSteps DEF UploadInv, CommandsGoOn, GoodRow
  <2>2. ASSUME NEW v \in Videos
        PROVE  GoodRow(v, rows'[v])
    <3>1. CASE RowsKept
      BY <3>1 DEF UploadInv, RowsKept
    <3>2. ASSUME NEW w \in Videos, RowInserted(w)
          PROVE  GoodRow(v, rows'[v])
      <4>1. GoodRow(w, CreateFromDraft)
        BY DEF GoodRow, CreateFromDraft
      <4>2. QED
        BY <3>2, <4>1 DEF UploadInv, RowInserted, TypeOK
    <3>3. ASSUME NEW d \in Commands, RowWritten(d)
          PROVE  GoodRow(v, rows'[v])
      <4>1. GoodRow(VideoOf[d], Written(d))
        <5>1. VideoOf[d] \in Videos
          BY VideoLifecycleAssumption
        <5>2. GoodRow(VideoOf[d], copy[d]) /\ GoodRow(VideoOf[d], rows[VideoOf[d]])
          BY <5>1 DEF UploadInv
        <5>3. QED
          BY <5>2, WrittenIs DEF GoodRow
      <4>2. QED
        BY <3>3, <4>1 DEF UploadInv, RowWritten, TypeOK
    <3>4. QED
      BY <1>4, <3>1, <3>2, <3>3, OtherSteps
  <2>3. \A v \in Videos : GoodRow(v, rows[v])'
    BY <2>2, ObjectsStay DEF GoodRow
  <2>4. QED
    BY <1>2, <2>1, <2>3 DEF UploadInv
<1>5. QED
  BY <1>3, <1>4

(* A video in processing has both files in S3, however verifications,      *)
(* updates and their retries interleave between the HeadObject calls of    *)
(* verifyRawMedia and the write of the row.                                *)
THEOREM ProcessingHasFiles == Spec => []ProcessingIsUploaded
<1>1. UploadInv => ProcessingIsUploaded
  BY DEF UploadInv, GoodRow, ProcessingIsUploaded
<1>2. QED
  BY <1>1, InitType, NextType, InitUpload, NextUpload, PTL DEF Spec

-----------------------------------------------------------------------------
(* before orders intervals; a command that has read its video read one     *)
(* that is in the table, and its copy has what it is to write.             *)
HasItsOwn(c, r) ==
  /\ r.state # "none"
  /\ KindOf[c] = "verify" => r.state = "PROCESSING" /\ r.media
  /\ KindOf[c] # "verify" => r.details = c

OrderInv ==
  /\ \A c, d \in Commands : <<c, d>> \in before => Ended(c) /\ Wrote(d)
  /\ \A c \in Commands : Wrote(c) => Saved(VideoOf[c]) /\ HasItsOwn(c, copy[c])

(* A command that is about to write has seen every command that is         *)
(* answered and was alone.                                                 *)
Settled(c) == phase[c] = "answered" /\ ~Overlapped(c)

CopiesKeep ==
  \A c, d \in Commands :
    Settled(c) /\ phase[d] = "updating" /\ VideoOf[d] = VideoOf[c] => Survives(c, copy[d])

(* Nobody completes an upload after a verification that was alone.         *)
NoneFollows ==
  \A c, d \in Commands :
    /\ c # d /\ KindOf[c] = "verify" /\ KindOf[d] = "verify" /\ VideoOf[c] = VideoOf[d]
    /\ <<c, d>> \in before /\ phase[c] = "answered"
    => Overlapped(c)

KeptInv == OrderInv /\ CopiesKeep /\ KeptUnlessOverlapped /\ NoneFollows

LEMMA InitKept == Init => KeptInv
BY DEF Init, KeptInv, OrderInv, CopiesKeep, KeptUnlessOverlapped, NoneFollows, Settled, Wrote

LEMMA FindKeeps ==
  ASSUME TypeOK, KeptInv, NEW d \in Commands, FindAndChange(d)
  PROVE  KeptInv'
<1> DEFINE r == rows[VideoOf[d]]
<1>1. /\ Saved(VideoOf[d]) /\ r.state # "none"
      /\ KindOf[d] = "verify" => r.state = "DRAFT"
  BY FindShape DEF Accepts, EnsureState, Saved
<1>2. /\ KindOf[d] = "verify" =>
           copy'[d].state = "PROCESSING" /\ copy'[d].media /\ copy'[d].details = r.details
      /\ KindOf[d] # "verify" =>
           copy'[d].state = r.state /\ copy'[d].media = r.media /\ copy'[d].details = d
  BY FindShape, ChangedIs
<1>3. \A c \in Commands \ {d} : copy'[c] = copy[c]
  BY FindShape DEF TypeOK
<1>4. OrderInv'
  <2>1. ASSUME NEW c \in Commands, NEW e \in Commands, <<c, e>> \in before'
        PROVE  Ended(c)' /\ Wrote(e)'
    BY <2>1, FindShape DEF KeptInv, OrderInv
  <2>2. ASSUME NEW c \in Commands, Wrote(c)'
        PROVE  Saved(VideoOf[c])' /\ HasItsOwn(c, copy[c])'
    <3>1. CASE c = d
      BY <1>1, <1>2, <3>1, FindShape DEF HasItsOwn, Saved
    <3>2. CASE c # d
      BY <1>3, <2>2, <3>2, FindShape DEF KeptInv, OrderInv, Saved
    <3>3. QED
      BY <3>1, <3>2
  <2>3. QED
    BY <2>1, <2>2 DEF OrderInv
<1>5. ASSUME NEW c \in Commands, Wrote(c), Overlapped(c)
      PROVE  Overlapped(c)'
  <2>1. PICK e \in Commands \ {c} : /\ Wrote(e) /\ VideoOf[e] = VideoOf[c]
                                    /\ <<c, e>> \notin before /\ <<e, c>> \notin before
    BY <1>5 DEF Overlapped
  <2>2. c # d /\ e # d /\ Wrote(e)'
    BY <1>5, <2>1, FindShape
  <2>3. <<c, e>> \notin before' /\ <<e, c>> \notin before'
    BY <2>1, <2>2, FindShape
  <2>4. QED
    BY <2>1, <2>2, <2>3 DEF Overlapped
<1>6. ASSUME NEW c \in Commands, Settled(c)'
      PROVE  c # d /\ Settled(c) /\ <<c, d>> \in before'
  <2>1. c # d /\ phase[c] = "answered"
    BY <1>6, FindShape DEF Settled
  <2>2. QED
    BY <1>5, <1>6, <2>1, FindShape DEF Settled, Wrote, Ended
<1>7. ASSUME NEW c \in Commands, NEW s, Survives(c, s)
      PROVE  Survives(c, s)'
  BY <1>7, FindShape DEF Survives
<1>8. CopiesKeep'
  <2> SUFFICES ASSUME NEW c \in Commands, NEW e \in Commands, Settled(c)',
                      phase'[e] = "updating", VideoOf[e] = VideoOf[c]
               PROVE  Survives(c, copy[e])'
    BY DEF CopiesKeep
  <2>1. CASE e = d
    <3>1. Survives(c, r) /\ Survives(c, r)'
      <4>1. Survives(c, r)
        BY <1>6, <2>1 DEF KeptInv, KeptUnlessOverlapped, Settled
      <4>2. r' = r
        BY FindShape
      <4>3. QED
        BY <4>1, <4>2, FindShape DEF Survives
    <3>2. CASE KindOf[c] = "verify"
      BY <1>2, <2>1, <3>1, <3>2 DEF Survives
    <3>3. CASE KindOf[c] # "verify" /\ KindOf[d] = "verify"
      <4>1. copy'[d].details = rows'[VideoOf[d]].details
        BY <1>2, <3>3, FindShape
      <4>2. QED
        BY <2>1, <3>1, <3>3, <4>1, FindShape DEF Survives
    <3>4. CASE KindOf[c] # "verify" /\ KindOf[d] # "verify"
      <4>1. copy'[d].details = d /\ KindOf[d] = "update" /\ <<c, d>> \in before'
        BY <1>2, <1>6, <3>4, VideoLifecycleAssumption DEF Kinds
      <4>2. QED
        BY <2>1, <3>4, <4>1 DEF Survives
    <3>5. QED
      BY <3>2, <3>3, <3>4
  <2>2. CASE e # d
    <3>1. Survives(c, copy[e])
      BY <1>6, <2>2, FindShape DEF KeptInv, CopiesKeep
    <3>2. QED
      BY <1>3, <1>7, <2>2, <3>1 DEF Survives
  <2>3. QED
    BY <2>1, <2>2
<1>9. KeptUnlessOverlapped'
  <2> SUFFICES ASSUME NEW c \in Commands, Settled(c)'
               PROVE  Survives(c, rows[VideoOf[c]])'
    BY DEF KeptUnlessOverlapped, Settled
  <2>1. Survives(c, rows[VideoOf[c]])
    BY <1>6 DEF KeptInv, KeptUnlessOverlapped, Settled
  <2>2. QED
    BY <1>7, <2>1, FindShape DEF Survives
<1>10. NoneFollows'
  <2> SUFFICES ASSUME NEW c \in Commands, NEW e \in Commands,
                      c # e, KindOf[c] = "verify", KindOf[e] = "verify", VideoOf[c] = VideoOf[e],
                      <<c, e>> \in before', phase'[c] = "answered"
               PROVE  Overlapped(c)'
    BY DEF NoneFollows
  <2>1. phase[c] = "answered" /\ Wrote(c)
    BY FindShape DEF Wrote
  <2>2. CASE <<c, e>> \in before
    BY <1>5, <2>1, <2>2 DEF KeptInv, NoneFollows
  <2>3. CASE e = d
    <3>1. Overlapped(c)
      BY <1>1, <2>1, <2>3 DEF KeptInv, KeptUnlessOverlapped, Survives
    <3>2. QED
      BY <1>5, <2>1, <3>1
  <2>4. QED
    BY <2>2, <2>3, FindShape
<1>11. QED
  BY <1>4, <1>8, <1>9, <1>10 DEF KeptInv

LEMMA OthersKeep ==
  ASSUME TypeOK, KeptInv, [Next]_vars, ~\E d \in Commands : FindAndChange(d)
  PROVE  KeptInv'
<1>1. \A v \in Videos : Saved(v) => Saved(v)'
  <2>1. ASSUME NEW d \in Commands, RowWritten(d)
        PROVE  Written(d).state # "none"
    BY <2>1, WrittenIs DEF RowWritten, Wrote, KeptInv, OrderInv, HasItsOwn
  <2>2. CreateFromDraft.state # "none"
    BY DEF CreateFromDraft
  <2>3. QED
    BY <2>1, <2>2, OtherSteps DEF TypeOK, Saved, RowsKept, RowInserted, RowWritten
<1>2. OrderInv'
  <2>1. ASSUME NEW c \in Commands, Wrote(c)'
        PROVE  Saved(VideoOf[c])' /\ HasItsOwn(c, copy[c])'
    BY <1>1, <2>1, OtherSteps, VideoLifecycleAssumption
       DEF KeptInv, OrderInv, CommandsGoOn, HasItsOwn
  <2>2. QED
    BY <2>1, OtherSteps DEF KeptInv, OrderInv, CommandsGoOn
<1>3. \A c \in Commands : Overlapped(c)' <=> Overlapped(c)
  BY OtherSteps DEF Overlapped, CommandsGoOn
<1>4. \A c \in Commands : \A s : Survives(c, s)' <=> Survives(c, s)
  BY OtherSteps DEF Survives, CommandsGoOn
<1>5. ASSUME NEW c \in Commands, NEW d \in Commands, VideoOf[d] = VideoOf[c], d # c,
             phase[d] = "updating", ~Overlapped(c), Wrote(c)
      PROVE  <<c, d>> \in before /\ Ended(c)
  <2>1. Wrote(d) /\ ~Ended(d)
    BY <1>5 DEF Wrote, Ended
  <2>2. QED
    BY <1>5, <2>1 DEF Overlapped, KeptInv, OrderInv
<1>6. CopiesKeep'
  <2> SUFFICES ASSUME NEW c \in Commands, NEW d \in Commands, Settled(c)',
                      phase'[d] = "updating", VideoOf[d] = VideoOf[c]
               PROVE  Survives(c, copy[d])'
    BY DEF CopiesKeep
  <2>1. phase[d] = "updating" /\ d # c /\ ~Overlapped(c) /\ Wrote(c)
    BY OtherSteps, <1>3 DEF Settled, Wrote, CommandsGoOn
  <2>2. Ended(c) /\ phase[c] # "updating"
    BY <1>5, <2>1 DEF Ended
  <2>3. Settled(c)
    BY <2>1, <2>2, OtherSteps DEF Settled, RowsKept, RowInserted, RowWritten
  <2>4. QED
    BY <1>4, <2>1, <2>3, OtherSteps DEF KeptInv, CopiesKeep, CommandsGoOn
<1>7. KeptUnlessOverlapped'
  <2> SUFFICES ASSUME NEW c \in Commands, Settled(c)'
               PROVE  Survives(c, rows[VideoOf[c]])'
    BY DEF KeptUnlessOverlapped, Settled
  <2> DEFINE v == VideoOf[c]
  <2>1. v \in Videos /\ Saved(v) /\ Wrote(c) /\ ~Overlapped(c)
    BY <1>3, OtherSteps, VideoLifecycleAssumption
       DEF Settled, Wrote, CommandsGoOn, KeptInv, OrderInv
  <2>2. CASE rows'[v] = rows[v] /\ phase[c] = "answered"
    BY <1>4, <2>1, <2>2 DEF KeptInv, KeptUnlessOverlapped, Survives
  <2>3. ASSUME NEW d \in Commands, RowWritten(d), v = VideoOf[d]
        PROVE  Survives(c, Written(d))
    <3>1. Survives(c, copy[d])
      <4>1. CASE d = c
        BY <2>1, <4>1 DEF KeptInv, OrderInv, HasItsOwn, Survives
      <4>2. CASE d # c
        BY <2>1, <2>3, <4>2 DEF RowWritten, Settled, KeptInv, CopiesKeep
      <4>3. QED
        BY <4>1, <4>2
    <3>2. QED
      BY <3>1, WrittenIs DEF Survives
  <2>4. CASE RowsKept \/ \E w \in Videos : RowInserted(w)
    BY <2>1, <2>2, <2>4 DEF Settled, RowsKept, RowInserted, TypeOK
  <2>5. ASSUME NEW d \in Commands, RowWritten(d)
        PROVE  Survives(c, rows[v])'
    <3>1. CASE v = VideoOf[d]
      <4>1. rows'[v] = Written(d)
        BY <2>1, <2>5, <3>1 DEF RowWritten, TypeOK
      <4>2. QED
        BY <1>4, <2>3, <2>5, <3>1, <4>1
    <3>2. CASE v # VideoOf[d]
      BY <2>1, <2>2, <2>5, <3>2 DEF Settled, RowWritten, TypeOK
    <3>3. QED
      BY <3>1, <3>2
  <2>6. QED
    BY <2>4, <2>5, OtherSteps
<1>8. NoneFollows'
  <2> SUFFICES ASSUME NEW c \in Commands, NEW d \in Commands,
                      c # d, KindOf[c] = "verify", KindOf[d] = "verify", VideoOf[c] = VideoOf[d],
                      <<c, d>> \in before', phase'[c] = "answered"
               PROVE  Overlapped(c)'
    BY DEF NoneFollows
  <2>1. <<c, d>> \in before /\ phase[c] # "updating"
    BY OtherSteps DEF CommandsGoOn, KeptInv, OrderInv, Ended
  <2>2. phase[c] = "answered"
    BY <2>1, OtherSteps DEF RowsKept, RowInserted, RowWritten
  <2>3. QED
    BY <1>3, <2>1, <2>2 DEF KeptInv, NoneFollows
<1>9. QED
  BY <1>2, <1>6, <1>7, <1>8 DEF KeptInv

LEMMA NextKept == TypeOK /\ KeptInv /\ [Next]_vars => KeptInv'
BY FindKeeps, OthersKeep

(* What a command answered stays answered for: a verified video remains in *)
(* processing and an update remains until a later one, unless another      *)
(* command of the video was between its find and its update meanwhile.     *)
THEOREM AnsweredCommandsAreKept == Spec => []KeptUnlessOverlapped
<1>1. KeptInv => KeptUnlessOverlapped
  BY DEF KeptInv
<1>2. QED
  BY <1>1, InitType, NextType, InitKept, NextKept, PTL DEF Spec

(* ensureState refuses every second completion of an upload, except among  *)
(* commands that ran at the same time.                                     *)
THEOREM UploadsCompleteOnce == Spec => []VerifiedOnce
<1>1. KeptInv => VerifiedOnce
  <2> SUFFICES ASSUME KeptInv, NEW c \in Commands, NEW d \in Commands,
                      c # d, KindOf[c] = "verify", KindOf[d] = "verify", VideoOf[c] = VideoOf[d],
                      phase[c] = "answered", phase[d] = "answered", ~Overlapped(c)
               PROVE  Overlapped(d)
    BY DEF VerifiedOnce
  <2>1. <<c, d>> \in before \/ <<d, c>> \in before
    BY DEF Overlapped, Wrote
  <2>2. QED
    BY <2>1 DEF KeptInv, NoneFollows
<1>2. QED
  BY <1>1, InitType, NextType, InitKept, NextKept, PTL DEF Spec

-----------------------------------------------------------------------------
(* The copy a command is about to write is what it makes of the row, or    *)
(* the row is that copy already, as long as the command is alone.          *)
Fresh(c) == copy[c] = Changed(c, rows[VideoOf[c]]) \/ copy[c] = rows[VideoOf[c]]

FreshCopies == \A c \in Commands : phase[c] = "updating" /\ ~Overlapped(c) => Fresh(c)

(* The identifiers that an update leaves undefined cost a fresh copy       *)
(* nothing.                                                                *)
LEMMA FreshIsWritten ==
  ASSUME TypeOK, NEW c \in Commands, Fresh(c)
  PROVE  Written(c) = copy[c]
<1>1. VideoOf[c] \in Videos
  BY VideoLifecycleAssumption
<1>2. copy[c] \in Row /\ rows[VideoOf[c]] \in Row
  BY <1>1 DEF TypeOK
<1>3. copy[c].media \/ rows[VideoOf[c]].media <=> copy[c].media
  BY <1>2, ChangedIs DEF Fresh
<1>4. copy[c].media \in BOOLEAN /\ rows[VideoOf[c]].media \in BOOLEAN
  BY <1>2 DEF Row
<1>5. (copy[c].media \/ rows[VideoOf[c]].media) = copy[c].media
  BY <1>3, <1>4
<1>6. Written(c) = [copy[c] EXCEPT !.media = copy[c].media]
  BY <1>5 DEF Written
<1>7. QED
  BY <1>2, <1>6 DEF Row

(* Commands that are both between find and update overlap.                 *)
LEMMA WritersOverlap ==
  ASSUME OrderInv, NEW c \in Commands, NEW d \in Commands, c # d, VideoOf[c] = VideoOf[d],
         phase[c] = "updating", phase[d] = "updating"
  PROVE  Overlapped(c)
<1>1. ~Ended(c) /\ ~Ended(d) /\ Wrote(d)
  BY DEF Ended, Wrote
<1>2. QED
  BY <1>1 DEF OrderInv, Overlapped

LEMMA FindKeepsFresh ==
  ASSUME TypeOK, OrderInv, FreshCopies, NEW d \in Commands, FindAndChange(d)
  PROVE  FreshCopies'
<1>1. rows' = rows /\ copy'[d] = Changed(d, rows[VideoOf[d]])
  BY FindShape
<1>2. \A c \in Commands : Changed(c, rows[VideoOf[c]])' = Changed(c, rows[VideoOf[c]])
  BY <1>1 DEF Changed, CompleteUpload, UpdateDetails
<1>3. ASSUME NEW c \in Commands, c # d, phase'[c] = "updating", ~Overlapped(c)'
      PROVE  Fresh(c)'
  <2>1. phase[c] = "updating" /\ copy'[c] = copy[c]
    BY <1>3, FindShape DEF TypeOK
  <2>2. ~Overlapped(c)
    <3> SUFFICES ASSUME NEW e \in Commands \ {c}, Wrote(e), VideoOf[e] = VideoOf[c],
                        <<c, e>> \notin before, <<e, c>> \notin before
                 PROVE  FALSE
      BY DEF Overlapped
    <3>1. e # d /\ Wrote(e)'
      BY FindShape
    <3>2. <<c, e>> \notin before' /\ <<e, c>> \notin before'
      BY <1>3, <3>1, FindShape
    <3>3. QED
      BY <1>3, <3>1, <3>2 DEF Overlapped
  <2>3. Fresh(c)
    BY <2>1, <2>2 DEF FreshCopies
  <2>4. QED
    BY <1>1, <1>2, <2>1, <2>3 DEF Fresh
<1>4. Fresh(d)'
  BY <1>1, <1>2 DEF Fresh
<1>5. QED
  BY <1>3, <1>4 DEF FreshCopies

LEMMA OthersKeepFresh ==
  ASSUME TypeOK, OrderInv, FreshCopies, [Next]_vars, ~\E d \in Commands : FindAndChange(d)
  PROVE  FreshCopies'
<1> SUFFICES ASSUME NEW c \in Commands, phase'[c] = "updating", ~Overlapped(c)'
             PROVE  Fresh(c)'
  BY DEF FreshCopies
<1>1. phase[c] = "updating" /\ copy'[c] = copy[c] /\ ~Overlapped(c)
  BY OtherSteps DEF Overlapped, CommandsGoOn
<1>2. VideoOf[c] \in Videos /\ Saved(VideoOf[c])
  BY <1>1, VideoLifecycleAssumption DEF OrderInv, Wrote
<1>3. Fresh(c)
  BY <1>1 DEF FreshCopies
<1>4. CASE rows'[VideoOf[c]] = rows[VideoOf[c]]
  <2>1. Changed(c, rows[VideoOf[c]])' = Changed(c, rows[VideoOf[c]])
    BY <1>4 DEF Changed, CompleteUpload, UpdateDetails
  <2>2. QED
    BY <1>1, <1>3, <1>4, <2>1 DEF Fresh
<1>5. ASSUME NEW d \in Commands, RowWritten(d)
      PROVE  rows'[VideoOf[c]] = rows[VideoOf[c]] \/ rows'[VideoOf[c]] = copy[c]
  <2>1. CASE VideoOf[d] # VideoOf[c]
    BY <1>2, <1>5, <2>1 DEF RowWritten, TypeOK
  <2>2. CASE d = c
    BY <1>2, <1>3, <1>5, <2>2, FreshIsWritten DEF RowWritten, TypeOK
  <2>3. CASE d # c /\ VideoOf[d] = VideoOf[c]
    BY <1>1, <1>5, <2>3, WritersOverlap DEF RowWritten
  <2>4. QED
    BY <2>1, <2>2, <2>3
<1>6. ASSUME RowsKept \/ \E v \in Videos : RowInserted(v)
      PROVE  rows'[VideoOf[c]] = rows[VideoOf[c]]
  BY <1>2, <1>6 DEF RowsKept, RowInserted, TypeOK
<1>7. CASE rows'[VideoOf[c]] = copy[c]
  BY <1>1, <1>7 DEF Fresh
<1>8. QED
  BY <1>4, <1>5, <1>6, <1>7, OtherSteps

LEMMA SerialStep ==
  ASSUME TypeOK, OrderInv, FreshCopies, [Next]_vars, NEW v \in Videos, Saved(v), rows'[v] # rows[v]
  PROVE  \E c \in Commands :
           /\ VideoOf[c] = v /\ phase[c] = "updating"
           /\ Overlapped(c) \/ rows'[v] = Changed(c, rows[v])
<1>1. ~\E d \in Commands : FindAndChange(d)
  BY FindShape
<1>2. PICK d \in Commands : RowWritten(d)
  BY <1>1, OtherSteps DEF RowsKept, RowInserted, TypeOK
<1>3. phase[d] = "updating" /\ VideoOf[d] = v /\ rows'[v] = Written(d)
  BY <1>2 DEF RowWritten, TypeOK
<1>4. Overlapped(d) \/ rows'[v] = Changed(d, rows[v])
  BY <1>3, FreshIsWritten DEF FreshCopies, Fresh
<1>5. QED
  BY <1>3, <1>4

(* Without a version or a transaction, and whatever fails or is retried,   *)
(* the only thing that keeps a verification or an update from acting as    *)
(* one atomic step is another command for the same video between its find  *)
(* and its update.                                                         *)
THEOREM UpdatesAreSerial == Spec => SerialUnlessOverlapped
<1>1. TypeOK /\ KeptInv /\ FreshCopies /\ [Next]_vars =>
        [\A v \in Videos : Saved(v) /\ rows'[v] # rows[v] =>
           \E c \in Commands :
             /\ VideoOf[c] = v /\ phase[c] = "updating"
             /\ Overlapped(c) \/ rows'[v] = Changed(c, rows[v])]_vars
  BY SerialStep DEF KeptInv
<1>2. Init => FreshCopies
  BY DEF Init, FreshCopies
<1>3. TypeOK /\ KeptInv /\ FreshCopies /\ [Next]_vars => FreshCopies'
  BY FindKeepsFresh, OthersKeepFresh DEF KeptInv
<1>4. QED
  BY <1>1, <1>2, <1>3, InitType, NextType, InitKept, NextKept, PTL DEF Spec, SerialUnlessOverlapped

-----------------------------------------------------------------------------
LEMMA InitDrafts == Init => DraftsLostOnlyByFault
BY DEF Init, DraftsLostOnlyByFault, Saved, NoRow

LEMMA NextDrafts == TypeOK /\ OrderInv /\ DraftsLostOnlyByFault /\ [Next]_vars => DraftsLostOnlyByFault'
<1> SUFFICES ASSUME TypeOK, OrderInv, DraftsLostOnlyByFault, [Next]_vars,
                    faults' = 0, NEW v \in Videos, Saved(v)'
             PROVE  (draft[v] = "signing" \/ v \in outbox \cup topic)'
  BY DEF DraftsLostOnlyByFault
<1> USE DEF draftVars, commandVars, eventVars
<1>1. ~Fault /\ faults' >= faults /\ faults = 0
  <2>1. ~Fault
    BY DEF Fault, TypeOK
  <2>2. faults' = faults
    BY <2>1 DEF Next, SaveDraft, SaveVideo, SaveRetried, SaveFailed, AlreadySaved, Sign, SignFailed,
                PublishMessage, PublishFailed, Upload, Verify, VerifyRawMedia, MediaMissing, CheckFailed,
                Execute, FindAndChange, Refuse, FindFailed, Update, UpdateRetried, UpdateFailed,
                Crash, vars
  <2>3. QED
    BY <2>1, <2>2 DEF TypeOK
<1>2. ASSUME Saved(v), UNCHANGED <<draft, outbox, topic>>
      PROVE  (draft[v] = "signing" \/ v \in outbox \cup topic)'
  BY <1>1, <1>2 DEF DraftsLostOnlyByFault
<1>3. ASSUME NEW w \in Videos, SaveDraft(w)
      PROVE  (draft[v] = "signing" \/ v \in outbox \cup topic)'
  <2>1. SaveVideo(w) \/ AlreadySaved(w) \/ Sign(w)
    BY <1>1, <1>3 DEF SaveDraft, SaveRetried, SaveFailed, SignFailed
  <2>2. QED
    BY <1>1, <2>1 DEF DraftsLostOnlyByFault, TypeOK, SaveVideo, InsertVideo, AlreadySaved, Sign, Saved
<1>4. ASSUME NEW w \in Videos, PublishMessage(w) \/ PublishFailed(w)
      PROVE  (draft[v] = "signing" \/ v \in outbox \cup topic)'
  BY <1>1, <1>4 DEF DraftsLostOnlyByFault, PublishMessage, PublishFailed, Saved
<1>5. ASSUME \/ \E w \in Videos, f \in Files : Upload(w, f)
             \/ \E c \in Commands : Verify(c)
             \/ UNCHANGED vars
      PROVE  (draft[v] = "signing" \/ v \in outbox \cup topic)'
  BY <1>2, <1>5 DEF Upload, Verify, VerifyRawMedia, MediaMissing, CheckFailed, vars, Saved
<1>6. ASSUME NEW c \in Commands, Execute(c)
      PROVE  (draft[v] = "signing" \/ v \in outbox \cup topic)'
  <2>1. UNCHANGED <<draft, outbox, topic>>
    BY <1>6 DEF Execute, FindAndChange, Refuse, FindFailed, Update, UpdateRetried, UpdateFailed
  <2>2. Saved(v)
    <3>1. CASE UNCHANGED rows
      BY <3>1 DEF Saved
    <3>2. CASE Update(c)
      <4>1. Saved(VideoOf[c])
        BY <3>2 DEF Update, OrderInv, Wrote
      <4>2. QED
        BY <3>2, <4>1 DEF Update, UpdateOneVideoById, TypeOK, Saved
    <3>3. QED
      BY <1>1, <1>6, <3>1, <3>2 DEF Execute, FindAndChange, Refuse, FindFailed, UpdateRetried, UpdateFailed
  <2>3. QED
    BY <1>2, <2>1, <2>2
<1>7. ~Crash
  BY <1>1 DEF Crash
<1>8. QED
  BY <1>3, <1>4, <1>5, <1>6, <1>7 DEF Next

(* A draft in the table that is never announced was lost by a fault: a     *)
(* crash, a failed signing or publication, or an insert that was committed *)
(* and answered with an error.                                             *)
THEOREM DraftLossNeedsFault == Spec => []DraftsLostOnlyByFault
<1>1. KeptInv => OrderInv
  BY DEF KeptInv
<1>2. QED
  BY <1>1, InitType, NextType, InitKept, NextKept, InitDrafts, NextDrafts, PTL DEF Spec
=============================================================================
