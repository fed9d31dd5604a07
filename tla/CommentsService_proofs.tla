------------------------ MODULE CommentsService_proofs ------------------------
(***************************************************************************)
(* Theorems about CommentsService, for every value of its constants.       *)
(***************************************************************************)
EXTENDS CommentsService, FiniteSetTheorems, TLAPS

(* A running process has created the group, and only its reads move the    *)
(* group's cursor.                                                         *)
TypeInv ==
  /\ TypeOK
  /\ up => grouped
  /\ ~grouped => cursor = 0

(* Every kind of call runs its command at most twice.                      *)
LEMMA CallsType ==
  ASSUME NEW call \in Calls
  PROVE  call.runs \in 0..2 /\ (call.ok => call.runs \in 1..2)
<1>1. call \in {Answered, Refused, ReplyLost, Resent}
  BY Zenon DEF Calls
<1>2. Answered.runs = 1 /\ Refused.runs = 0 /\ ReplyLost.runs = 1 /\ Resent.runs = 2
  BY DEF Answered, Refused, ReplyLost, Resent
<1>3. ~Refused.ok
  BY DEF Refused
<1> QED
  BY <1>1, <1>2, <1>3

(* A read moves the cursor forward, and never past the end of the stream.  *)
LEMMA AfterRange ==
  ASSUME TypeOK
  PROVE  /\ After(0) = cursor
         /\ After(1) \in cursor..last
         /\ After(2) \in After(1)..last
BY CommentsAssumption DEF TypeOK, After

(* What a call of XREADGROUP delivers lies between the old and the new     *)
(* cursor.                                                                 *)
LEMMA ReadRange ==
  ASSUME TypeOK, NEW call \in Calls
  PROVE  /\ After(call.runs) \in cursor..last
         /\ call.ok => After(call.runs - 1) \in cursor..After(call.runs)
<1>1. call.runs \in {0, 1, 2} /\ (call.ok => call.runs \in {1, 2})
  BY CallsType
<1>2. CASE call.runs = 0
  BY <1>1, <1>2, AfterRange DEF TypeOK
<1>3. CASE call.runs = 1
  BY <1>1, <1>3, AfterRange DEF TypeOK
<1>4. CASE call.runs = 2
  BY <1>1, <1>4, AfterRange DEF TypeOK
<1> QED
  BY <1>1, <1>2, <1>3, <1>4

(* What lies beyond a later cursor lies beyond an earlier one.             *)
LEMMA LaterSuffix ==
  ASSUME NEW c \in Nat, NEW d \in Nat, NEW n \in Nat, c <= d
  PROVE  \A i \in (d + 1)..n : i \in (c + 1)..n
OBVIOUS

LEMMA FaultType == ASSUME faults \in 0..MaxFaults, Fault PROVE faults' \in 0..MaxFaults
BY CommentsAssumption DEF Fault

LEMMA CountedType ==
  ASSUME faults \in 0..MaxFaults, NEW call, Counted(call) PROVE faults' \in 0..MaxFaults
BY FaultType DEF Counted

LEMMA TypeInit == Init => TypeInv
<1> SUFFICES ASSUME Init PROVE TypeInv
  OBVIOUS
<1>1. stream \in [Entries -> Requests] /\ rows \in [Entries -> Nat]
  BY SMT DEF Init, Entries
<1>2. 0 \in 0..MaxRetries /\ 0 \in 0..MaxFaults
  BY CommentsAssumption
<1>3. /\ usersSet \in [Ids -> SUBSET Ids]
      /\ counter \in [Ids -> [Shards -> Nat]]
  BY DEF Init
<1>4. /\ phase \in [Flushes -> {"idle", "saving", "acking"}]
      /\ batch \in [Flushes -> SUBSET (1..cursor)]
      /\ attempts \in [Flushes -> 0..MaxRetries]
      /\ saved \in [Flushes -> BOOLEAN]
  BY <1>2 DEF Init
<1>5. pc \in [Requests -> {"new", "buffering", "commented", "already", "failed"}]
  BY DEF Init
<1>6. up \in BOOLEAN /\ grouped \in BOOLEAN /\ ~up
  BY DEF Init
<1>7. last \in Nat /\ cursor \in 0..last /\ cursor = 0 /\ pel \subseteq 1..cursor
  BY DEF Init
<1>8. faults \in 0..MaxFaults
  BY <1>2 DEF Init
<1> QED
  BY <1>1, <1>3, <1>4, <1>5, <1>6, <1>7, <1>8 DEF TypeInv, TypeOK

LEMMA TypeStep == TypeInv /\ [Next]_vars => TypeInv'
<1> USE CommentsAssumption
<1> SUFFICES ASSUME TypeInv, [Next]_vars PROVE TypeInv'
  OBVIOUS
<1>1. CASE Start
  <2>1. cursor' = cursor /\ grouped' = TRUE /\ up' = TRUE
    BY <1>1 DEF Start, CreateStream, TypeInv
  <2> QED
    BY <1>1, <2>1
    DEF Start, CreateStream, TypeInv, TypeOK, Entries, cacheVars, streamVars, flushVars
<1>2. CASE Crash
  <2>1. pc' \in [Requests -> {"new", "buffering", "commented", "already", "failed"}]
    BY <1>2 DEF Crash, TypeInv, TypeOK
  <2>2. /\ phase' \in [Flushes -> {"idle", "saving", "acking"}]
        /\ batch' \in [Flushes -> SUBSET (1..cursor)]
        /\ attempts' \in [Flushes -> 0..MaxRetries]
        /\ saved' \in [Flushes -> BOOLEAN]
    BY <1>2 DEF Crash
  <2>3. faults' \in 0..MaxFaults
    BY <1>2, FaultType DEF Crash, TypeInv, TypeOK
  <2> QED
    BY <1>2, <2>1, <2>2, <2>3
    DEF Crash, TypeInv, TypeOK, Entries, cacheVars, streamVars, groupVars
<1>3. ASSUME NEW r \in Requests, Claim(r) PROVE TypeInv'
  <2>1. PICK call \in Calls :
          /\ Counted(call)
          /\ IncrementCommentsCounter(VideoOf[r], UserOf[r], call)
          /\ pc' = [pc EXCEPT ![r] =
                      IF ~call.ok THEN "failed"
                      ELSE IF ScriptAnswer(UserOf[r], VideoOf[r], call) = 0
                           THEN "already"
                           ELSE "buffering"]
    BY <1>3 DEF Claim
  <2>2. faults' \in 0..MaxFaults
    BY <2>1, CountedType DEF TypeInv, TypeOK
  <2>3. usersSet' \in [Ids -> SUBSET Ids] /\ counter' \in [Ids -> [Shards -> Nat]]
    <3>1. UserOf[r] \in Ids /\ VideoOf[r] \in Ids
      BY DEF Ids
    <3>2. ShardOf[<<VideoOf[r], UserOf[r]>>] \in Shards
      BY <3>1
    <3>3. CASE call.runs = 0
      BY <2>1, <3>3 DEF IncrementCommentsCounter, cacheVars, TypeInv, TypeOK
    <3>4. CASE call.runs # 0
      <4>1. CommentVideoScript(UserOf[r], ShardOf[<<VideoOf[r], UserOf[r]>>], VideoOf[r])
        BY <2>1, <3>4 DEF IncrementCommentsCounter
      <4>2. usersSet' \in [Ids -> SUBSET Ids]
        BY <4>1, <3>1 DEF CommentVideoScript, TypeInv, TypeOK
      <4>3. counter' \in [Ids -> [Shards -> Nat]]
        BY <4>1, <3>1, <3>2 DEF CommentVideoScript, TypeInv, TypeOK
      <4> QED BY <4>2, <4>3
    <3> QED BY <3>3, <3>4
  <2>4. pc' \in [Requests -> {"new", "buffering", "commented", "already", "failed"}]
    BY <2>1 DEF TypeInv, TypeOK
  <2> QED
    BY <1>3, <2>2, <2>3, <2>4
    DEF Claim, TypeInv, TypeOK, Entries, streamVars, groupVars, flushVars
<1>4. ASSUME NEW r \in Requests, BufferComment(r) PROVE TypeInv'
  <2>1. PICK call \in Calls :
          /\ Counted(call)
          /\ AddToStream(r, call)
          /\ pc' = [pc EXCEPT ![r] = IF call.ok THEN "commented" ELSE "failed"]
    BY <1>4 DEF BufferComment
  <2>2. faults' \in 0..MaxFaults
    BY <2>1, CountedType DEF TypeInv, TypeOK
  <2>3. /\ last' \in Nat /\ last <= last'
        /\ stream' \in [1..last' -> Requests]
        /\ rows' \in [1..last' -> Nat]
    <3>1. last \in Nat /\ call.runs \in Nat
      BY CallsType DEF TypeInv, TypeOK
    <3>2. last' = last + call.runs
      BY <2>1 DEF AddToStream
    <3>3. \A i \in 1..last' : i <= last => stream[i] \in Requests /\ rows[i] \in Nat
      BY <3>1, <3>2 DEF TypeInv, TypeOK, Entries
    <3>4. stream' \in [1..last' -> Requests]
      BY <2>1, <3>2, <3>3 DEF AddToStream
    <3>5. rows' \in [1..last' -> Nat]
      BY <2>1, <3>2, <3>3 DEF AddToStream
    <3> QED
      BY <3>1, <3>2, <3>4, <3>5
  <2>4. pc' \in [Requests -> {"new", "buffering", "commented", "already", "failed"}]
    BY <2>1 DEF TypeInv, TypeOK
  <2> QED
    BY <1>4, <2>2, <2>3, <2>4
    DEF BufferComment, TypeInv, TypeOK, Entries, cacheVars, groupVars, flushVars
<1>5. ASSUME NEW f \in Flushes, ReadBatch(f) PROVE TypeInv'
  <2>1. PICK call \in Calls :
          LET read == IF call.ok THEN (After(call.runs - 1) + 1)..After(call.runs) ELSE {}
          IN /\ Counted(call)
             /\ cursor' = After(call.runs)
             /\ pel' = pel \cup ((cursor + 1)..After(call.runs))
             /\ batch' = [batch EXCEPT ![f] = read]
             /\ phase' = [phase EXCEPT ![f] = IF read = {} THEN "idle" ELSE "saving"]
    BY <1>5 DEF ReadBatch
  <2>2. faults' \in 0..MaxFaults
    BY <2>1, CountedType DEF TypeInv, TypeOK
  <2>3. /\ cursor' \in cursor..last
        /\ call.ok => After(call.runs - 1) \in cursor..cursor'
    BY <2>1, ReadRange DEF TypeInv
  <2>4. pel' \subseteq 1..cursor'
    <3>1. pel' = pel \cup ((cursor + 1)..cursor')
      BY <2>1
    <3>2. pel \subseteq 1..cursor /\ cursor \in Nat /\ last \in Nat
      BY DEF TypeInv, TypeOK
    <3> QED
      BY <2>3, <3>1, <3>2
  <2>5. batch' \in [Flushes -> SUBSET (1..cursor')]
    BY <2>1, <2>3 DEF TypeInv, TypeOK
  <2>6. phase' \in [Flushes -> {"idle", "saving", "acking"}]
    BY <2>1 DEF TypeInv, TypeOK
  <2>7. /\ UNCHANGED <<up, pc, cacheVars, streamVars, grouped, attempts, saved>>
        /\ cursor < last
    BY <1>5 DEF ReadBatch
  <2>8. cursor' \in 0..last'
    BY <2>3, <2>7 DEF TypeInv, TypeOK, streamVars
  <2>9. grouped
    BY <1>5 DEF ReadBatch, TypeInv
  <2> QED
    BY <2>2, <2>4, <2>5, <2>6, <2>7, <2>8, <2>9
    DEF TypeInv, TypeOK, Entries, cacheVars, streamVars
<1>6. ASSUME NEW f \in Flushes, SaveMany(f) PROVE TypeInv'
  BY <1>6 DEF SaveMany, InsertMany, TypeInv, TypeOK, Entries, cacheVars, groupVars
<1>7. ASSUME NEW f \in Flushes, SaveManyRetried(f) PROVE TypeInv'
  <2>1. rows' \in [Entries -> Nat]
    BY <1>7 DEF SaveManyRetried, InsertMany, TypeInv, TypeOK
  <2>2. attempts' \in [Flushes -> 0..MaxRetries]
    <3>1. attempts[f] + 1 \in 0..MaxRetries
      BY <1>7 DEF SaveManyRetried, TypeInv, TypeOK
    <3> QED
      BY <1>7, <3>1 DEF SaveManyRetried, TypeInv, TypeOK
  <2>3. saved' \in [Flushes -> BOOLEAN]
    BY <1>7, Zenon DEF SaveManyRetried, TypeInv, TypeOK
  <2>4. faults' \in 0..MaxFaults
    BY <1>7, FaultType DEF SaveManyRetried, TypeInv, TypeOK
  <2>5. UNCHANGED <<up, pc, cacheVars, last, stream, groupVars, phase, batch>>
    BY <1>7 DEF SaveManyRetried
  <2> QED
    BY <2>1, <2>2, <2>3, <2>4, <2>5 DEF TypeInv, TypeOK, Entries, cacheVars, groupVars
<1>8. ASSUME NEW f \in Flushes, SaveManyFailed(f) PROVE TypeInv'
  <2>1. rows' \in [Entries -> Nat]
    BY <1>8 DEF SaveManyFailed, InsertMany, TypeInv, TypeOK
  <2> QED
    BY <1>8, <2>1, FaultType
    DEF SaveManyFailed, Leave, TypeInv, TypeOK, Entries, cacheVars, groupVars
<1>9. ASSUME NEW f \in Flushes, Acknowledge(f) PROVE TypeInv'
  <2>1. faults' \in 0..MaxFaults
    BY <1>9, CountedType DEF Acknowledge, TypeInv, TypeOK
  <2>2. pel' \subseteq pel
    BY <1>9 DEF Acknowledge
  <2>3. /\ phase' \in [Flushes -> {"idle", "saving", "acking"}]
        /\ batch' \in [Flushes -> SUBSET (1..cursor)]
        /\ attempts' \in [Flushes -> 0..MaxRetries]
        /\ saved' \in [Flushes -> BOOLEAN]
    BY <1>9 DEF Acknowledge, Leave, TypeInv, TypeOK
  <2>4. UNCHANGED <<up, pc, cacheVars, streamVars, grouped, cursor>>
    BY <1>9 DEF Acknowledge
  <2> QED
    BY <2>1, <2>2, <2>3, <2>4
    DEF TypeInv, TypeOK, Entries, cacheVars, streamVars
<1>10. ASSUME NEW f \in Flushes, AlreadySaved(f) PROVE TypeInv'
  BY <1>10
  DEF AlreadySaved, Leave, TypeInv, TypeOK, Entries, cacheVars, streamVars, groupVars
<1>11. CASE UNCHANGED vars
  BY <1>11 DEF vars, TypeInv, TypeOK, Entries, cacheVars, streamVars, groupVars, flushVars
<1> QED
  BY <1>1, <1>2, <1>3, <1>4, <1>5, <1>6, <1>7, <1>8, <1>9, <1>10, <1>11 DEF Next

(* Type correctness: every variable keeps its type, the cursor never       *)
(* passes the end of the stream, and only delivered entries are pending    *)
(* or in a batch.                                                          *)
THEOREM TypeCorrect == Spec => []TypeOK
<1>1. TypeInv => TypeOK
  BY DEF TypeInv
<1> QED
  BY <1>1, TypeInit, TypeStep, PTL DEF Spec

THEOREM TypeInvariant == Spec => []TypeInv
BY TypeInit, TypeStep, PTL DEF Spec

-----------------------------------------------------------------------------
(* The flushing side: the invariant of the cron job.                       *)
FlushIInv ==
  /\ TypeInv
  /\ FlushInv
  /\ AckedIsSaved
  /\ OneFlushPerEntry
  /\ SavedOnce

(* The number of faults never decreases.                                   *)
LEMMA FaultsGrow ==
  ASSUME TypeInv, [Next]_vars
  PROVE  faults \in Nat /\ faults' \in {faults, faults + 1}
<1> USE DEF Fault, Counted, flushVars
<1>0. faults \in Nat
  BY CommentsAssumption DEF TypeInv, TypeOK
<1>1. CASE Start \/ Crash \/ UNCHANGED vars
  BY <1>0, <1>1 DEF Start, Crash, vars
<1>2. ASSUME NEW r \in Requests, Claim(r) \/ BufferComment(r)
      PROVE  faults' \in {faults, faults + 1}
  BY <1>0, <1>2 DEF Claim, BufferComment
<1>3. ASSUME NEW f \in Flushes,
             \/ ReadBatch(f) \/ SaveMany(f) \/ SaveManyRetried(f)
             \/ AlreadySaved(f) \/ SaveManyFailed(f) \/ Acknowledge(f)
      PROVE  faults' \in {faults, faults + 1}
  BY <1>0, <1>3
  DEF ReadBatch, SaveMany, SaveManyRetried, AlreadySaved, SaveManyFailed, Acknowledge
<1> QED
  BY <1>0, <1>1, <1>2, <1>3 DEF Next

LEMMA FlushInit == Init => FlushIInv
<1> SUFFICES ASSUME Init PROVE FlushIInv
  OBVIOUS
<1>1. TypeInv
  BY TypeInit
<1>2. /\ \A f \in Flushes : batch[f] = {} /\ phase[f] = "idle" /\ ~saved[f]
      /\ cursor = 0 /\ last = 0
  BY DEF Init
<1> QED
  BY <1>1, <1>2
  DEF FlushIInv, FlushInv, OwnsBatch, AckedIsSaved, OneFlushPerEntry, SavedOnce, Entries

(* A step that writes neither rows nor batches, and shrinks no pending     *)
(* list, leaves a flush what it owns.                                      *)
LEMMA OwnsStill ==
  ASSUME FlushIInv, [Next]_vars, NEW f \in Flushes,
         \A i \in batch[f] : rows'[i] = rows[i],
         batch'[f] = batch[f], phase'[f] = phase[f], saved'[f] = saved[f],
         batch[f] \subseteq pel'
  PROVE  OwnsBatch(f)'
<1>1. faults \in Nat /\ faults' \in {faults, faults + 1}
  BY FaultsGrow DEF FlushIInv
<1>2. OwnsBatch(f)
  BY DEF FlushIInv, FlushInv
<1>3. saved[f] => faults' > 0
  BY <1>1, <1>2 DEF OwnsBatch
<1> QED
  BY <1>2, <1>3 DEF OwnsBatch

(* A flush that inserts its own batch, or nothing, disturbs no other       *)
(* flush, and gives an entry of its batch its first row.                   *)
LEMMA InsertStep ==
  ASSUME FlushIInv, [Next]_vars, NEW f \in Flushes, phase[f] = "saving",
         InsertMany(f) \/ UNCHANGED rows,
         UNCHANGED <<last, cursor, pel>>,
         \A g \in Flushes \ {f} :
           phase'[g] = phase[g] /\ batch'[g] = batch[g] /\ saved'[g] = saved[g]
  PROVE  /\ InsertMany(f) => ~saved[f] /\ \A i \in batch[f] : rows'[i] = 1
         /\ \A i \in (cursor + 1)..last : rows'[i] = 0
         /\ AckedIsSaved'
         /\ SavedOnce'
         /\ \A g \in Flushes \ {f} : OwnsBatch(g)'
<1>1. /\ last \in Nat /\ cursor \in 0..last /\ rows \in [1..last -> Nat]
      /\ \A g \in Flushes : batch[g] \subseteq 1..cursor
  BY DEF FlushIInv, TypeInv, TypeOK, Entries
<1>2. \A i \in batch[f] : rows[i] = IF saved[f] THEN 1 ELSE 0
  BY DEF FlushIInv, FlushInv, OwnsBatch
<1>3. \A i \in 1..last : i \in batch[f] \/ rows'[i] = rows[i]
  BY <1>1 DEF InsertMany, Entries
<1>4. InsertMany(f) => ~saved[f] /\ \A i \in batch[f] : rows'[i] = 1
  <2> SUFFICES ASSUME InsertMany(f), NEW i \in batch[f] PROVE ~saved[f] /\ rows'[i] = 1
    BY DEF InsertMany
  <2>1. ~saved[f] /\ rows'[i] = rows[i] + 1
    BY <1>1 DEF InsertMany, Entries
  <2> QED
    BY <1>2, <2>1
<1>5. \A i \in 1..last : rows'[i] = rows[i] \/ rows'[i] = 1
  BY <1>3, <1>4
<1>6. \A i \in (cursor + 1)..last : rows'[i] = 0
  BY <1>1, <1>3 DEF FlushIInv, FlushInv
<1>7. AckedIsSaved'
  BY <1>1, <1>5 DEF FlushIInv, AckedIsSaved
<1>8. SavedOnce'
  BY <1>5 DEF FlushIInv, SavedOnce, Entries
<1>9. ASSUME NEW g \in Flushes \ {f} PROVE OwnsBatch(g)'
  <2>1. \A i \in batch[g] : rows'[i] = rows[i]
    BY <1>1, <1>3 DEF FlushIInv, OneFlushPerEntry
  <2>2. batch[g] \subseteq pel'
    BY DEF FlushIInv, FlushInv, OwnsBatch
  <2> QED
    BY <2>1, <2>2, OwnsStill
<1> QED
  BY <1>4, <1>6, <1>7, <1>8, <1>9

LEMMA FlushStep == FlushIInv /\ [Next]_vars => FlushIInv'
<1> SUFFICES ASSUME FlushIInv, [Next]_vars PROVE FlushIInv'
  OBVIOUS
<1>0. TypeInv'
  BY TypeStep DEF FlushIInv
<1>t. /\ last \in Nat /\ cursor \in 0..last /\ rows \in [1..last -> Nat]
      /\ pel \subseteq 1..cursor
      /\ \A f \in Flushes : batch[f] \subseteq 1..cursor
      /\ phase \in [Flushes -> {"idle", "saving", "acking"}]
      /\ batch \in [Flushes -> SUBSET (1..cursor)]
      /\ saved \in [Flushes -> BOOLEAN]
  BY DEF FlushIInv, TypeInv, TypeOK, Entries
<1>o. \A f \in Flushes : OwnsBatch(f)
  BY DEF FlushIInv, FlushInv
<1>1. ASSUME UNCHANGED <<last, rows, cursor, pel, phase, batch, saved>> PROVE FlushIInv'
  <2>1. \A f \in Flushes : OwnsBatch(f)'
    BY <1>1, <1>o, OwnsStill DEF OwnsBatch
  <2> QED
    BY <1>0, <1>1, <2>1
    DEF FlushIInv, FlushInv, AckedIsSaved, OneFlushPerEntry, SavedOnce, Entries
<1>2. CASE Start
  <2>1. cursor' = cursor
    BY <1>2 DEF Start, CreateStream, FlushIInv, TypeInv
  <2> QED
    BY <1>1, <1>2, <2>1 DEF Start, CreateStream, streamVars, flushVars
<1>3. CASE Crash
  <2>1. \A f \in Flushes : phase'[f] = "idle" /\ batch'[f] = {} /\ ~saved'[f]
    BY <1>3 DEF Crash
  <2>2. UNCHANGED <<streamVars, groupVars>>
    BY <1>3 DEF Crash
  <2>3. \A f \in Flushes : OwnsBatch(f)'
    BY <2>1 DEF OwnsBatch
  <2> QED
    BY <1>0, <2>1, <2>2, <2>3
    DEF FlushIInv, FlushInv, AckedIsSaved, OneFlushPerEntry, SavedOnce, Entries,
        streamVars, groupVars
<1>4. ASSUME NEW r \in Requests, Claim(r) PROVE FlushIInv'
  BY <1>1, <1>4 DEF Claim, streamVars, groupVars, flushVars
<1>5. ASSUME NEW r \in Requests, BufferComment(r) PROVE FlushIInv'
  <2>1. PICK call \in Calls : AddToStream(r, call)
    BY <1>5 DEF BufferComment
  <2>2. last' \in Nat /\ last <= last'
    <3>1. call.runs \in Nat
      BY CallsType
    <3>2. last' = last + call.runs
      BY <2>1 DEF AddToStream
    <3> QED
      BY <3>1, <3>2, <1>t
  <2>3. /\ \A i \in 1..last : rows'[i] = rows[i]
        /\ \A i \in (last + 1)..last' : rows'[i] = 0
    BY <2>1, <2>2, <1>t DEF AddToStream
  <2>4. UNCHANGED <<groupVars, flushVars>>
    BY <1>5 DEF BufferComment
  <2>5. FlushInv'
    <3>1. \A f \in Flushes : \A i \in batch[f] : rows'[i] = rows[i]
      BY <2>3, <1>t
    <3>2. \A i \in (cursor + 1)..last' : rows'[i] = 0
      <4>1. \A i \in (cursor + 1)..last : rows'[i] = 0
        BY <2>3, <1>t DEF FlushIInv, FlushInv
      <4> QED
        BY <2>2, <2>3, <4>1, <1>t
    <3>3. \A f \in Flushes : OwnsBatch(f)'
      BY <1>o, <2>4, <3>1, OwnsStill DEF OwnsBatch, groupVars, flushVars
    <3> QED
      BY <2>4, <3>2, <3>3 DEF FlushInv, groupVars
  <2>6. AckedIsSaved' /\ OneFlushPerEntry'
    BY <2>2, <2>3, <2>4, <1>t
    DEF FlushIInv, AckedIsSaved, OneFlushPerEntry, groupVars, flushVars
  <2>7. SavedOnce'
    BY <2>2, <2>3, <1>t DEF FlushIInv, SavedOnce, Entries
  <2> QED
    BY <1>0, <2>5, <2>6, <2>7 DEF FlushIInv
<1>6. ASSUME NEW f \in Flushes, ReadBatch(f) PROVE FlushIInv'
  <2>1. PICK call \in Calls :
          LET read == IF call.ok THEN (After(call.runs - 1) + 1)..After(call.runs) ELSE {}
          IN /\ cursor' = After(call.runs)
             /\ pel' = pel \cup ((cursor + 1)..After(call.runs))
             /\ batch' = [batch EXCEPT ![f] = read]
             /\ phase' = [phase EXCEPT ![f] = IF read = {} THEN "idle" ELSE "saving"]
    BY <1>6 DEF ReadBatch
  <2>2. UNCHANGED <<last, rows, saved>> /\ phase[f] = "idle"
    BY <1>6 DEF ReadBatch, streamVars
  <2>3. cursor' \in cursor..last /\ (call.ok => After(call.runs - 1) \in cursor..cursor')
    BY <2>1, CallsType, ReadRange DEF FlushIInv, TypeInv
  <2>4. pel' = pel \cup ((cursor + 1)..cursor')
    BY <2>1
  <2>5. batch'[f] \subseteq (cursor + 1)..cursor'
    BY <2>1, <2>3, <1>t
  <2>6. \A g \in Flushes \ {f} : batch'[g] = batch[g] /\ phase'[g] = phase[g]
    BY <2>1, <1>t
  <2>7. phase'[f] = (IF batch'[f] = {} THEN "idle" ELSE "saving")
    BY <2>1, <1>t
  <2>8. \A i \in (cursor + 1)..last : rows[i] = 0
    BY DEF FlushIInv, FlushInv
  <2>9. FlushInv'
    <3>1. \A i \in (cursor' + 1)..last' : rows'[i] = 0
      <4>1. \A i \in (cursor' + 1)..last : i \in (cursor + 1)..last
        <5>1. /\ cursor \in Nat /\ last \in Nat
              /\ cursor' \in Nat /\ cursor <= cursor'
          BY <2>3, <1>t
        <5> QED
          BY <5>1, LaterSuffix
      <4> QED
        BY <2>2, <4>1, <2>8
    <3>2. ~saved[f]
      BY <1>o, <2>2 DEF OwnsBatch
    <3>3. OwnsBatch(f)'
      <4>1. \A i \in batch'[f] : rows'[i] = 0
        BY <2>2, <2>3, <2>5, <2>8, <1>t
      <4>2. ~saved'[f] /\ batch'[f] \subseteq pel'
        BY <2>2, <2>4, <2>5, <3>2
      <4> QED
        BY <2>7, <4>1, <4>2 DEF OwnsBatch
    <3>4. ASSUME NEW g \in Flushes \ {f} PROVE OwnsBatch(g)'
      <4>1. batch[g] \subseteq pel'
        BY <2>4, <1>o DEF OwnsBatch
      <4> QED
        BY <2>2, <2>6, <4>1, OwnsStill
    <3> QED
      BY <3>1, <3>3, <3>4 DEF FlushInv
  <2>10. AckedIsSaved'
    BY <2>2, <2>3, <2>4, <1>t DEF FlushIInv, AckedIsSaved
  <2>11. OneFlushPerEntry'
    BY <2>3, <2>5, <2>6, <1>t DEF FlushIInv, OneFlushPerEntry
  <2>12. SavedOnce'
    BY <2>2 DEF FlushIInv, SavedOnce, Entries
  <2> QED
    BY <1>0, <2>9, <2>10, <2>11, <2>12 DEF FlushIInv
<1>7. ASSUME NEW f \in Flushes, SaveMany(f) PROVE FlushIInv'
  <2>1. /\ phase[f] = "saving" /\ phase'[f] = "acking"
        /\ InsertMany(f)
        /\ UNCHANGED <<last, cursor, pel, batch, saved>>
        /\ \A g \in Flushes \ {f} : phase'[g] = phase[g]
    BY <1>7, <1>t DEF SaveMany, groupVars
  <2>2. /\ ~saved[f] /\ \A i \in batch[f] : rows'[i] = 1
        /\ \A i \in (cursor + 1)..last : rows'[i] = 0
        /\ AckedIsSaved' /\ SavedOnce'
        /\ \A g \in Flushes \ {f} : OwnsBatch(g)'
    BY <2>1, InsertStep
  <2>3. OwnsBatch(f)'
    BY <1>o, <2>1, <2>2 DEF OwnsBatch
  <2>4. OneFlushPerEntry'
    BY <2>1 DEF FlushIInv, OneFlushPerEntry
  <2> QED
    BY <1>0, <2>1, <2>2, <2>3, <2>4 DEF FlushIInv, FlushInv
<1>8. ASSUME NEW f \in Flushes, SaveManyRetried(f) PROVE FlushIInv'
  <2>1. /\ phase[f] = "saving"
        /\ \/ InsertMany(f) /\ saved'[f] = TRUE
           \/ UNCHANGED <<rows, saved>>
        /\ UNCHANGED <<last, cursor, pel, batch, phase>>
        /\ \A g \in Flushes \ {f} : saved'[g] = saved[g]
        /\ faults' = faults + 1
    BY <1>8, <1>t DEF SaveManyRetried, Fault, groupVars
  <2>2. /\ InsertMany(f) => \A i \in batch[f] : rows'[i] = 1
        /\ \A i \in (cursor + 1)..last : rows'[i] = 0
        /\ AckedIsSaved' /\ SavedOnce'
        /\ \A g \in Flushes \ {f} : OwnsBatch(g)'
    BY <2>1, InsertStep
  <2>3. faults' > 0
    BY <2>1, FaultsGrow DEF FlushIInv
  <2>4. OwnsBatch(f)'
    <3>1. CASE InsertMany(f) /\ saved'[f] = TRUE
      BY <1>o, <2>1, <2>2, <2>3, <3>1 DEF OwnsBatch
    <3>2. CASE UNCHANGED <<rows, saved>>
      BY <1>o, <2>1, <2>3, <3>2 DEF OwnsBatch
    <3> QED
      BY <2>1, <3>1, <3>2
  <2>5. OneFlushPerEntry'
    BY <2>1 DEF FlushIInv, OneFlushPerEntry
  <2> QED
    BY <1>0, <2>1, <2>2, <2>4, <2>5 DEF FlushIInv, FlushInv
<1>9. ASSUME NEW f \in Flushes, SaveManyFailed(f) \/ AlreadySaved(f) PROVE FlushIInv'
  <2>1. /\ phase[f] = "saving" /\ phase'[f] = "idle" /\ batch'[f] = {} /\ ~saved'[f]
        /\ InsertMany(f) \/ UNCHANGED rows
        /\ UNCHANGED <<last, cursor, pel>>
        /\ \A g \in Flushes \ {f} :
             phase'[g] = phase[g] /\ batch'[g] = batch[g] /\ saved'[g] = saved[g]
    BY <1>9, <1>t DEF SaveManyFailed, AlreadySaved, Leave, groupVars, streamVars
  <2>2. /\ \A i \in (cursor + 1)..last : rows'[i] = 0
        /\ AckedIsSaved' /\ SavedOnce'
        /\ \A g \in Flushes \ {f} : OwnsBatch(g)'
    BY <2>1, InsertStep
  <2>3. OwnsBatch(f)'
    BY <2>1 DEF OwnsBatch
  <2>4. OneFlushPerEntry'
    BY <2>1 DEF FlushIInv, OneFlushPerEntry
  <2> QED
    BY <1>0, <2>1, <2>2, <2>3, <2>4 DEF FlushIInv, FlushInv
<1>10. ASSUME NEW f \in Flushes, Acknowledge(f) PROVE FlushIInv'
  <2>1. /\ phase[f] = "acking" /\ phase'[f] = "idle" /\ batch'[f] = {} /\ ~saved'[f]
        /\ pel \ batch[f] \subseteq pel' /\ pel' \subseteq pel
        /\ UNCHANGED <<last, rows, cursor>>
        /\ \A g \in Flushes \ {f} :
             phase'[g] = phase[g] /\ batch'[g] = batch[g] /\ saved'[g] = saved[g]
    BY <1>10, <1>t DEF Acknowledge, Leave, streamVars
  <2>2. \A i \in batch[f] : rows[i] > 0
    BY <1>o, <2>1 DEF OwnsBatch
  <2>3. ASSUME NEW g \in Flushes \ {f} PROVE OwnsBatch(g)'
    <3>1. batch[g] \subseteq pel'
      BY <1>o, <2>1 DEF OwnsBatch, FlushIInv, OneFlushPerEntry
    <3> QED
      BY <2>1, <3>1, OwnsStill
  <2>4. OwnsBatch(f)'
    BY <2>1 DEF OwnsBatch
  <2>5. FlushInv'
    BY <2>1, <2>3, <2>4 DEF FlushIInv, FlushInv
  <2>6. AckedIsSaved'
    BY <2>1, <2>2 DEF FlushIInv, AckedIsSaved
  <2>7. OneFlushPerEntry' /\ SavedOnce'
    BY <2>1 DEF FlushIInv, OneFlushPerEntry, SavedOnce, Entries
  <2> QED
    BY <1>0, <2>5, <2>6, <2>7 DEF FlushIInv
<1>11. CASE UNCHANGED vars
  BY <1>1, <1>11 DEF vars, streamVars, groupVars, flushVars
<1> QED
  BY <1>2, <1>3, <1>4, <1>5, <1>6, <1>7, <1>8, <1>9, <1>10, <1>11 DEF Next

LEMMA FlushInvariant == Spec => []FlushIInv
BY FlushInit, FlushStep, PTL DEF Spec

(* An entry leaves the pending list only once it is in the database,       *)
(* however the process crashes and whatever calls fail: XACK comes after   *)
(* createMany in processMessages.                                          *)
THEOREM AckedEntriesAreSaved == Spec => []AckedIsSaved
<1>1. FlushIInv => AckedIsSaved
  BY DEF FlushIInv
<1> QED
  BY <1>1, FlushInvariant, PTL

(* Overlapping executions of the cron job never work on the same entry.    *)
THEOREM FlushesAreDisjoint == Spec => []OneFlushPerEntry
<1>1. FlushIInv => OneFlushPerEntry
  BY DEF FlushIInv
<1> QED
  BY <1>1, FlushInvariant, PTL

(* No entry of the stream becomes two rows of the table, however often its *)
(* insert is retried and whatever crashes in between.                      *)
THEOREM EntriesAreSavedOnce == Spec => []SavedOnce
<1>1. FlushIInv => SavedOnce
  BY DEF FlushIInv
<1> QED
  BY <1>1, FlushInvariant, PTL

-----------------------------------------------------------------------------
(* Nothing is stranded without a fault.                                    *)
LEMMA CountedFaults ==
  ASSUME faults \in Nat, NEW call, Counted(call), faults' = 0
  PROVE  faults = 0 /\ call = Answered
BY DEF Counted, Fault

LEMMA StrandedInit == Init => StrandedOnlyByFault
BY DEF Init, StrandedOnlyByFault

LEMMA StrandedStep ==
  FlushIInv /\ StrandedOnlyByFault /\ [Next]_vars => StrandedOnlyByFault'
<1> SUFFICES ASSUME FlushIInv, StrandedOnlyByFault, [Next]_vars, faults' = 0
             PROVE  \A i \in pel' : \E f \in Flushes : i \in batch'[f]
  BY DEF StrandedOnlyByFault
<1>t. /\ faults \in Nat /\ last \in Nat /\ cursor \in 0..last
      /\ batch \in [Flushes -> SUBSET (1..cursor)]
  BY CommentsAssumption DEF FlushIInv, TypeInv, TypeOK
<1>n. ~Fault
  BY <1>t DEF Fault
<1>1. CASE UNCHANGED <<pel, batch, faults>>
  BY <1>1 DEF StrandedOnlyByFault
<1>2. CASE Start
  BY <1>1, <1>2 DEF Start, CreateStream, flushVars
<1>3. ASSUME NEW r \in Requests, Claim(r) \/ BufferComment(r)
      PROVE  \A i \in pel' : \E f \in Flushes : i \in batch'[f]
  <2>1. PICK call \in Calls : Counted(call)
    BY <1>3 DEF Claim, BufferComment
  <2>2. UNCHANGED <<pel, batch>>
    BY <1>3 DEF Claim, BufferComment, groupVars, flushVars
  <2> QED
    BY <1>t, <2>1, <2>2, CountedFaults DEF StrandedOnlyByFault
<1>4. ASSUME NEW f \in Flushes, ReadBatch(f)
      PROVE  \A i \in pel' : \E g \in Flushes : i \in batch'[g]
  <2>1. PICK call \in Calls :
          LET read == IF call.ok THEN (After(call.runs - 1) + 1)..After(call.runs) ELSE {}
          IN /\ Counted(call)
             /\ pel' = pel \cup ((cursor + 1)..After(call.runs))
             /\ batch' = [batch EXCEPT ![f] = read]
    BY <1>4 DEF ReadBatch
  <2>2. faults = 0 /\ call = Answered
    BY <1>t, <2>1, CountedFaults
  <2>3. call.ok /\ call.runs = 1 /\ call.runs - 1 = 0
    BY <2>2 DEF Answered
  <2>4. After(call.runs - 1) = cursor
    BY <2>3, AfterRange DEF FlushIInv, TypeInv
  <2>5. batch' = [batch EXCEPT ![f] = (cursor + 1)..After(call.runs)]
    BY <2>1, <2>3, <2>4
  <2>6. batch[f] = {}
    BY <1>4 DEF ReadBatch, FlushIInv, FlushInv, OwnsBatch
  <2> QED
    BY <1>t, <2>1, <2>2, <2>5, <2>6 DEF StrandedOnlyByFault
<1>5. ASSUME NEW f \in Flushes, SaveMany(f)
      PROVE  \A i \in pel' : \E g \in Flushes : i \in batch'[g]
  BY <1>1, <1>5 DEF SaveMany, groupVars
<1>6. ASSUME NEW f \in Flushes, Acknowledge(f)
      PROVE  \A i \in pel' : \E g \in Flushes : i \in batch'[g]
  <2>1. PICK call \in Calls :
          Counted(call) /\ pel' = IF call.runs = 0 THEN pel ELSE pel \ batch[f]
    BY <1>6 DEF Acknowledge
  <2>2. faults = 0 /\ call.runs = 1
    BY <1>t, <2>1, CountedFaults DEF Answered
  <2>3. pel' = pel \ batch[f] /\ \A g \in Flushes \ {f} : batch'[g] = batch[g]
    BY <1>t, <1>6, <2>1, <2>2 DEF Acknowledge, Leave
  <2> QED
    BY <2>2, <2>3 DEF StrandedOnlyByFault
<1>7. ASSUME NEW f \in Flushes PROVE ~AlreadySaved(f)
  BY <1>t DEF AlreadySaved, FlushIInv, FlushInv, OwnsBatch
<1>8. CASE UNCHANGED vars
  BY <1>1, <1>8 DEF vars, groupVars, flushVars
<1> QED
  BY <1>n, <1>2, <1>3, <1>4, <1>5, <1>6, <1>7, <1>8
  DEF Next, Crash, SaveManyRetried, SaveManyFailed

(* As long as nothing has failed, every pending entry is in the hands of a *)
(* flush.                                                                  *)
THEOREM StrandedNeedsFault == Spec => []StrandedOnlyByFault
BY FlushInvariant, StrandedInit, StrandedStep, PTL DEF Spec

-----------------------------------------------------------------------------
(* The stream and its cron job implement a write-behind buffer.            *)
LEMMA BufferInit == Init => Buffer!Init
BY DEF Init, Buffer!Init, Entries

LEMMA BufferStep == FlushIInv /\ [Next]_vars => [Buffer!Next]_(Buffer!vars)
<1> SUFFICES ASSUME FlushIInv, [Next]_vars PROVE [Buffer!Next]_(Buffer!vars)
  OBVIOUS
<1> DEFINE stored == {i \in Entries : rows[i] > 0}
           settled == (1..cursor) \ pel
<1>t. /\ last \in Nat /\ cursor \in 0..last /\ pel \subseteq 1..cursor
      /\ rows \in [1..last -> Nat]
      /\ \A f \in Flushes : batch[f] \subseteq 1..cursor
  BY DEF FlushIInv, TypeInv, TypeOK, Entries
<1>i. FlushIInv'
  BY FlushStep
<1>1. CASE UNCHANGED <<last, rows, cursor, pel>>
  BY <1>1 DEF Buffer!vars, Entries
<1>2. CASE Start
  <2>1. cursor' = cursor
    BY <1>2 DEF Start, CreateStream, FlushIInv, TypeInv
  <2> QED
    BY <1>1, <1>2, <2>1 DEF Start, CreateStream, streamVars
<1>3. CASE Crash
  BY <1>1, <1>3 DEF Crash, streamVars, groupVars
<1>4. ASSUME NEW r \in Requests, Claim(r) PROVE [Buffer!Next]_(Buffer!vars)
  BY <1>1, <1>4 DEF Claim, streamVars, groupVars
<1>5. ASSUME NEW r \in Requests, BufferComment(r) PROVE [Buffer!Next]_(Buffer!vars)
  <2>1. PICK call \in Calls : AddToStream(r, call)
    BY <1>5 DEF BufferComment
  <2>2. call.runs \in Nat
    BY CallsType
  <2>3. last' = last + call.runs
    BY <2>1 DEF AddToStream
  <2>4. /\ last' \in Nat /\ last <= last'
        /\ \A i \in 1..last' : rows'[i] = IF i <= last THEN rows[i] ELSE 0
    BY <1>t, <2>1, <2>2, <2>3 DEF AddToStream
  <2>5. UNCHANGED <<cursor, pel>>
    BY <1>5 DEF BufferComment, groupVars
  <2>6. Entries \subseteq Entries'
    BY <1>t, <2>4 DEF Entries
  <2>7. stored' = stored
    BY <1>t, <2>4 DEF Entries
  <2> QED
    BY <2>5, <2>6, <2>7 DEF Buffer!Next, Buffer!Accept
<1>6. ASSUME NEW f \in Flushes, ReadBatch(f) PROVE [Buffer!Next]_(Buffer!vars)
  <2>1. PICK call \in Calls :
          cursor' = After(call.runs) /\ pel' = pel \cup ((cursor + 1)..cursor')
    BY <1>6 DEF ReadBatch
  <2>2. cursor' \in cursor..last
    BY <2>1, ReadRange DEF FlushIInv, TypeInv
  <2>3. UNCHANGED <<last, rows>>
    BY <1>6 DEF ReadBatch, streamVars
  <2>4. settled' = settled
    BY <1>t, <2>1, <2>2
  <2> QED
    BY <2>3, <2>4 DEF Buffer!vars, Entries
<1>7. ASSUME NEW f \in Flushes, SaveMany(f) \/ SaveManyRetried(f) \/ SaveManyFailed(f) \/ AlreadySaved(f)
      PROVE  [Buffer!Next]_(Buffer!vars)
  <2>1. /\ InsertMany(f) \/ UNCHANGED rows
        /\ UNCHANGED <<last, cursor, pel>>
    BY <1>7
    DEF SaveMany, SaveManyRetried, SaveManyFailed, AlreadySaved, groupVars, streamVars
  <2>2. \A i \in 1..last : rows'[i] = rows[i] \/ rows'[i] = rows[i] + 1
    BY <1>t, <2>1 DEF InsertMany, Entries
  <2>3. stored \subseteq stored'
    BY <1>t, <2>1, <2>2 DEF Entries
  <2>4. stored' \subseteq Entries /\ Entries' = Entries /\ settled' = settled
    BY <2>1 DEF Entries
  <2> QED
    BY <2>3, <2>4 DEF Buffer!Next, Buffer!Store
<1>8. ASSUME NEW f \in Flushes, Acknowledge(f) PROVE [Buffer!Next]_(Buffer!vars)
  <2>1. UNCHANGED <<last, rows, cursor>> /\ pel' \subseteq pel
    BY <1>8 DEF Acknowledge, streamVars
  <2>2. settled' \subseteq stored
    BY <1>t, <1>i, <2>1 DEF FlushIInv, AckedIsSaved, Entries
  <2>3. settled \subseteq settled' /\ Entries' = Entries /\ stored' = stored
    BY <2>1 DEF Entries
  <2> QED
    BY <2>2, <2>3 DEF Buffer!Next, Buffer!Settle
<1>9. CASE UNCHANGED vars
  BY <1>1, <1>9 DEF vars, streamVars, groupVars
<1> QED
  BY <1>2, <1>3, <1>4, <1>5, <1>6, <1>7, <1>8, <1>9 DEF Next

(* The detailed service implements the abstract write-behind buffer: what  *)
(* it accepts it stores before it settles, and it never takes any of the   *)
(* three back.                                                             *)
THEOREM ImplementsWriteBehind == Spec => BufferSpec
<1>1. Spec => Buffer!Init /\ [][Buffer!Next]_(Buffer!vars)
  BY BufferInit, BufferStep, FlushInvariant, PTL DEF Spec
<1> QED
  BY <1>1 DEF BufferSpec, Buffer!Spec

(* A promise of every write-behind buffer, proved of the abstract one.     *)
LEMMA BufferOrder == Buffer!Spec => []Buffer!InOrder
<1>1. Buffer!Init => Buffer!InOrder
  BY DEF Buffer!Init, Buffer!InOrder
<1>2. Buffer!InOrder /\ [Buffer!Next]_(Buffer!vars) => Buffer!InOrder'
  BY DEF Buffer!InOrder, Buffer!Next, Buffer!Accept, Buffer!Store, Buffer!Settle, Buffer!vars
<1> QED
  BY <1>1, <1>2, PTL DEF Buffer!Spec

(* So the comments service keeps it: an entry is acknowledged only when it *)
(* is in the database, and only entries of the stream get there.           *)
THEOREM EntriesGoInOrder == Spec => []Buffer!InOrder
BY ImplementsWriteBehind, BufferOrder, PTL DEF BufferSpec

-----------------------------------------------------------------------------
(* The command side: what the claim in the cache guarantees.               *)
ClaimIInv == TypeInv /\ ClaimInv /\ OneEntryPerPair /\ CommentedIsBuffered

LEMMA ClaimInit == Init => ClaimIInv
<1> SUFFICES ASSUME Init PROVE ClaimIInv
  OBVIOUS
<1>1. TypeInv
  BY TypeInit
<1>2. /\ \A r \in Requests : pc[r] = "new"
      /\ \A k \in Ids : usersSet[k] = {}
      /\ last = 0
  BY DEF Init
<1> QED
  BY <1>1, <1>2 DEF ClaimIInv, ClaimInv, OneEntryPerPair, CommentedIsBuffered, Entries, Ids

(* Claim touches no entry, and no command but r.                           *)
LEMMA ClaimStepClaim ==
  ASSUME ClaimIInv, TypeInv', NEW r \in Requests, Claim(r) PROVE ClaimIInv'
<1>t. /\ pc \in [Requests -> {"new", "buffering", "commented", "already", "failed"}]
      /\ usersSet \in [Ids -> SUBSET Ids]
      /\ stream \in [Entries -> Requests]
      /\ \A q \in Requests : UserOf[q] \in Ids /\ VideoOf[q] \in Ids
      /\ Users \subseteq Ids
  BY CommentsAssumption DEF ClaimIInv, TypeInv, TypeOK, Ids
<1>1. PICK call \in Calls :
        /\ IncrementCommentsCounter(VideoOf[r], UserOf[r], call)
        /\ pc' = [pc EXCEPT ![r] =
                    IF ~call.ok THEN "failed"
                    ELSE IF ScriptAnswer(UserOf[r], VideoOf[r], call) = 0
                         THEN "already"
                         ELSE "buffering"]
  BY DEF Claim
<1>2. UNCHANGED <<last, stream>> /\ Entries' = Entries
  BY DEF Claim, streamVars, Entries
<1>3. /\ pc[r] = "new"
      /\ pc'[r] \in {"failed", "already", "buffering"}
      /\ \A q \in Requests \ {r} : pc'[q] = pc[q]
  BY <1>t, <1>1 DEF Claim
<1>4. \A i \in Entries : stream[i] \in Requests /\ stream[i] # r
  BY <1>t, <1>3 DEF ClaimIInv, ClaimInv
<1>5. CASE call.runs = 0
  <2>1. usersSet' = usersSet /\ pc'[r] = "failed"
    BY <1>t, <1>1, <1>5, CallsType DEF IncrementCommentsCounter, cacheVars
  <2> QED
    BY <1>2, <1>3, <1>4, <2>1
    DEF ClaimIInv, ClaimInv, OneEntryPerPair, CommentedIsBuffered, SamePair
<1>6. CASE call.runs # 0
  <2>1. /\ usersSet' = [usersSet EXCEPT ![UserOf[r]] = @ \cup {VideoOf[r]}]
        /\ VideoOf[r] \in usersSet'[UserOf[r]]
        /\ \A k \in Ids : usersSet[k] \subseteq usersSet'[k]
        /\ \A u \in Users, v \in Videos :
             v \in usersSet'[u] => \/ v \in usersSet[u]
                                   \/ UserOf[r] = u /\ VideoOf[r] = v
    BY <1>t, <1>1, <1>6 DEF IncrementCommentsCounter, CommentVideoScript
  <2>2. pc'[r] = "buffering" => VideoOf[r] \notin usersSet[UserOf[r]]
    BY <1>t, <1>1 DEF ScriptAnswer
  <2>3. ~Resends => call.runs = 1
    BY <1>6 DEF Calls, Answered, Refused, ReplyLost
  <2>4. ~Resends /\ pc'[r] = "already" => VideoOf[r] \in usersSet[UserOf[r]]
    BY <1>t, <1>1, <2>3 DEF ScriptAnswer
  <2>5. \A q \in Requests :
          pc'[q] \in {"buffering", "already"} => VideoOf[q] \in usersSet'[UserOf[q]]
    BY <1>t, <1>3, <2>1 DEF ClaimIInv, ClaimInv
  <2>6. \A i \in Entries :
          /\ VideoOf[stream[i]] \in usersSet'[UserOf[stream[i]]]
          /\ pc'[stream[i]] \in {"commented", "failed"}
    BY <1>t, <1>3, <1>4, <2>1 DEF ClaimIInv, ClaimInv
  <2>7. \A p \in Requests : pc'[p] = "buffering" =>
          /\ \A q \in Requests : pc'[q] = "buffering" /\ SamePair(p, q) => p = q
          /\ \A i \in Entries : ~SamePair(p, stream[i])
    BY <1>t, <1>3, <1>4, <2>2 DEF ClaimIInv, ClaimInv, SamePair
  <2>8. ASSUME ~Resends, NEW u \in Users, NEW v \in Videos, v \in usersSet'[u]
        PROVE  \E q \in Requests :
                 /\ UserOf[q] = u /\ VideoOf[q] = v
                 /\ \/ pc'[q] \in {"buffering", "failed"}
                    \/ \E i \in Entries : stream[i] = q
    <3>1. CASE v \in usersSet[u]
      BY <1>3, <2>8, <3>1 DEF ClaimIInv, ClaimInv
    <3>2. CASE v \notin usersSet[u]
      <4>1. UserOf[r] = u /\ VideoOf[r] = v
        BY <2>1, <2>8, <3>2
      <4>2. pc'[r] # "already"
        BY <2>4, <2>8, <3>2, <4>1
      <4> QED
        BY <1>3, <4>1, <4>2
    <3> QED BY <3>1, <3>2
  <2>9. ClaimInv'
    BY <1>2, <2>5, <2>6, <2>7, <2>8 DEF ClaimInv, SamePair
  <2>10. OneEntryPerPair'
    BY <1>2 DEF ClaimIInv, OneEntryPerPair, SamePair
  <2>11. CommentedIsBuffered'
    BY <1>2, <1>3 DEF ClaimIInv, CommentedIsBuffered
  <2> QED
    BY <2>9, <2>10, <2>11 DEF ClaimIInv
<1> QED
  BY <1>5, <1>6

(* The new entries are r's, and r was the only command buffering its pair. *)
LEMMA ClaimStepBuffer ==
  ASSUME ClaimIInv, TypeInv', NEW r \in Requests, BufferComment(r) PROVE ClaimIInv'
<1>t. /\ pc \in [Requests -> {"new", "buffering", "commented", "already", "failed"}]
      /\ stream \in [Entries -> Requests] /\ last \in Nat
  BY DEF ClaimIInv, TypeInv, TypeOK
<1>1. PICK call \in Calls :
        /\ AddToStream(r, call)
        /\ pc' = [pc EXCEPT ![r] = IF call.ok THEN "commented" ELSE "failed"]
  BY DEF BufferComment
<1>2. /\ pc[r] = "buffering"
      /\ pc'[r] \in {"commented", "failed"}
      /\ \A q \in Requests \ {r} : pc'[q] = pc[q]
      /\ usersSet' = usersSet
  BY <1>t, <1>1 DEF BufferComment, cacheVars
<1>3. call.runs \in Nat /\ (pc'[r] = "commented" => call.runs >= 1)
  BY <1>t, <1>1, CallsType
<1>4. last' = last + call.runs
  BY <1>1 DEF AddToStream
<1>5. /\ last' \in Nat /\ last <= last'
      /\ \A i \in Entries : i \in Entries' /\ stream'[i] = stream[i]
      /\ \A i \in Entries' : (i \in Entries /\ stream'[i] = stream[i]) \/ (i > last /\ stream'[i] = r)
  BY <1>t, <1>1, <1>3, <1>4 DEF AddToStream, Entries
<1>6. \A i \in Entries : ~SamePair(r, stream[i]) /\ stream[i] \in Requests /\ stream[i] # r
  BY <1>t, <1>2 DEF ClaimIInv, ClaimInv, SamePair
<1>7. \A q \in Requests :
        pc'[q] \in {"buffering", "already"} => VideoOf[q] \in usersSet'[UserOf[q]]
  BY <1>2 DEF ClaimIInv, ClaimInv
<1>8. \A i \in Entries' :
        /\ VideoOf[stream'[i]] \in usersSet'[UserOf[stream'[i]]]
        /\ pc'[stream'[i]] \in {"commented", "failed"}
  BY <1>2, <1>5, <1>6 DEF ClaimIInv, ClaimInv
<1>9. \A p \in Requests : pc'[p] = "buffering" =>
        /\ \A q \in Requests : pc'[q] = "buffering" /\ SamePair(p, q) => p = q
        /\ \A i \in Entries' : ~SamePair(p, stream'[i])
  <2> SUFFICES ASSUME NEW p \in Requests, pc'[p] = "buffering"
               PROVE  /\ \A q \in Requests : pc'[q] = "buffering" /\ SamePair(p, q) => p = q
                      /\ \A i \in Entries' : ~SamePair(p, stream'[i])
    OBVIOUS
  <2>1. p # r /\ pc[p] = "buffering"
    BY <1>2
  <2>2. ~SamePair(p, r)
    BY <1>2, <2>1 DEF ClaimIInv, ClaimInv
  <2> QED
    BY <1>2, <1>5, <2>1, <2>2 DEF ClaimIInv, ClaimInv
<1>10. ASSUME ~Resends, NEW u \in Users, NEW v \in Videos, v \in usersSet'[u]
       PROVE  \E q \in Requests :
                /\ UserOf[q] = u /\ VideoOf[q] = v
                /\ \/ pc'[q] \in {"buffering", "failed"}
                   \/ \E i \in Entries' : stream'[i] = q
  <2>1. PICK q \in Requests :
          /\ UserOf[q] = u /\ VideoOf[q] = v
          /\ \/ pc[q] \in {"buffering", "failed"}
             \/ \E i \in Entries : stream[i] = q
    BY <1>2, <1>10 DEF ClaimIInv, ClaimInv
  <2>2. CASE q # r
    BY <1>2, <1>5, <2>1, <2>2
  <2>3. CASE q = r /\ pc'[r] = "failed"
    BY <2>1, <2>3
  <2>4. CASE q = r /\ pc'[r] = "commented"
    <3>1. last + 1 \in Entries' /\ stream'[last + 1] = r
      BY <1>t, <1>3, <1>4, <1>5, <2>4 DEF Entries
    <3> QED
      BY <2>1, <2>4, <3>1
  <2> QED
    BY <1>2, <2>2, <2>3, <2>4
<1>11. ClaimInv'
  BY <1>7, <1>8, <1>9, <1>10 DEF ClaimInv, SamePair
<1>12. OneEntryPerPair'
  <2> SUFFICES ASSUME ~Resends, NEW i \in Entries', NEW j \in Entries',
                      SamePair(stream'[i], stream'[j])
               PROVE  i = j
    BY DEF OneEntryPerPair, SamePair
  <2>1. call.runs \in {0, 1}
    BY DEF Calls, Answered, Refused, ReplyLost
  <2>2. \A k \in Entries' : k > last => k = last + 1
    BY <1>t, <1>4, <2>1 DEF Entries
  <2>3. \A k \in Entries : ~SamePair(stream[k], r)
    BY <1>6 DEF SamePair
  <2> QED
    BY <1>5, <1>6, <2>2, <2>3 DEF ClaimIInv, OneEntryPerPair
<1>13. CommentedIsBuffered'
  <2> SUFFICES ASSUME NEW q \in Requests, pc'[q] = "commented"
               PROVE  \E i \in Entries' : stream'[i] = q
    BY DEF CommentedIsBuffered
  <2>1. CASE q # r
    BY <1>2, <1>5, <2>1 DEF ClaimIInv, CommentedIsBuffered
  <2>2. CASE q = r
    <3>1. last + 1 \in Entries' /\ stream'[last + 1] = r
      BY <1>t, <1>3, <1>4, <1>5, <2>2 DEF Entries
    <3> QED
      BY <2>2, <3>1
  <2> QED
    BY <2>1, <2>2
<1> QED
  BY <1>11, <1>12, <1>13 DEF ClaimIInv

LEMMA ClaimStep == ClaimIInv /\ [Next]_vars => ClaimIInv'
<1> SUFFICES ASSUME ClaimIInv, [Next]_vars PROVE ClaimIInv'
  OBVIOUS
<1>0. TypeInv'
  BY TypeStep DEF ClaimIInv
<1>1. CASE UNCHANGED <<pc, usersSet, last, stream>>
  BY <1>0, <1>1
  DEF ClaimIInv, ClaimInv, OneEntryPerPair, CommentedIsBuffered, SamePair, Entries
<1>2. CASE Start
  BY <1>1, <1>2 DEF Start, cacheVars, streamVars
<1>3. CASE Crash
  <2>1. \A r \in Requests : pc'[r] = IF pc[r] = "buffering" THEN "failed" ELSE pc[r]
    BY <1>3 DEF Crash
  <2>2. UNCHANGED <<usersSet, last, stream>>
    BY <1>3 DEF Crash, cacheVars, streamVars
  <2>3. \A i \in Entries : stream[i] \in Requests
    BY DEF ClaimIInv, TypeInv, TypeOK
  <2>4. ClaimInv'
    BY <2>1, <2>2, <2>3 DEF ClaimIInv, ClaimInv, Entries
  <2>5. OneEntryPerPair' /\ CommentedIsBuffered'
    BY <2>1, <2>2 DEF ClaimIInv, OneEntryPerPair, CommentedIsBuffered, SamePair, Entries
  <2> QED
    BY <1>0, <2>4, <2>5 DEF ClaimIInv
<1>4. ASSUME NEW r \in Requests, Claim(r) \/ BufferComment(r) PROVE ClaimIInv'
  BY <1>0, <1>4, ClaimStepClaim, ClaimStepBuffer
<1>5. ASSUME NEW f \in Flushes,
             \/ ReadBatch(f) \/ SaveMany(f) \/ SaveManyRetried(f)
             \/ AlreadySaved(f) \/ SaveManyFailed(f) \/ Acknowledge(f)
      PROVE  ClaimIInv'
  BY <1>1, <1>5
  DEF ReadBatch, SaveMany, SaveManyRetried, AlreadySaved, SaveManyFailed, Acknowledge,
      cacheVars, streamVars
<1>6. CASE UNCHANGED vars
  BY <1>1, <1>6 DEF vars, cacheVars, streamVars
<1> QED
  BY <1>2, <1>3, <1>4, <1>5, <1>6 DEF Next

LEMMA ClaimInvariant == Spec => []ClaimIInv
BY ClaimInit, ClaimStep, PTL DEF Spec

(* The claim admits one entry for each user and video, if no command is    *)
(* resent.                                                                 *)
THEOREM OneEntryForEachPair == Spec => []OneEntryPerPair
<1>1. ClaimIInv => OneEntryPerPair
  BY DEF ClaimIInv
<1> QED
  BY <1>1, ClaimInvariant, PTL

(* A command answered "Commented on video" has its comment in the stream.  *)
THEOREM CommentedMeansBuffered == Spec => []CommentedIsBuffered
<1>1. ClaimIInv => CommentedIsBuffered
  BY DEF ClaimIInv
<1> QED
  BY <1>1, ClaimInvariant, PTL

(* Without a fault an answered comment waits in the stream, is in the      *)
(* hands of a flush, or is exactly one row: no execution of the cron job   *)
(* loses or doubles it.                                                    *)
THEOREM AnsweredCommentsAreKept == Spec => []CommentsAreKept
<1>1. FlushIInv /\ StrandedOnlyByFault /\ CommentedIsBuffered => CommentsAreKept
  <2> SUFFICES ASSUME FlushIInv, StrandedOnlyByFault, CommentedIsBuffered, faults = 0,
                      NEW r \in Requests, pc[r] = "commented"
               PROVE  \E i \in Entries :
                        /\ stream[i] = r
                        /\ \/ i \in (cursor + 1)..last
                           \/ \E f \in Flushes : i \in batch[f]
                           \/ rows[i] = 1
    BY DEF CommentsAreKept
  <2>1. PICK i \in Entries : stream[i] = r
    BY DEF CommentedIsBuffered
  <2>2. last \in Nat /\ cursor \in 0..last /\ rows[i] \in Nat /\ i \in 1..last
    BY DEF FlushIInv, TypeInv, TypeOK, Entries
  <2>3. CASE i \in pel
    BY <2>1, <2>3 DEF StrandedOnlyByFault
  <2>4. CASE i \in (1..cursor) \ pel
    <3>1. rows[i] > 0
      BY <2>4 DEF FlushIInv, AckedIsSaved
    <3>2. rows[i] <= 1
      BY <2>2 DEF FlushIInv, SavedOnce
    <3> QED
      BY <2>1, <2>2, <3>1, <3>2
  <2>5. i \in (cursor + 1)..last \/ i \in 1..cursor
    BY <2>2
  <2> QED
    BY <2>1, <2>3, <2>4, <2>5
<1> QED
  BY <1>1, FlushInvariant, StrandedNeedsFault, CommentedMeansBuffered, PTL

(* A command is answered "already commented" only because of another       *)
(* command, if no command is resent.                                       *)
THEOREM AlreadyMeansAnother == Spec => []AlreadyHasOrigin
<1>1. ClaimIInv => AlreadyHasOrigin
  <2> SUFFICES ASSUME ClaimIInv, ~Resends, NEW r \in Requests, pc[r] = "already"
               PROVE  \E q \in Requests \ {r} :
                        /\ SamePair(r, q)
                        /\ \/ pc[q] \in {"buffering", "failed"}
                           \/ \E i \in Entries : stream[i] = q
    BY DEF AlreadyHasOrigin
  <2>1. VideoOf[r] \in usersSet[UserOf[r]]
    BY DEF ClaimIInv, ClaimInv
  <2>2. UserOf[r] \in Users /\ VideoOf[r] \in Videos
    BY CommentsAssumption
  <2>3. PICK q \in Requests :
          /\ UserOf[q] = UserOf[r] /\ VideoOf[q] = VideoOf[r]
          /\ \/ pc[q] \in {"buffering", "failed"}
             \/ \E i \in Entries : stream[i] = q
    BY <2>1, <2>2 DEF ClaimIInv, ClaimInv
  <2>4. q # r
    BY <2>3 DEF ClaimIInv, ClaimInv
  <2> QED
    BY <2>3, <2>4 DEF SamePair
<1> QED
  BY <1>1, ClaimInvariant, PTL

-----------------------------------------------------------------------------
(* The counter and the set change together.                                *)
ShardMembers(members, k, s) == {m \in members : ShardOf[<<m, k>>] = s}

(* Adding a member to a set adds one to the count of the member's shard,   *)
(* if the member is new, and nothing anywhere else.                        *)
LEMMA AddMember ==
  ASSUME NEW S, IsFiniteSet(S), NEW x, x \notin S, NEW k, NEW s
  PROVE  Cardinality(ShardMembers(S \cup {x}, k, s)) =
           IF ShardOf[<<x, k>>] = s
           THEN Cardinality(ShardMembers(S, k, s)) + 1
           ELSE Cardinality(ShardMembers(S, k, s))
<1>1. IsFiniteSet(ShardMembers(S, k, s))
  <2>1. ShardMembers(S, k, s) \in SUBSET S
    BY DEF ShardMembers
  <2> QED
    BY <2>1, FS_Subset
<1>2. x \notin ShardMembers(S, k, s)
  BY DEF ShardMembers
<1>3. CASE ShardOf[<<x, k>>] = s
  <2>1. ShardMembers(S \cup {x}, k, s) = ShardMembers(S, k, s) \cup {x}
    BY <1>3 DEF ShardMembers
  <2> DEFINE M == ShardMembers(S, k, s)
  <2>2. Cardinality(M \cup {x}) = IF x \in M THEN Cardinality(M) ELSE Cardinality(M) + 1
    BY <1>1, FS_AddElement
  <2> QED
    BY <1>2, <1>3, <2>1, <2>2
<1>4. CASE ShardOf[<<x, k>>] # s
  <2>1. ShardMembers(S \cup {x}, k, s) = ShardMembers(S, k, s)
    BY <1>4 DEF ShardMembers
  <2> QED
    BY <1>4, <2>1
<1> QED
  BY <1>3, <1>4

CounterIInv == TypeInv /\ CounterMatchesSet

LEMMA CounterInit == Init => CounterIInv
<1> SUFFICES ASSUME Init, NEW k \in Ids, NEW s \in Shards
             PROVE  counter[k][s] = Cardinality({m \in usersSet[k] : ShardOf[<<m, k>>] = s})
  BY TypeInit DEF CounterIInv, CounterMatchesSet
<1>1. counter[k][s] = 0 /\ usersSet[k] = {}
  BY DEF Init
<1>2. {m \in usersSet[k] : ShardOf[<<m, k>>] = s} = {}
  BY <1>1
<1> QED
  BY <1>1, <1>2, FS_EmptySet

LEMMA ScriptKeepsCount ==
  ASSUME CounterIInv, NEW setKey \in Ids, NEW member \in Ids,
         CommentVideoScript(setKey, ShardOf[<<member, setKey>>], member)
  PROVE  CounterMatchesSet'
<1> SUFFICES ASSUME NEW k \in Ids, NEW s \in Shards
             PROVE  counter'[k][s] = Cardinality(ShardMembers(usersSet'[k], k, s))
  BY DEF CounterMatchesSet, ShardMembers
<1>t. /\ usersSet \in [Ids -> SUBSET Ids]
      /\ counter \in [Ids -> [Shards -> Nat]]
      /\ ShardOf[<<member, setKey>>] \in Shards
  BY CommentsAssumption DEF CounterIInv, TypeInv, TypeOK
<1>f. IsFiniteSet(usersSet[setKey])
  <2>1. IsFiniteSet(Ids)
    BY CommentsAssumption, FS_Union DEF Ids
  <2>2. usersSet[setKey] \in SUBSET Ids
    BY <1>t
  <2> QED
    BY <2>1, <2>2, FS_Subset
<1>1. counter[k][s] = Cardinality(ShardMembers(usersSet[k], k, s))
  BY DEF CounterIInv, CounterMatchesSet, ShardMembers
<1>2. CASE k # setKey
  <2>1. usersSet'[k] = usersSet[k] /\ counter'[k] = counter[k]
    BY <1>t, <1>2 DEF CommentVideoScript
  <2> QED
    BY <1>1, <2>1
<1>3. CASE k = setKey /\ member \in usersSet[setKey]
  <2>1. usersSet'[k] = usersSet[k] /\ counter'[k] = counter[k]
    BY <1>t, <1>3 DEF CommentVideoScript
  <2> QED
    BY <1>1, <2>1
<1>4. CASE k = setKey /\ member \notin usersSet[setKey]
  <2>1. /\ usersSet'[k] = usersSet[k] \cup {member}
        /\ counter'[k][s] = IF ShardOf[<<member, k>>] = s
                            THEN counter[k][s] + 1 ELSE counter[k][s]
    BY <1>t, <1>4 DEF CommentVideoScript
  <2> QED
    BY <1>1, <1>4, <1>f, <2>1, AddMember
<1> QED
  BY <1>2, <1>3, <1>4

LEMMA CounterStep == CounterIInv /\ [Next]_vars => CounterIInv'
<1> SUFFICES ASSUME CounterIInv, [Next]_vars PROVE CounterIInv'
  OBVIOUS
<1>0. TypeInv'
  BY TypeStep DEF CounterIInv
<1>1. CASE UNCHANGED cacheVars
  BY <1>0, <1>1 DEF CounterIInv, CounterMatchesSet, cacheVars
<1>2. ASSUME NEW r \in Requests, Claim(r) PROVE CounterIInv'
  <2>1. PICK call \in Calls : IncrementCommentsCounter(VideoOf[r], UserOf[r], call)
    BY <1>2 DEF Claim
  <2>2. CASE call.runs = 0
    BY <1>1, <2>1, <2>2 DEF IncrementCommentsCounter
  <2>3. CASE call.runs # 0
    <3>1. CommentVideoScript(UserOf[r], ShardOf[<<VideoOf[r], UserOf[r]>>], VideoOf[r])
      BY <2>1, <2>3 DEF IncrementCommentsCounter
    <3>2. UserOf[r] \in Ids /\ VideoOf[r] \in Ids
      BY CommentsAssumption DEF Ids
    <3> QED
      BY <1>0, <3>1, <3>2, ScriptKeepsCount DEF CounterIInv
  <2> QED
    BY <2>2, <2>3
<1>3. CASE Start \/ Crash \/ UNCHANGED vars
  BY <1>1, <1>3 DEF Start, Crash, vars
<1>4. ASSUME NEW r \in Requests, BufferComment(r) PROVE CounterIInv'
  BY <1>1, <1>4 DEF BufferComment
<1>5. ASSUME NEW f \in Flushes,
             \/ ReadBatch(f) \/ SaveMany(f) \/ SaveManyRetried(f)
             \/ AlreadySaved(f) \/ SaveManyFailed(f) \/ Acknowledge(f)
      PROVE  CounterIInv'
  BY <1>1, <1>5
  DEF ReadBatch, SaveMany, SaveManyRetried, AlreadySaved, SaveManyFailed, Acknowledge
<1> QED
  BY <1>2, <1>3, <1>4, <1>5 DEF Next

(* Shard by shard, the counter is the number of members of the set, even   *)
(* when commands fail half-way or are resent: comments.lua counts exactly  *)
(* when it adds.                                                           *)
THEOREM CounterIsSetSize == Spec => []CounterMatchesSet
<1>1. CounterIInv => CounterMatchesSet
  BY DEF CounterIInv
<1> QED
  BY <1>1, CounterInit, CounterStep, PTL DEF Spec

=============================================================================
