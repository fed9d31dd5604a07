-------------------------- MODULE Onboarding_proofs --------------------------
(***************************************************************************)
(* Theorems about Onboarding, for every value of its constants.            *)
(***************************************************************************)
EXTENDS Onboarding, TLAPS

(* A send only adds its event at the end of one partition.                 *)
LEMMA SendLog ==
  ASSUME TypeOK, NEW s \in Signups, Send(s)
  PROVE  /\ log' \in [Partitions -> Seq(Signups)]
         /\ \A p \in Partitions :
              /\ Len(log[p]) \in Nat /\ Len(log'[p]) \in Nat
              /\ Len(log[p]) <= Len(log'[p])
              /\ \A i \in 1..Len(log[p]) : log'[p][i] = log[p][i]
              /\ \A i \in 1..Len(log'[p]) : i \in 1..Len(log[p]) \/ log'[p][i] = s
<1> DEFINE q == PartitionOf[s]
<1>1. q \in Partitions /\ log \in [Partitions -> Seq(Signups)]
  BY OnboardingAssumption DEF TypeOK
<1>2. log' = [log EXCEPT ![q] = Append(log[q], s)]
  BY DEF Send
<1>3. log[q] \in Seq(Signups)
  BY <1>1
<1>4. /\ Append(log[q], s) \in Seq(Signups)
      /\ Len(Append(log[q], s)) = Len(log[q]) + 1
      /\ Len(log[q]) \in Nat
      /\ \A i \in 1..Len(log[q]) : Append(log[q], s)[i] = log[q][i]
      /\ Append(log[q], s)[Len(log[q]) + 1] = s
  BY <1>3
<1>5. ASSUME NEW p \in Partitions
      PROVE  log'[p] = IF p = q THEN Append(log[q], s) ELSE log[p]
  BY <1>1, <1>2
<1>6. log' \in [Partitions -> Seq(Signups)]
  BY <1>1, <1>2, <1>4
<1>7. ASSUME NEW p \in Partitions
      PROVE  /\ Len(log[p]) \in Nat /\ Len(log'[p]) \in Nat
             /\ Len(log[p]) <= Len(log'[p])
             /\ \A i \in 1..Len(log[p]) : log'[p][i] = log[p][i]
             /\ \A i \in 1..Len(log'[p]) : i \in 1..Len(log[p]) \/ log'[p][i] = s
  <2>1. CASE p = q
    <3>1. log[p] = log[q] /\ log'[p] = Append(log[q], s)
      BY <1>5, <2>1
    <3>2. Len(log[p]) \in Nat /\ Len(log'[p]) = Len(log[p]) + 1
      BY <1>4, <3>1
    <3>3. \A i \in 1..Len(log[p]) : log'[p][i] = log[p][i]
      BY <1>4, <3>1
    <3>4. log'[p][Len(log[p]) + 1] = s
      BY <1>4, <3>1
    <3>5. ASSUME NEW i \in 1..Len(log'[p])
          PROVE  i \in 1..Len(log[p]) \/ log'[p][i] = s
      <4>1. i \in 1..Len(log[p]) \/ i = Len(log[p]) + 1
        BY <3>2
      <4> QED
        BY <3>4, <4>1
    <3> QED
      BY <3>2, <3>3, <3>5
  <2>2. CASE p # q
    <3>1. log[p] \in Seq(Signups)
      BY <1>1
    <3> QED
      BY <1>5, <2>2, <3>1
  <2> QED
    BY <2>1, <2>2
<1> QED
  BY <1>6, <1>7

(* The next message of a group is an event of a signup.                    *)
LEMMA NextIsSignup ==
  ASSUME TypeOK, NEW g \in Groups, NEW p \in Partitions, HasNext(g, p)
  PROVE  /\ NextOf(g, p) \in Signups
         /\ position[g][p] \in Nat /\ position[g][p] + 1 \in 1..Len(log[p])
<1>1. position[g][p] \in Nat /\ log[p] \in Seq(Signups)
  BY DEF TypeOK
<1>2. position[g][p] + 1 \in 1..Len(log[p])
  BY <1>1 DEF HasNext
<1> QED
  BY <1>1, <1>2 DEF NextOf

LEMMA FaultType == ASSUME faults \in 0..MaxFaults, Fault PROVE faults' \in 0..MaxFaults
BY OnboardingAssumption DEF Fault

(* Moving a group past its next message keeps the offsets in order.        *)
LEMMA AdvanceType ==
  ASSUME TypeOK, NEW g \in Groups, NEW p \in Partitions, HasNext(g, p), Advance(g, p),
         UNCHANGED <<log, committed>>
  PROVE  /\ position' \in [Groups -> [Partitions -> Nat]]
         /\ \A h \in Groups, q \in Partitions :
              committed'[h][q] <= position'[h][q] /\ position'[h][q] <= Len(log'[q])
         /\ \A h \in Groups, q \in Partitions :
              position'[h][q] = IF h = g /\ q = p THEN position[h][q] + 1 ELSE position[h][q]
<1>1. position \in [Groups -> [Partitions -> Nat]] /\ committed \in [Groups -> [Partitions -> Nat]]
  BY DEF TypeOK
<1>2. position' \in [Groups -> [Partitions -> Nat]]
  BY <1>1 DEF Advance
<1>3. ASSUME NEW h \in Groups, NEW q \in Partitions
      PROVE  position'[h][q] = IF h = g /\ q = p THEN position[h][q] + 1 ELSE position[h][q]
  BY <1>1 DEF Advance
<1>4. ASSUME NEW h \in Groups, NEW q \in Partitions
      PROVE  committed'[h][q] <= position'[h][q] /\ position'[h][q] <= Len(log'[q])
  <2>1. /\ committed[h][q] \in Nat /\ position[h][q] \in Nat /\ Len(log[q]) \in Nat
        /\ committed[h][q] <= position[h][q] /\ position[h][q] <= Len(log[q])
    <3>1. log[q] \in Seq(Signups)
      BY DEF TypeOK
    <3> QED
      BY <1>1, <3>1 DEF TypeOK
  <2>2. committed'[h][q] = committed[h][q] /\ Len(log'[q]) = Len(log[q])
    OBVIOUS
  <2>3. h = g /\ q = p => position[h][q] < Len(log[q])
    BY DEF HasNext
  <2> QED
    BY <1>3, <2>1, <2>2, <2>3
<1> QED
  BY <1>2, <1>3, <1>4

-----------------------------------------------------------------------------
LEMMA TypeInit == Init => TypeOK
<1> SUFFICES ASSUME Init PROVE TypeOK
  OBVIOUS
<1>1. 0 \in 0..MaxRetries /\ 0 \in 0..MaxFaults
  BY OnboardingAssumption
<1>2. /\ log \in [Partitions -> Seq(Signups)]
      /\ \A p \in Partitions : Len(log[p]) = 0
  <2>1. <<>> \in Seq(Signups) /\ Len(<<>>) = 0
    OBVIOUS
  <2> QED
    BY <2>1 DEF Init
<1>3. \A g \in Groups, p \in Partitions : position[g][p] = 0 /\ committed[g][p] = 0
  BY DEF Init
<1>4. /\ signup \in [Signups -> {"new", "saving", "answered", "refused", "failed"}]
      /\ attempts \in [Signups -> 0..MaxRetries]
      /\ mails \in [Signups -> Nat]
      /\ position \in [Groups -> [Partitions -> Nat]]
      /\ committed \in [Groups -> [Partitions -> Nat]]
      /\ faults \in 0..MaxFaults
  BY <1>1 DEF Init
<1>5. users \subseteq Signups /\ publishing \subseteq Signups /\ projections \subseteq Signups
  BY DEF Init
<1> QED
  BY <1>2, <1>3, <1>4, <1>5 DEF TypeOK

(* The actions of the users service keep the types of its variables, and   *)
(* those that send are covered by SendLog.                                 *)
LEMMA CommandType ==
  ASSUME TypeOK, NEW s \in Signups,
         \/ CreateProfile(s) \/ AlreadyExists(s) \/ SaveRetried(s) \/ SaveFailed(s)
         \/ PublishMessage(s) \/ PublishRetried(s) \/ PublishFailed(s)
  PROVE  /\ signup' \in [Signups -> {"new", "saving", "answered", "refused", "failed"}]
         /\ attempts' \in [Signups -> 0..MaxRetries]
         /\ users' \subseteq Signups /\ publishing' \subseteq Signups
         /\ faults' \in 0..MaxFaults
         /\ Send(s) \/ UNCHANGED log
         /\ UNCHANGED <<offsetVars, effectVars>>
<1>1. 0 \in 0..MaxRetries
  BY OnboardingAssumption
<1>2. attempts[s] < MaxRetries => attempts[s] + 1 \in 0..MaxRetries
  BY OnboardingAssumption DEF TypeOK
<1>3. Fault => faults' \in 0..MaxFaults
  BY FaultType DEF TypeOK
<1>4. CASE CreateProfile(s)
  BY <1>1, <1>4 DEF CreateProfile, TypeOK
<1>5. CASE AlreadyExists(s)
  BY <1>1, <1>5 DEF AlreadyExists, TypeOK
<1>6. CASE SaveRetried(s)
  BY <1>2, <1>3, <1>6 DEF SaveRetried, InsertMaybe, TypeOK
<1>7. CASE SaveFailed(s)
  BY <1>1, <1>3, <1>7 DEF SaveFailed, InsertMaybe, TypeOK
<1>8. CASE PublishMessage(s)
  BY <1>1, <1>8 DEF PublishMessage, TypeOK
<1>9. CASE PublishRetried(s)
  BY <1>2, <1>3, <1>9 DEF PublishRetried, TypeOK
<1>10. CASE PublishFailed(s)
  BY <1>1, <1>3, <1>10 DEF PublishFailed, TypeOK
<1> QED
  BY <1>4, <1>5, <1>6, <1>7, <1>8, <1>9, <1>10

LEMMA TypeStep == TypeOK /\ [Next]_vars => TypeOK'
<1> SUFFICES ASSUME TypeOK, [Next]_vars PROVE TypeOK'
  OBVIOUS
<1>1. ASSUME NEW s \in Signups,
             \/ CreateProfile(s) \/ AlreadyExists(s) \/ SaveRetried(s) \/ SaveFailed(s)
             \/ PublishMessage(s) \/ PublishRetried(s) \/ PublishFailed(s)
      PROVE  TypeOK'
  <2>1. /\ log' \in [Partitions -> Seq(Signups)]
        /\ \A p \in Partitions :
             Len(log[p]) \in Nat /\ Len(log'[p]) \in Nat /\ Len(log[p]) <= Len(log'[p])
    <3>1. CASE Send(s)
      BY <3>1, SendLog
    <3>2. CASE UNCHANGED log
      <4>1. \A p \in Partitions : log[p] \in Seq(Signups)
        BY DEF TypeOK
      <4> QED
        BY <3>2, <4>1 DEF TypeOK
    <3> QED
      BY <1>1, <3>1, <3>2, CommandType
  <2>2. UNCHANGED <<position, committed, projections, mails>>
    BY <1>1, CommandType DEF offsetVars, effectVars
  <2>3. \A g \in Groups, p \in Partitions :
          committed'[g][p] <= position'[g][p] /\ position'[g][p] <= Len(log'[p])
    <3> SUFFICES ASSUME NEW g \in Groups, NEW p \in Partitions
                 PROVE  committed[g][p] <= position[g][p] /\ position[g][p] <= Len(log'[p])
      BY <2>2
    <3>1. committed[g][p] <= position[g][p] /\ position[g][p] <= Len(log[p]) /\ position[g][p] \in Nat
      BY DEF TypeOK
    <3> QED
      BY <2>1, <3>1
  <2> QED
    BY <1>1, <2>1, <2>2, <2>3, CommandType DEF TypeOK
<1>2. CASE UsersCrash
  <2>1. attempts' \in [Signups -> 0..MaxRetries]
    BY <1>2, OnboardingAssumption DEF UsersCrash
  <2>2. signup' \in [Signups -> {"new", "saving", "answered", "refused", "failed"}]
    BY <1>2 DEF UsersCrash, TypeOK
  <2>3. faults' \in 0..MaxFaults
    BY <1>2, FaultType DEF UsersCrash, TypeOK
  <2> QED
    BY <1>2, <2>1, <2>2, <2>3 DEF UsersCrash, TypeOK, offsetVars, effectVars
<1>3. ASSUME NEW p \in Partitions, SaveUser(p) PROVE TypeOK'
  <2>1. NextOf("read", p) \in Signups
    BY <1>3, NextIsSignup DEF SaveUser, Groups
  <2>2. UNCHANGED <<log, committed>>
    BY <1>3 DEF SaveUser
  <2>3. /\ position' \in [Groups -> [Partitions -> Nat]]
        /\ \A h \in Groups, q \in Partitions :
             committed'[h][q] <= position'[h][q] /\ position'[h][q] <= Len(log'[q])
    BY <1>3, <2>2, AdvanceType DEF SaveUser, Groups
  <2> QED
    BY <1>3, <2>1, <2>3 DEF SaveUser, TypeOK, commandVars
<1>4. ASSUME NEW p \in Partitions, SaveUserFailed(p) PROVE TypeOK'
  <2>1. NextOf("read", p) \in Signups
    BY <1>4, NextIsSignup DEF SaveUserFailed, Groups
  <2>2. faults' \in 0..MaxFaults
    BY <1>4, FaultType DEF SaveUserFailed, TypeOK
  <2>3. projections' \subseteq Signups
    BY <1>4, <2>1 DEF SaveUserFailed, TypeOK
  <2> QED
    BY <1>4, <2>2, <2>3 DEF SaveUserFailed, TypeOK, commandVars, offsetVars
<1>5. ASSUME NEW p \in Partitions, SendEmail(p) PROVE TypeOK'
  <2>1. mails' \in [Signups -> Nat]
    <3>1. NextOf("email", p) \in Signups /\ mails \in [Signups -> Nat]
      BY <1>5, NextIsSignup DEF SendEmail, Groups, TypeOK
    <3>2. mails' = [mails EXCEPT ![NextOf("email", p)] = mails[NextOf("email", p)] + 1]
      BY <1>5 DEF SendEmail, Mail
    <3> QED
      BY <3>1, <3>2
  <2>2. UNCHANGED <<log, committed>>
    BY <1>5 DEF SendEmail
  <2>3. /\ position' \in [Groups -> [Partitions -> Nat]]
        /\ \A h \in Groups, q \in Partitions :
             committed'[h][q] <= position'[h][q] /\ position'[h][q] <= Len(log'[q])
    BY <1>5, <2>2, AdvanceType DEF SendEmail, Groups
  <2> QED
    BY <1>5, <2>1, <2>3 DEF SendEmail, TypeOK, commandVars
<1>6. ASSUME NEW p \in Partitions, SendEmailFailed(p) PROVE TypeOK'
  <2>1. mails' \in [Signups -> Nat]
    <3>1. NextOf("email", p) \in Signups /\ mails \in [Signups -> Nat]
      BY <1>6, NextIsSignup DEF SendEmailFailed, Groups, TypeOK
    <3>2. \/ mails' = mails
          \/ mails' = [mails EXCEPT ![NextOf("email", p)] = mails[NextOf("email", p)] + 1]
      BY <1>6 DEF SendEmailFailed, Mail
    <3> QED
      BY <3>1, <3>2
  <2>2. faults' \in 0..MaxFaults
    BY <1>6, FaultType DEF SendEmailFailed, TypeOK
  <2> QED
    BY <1>6, <2>1, <2>2 DEF SendEmailFailed, TypeOK, commandVars, offsetVars
<1>7. ASSUME NEW g \in Groups, ConsumerCrash(g) PROVE TypeOK'
  <2>1. faults' \in 0..MaxFaults
    BY <1>7, FaultType DEF ConsumerCrash, TypeOK
  <2>2. position' \in [Groups -> [Partitions -> Nat]]
    BY <1>7 DEF ConsumerCrash, TypeOK
  <2>3. ASSUME NEW h \in Groups, NEW q \in Partitions
        PROVE  committed'[h][q] <= position'[h][q] /\ position'[h][q] <= Len(log'[q])
    <3>1. position'[h] = IF h = g THEN committed[h] ELSE position[h]
      BY <1>7 DEF ConsumerCrash, TypeOK
    <3>2. /\ committed[h][q] \in Nat /\ position[h][q] \in Nat /\ Len(log[q]) \in Nat
          /\ committed[h][q] <= position[h][q] /\ position[h][q] <= Len(log[q])
      <4>1. log[q] \in Seq(Signups)
        BY DEF TypeOK
      <4> QED
        BY <4>1 DEF TypeOK
    <3>3. committed' = committed /\ log' = log
      BY <1>7 DEF ConsumerCrash
    <3> QED
      BY <3>1, <3>2, <3>3
  <2> QED
    BY <1>7, <2>1, <2>2, <2>3 DEF ConsumerCrash, TypeOK, commandVars, effectVars
<1>8. ASSUME NEW g \in Groups, NEW p \in Partitions, CommitOffset(g, p) PROVE TypeOK'
  <2>1. committed' \in [Groups -> [Partitions -> Nat]]
    BY <1>8 DEF CommitOffset, TypeOK
  <2>2. ASSUME NEW h \in Groups, NEW q \in Partitions
        PROVE  committed'[h][q] <= position'[h][q] /\ position'[h][q] <= Len(log'[q])
    <3>1. committed'[h][q] \in {committed[h][q], position[h][q]}
      BY <1>8 DEF CommitOffset, TypeOK
    <3>2. committed[h][q] <= position[h][q] /\ position[h][q] <= Len(log[q]) /\ position[h][q] \in Nat
      BY DEF TypeOK
    <3>3. position' = position /\ log' = log
      BY <1>8 DEF CommitOffset
    <3> QED
      BY <3>1, <3>2, <3>3
  <2> QED
    BY <1>8, <2>1, <2>2 DEF CommitOffset, TypeOK, commandVars, effectVars
<1>9. CASE UNCHANGED vars
  BY <1>9 DEF vars, commandVars, offsetVars, effectVars, TypeOK
<1> QED
  BY <1>1, <1>2, <1>3, <1>4, <1>5, <1>6, <1>7, <1>8, <1>9 DEF Next

(* Type correctness: every variable keeps its type, and no group commits   *)
(* beyond its position or moves beyond the end of a partition.             *)
THEOREM TypeCorrect == Spec => []TypeOK
  BY TypeInit, TypeStep, PTL DEF Spec

-----------------------------------------------------------------------------
(* The facts.                                                              *)

FactsIInv == TypeOK /\ FactsHappened

LEMMA FactsInit == Init => FactsIInv
<1> SUFFICES ASSUME Init PROVE FactsHappened
  BY TypeInit DEF FactsIInv
<1>1. \A p \in Partitions : Len(log[p]) = 0
  BY DEF Init
<1> QED
  BY <1>1 DEF Init, FactsHappened

(* The next message of a group is about a user, when all of the log is.    *)
LEMMA NextIsUser ==
  ASSUME FactsIInv, NEW g \in Groups, NEW p \in Partitions, HasNext(g, p)
  PROVE  NextOf(g, p) \in users
BY NextIsSignup DEF FactsIInv, FactsHappened, NextOf

LEMMA FactsStep == FactsIInv /\ [Next]_vars => FactsIInv'
<1> SUFFICES ASSUME FactsIInv, [Next]_vars PROVE FactsHappened'
  BY TypeStep DEF FactsIInv
<1> USE DEF FactsIInv
<1>1. ASSUME NEW s \in Signups,
             CreateProfile(s) \/ AlreadyExists(s) \/ SaveRetried(s) \/ SaveFailed(s)
      PROVE  FactsHappened'
  <2>1. users \subseteq users' /\ publishing' \subseteq users'
    BY <1>1 DEF CreateProfile, AlreadyExists, SaveRetried, SaveFailed, InsertMaybe, FactsHappened
  <2>2. UNCHANGED <<log, projections, mails>>
    BY <1>1
    DEF CreateProfile, AlreadyExists, SaveRetried, SaveFailed, effectVars
  <2> QED
    BY <2>1, <2>2 DEF FactsHappened
<1>2. ASSUME NEW s \in Signups,
             PublishMessage(s) \/ PublishRetried(s) \/ PublishFailed(s)
      PROVE  FactsHappened'
  <2>1. /\ s \in publishing /\ publishing' \subseteq publishing
        /\ UNCHANGED <<users, projections, mails>>
        /\ Send(s) \/ UNCHANGED log
    BY <1>2 DEF PublishMessage, PublishRetried, PublishFailed, effectVars
  <2>2. \A p \in Partitions : \A i \in 1..Len(log'[p]) : log'[p][i] \in users'
    <3>1. CASE Send(s)
      BY <2>1, <3>1, SendLog DEF FactsHappened
    <3>2. CASE UNCHANGED log
      BY <2>1, <3>2 DEF FactsHappened
    <3> QED
      BY <2>1, <3>1, <3>2
  <2> QED
    BY <2>1, <2>2 DEF FactsHappened
<1>3. ASSUME NEW p \in Partitions, SaveUser(p) \/ SaveUserFailed(p)
      PROVE  FactsHappened'
  <2>1. NextOf("read", p) \in users
    BY <1>3, NextIsUser DEF SaveUser, SaveUserFailed, Groups
  <2>2. projections' \subseteq projections \cup {NextOf("read", p)}
    BY <1>3 DEF SaveUser, SaveUserFailed
  <2>3. UNCHANGED <<users, publishing, log, mails>>
    BY <1>3 DEF SaveUser, SaveUserFailed, commandVars
  <2> QED
    BY <2>1, <2>2, <2>3 DEF FactsHappened
<1>4. ASSUME NEW p \in Partitions, SendEmail(p) \/ SendEmailFailed(p)
      PROVE  FactsHappened'
  <2>1. NextOf("email", p) \in users
    BY <1>4, NextIsUser DEF SendEmail, SendEmailFailed, Groups
  <2>2. mails' = mails \/ mails' = [mails EXCEPT ![NextOf("email", p)] = mails[NextOf("email", p)] + 1]
    BY <1>4 DEF SendEmail, SendEmailFailed, Mail
  <2>3. UNCHANGED <<users, publishing, log, projections>>
    BY <1>4 DEF SendEmail, SendEmailFailed, commandVars
  <2>4. ASSUME NEW s \in Signups, mails'[s] > 0 PROVE s \in users
    <3>1. s # NextOf("email", p) => mails'[s] = mails[s]
      BY <2>2 DEF TypeOK
    <3> QED
      BY <2>1, <2>4, <3>1 DEF FactsHappened
  <2> QED
    BY <2>3, <2>4 DEF FactsHappened
<1>5. CASE UsersCrash
  BY <1>5 DEF UsersCrash, FactsHappened, effectVars
<1>6. ASSUME NEW g \in Groups, NEW p \in Partitions, CommitOffset(g, p)
      PROVE  FactsHappened'
  BY <1>6 DEF CommitOffset, FactsHappened, commandVars, effectVars
<1>7. ASSUME NEW g \in Groups, ConsumerCrash(g) PROVE FactsHappened'
  BY <1>7 DEF ConsumerCrash, FactsHappened, commandVars, effectVars
<1>8. CASE UNCHANGED vars
  BY <1>8 DEF vars, commandVars, effectVars, FactsHappened
<1> QED
  BY <1>1, <1>2, <1>3, <1>4, <1>5, <1>6, <1>7, <1>8 DEF Next

(* Whatever fails, everything published, projected or mailed is about a    *)
(* user the database holds.                                                *)
THEOREM EventsAreFacts == Spec => []FactsHappened
<1>1. FactsIInv => FactsHappened
  BY DEF FactsIInv
<1> QED
  BY <1>1, FactsInit, FactsStep, PTL DEF Spec

-----------------------------------------------------------------------------
(* The two groups implement AtLeastOnce.                                   *)

ReadProved == INSTANCE AtLeastOnce_proofs WITH
                Messages <- Signups, reached <- position["read"], handled <- projections

LEMMA ReadInit == Init => ReadGroup!Init
BY DEF Init, ReadGroup!Init, Groups

LEMMA ReadStep == TypeOK /\ [Next]_vars => [ReadGroup!Next]_(ReadGroup!vars)
<1> SUFFICES ASSUME TypeOK, [Next]_vars PROVE [ReadGroup!Next]_(ReadGroup!vars)
  OBVIOUS
<1>t. "read" \in Groups /\ "email" \in Groups
  BY DEF Groups
<1>u. UNCHANGED <<log, position["read"], projections>> => [ReadGroup!Next]_(ReadGroup!vars)
  BY DEF ReadGroup!vars
<1>1. ASSUME NEW s \in Signups,
             \/ CreateProfile(s) \/ AlreadyExists(s) \/ SaveRetried(s) \/ SaveFailed(s)
             \/ PublishMessage(s) \/ PublishRetried(s) \/ PublishFailed(s)
      PROVE  [ReadGroup!Next]_(ReadGroup!vars)
  <2>1. UNCHANGED <<position, projections>> /\ (Send(s) \/ UNCHANGED log)
    BY <1>1, CommandType DEF offsetVars, effectVars
  <2>2. CASE UNCHANGED log
    BY <1>u, <2>1, <2>2
  <2>3. CASE Send(s)
    <3>1. ReadGroup!Publish(PartitionOf[s], s)
      BY <2>1, <2>3 DEF Send, ReadGroup!Publish
    <3>2. PartitionOf[s] \in Partitions
      BY OnboardingAssumption
    <3> QED
      BY <3>1, <3>2 DEF ReadGroup!Next
  <2> QED
    BY <2>1, <2>2, <2>3
<1>2. ASSUME NEW p \in Partitions, SaveUser(p) PROVE [ReadGroup!Next]_(ReadGroup!vars)
  <2>1. position'["read"] = [position["read"] EXCEPT ![p] = position["read"][p] + 1]
    BY <1>2, <1>t DEF SaveUser, Advance, TypeOK
  <2>2. ReadGroup!Handle(p)
    BY <1>2, <2>1 DEF SaveUser, HasNext, NextOf, ReadGroup!Handle
  <2> QED
    BY <2>2 DEF ReadGroup!Next
<1>3. ASSUME NEW p \in Partitions, SaveUserFailed(p) PROVE [ReadGroup!Next]_(ReadGroup!vars)
  <2>1. UNCHANGED <<log, position>> /\ HasNext("read", p)
    BY <1>3 DEF SaveUserFailed, offsetVars
  <2>2. CASE projections' = projections
    BY <1>u, <2>1, <2>2
  <2>3. CASE projections' = projections \cup {NextOf("read", p)}
    <3>1. ReadGroup!Handle(p)
      BY <2>1, <2>3 DEF HasNext, NextOf, ReadGroup!Handle
    <3> QED
      BY <3>1 DEF ReadGroup!Next
  <2> QED
    BY <1>3, <2>2, <2>3 DEF SaveUserFailed
<1>4. ASSUME NEW p \in Partitions, SendEmail(p) PROVE [ReadGroup!Next]_(ReadGroup!vars)
  <2>1. position'["read"] = position["read"]
    BY <1>4, <1>t DEF SendEmail, Advance, TypeOK
  <2> QED
    BY <1>4, <1>u, <2>1 DEF SendEmail
<1>5. ASSUME NEW p \in Partitions, SendEmailFailed(p) PROVE [ReadGroup!Next]_(ReadGroup!vars)
  BY <1>5, <1>u DEF SendEmailFailed, offsetVars
<1>6. ASSUME NEW g \in Groups, ConsumerCrash(g) PROVE [ReadGroup!Next]_(ReadGroup!vars)
  <2>1. UNCHANGED <<log, projections>>
    BY <1>6 DEF ConsumerCrash, effectVars
  <2>2. CASE g = "read"
    <3>1. position'["read"] = committed["read"]
      BY <1>6, <1>t, <2>2 DEF ConsumerCrash, TypeOK
    <3>2. /\ committed["read"] \in [Partitions -> Nat]
          /\ \A q \in Partitions : committed["read"][q] <= position["read"][q]
      BY <1>t DEF TypeOK
    <3>3. ReadGroup!FallBack
      BY <2>1, <3>1, <3>2 DEF ReadGroup!FallBack
    <3> QED
      BY <3>3 DEF ReadGroup!Next
  <2>3. CASE g # "read"
    <3>1. position'["read"] = position["read"]
      BY <1>6, <1>t, <2>3 DEF ConsumerCrash, TypeOK
    <3> QED
      BY <1>u, <2>1, <3>1
  <2> QED
    BY <2>2, <2>3
<1>7. CASE UsersCrash
  BY <1>7, <1>u DEF UsersCrash, offsetVars, effectVars
<1>8. ASSUME NEW g \in Groups, NEW p \in Partitions, CommitOffset(g, p)
      PROVE  [ReadGroup!Next]_(ReadGroup!vars)
  BY <1>8, <1>u DEF CommitOffset, effectVars
<1>9. CASE UNCHANGED vars
  BY <1>9, <1>u DEF vars, offsetVars, effectVars
<1> QED
  BY <1>1, <1>2, <1>3, <1>4, <1>5, <1>6, <1>7, <1>8, <1>9 DEF Next

(* Each step of the system is a step of an at-least-once consumer of the   *)
(* topic, or leaves the read group and its topic alone.                    *)
THEOREM ReadImplementsAtLeastOnce == Spec => ReadDelivers
<1>1. TypeOK /\ TypeOK' /\ [Next]_vars => [ReadGroup!Next]_(ReadGroup!vars)
  BY ReadStep
<1> QED
  BY <1>1, ReadInit, TypeCorrect, PTL DEF Spec, ReadDelivers, ReadGroup!Spec

(* The read service never moves past a user it has not projected.          *)
THEOREM NoUserIsSkipped == Spec => []PassedIsProjected
<1>1. ReadProved!Spec => []ReadProved!NothingSkipped
  BY ReadProved!NeverSkips
<1>2. ReadDelivers => ReadProved!Spec
  BY DEF ReadDelivers, ReadGroup!Spec, ReadGroup!Init, ReadGroup!Next, ReadGroup!vars,
         ReadGroup!Handle, ReadGroup!Publish, ReadGroup!FallBack,
         ReadProved!Spec, ReadProved!Init, ReadProved!Next, ReadProved!vars,
         ReadProved!Handle, ReadProved!Publish, ReadProved!FallBack
<1>3. ReadProved!NothingSkipped => PassedIsProjected
  BY DEF ReadProved!NothingSkipped, PassedIsProjected
<1> QED
  BY <1>1, <1>2, <1>3, ReadImplementsAtLeastOnce, PTL

EmailProved == INSTANCE AtLeastOnce_proofs WITH
                 Messages <- Signups, reached <- position["email"],
                 handled <- {s \in Signups : mails[s] > 0}

LEMMA EmailInit == Init => EmailGroup!Init
BY DEF Init, EmailGroup!Init, Groups

LEMMA MailHandles ==
  ASSUME TypeOK, NEW s \in Signups, Mail(s)
  PROVE  {m \in Signups : mails'[m] > 0} = {m \in Signups : mails[m] > 0} \cup {s}
<1>1. mails \in [Signups -> Nat]
  BY DEF TypeOK
<1>2. \A m \in Signups : mails'[m] = IF m = s THEN mails[m] + 1 ELSE mails[m]
  BY <1>1 DEF Mail
<1>3. \A m \in Signups : mails[m] \in Nat
  BY <1>1
<1> QED
  BY <1>2, <1>3

LEMMA EmailStep == TypeOK /\ [Next]_vars => [EmailGroup!Next]_(EmailGroup!vars)
<1> SUFFICES ASSUME TypeOK, [Next]_vars PROVE [EmailGroup!Next]_(EmailGroup!vars)
  OBVIOUS
<1>t. "read" \in Groups /\ "email" \in Groups
  BY DEF Groups
<1>u. UNCHANGED <<log, position["email"], mails>> => [EmailGroup!Next]_(EmailGroup!vars)
  BY DEF EmailGroup!vars
<1>1. ASSUME NEW s \in Signups,
             \/ CreateProfile(s) \/ AlreadyExists(s) \/ SaveRetried(s) \/ SaveFailed(s)
             \/ PublishMessage(s) \/ PublishRetried(s) \/ PublishFailed(s)
      PROVE  [EmailGroup!Next]_(EmailGroup!vars)
  <2>1. UNCHANGED <<position, mails>> /\ (Send(s) \/ UNCHANGED log)
    BY <1>1, CommandType DEF offsetVars, effectVars
  <2>2. CASE UNCHANGED log
    BY <1>u, <2>1, <2>2
  <2>3. CASE Send(s)
    <3>1. EmailGroup!Publish(PartitionOf[s], s)
      BY <2>1, <2>3 DEF Send, EmailGroup!Publish
    <3>2. PartitionOf[s] \in Partitions
      BY OnboardingAssumption
    <3> QED
      BY <3>1, <3>2 DEF EmailGroup!Next
  <2> QED
    BY <2>1, <2>2, <2>3
<1>2. ASSUME NEW p \in Partitions, SendEmail(p) PROVE [EmailGroup!Next]_(EmailGroup!vars)
  <2>1. position'["email"] = [position["email"] EXCEPT ![p] = position["email"][p] + 1]
    BY <1>2, <1>t DEF SendEmail, Advance, TypeOK
  <2>2. /\ HasNext("email", p) /\ Mail(NextOf("email", p)) /\ UNCHANGED log
        /\ NextOf("email", p) \in Signups
    BY <1>2, <1>t, NextIsSignup DEF SendEmail
  <2>3. EmailGroup!Handle(p)
    BY <2>1, <2>2, MailHandles DEF HasNext, NextOf, EmailGroup!Handle
  <2> QED
    BY <2>3 DEF EmailGroup!Next
<1>3. ASSUME NEW p \in Partitions, SendEmailFailed(p) PROVE [EmailGroup!Next]_(EmailGroup!vars)
  <2>1. UNCHANGED <<log, position>> /\ HasNext("email", p)
    BY <1>3 DEF SendEmailFailed, offsetVars
  <2>2. CASE UNCHANGED mails
    BY <1>u, <2>1, <2>2
  <2>3. CASE Mail(NextOf("email", p))
    <3>1. NextOf("email", p) \in Signups
      BY <1>t, <2>1, NextIsSignup
    <3>2. EmailGroup!Handle(p)
      BY <2>1, <2>3, <3>1, MailHandles DEF HasNext, NextOf, EmailGroup!Handle
    <3> QED
      BY <3>2 DEF EmailGroup!Next
  <2> QED
    BY <1>3, <2>2, <2>3 DEF SendEmailFailed
<1>4. ASSUME NEW p \in Partitions, SaveUser(p) PROVE [EmailGroup!Next]_(EmailGroup!vars)
  <2>1. position'["email"] = position["email"]
    BY <1>4, <1>t DEF SaveUser, Advance, TypeOK
  <2> QED
    BY <1>4, <1>u, <2>1 DEF SaveUser
<1>5. ASSUME NEW p \in Partitions, SaveUserFailed(p) PROVE [EmailGroup!Next]_(EmailGroup!vars)
  BY <1>5, <1>u DEF SaveUserFailed, offsetVars
<1>6. ASSUME NEW g \in Groups, ConsumerCrash(g) PROVE [EmailGroup!Next]_(EmailGroup!vars)
  <2>1. UNCHANGED <<log, mails>>
    BY <1>6 DEF ConsumerCrash, effectVars
  <2>2. CASE g = "email"
    <3>1. position'["email"] = committed["email"]
      BY <1>6, <1>t, <2>2 DEF ConsumerCrash, TypeOK
    <3>2. /\ committed["email"] \in [Partitions -> Nat]
          /\ \A q \in Partitions : committed["email"][q] <= position["email"][q]
      BY <1>t DEF TypeOK
    <3>3. EmailGroup!FallBack
      BY <2>1, <3>1, <3>2 DEF EmailGroup!FallBack
    <3> QED
      BY <3>3 DEF EmailGroup!Next
  <2>3. CASE g # "email"
    <3>1. position'["email"] = position["email"]
      BY <1>6, <1>t, <2>3 DEF ConsumerCrash, TypeOK
    <3> QED
      BY <1>u, <2>1, <3>1
  <2> QED
    BY <2>2, <2>3
<1>7. CASE UsersCrash
  BY <1>7, <1>u DEF UsersCrash, offsetVars, effectVars
<1>8. ASSUME NEW g \in Groups, NEW p \in Partitions, CommitOffset(g, p)
      PROVE  [EmailGroup!Next]_(EmailGroup!vars)
  BY <1>8, <1>u DEF CommitOffset, effectVars
<1>9. CASE UNCHANGED vars
  BY <1>9, <1>u DEF vars, offsetVars, effectVars
<1> QED
  BY <1>1, <1>2, <1>3, <1>4, <1>5, <1>6, <1>7, <1>8, <1>9 DEF Next

(* The email group, with mails sent for effects, is an at-least-once       *)
(* consumer of the topic too.                                              *)
THEOREM EmailImplementsAtLeastOnce == Spec => EmailDelivers
<1>1. TypeOK /\ TypeOK' /\ [Next]_vars => [EmailGroup!Next]_(EmailGroup!vars)
  BY EmailStep
<1> QED
  BY <1>1, EmailInit, TypeCorrect, PTL DEF Spec, EmailDelivers, EmailGroup!Spec

(* The email service never moves past a user it has not mailed: the event  *)
(* of everybody behind it led to a mail.                                   *)
THEOREM NoMailIsSkipped == Spec => []PassedIsMailed
<1>1. EmailProved!Spec => []EmailProved!NothingSkipped
  BY EmailProved!NeverSkips
<1>2. EmailDelivers => EmailProved!Spec
  BY DEF EmailDelivers, EmailGroup!Spec, EmailGroup!Init, EmailGroup!Next, EmailGroup!vars,
         EmailGroup!Handle, EmailGroup!Publish, EmailGroup!FallBack,
         EmailProved!Spec, EmailProved!Init, EmailProved!Next, EmailProved!vars,
         EmailProved!Handle, EmailProved!Publish, EmailProved!FallBack
<1>3. EmailProved!NothingSkipped => PassedIsMailed
  BY DEF EmailProved!NothingSkipped, PassedIsMailed
<1> QED
  BY <1>1, <1>2, <1>3, EmailImplementsAtLeastOnce, PTL

-----------------------------------------------------------------------------
(* Without a fault.                                                        *)

(* Where a send puts its event.                                            *)
LEMMA SendPlace ==
  ASSUME TypeOK, NEW s \in Signups, Send(s)
  PROVE  /\ PartitionOf[s] \in Partitions
         /\ Len(log[PartitionOf[s]]) \in Nat
         /\ Len(log'[PartitionOf[s]]) = Len(log[PartitionOf[s]]) + 1
         /\ log'[PartitionOf[s]][Len(log[PartitionOf[s]]) + 1] = s
         /\ \A p \in Partitions : p # PartitionOf[s] => log'[p] = log[p]
<1> DEFINE q == PartitionOf[s]
<1>1. q \in Partitions /\ log \in [Partitions -> Seq(Signups)]
  BY OnboardingAssumption DEF TypeOK
<1>2. log[q] \in Seq(Signups)
  BY <1>1
<1>3. /\ Len(log[q]) \in Nat
      /\ Len(Append(log[q], s)) = Len(log[q]) + 1
      /\ Append(log[q], s)[Len(log[q]) + 1] = s
  BY <1>2
<1>4. log' = [log EXCEPT ![q] = Append(log[q], s)]
  BY DEF Send
<1>5. log'[q] = Append(log[q], s)
  BY <1>1, <1>4
<1>6. \A p \in Partitions : p # q => log'[p] = log[p]
  BY <1>1, <1>4
<1> QED
  BY <1>1, <1>3, <1>5, <1>6

(* A step that leaves the count of faults at 0 is not a fault.             *)
LEMMA NoFault == ASSUME TypeOK, faults' = 0 PROVE ~Fault
BY DEF TypeOK, Fault

LEMMA QuietSteps ==
  ASSUME TypeOK, [Next]_vars, faults' = 0
  PROVE  /\ faults = 0
         /\ \/ \E s \in Signups : CreateProfile(s) \/ AlreadyExists(s) \/ PublishMessage(s)
            \/ \E p \in Partitions : SaveUser(p) \/ SendEmail(p)
            \/ \E g \in Groups, p \in Partitions : CommitOffset(g, p)
            \/ UNCHANGED vars
<1>1. ~Fault
  BY NoFault
<1>2. \/ \E s \in Signups : CreateProfile(s) \/ AlreadyExists(s) \/ PublishMessage(s)
      \/ \E p \in Partitions : SaveUser(p) \/ SendEmail(p)
      \/ \E g \in Groups, p \in Partitions : CommitOffset(g, p)
      \/ UNCHANGED vars
  BY <1>1, Zenon
  DEF Next, SaveRetried, SaveFailed, PublishRetried, PublishFailed, UsersCrash,
      SaveUserFailed, SendEmailFailed, ConsumerCrash
<1>3. UNCHANGED faults
  BY <1>2
  DEF CreateProfile, AlreadyExists, PublishMessage, SaveUser, SendEmail, CommitOffset, vars
<1> QED
  BY <1>2, <1>3

(* Why nobody is lost: without a fault everyone the database holds was     *)
(* told of, or is about to be.  What has become of it is then a matter of  *)
(* the groups, which pass nothing they have not handled.                   *)
Told == faults = 0 => \A s \in users : s \in publishing \/ Published(s)

LEMMA ToldInit == Init => Told
BY DEF Init, Told

LEMMA ToldStep == TypeOK /\ Told /\ [Next]_vars => Told'
<1> SUFFICES ASSUME TypeOK, Told, [Next]_vars, faults' = 0,
                    NEW u \in users'
             PROVE  u \in publishing' \/ Published(u)'
  BY DEF Told
<1>0. faults = 0
  BY QuietSteps
<1>u. ASSUME UNCHANGED <<users, publishing, log>>
      PROVE  u \in publishing' \/ Published(u)'
  BY <1>0, <1>u DEF Told, Published
<1>1. ASSUME NEW s \in Signups, CreateProfile(s)
      PROVE  u \in publishing' \/ Published(u)'
  <2>1. users' = users \cup {s} /\ publishing' = publishing \cup {s} /\ UNCHANGED log
    BY <1>1 DEF CreateProfile
  <2> QED
    BY <1>0, <2>1 DEF Told, Published
<1>2. ASSUME NEW s \in Signups, PublishMessage(s)
      PROVE  u \in publishing' \/ Published(u)'
  <2>1. Send(s) /\ publishing' = publishing \ {s} /\ UNCHANGED users
    BY <1>2 DEF PublishMessage
  <2>2. CASE u = s
    <3>1. /\ PartitionOf[s] \in Partitions
          /\ Len(log[PartitionOf[s]]) \in Nat
          /\ Len(log'[PartitionOf[s]]) = Len(log[PartitionOf[s]]) + 1
          /\ log'[PartitionOf[s]][Len(log[PartitionOf[s]]) + 1] = s
      BY <2>1, SendPlace
    <3>2. Len(log[PartitionOf[s]]) + 1 \in 1..Len(log'[PartitionOf[s]])
      BY <3>1
    <3> QED
      BY <2>2, <3>1, <3>2 DEF Published
  <2>3. CASE u # s /\ u \in publishing
    BY <2>1, <2>3
  <2>4. ASSUME NEW p \in Partitions, NEW i \in 1..Len(log[p]), log[p][i] = u
        PROVE  Published(u)'
    <3>1. log'[p][i] = u /\ Len(log[p]) <= Len(log'[p]) /\ Len(log'[p]) \in Nat
      BY <2>1, <2>4, SendLog
    <3>2. Len(log[p]) \in Nat
      BY DEF TypeOK
    <3>3. i \in 1..Len(log'[p])
      BY <3>1, <3>2
    <3> QED
      BY <3>1, <3>3 DEF Published
  <2> QED
    BY <1>0, <2>1, <2>2, <2>3, <2>4 DEF Told, Published
<1>3. ASSUME \/ \E s \in Signups : AlreadyExists(s)
             \/ \E p \in Partitions : SaveUser(p) \/ SendEmail(p)
             \/ \E g \in Groups, p \in Partitions : CommitOffset(g, p)
             \/ UNCHANGED vars
      PROVE  u \in publishing' \/ Published(u)'
  BY <1>3, <1>u
  DEF AlreadyExists, SaveUser, SendEmail, CommitOffset, vars, commandVars
<1> QED
  BY <1>1, <1>2, <1>3, QuietSteps

(* A user of the database who is neither projected nor on the way to the   *)
(* read service, or neither mailed nor on the way to the email service,    *)
(* was lost to a crash or a failed call.                                   *)
THEOREM LossNeedsFault == Spec => []LostOnlyByFault
<1>1. TypeOK /\ Told /\ PassedIsProjected /\ PassedIsMailed => LostOnlyByFault
  <2> SUFFICES ASSUME TypeOK, Told, PassedIsProjected, PassedIsMailed, faults = 0,
                      NEW s \in users, NEW g \in Groups
               PROVE  OnTheWay(g, s)
    BY DEF LostOnlyByFault
  <2>1. CASE s \in publishing
    BY <2>1 DEF OnTheWay
  <2>2. ASSUME NEW p \in Partitions, NEW i \in 1..Len(log[p]), log[p][i] = s
        PROVE  OnTheWay(g, s)
    <3>1. Len(log[p]) \in Nat /\ position[g][p] \in Nat
      BY DEF TypeOK
    <3>2. CASE i <= position[g][p]
      <4>1. i \in 1..position[g][p]
        BY <3>1, <3>2
      <4>2. s \in Signups
        BY DEF TypeOK
      <4> QED
        BY <2>2, <4>1, <4>2
        DEF PassedIsProjected, PassedIsMailed, OnTheWay, Reached, Groups
    <3>3. CASE i > position[g][p]
      <4>1. i \in (position[g][p] + 1)..Len(log[p])
        BY <3>1, <3>3
      <4> QED
        BY <2>2, <4>1 DEF OnTheWay
    <3> QED
      BY <3>1, <3>2, <3>3
  <2> QED
    BY <2>1, <2>2 DEF Told, Published
<1>2. Spec => []Told
  BY ToldInit, ToldStep, TypeCorrect, PTL DEF Spec
<1> QED
  BY <1>1, <1>2, TypeCorrect, NoUserIsSkipped, NoMailIsSkipped, PTL

(* Once: an event is published once, and done once.                        *)

OnceIInv == FactsIInv /\ OnceInv

LEMMA OnceInit == Init => OnceIInv
<1> SUFFICES ASSUME Init PROVE OnceInv
  BY FactsInit DEF OnceIInv
<1>1. \A p \in Partitions : Len(log[p]) = 0
  BY DEF Init
<1> QED
  BY <1>1 DEF Init, OnceInv

(* Emails stay unique: an insert is refused when its email is taken.       *)
LEMMA EmailsStep ==
  ASSUME OnceIInv, [Next]_vars
  PROVE  \A u, v \in users' : EmailOf[u] = EmailOf[v] => u = v
<1>1. \/ users' = users
      \/ \E s \in Signups : ~Taken(s) /\ users' = users \cup {s}
  BY DEF Next, CreateProfile, AlreadyExists, SaveRetried, SaveFailed, InsertMaybe,
         PublishMessage, PublishRetried, PublishFailed, UsersCrash, SaveUser,
         SaveUserFailed, SendEmail, SendEmailFailed, ConsumerCrash, CommitOffset,
         vars, commandVars
<1> QED
  BY <1>1 DEF OnceIInv, OnceInv, Taken

(* What lies behind a group stays behind it when the log grows or the      *)
(* group moves forward.                                                    *)
LEMMA BehindStays ==
  ASSUME TypeOK, NEW g \in Groups, NEW s, Behind(g, s),
         \A p \in Partitions :
           /\ position'[g][p] \in Nat /\ position[g][p] <= position'[g][p]
           /\ \A j \in 1..Len(log[p]) : log'[p][j] = log[p][j]
  PROVE  Behind(g, s)'
<1>0. PICK p \in Partitions : \E i \in 1..position[g][p] : log[p][i] = s
  BY DEF Behind
<1>1. log[p] \in Seq(Signups) /\ position[g][p] \in Nat /\ position[g][p] <= Len(log[p])
  BY DEF TypeOK
<1>2. PICK i \in 1..position[g][p] : log[p][i] = s
  BY <1>0
<1>3. i \in 1..Len(log[p]) /\ i \in 1..position'[g][p]
  BY <1>1
<1>4. log'[p][i] = s
  BY <1>2, <1>3
<1> QED
  BY <1>3, <1>4 DEF Behind

(* The four facts that hold while there is no fault.                       *)
Once ==
  /\ \A s \in publishing : ~Published(s)
  /\ \A p, q \in Partitions : \A i \in 1..Len(log[p]), j \in 1..Len(log[q]) :
       log[p][i] = log[q][j] => p = q /\ i = j
  /\ \A s \in projections : Behind("read", s)
  /\ \A s \in Signups : mails[s] > 0 => mails[s] = 1 /\ Behind("email", s)

LEMMA OncePublish ==
  ASSUME FactsIInv, Once, NEW s \in Signups, PublishMessage(s)
  PROVE  Once'
<1>1. /\ s \in publishing /\ Send(s) /\ publishing' = publishing \ {s}
      /\ UNCHANGED <<users, position, projections, mails>>
      /\ TypeOK
  BY DEF PublishMessage, offsetVars, effectVars, FactsIInv
<1> DEFINE r == PartitionOf[s]
<1> DEFINE n == Len(log[r]) + 1
<1>2. /\ r \in Partitions /\ Len(log[r]) \in Nat /\ Len(log'[r]) = n
      /\ log'[r][n] = s
      /\ \A p \in Partitions : p # r => log'[p] = log[p]
  BY <1>1, SendPlace
<1>3. \A p \in Partitions : \A i \in 1..Len(log[p]) : log'[p][i] = log[p][i]
  BY <1>1, SendLog
<1>4. ASSUME NEW p \in Partitions, NEW i \in 1..Len(log'[p])
      PROVE  \/ i \in 1..Len(log[p]) /\ log'[p][i] = log[p][i] /\ log'[p][i] # s
             \/ p = r /\ i = n /\ log'[p][i] = s
  <2>1. i \in 1..Len(log[p]) \/ (p = r /\ i = n)
    <3>1. CASE p = r
      BY <1>2, <3>1
    <3>2. CASE p # r
      BY <1>2, <3>2
    <3> QED
      BY <3>1, <3>2
  <2>2. CASE i \in 1..Len(log[p])
    <3>1. ~Published(s)
      BY <1>1 DEF Once
    <3>2. log[p][i] # s
      BY <2>2, <3>1 DEF Published
    <3> QED
      BY <1>3, <2>2, <3>2
  <2>3. CASE p = r /\ i = n
    BY <1>2, <2>3
  <2> QED
    BY <2>1, <2>2, <2>3
<1>5. ASSUME NEW t \in publishing' PROVE ~Published(t)'
  <2>1. t # s /\ t \in publishing /\ ~Published(t)
    BY <1>1 DEF Once
  <2> SUFFICES ASSUME NEW p \in Partitions, NEW i \in 1..Len(log'[p]), log'[p][i] = t
               PROVE  FALSE
    BY DEF Published
  <2>2. i \in 1..Len(log[p]) /\ log[p][i] = t
    BY <1>4, <2>1
  <2> QED
    BY <2>1, <2>2 DEF Published
<1>6. ASSUME NEW p \in Partitions, NEW q \in Partitions,
             NEW i \in 1..Len(log'[p]), NEW j \in 1..Len(log'[q]),
             log'[p][i] = log'[q][j]
      PROVE  p = q /\ i = j
  <2>1. CASE log'[p][i] = s
    BY <1>4, <1>6, <2>1
  <2>2. CASE log'[p][i] # s
    <3>1. /\ i \in 1..Len(log[p]) /\ j \in 1..Len(log[q])
          /\ log[p][i] = log[q][j]
      BY <1>4, <1>6, <2>2
    <3> QED
      BY <3>1 DEF Once
  <2> QED
    BY <2>1, <2>2
<1>p. ASSUME NEW g \in Groups, NEW p \in Partitions
      PROVE  position'[g][p] \in Nat /\ position[g][p] <= position'[g][p]
  BY <1>1 DEF TypeOK
<1>7. ASSUME NEW t \in projections' PROVE Behind("read", t)'
  <2>1. Behind("read", t) /\ "read" \in Groups
    BY <1>1 DEF Once, Groups
  <2> QED
    BY <1>1, <1>3, <1>p, <2>1, BehindStays
<1>8. ASSUME NEW t \in Signups, mails'[t] > 0
      PROVE  mails'[t] = 1 /\ Behind("email", t)'
  <2>1. mails[t] = 1 /\ mails'[t] = 1
    BY <1>1, <1>8 DEF Once
  <2>2. Behind("email", t) /\ "email" \in Groups
    BY <1>1, <1>8 DEF Once, Groups
  <2>3. Behind("email", t)'
    BY <1>1, <1>3, <1>p, <2>2, BehindStays
  <2> QED
    BY <2>1, <2>3
<1> QED
  BY <1>5, <1>6, <1>7, <1>8 DEF Once

(* A group that moves past its next message has it behind it.              *)
LEMMA AdvanceBehind ==
  ASSUME TypeOK, NEW g \in Groups, NEW p \in Partitions, HasNext(g, p), Advance(g, p),
         UNCHANGED <<log, committed>>
  PROVE  /\ \A h \in Groups : h # g => position'[h] = position[h]
         /\ \A s \in Signups : s = NextOf(g, p) \/ Behind(g, s) => Behind(g, s)'
<1>1. position \in [Groups -> [Partitions -> Nat]]
  BY DEF TypeOK
<1>2. \A h \in Groups : h # g => position'[h] = position[h]
  BY <1>1 DEF Advance
<1>3. \A q \in Partitions :
        position'[g][q] = IF q = p THEN position[g][q] + 1 ELSE position[g][q]
  BY AdvanceType
<1>4. \A q \in Partitions : position[g][q] \in Nat
  BY <1>1
<1>5. position[g][p] + 1 \in 1..position'[g][p]
  BY <1>3, <1>4
<1>6. ASSUME NEW s \in Signups, Behind(g, s) PROVE Behind(g, s)'
  <2>1. \A q \in Partitions : position'[g][q] \in Nat /\ position[g][q] <= position'[g][q]
    BY <1>3, <1>4
  <2>2. \A q \in Partitions : \A j \in 1..Len(log[q]) : log'[q][j] = log[q][j]
    OBVIOUS
  <2> QED
    BY <1>6, <2>1, <2>2, BehindStays
<1>7. ASSUME NEW s \in Signups, s = NextOf(g, p) PROVE Behind(g, s)'
  BY <1>5, <1>7 DEF NextOf, Behind
<1> QED
  BY <1>2, <1>6, <1>7

(* What has not been handled is not behind: the next message of a group    *)
(* appears nowhere else in the topic.                                      *)
LEMMA NextNotBehind ==
  ASSUME TypeOK, Once, NEW g \in Groups, NEW p \in Partitions, HasNext(g, p)
  PROVE  ~Behind(g, NextOf(g, p))
<1> SUFFICES ASSUME NEW q \in Partitions, NEW j \in 1..position[g][q],
                    log[q][j] = NextOf(g, p)
             PROVE  FALSE
  BY DEF Behind
<1>1. position[g][q] \in Nat /\ position[g][q] <= Len(log[q]) /\ log[q] \in Seq(Signups)
  BY DEF TypeOK
<1>2. j \in 1..Len(log[q])
  BY <1>1
<1>3. position[g][p] \in Nat /\ position[g][p] + 1 \in 1..Len(log[p])
  BY NextIsSignup
<1>4. q = p /\ j = position[g][p] + 1
  BY <1>2, <1>3 DEF Once, NextOf
<1> QED
  BY <1>3, <1>4

LEMMA OnceStep == OnceIInv /\ [Next]_vars => OnceIInv'
<1> SUFFICES ASSUME OnceIInv, [Next]_vars PROVE OnceInv'
  BY FactsStep DEF OnceIInv
<1>0. FactsIInv /\ TypeOK
  BY DEF OnceIInv, FactsIInv
<1> SUFFICES ASSUME faults' = 0 PROVE Once'
  BY EmailsStep DEF OnceInv, Once
<1>o. Once
  BY <1>0, QuietSteps DEF OnceIInv, OnceInv, Once
<1>g. "read" \in Groups /\ "email" \in Groups /\ "email" # "read"
  BY DEF Groups
<1>b. ASSUME NEW g \in Groups, UNCHANGED log, position'[g] = position[g], NEW t, Behind(g, t)
      PROVE  Behind(g, t)'
  BY <1>b DEF Behind
<1>u. ASSUME UNCHANGED <<log, position, projections, mails>>,
             \A s \in publishing' : ~Published(s)
      PROVE  Once'
  <2>1. \A s \in publishing' : ~Published(s)'
    BY <1>u DEF Published
  <2> QED
    BY <1>o, <1>u, <2>1 DEF Once, Behind
<1>1. ASSUME NEW s \in Signups, CreateProfile(s) PROVE Once'
  <2>1. ~Published(s)
    BY <1>0, <1>1 DEF CreateProfile, FactsIInv, FactsHappened, Published, Taken
  <2> QED
    BY <1>1, <1>o, <1>u, <2>1 DEF CreateProfile, offsetVars, effectVars, Once
<1>2. ASSUME NEW s \in Signups, AlreadyExists(s) PROVE Once'
  BY <1>2, <1>o, <1>u DEF AlreadyExists, offsetVars, effectVars, Once
<1>3. ASSUME NEW s \in Signups, PublishMessage(s) PROVE Once'
  BY <1>0, <1>3, <1>o, OncePublish
<1>4. ASSUME NEW p \in Partitions, SaveUser(p) PROVE Once'
  <2>1. /\ HasNext("read", p) /\ Advance("read", p) /\ UNCHANGED <<log, committed>>
        /\ projections' = projections \cup {NextOf("read", p)}
        /\ UNCHANGED <<publishing, mails>>
    BY <1>4 DEF SaveUser, commandVars
  <2>2. /\ position'["email"] = position["email"]
        /\ \A t \in Signups :
             t = NextOf("read", p) \/ Behind("read", t) => Behind("read", t)'
    BY <1>0, <1>g, <2>1, AdvanceBehind
  <2>3. /\ NextOf("read", p) \in Signups
        /\ \A t \in projections : t \in Signups /\ Behind("read", t)
    BY <1>0, <1>g, <1>o, <2>1, NextIsSignup DEF TypeOK, Once
  <2>4. \A t \in projections' : Behind("read", t)'
    BY <2>1, <2>2, <2>3
  <2>5. \A t \in publishing' : ~Published(t)'
    BY <1>o, <2>1 DEF Once, Published
  <2>6. \A t \in Signups : mails'[t] > 0 => mails'[t] = 1 /\ Behind("email", t)'
    BY <1>b, <1>g, <1>o, <2>1, <2>2 DEF Once
  <2>7. \A q, r \in Partitions : \A i \in 1..Len(log'[q]), j \in 1..Len(log'[r]) :
          log'[q][i] = log'[r][j] => q = r /\ i = j
    BY <1>o, <2>1 DEF Once
  <2> QED
    BY <2>4, <2>5, <2>6, <2>7 DEF Once
<1>5. ASSUME NEW p \in Partitions, SendEmail(p) PROVE Once'
  <2>1. /\ HasNext("email", p) /\ Advance("email", p) /\ UNCHANGED <<log, committed>>
        /\ Mail(NextOf("email", p))
        /\ UNCHANGED <<publishing, projections>>
    BY <1>5 DEF SendEmail, commandVars
  <2>2. /\ position'["read"] = position["read"]
        /\ \A t \in Signups :
             t = NextOf("email", p) \/ Behind("email", t) => Behind("email", t)'
    BY <1>0, <1>g, <2>1, AdvanceBehind
  <2>3. NextOf("email", p) \in Signups /\ mails \in [Signups -> Nat]
    BY <1>0, <1>g, <2>1, NextIsSignup DEF TypeOK
  <2>4. mails[NextOf("email", p)] = 0
    <3>1. ~Behind("email", NextOf("email", p))
      BY <1>0, <1>g, <1>o, <2>1, NextNotBehind
    <3>2. ~(mails[NextOf("email", p)] > 0)
      BY <1>o, <2>3, <3>1 DEF Once
    <3> QED
      BY <2>3, <3>2
  <2>5. ASSUME NEW t \in Signups, mails'[t] > 0
        PROVE  mails'[t] = 1 /\ Behind("email", t)'
    <3>1. mails'[t] = IF t = NextOf("email", p) THEN mails[t] + 1 ELSE mails[t]
      BY <2>1, <2>3 DEF Mail
    <3>2. CASE t = NextOf("email", p)
      BY <2>2, <2>4, <3>1, <3>2
    <3>3. CASE t # NextOf("email", p)
      <4>1. mails'[t] = 1 /\ Behind("email", t)
        BY <1>o, <2>5, <3>1, <3>3 DEF Once
      <4> QED
        BY <2>2, <4>1
    <3> QED
      BY <3>2, <3>3
  <2>6. \A t \in publishing' : ~Published(t)'
    BY <1>o, <2>1 DEF Once, Published
  <2>7. \A t \in projections' : Behind("read", t)'
    BY <1>b, <1>g, <1>o, <2>1, <2>2 DEF Once
  <2>8. \A q, r \in Partitions : \A i \in 1..Len(log'[q]), j \in 1..Len(log'[r]) :
          log'[q][i] = log'[r][j] => q = r /\ i = j
    BY <1>o, <2>1 DEF Once
  <2> QED
    BY <2>5, <2>6, <2>7, <2>8 DEF Once
<1>6. ASSUME NEW g \in Groups, NEW p \in Partitions, CommitOffset(g, p) PROVE Once'
  BY <1>6, <1>o, <1>u DEF CommitOffset, commandVars, effectVars, Once
<1>7. CASE UNCHANGED vars
  BY <1>7, <1>o, <1>u DEF vars, commandVars, offsetVars, effectVars, Once
<1> QED
  BY <1>0, <1>1, <1>2, <1>3, <1>4, <1>5, <1>6, <1>7, QuietSteps

LEMMA OnceInvariant == Spec => []OnceIInv
  BY OnceInit, OnceStep, PTL DEF Spec

(* Without a fault no event holds up the read group, and nobody gets two   *)
(* mails: both need an event that is delivered twice.                      *)
THEOREM HeldUpNeedsFault == Spec => []SmoothWithoutFault
<1>1. OnceIInv => SmoothWithoutFault
  <2> SUFFICES ASSUME OnceIInv, faults = 0 PROVE
        /\ \A p \in Partitions : HasNext("read", p) => ~Projected(NextOf("read", p))
        /\ \A s \in Signups : mails[s] <= 1
    BY DEF SmoothWithoutFault
  <2>0. FactsIInv /\ TypeOK /\ Once
    BY DEF OnceIInv, FactsIInv, OnceInv, Once
  <2>1. ASSUME NEW p \in Partitions, HasNext("read", p),
               NEW q \in projections, EmailOf[q] = EmailOf[NextOf("read", p)]
        PROVE  FALSE
    <3>1. "read" \in Groups
      BY DEF Groups
    <3>2. NextOf("read", p) \in users /\ q \in users
      BY <2>0, <2>1, <3>1, NextIsUser DEF FactsIInv, FactsHappened
    <3>3. q = NextOf("read", p)
      BY <2>1, <3>2 DEF OnceIInv, OnceInv
    <3> QED
      BY <2>0, <2>1, <3>1, <3>3, NextNotBehind DEF Once
  <2>2. ASSUME NEW s \in Signups PROVE mails[s] <= 1
    <3>1. mails[s] \in Nat /\ (mails[s] > 0 => mails[s] = 1)
      BY <2>0 DEF Once, TypeOK
    <3> QED
      BY <3>1
  <2> QED
    BY <2>1, <2>2 DEF Projected
<1> QED
  BY <1>1, OnceInvariant, PTL

=============================================================================
