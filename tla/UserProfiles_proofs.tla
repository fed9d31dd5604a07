------------------------ MODULE UserProfiles_proofs ------------------------
(***************************************************************************)
(* Proofs about the update commands, for any number of commands, users,    *)
(* retries and faults.                                                     *)
(***************************************************************************)
EXTENDS UserProfiles, TLAPS

LEMMA ChangedIsRow ==
  ASSUME NEW c \in Commands, NEW r \in Row
  PROVE  /\ Changed(c, r) \in Row
         /\ \A k \in Columns :
              Changed(c, r).columns[k] = IF k \in Gives[c] THEN c ELSE r.columns[k]
         /\ Changed(c, r).isPhoneNumberVerified =>
              \/ r.isPhoneNumberVerified /\ "phone" \notin Gives[c]
              \/ KindOf[c] = "verify"
<1> USE UserProfilesAssumption
<1>1. CASE KindOf[c] = "verify"
  <2>1. Gives[c] = {}
    BY <1>1 DEF Supplied
  <2>2. QED
    BY <1>1, <2>1 DEF Row, Changed, VerifyUserPhoneNumber
<1>2. CASE KindOf[c] = "profile"
  BY <1>2 DEF Row, Changed, UpdateUserProfile, Given
<1>3. CASE KindOf[c] \in {"language", "theme", "notification"}
  <2>1. "phone" \notin Gives[c]
    BY <1>3 DEF Supplied
  <2>2. Changed(c, r) = ChangePreference(c, r)
    BY <1>3 DEF Changed
  <2>3. QED
    BY <2>1, <2>2 DEF Row, ChangePreference, Given
<1>4. QED
  BY <1>1, <1>2, <1>3 DEF Kinds

LEMMA InitType == Init => TypeOK
BY UserProfilesAssumption DEF Init, TypeOK, Row, SignedUp, Columns

LEMMA UpdateType ==
  ASSUME TypeOK, NEW c \in Commands, phase[c] = "updating", UpdateMaybe(c)
  PROVE  rows' \in [Users -> Row]
BY DEF TypeOK, UpdateMaybe, UpdateOneUserById, Written

LEMMA NextType == TypeOK /\ [Next]_vars => TypeOK'
<1> SUFFICES ASSUME TypeOK, [Next]_vars
             PROVE  TypeOK'
  OBVIOUS
<1> USE UserProfilesAssumption
<1>1. ASSUME NEW c \in Commands, Execute(c)
      PROVE  TypeOK'
  <2>1. CASE Overflow(c)
    BY <2>1 DEF TypeOK, Overflow
  <2>2. CASE FindAndChange(c)
    BY <2>2, ChangedIsRow DEF TypeOK, FindAndChange
  <2>3. CASE Refuse(c)
    BY <2>3 DEF TypeOK, Refuse
  <2>4. CASE Update(c)
    <3>1. rows' \in [Users -> Row]
      BY <2>4, UpdateType DEF Update, UpdateMaybe
    <3>2. outbox' \subseteq Events
      BY <2>4 DEF TypeOK, Update, Committed, Events
    <3>3. QED
      BY <2>4, <3>1, <3>2 DEF TypeOK, Update
  <2>5. QED
    BY <1>1, <2>1, <2>2, <2>3, <2>4 DEF Execute
<1>2. ASSUME NEW c \in Commands, Fail(c)
      PROVE  TypeOK'
  <2>1. CASE FindFailed(c)
    BY <2>1 DEF TypeOK, FindFailed, Fault
  <2>2. CASE UpdateRetried(c)
    BY <2>2, UpdateType DEF TypeOK, UpdateRetried, Fault
  <2>3. CASE UpdateFailed(c)
    BY <2>3, UpdateType DEF TypeOK, UpdateFailed, Fault
  <2>4. QED
    BY <1>2, <2>1, <2>2, <2>3 DEF Fail
<1>3. ASSUME NEW e \in outbox, Publish(e) \/ PublishFailed(e)
      PROVE  TypeOK'
  BY <1>3 DEF TypeOK, Publish, PublishFailed, Fault
<1>4. CASE Crash
  BY <1>4 DEF TypeOK, Crash, Fault
<1>5. CASE UNCHANGED vars
  BY <1>5 DEF TypeOK, vars
<1>6. QED
  BY <1>1, <1>2, <1>3, <1>4, <1>5 DEF Next

(* Every variable keeps its type.                                          *)
THEOREM TypeCorrect == Spec => []TypeOK
BY InitType, NextType, PTL DEF Spec

-----------------------------------------------------------------------------
(* A verified number, in the table or in memory, was seen by a command     *)
(* that verifies.                                                          *)
SeenByVerifier(u, r) ==
  r.isPhoneNumberVerified =>
    \E c \in Commands :
      /\ KindOf[c] = "verify" /\ UserOf[c] = u
      /\ Wrote(c)
      /\ copy[c].columns["phone"] = r.columns["phone"]

VerifiedInv ==
  /\ \A u \in Users : SeenByVerifier(u, rows[u])
  /\ \A c \in Commands : Wrote(c) /\ UserOf[c] \in Users => SeenByVerifier(UserOf[c], copy[c])

(* What a step may do to the commands that have read their user, and to    *)
(* the rows: everything but FindAndChange only moves copies into the table.*)
LEMMA StepShape ==
  ASSUME TypeOK, [Next]_vars
  PROVE  \/ \E d \in Commands : FindAndChange(d)
         \/ /\ UNCHANGED <<copy, before>>
            /\ \A d \in Commands : Wrote(d)' <=> Wrote(d)
            /\ \/ rows' = rows
               \/ \E d \in Commands : /\ phase[d] = "updating"
                                      /\ rows' = [rows EXCEPT ![UserOf[d]] = copy[d]]
<1> USE DEF Wrote
<1>1. ASSUME NEW c \in Commands, Execute(c)
      PROVE  \/ FindAndChange(c)
             \/ /\ UNCHANGED <<copy, before>>
                /\ \A d \in Commands : Wrote(d)' <=> Wrote(d)
                /\ \/ rows' = rows
                   \/ phase[c] = "updating" /\ rows' = [rows EXCEPT ![UserOf[c]] = copy[c]]
  BY <1>1 DEF TypeOK, Execute, Overflow, Refuse, Update, UpdateOneUserById, Written
<1>2. ASSUME NEW c \in Commands, Fail(c)
      PROVE  /\ UNCHANGED <<copy, before>>
             /\ \A d \in Commands : Wrote(d)' <=> Wrote(d)
             /\ \/ rows' = rows
                \/ phase[c] = "updating" /\ rows' = [rows EXCEPT ![UserOf[c]] = copy[c]]
  BY <1>2 DEF TypeOK, Fail, FindFailed, UpdateRetried, UpdateFailed, UpdateMaybe,
              UpdateOneUserById, Written
<1>3. ASSUME \/ \E e \in outbox : Publish(e) \/ PublishFailed(e)
             \/ Crash \/ UNCHANGED vars
      PROVE  UNCHANGED <<copy, before, rows>> /\ \A d \in Commands : Wrote(d)' <=> Wrote(d)
  BY <1>3 DEF TypeOK, Publish, PublishFailed, Crash, vars
<1>4. QED
  BY <1>1, <1>2, <1>3 DEF Next

LEMMA InitVerified == Init => VerifiedInv
BY DEF Init, VerifiedInv, SeenByVerifier, SignedUp, Wrote

LEMMA NextVerified == TypeOK /\ VerifiedInv /\ [Next]_vars => VerifiedInv'
<1> SUFFICES ASSUME TypeOK, VerifiedInv, [Next]_vars
             PROVE  VerifiedInv'
  OBVIOUS
<1>1. ASSUME NEW d \in Commands, FindAndChange(d)
      PROVE  VerifiedInv'
  <2> DEFINE r == rows[UserOf[d]]
  <2>1. /\ UserOf[d] \in Users /\ r \in Row
        /\ copy' = [copy EXCEPT ![d] = Changed(d, r)] /\ rows' = rows
        /\ phase[d] = "new" /\ phase' = [phase EXCEPT ![d] = "updating"]
    BY <1>1 DEF TypeOK, FindAndChange
  <2>2. ASSUME NEW u, NEW s, SeenByVerifier(u, s)
        PROVE  SeenByVerifier(u, s)'
    BY <2>1, <2>2 DEF TypeOK, SeenByVerifier, Wrote
  <2>3. SeenByVerifier(UserOf[d], copy[d])'
    <3>1. CASE KindOf[d] = "verify"
      BY <2>1, <3>1 DEF TypeOK, SeenByVerifier, Wrote
    <3>2. CASE KindOf[d] # "verify"
      <4>1. copy'[d].isPhoneNumberVerified =>
              /\ r.isPhoneNumberVerified
              /\ copy'[d].columns["phone"] = r.columns["phone"]
        <5> HIDE DEF r
        <5>1. copy'[d] = Changed(d, r)
          BY <2>1 DEF TypeOK
        <5>2. QED
          BY <2>1, <3>2, <5>1, ChangedIsRow DEF Columns
      <4>2. SeenByVerifier(UserOf[d], r)'
        BY <2>1, <2>2 DEF VerifiedInv
      <4>3. QED
        BY <4>1, <4>2, <2>1 DEF SeenByVerifier
    <3>3. QED
      BY <3>1, <3>2
  <2>4. \A u \in Users : SeenByVerifier(u, rows[u])'
    BY <2>1, <2>2 DEF VerifiedInv
  <2>5. ASSUME NEW c \in Commands, Wrote(c)', UserOf[c] \in Users
        PROVE  SeenByVerifier(UserOf[c], copy[c])'
    <3>1. CASE c = d
      BY <2>3, <3>1
    <3>2. CASE c # d
      <4>1. Wrote(c) /\ copy'[c] = copy[c]
        BY <2>1, <2>5, <3>2 DEF TypeOK, Wrote
      <4>2. SeenByVerifier(UserOf[c], copy[c])
        BY <4>1, <2>5 DEF VerifiedInv
      <4>3. QED
        BY <2>1, <4>1, <4>2, <3>2 DEF TypeOK, SeenByVerifier, Wrote
    <3>3. QED
      BY <3>1, <3>2
  <2>6. QED
    BY <2>4, <2>5 DEF VerifiedInv, SeenByVerifier
<1>2. ASSUME UNCHANGED <<copy, before>>,
             \A d \in Commands : Wrote(d)' <=> Wrote(d),
             \/ rows' = rows
             \/ \E d \in Commands : /\ phase[d] = "updating"
                                    /\ rows' = [rows EXCEPT ![UserOf[d]] = copy[d]]
      PROVE  VerifiedInv'
  <2>1. ASSUME NEW u, NEW s, SeenByVerifier(u, s)
        PROVE  SeenByVerifier(u, s)'
    BY <1>2, <2>1 DEF SeenByVerifier
  <2>2. \A c \in Commands : Wrote(c)' /\ UserOf[c] \in Users => SeenByVerifier(UserOf[c], copy[c])'
    BY <1>2, <2>1 DEF VerifiedInv
  <2>3. ASSUME NEW u \in Users
        PROVE  SeenByVerifier(u, rows[u])'
    <3>1. CASE rows'[u] = rows[u]
      BY <1>2, <2>1, <3>1 DEF VerifiedInv, SeenByVerifier
    <3>2. CASE \E d \in Commands : phase[d] = "updating" /\ u = UserOf[d] /\ rows'[u] = copy[d]
      BY <1>2, <2>1, <3>2 DEF VerifiedInv, SeenByVerifier, Wrote
    <3>3. QED
      BY <1>2, <3>1, <3>2 DEF TypeOK
  <2>4. QED
    BY <2>2, <2>3 DEF VerifiedInv
<1>3. QED
  BY <1>1, <1>2, StepShape

(* A phone number in the table is verified only if a command saw that very *)
(* number and verified it, however the commands race.                      *)
THEOREM VerifiedNumbersWereVerified == Spec => []VerifiedWasVerified
<1>1. VerifiedInv => VerifiedWasVerified
  BY DEF VerifiedInv, SeenByVerifier, VerifiedWasVerified
<1>2. QED
  BY <1>1, InitType, NextType, InitVerified, NextVerified, PTL DEF Spec

-----------------------------------------------------------------------------
(* before orders intervals, a command keeps its own values in memory, and  *)
(* a command that is about to write has seen what every command that is    *)
(* answered and was alone has supplied.                                    *)
OrderInv ==
  /\ \A c, d \in Commands : <<c, d>> \in before => Ended(c) /\ Wrote(d)
  /\ \A c \in Commands : Wrote(c) =>
       UserOf[c] \in Users /\ \A k \in Gives[c] : copy[c].columns[k] = c

Settled(c) == phase[c] = "answered" /\ ~Overlapped(c)

CopiesKeep ==
  \A c, d \in Commands :
    Settled(c) /\ phase[d] = "updating" /\ UserOf[d] = UserOf[c] =>
      \A k \in Gives[c] : Survives(c, k, copy[d])

KeptInv == OrderInv /\ CopiesKeep /\ KeptUnlessOverlapped

LEMMA GivesColumns ==
  ASSUME NEW c \in Commands
  PROVE  Gives[c] \subseteq Columns
BY UserProfilesAssumption

LEMMA InitKept == Init => KeptInv
BY DEF Init, KeptInv, OrderInv, CopiesKeep, KeptUnlessOverlapped, Settled, Wrote

LEMMA FindKeeps ==
  ASSUME TypeOK, KeptInv, NEW d \in Commands, FindAndChange(d)
  PROVE  KeptInv'
<1> DEFINE r == rows[UserOf[d]]
<1>1. /\ UserOf[d] \in Users /\ r \in Row
      /\ copy' = [copy EXCEPT ![d] = Changed(d, r)] /\ rows' = rows
      /\ phase[d] = "new" /\ phase' = [phase EXCEPT ![d] = "updating"]
      /\ before' = before \cup {<<e, d>> : e \in {e \in Commands : Ended(e)}}
  BY DEF TypeOK, FindAndChange
<1>2. \A k \in Columns : copy'[d].columns[k] = IF k \in Gives[d] THEN d ELSE r.columns[k]
  <2> HIDE DEF r
  <2>1. copy'[d] = Changed(d, r)
    BY <1>1 DEF TypeOK
  <2>2. QED
    BY <1>1, <2>1, ChangedIsRow
<1>3. OrderInv'
  <2>1. \A c \in Commands : Ended(c)' <=> Ended(c)
    BY <1>1 DEF TypeOK, Ended
  <2>2. \A c \in Commands : Wrote(c)' <=> Wrote(c) \/ c = d
    BY <1>1 DEF TypeOK, Wrote
  <2>3. ASSUME NEW c \in Commands, NEW e \in Commands, <<c, e>> \in before'
        PROVE  Ended(c)' /\ Wrote(e)'
    BY <1>1, <2>1, <2>2, <2>3 DEF KeptInv, OrderInv
  <2>4. ASSUME NEW c \in Commands, Wrote(c)'
        PROVE  UserOf[c] \in Users /\ \A k \in Gives[c] : copy'[c].columns[k] = c
    <3>1. CASE c = d
      BY <1>1, <1>2, <3>1, GivesColumns
    <3>2. CASE c # d
      BY <1>1, <2>2, <2>4, <3>2 DEF TypeOK, KeptInv, OrderInv
    <3>3. QED
      BY <3>1, <3>2
  <2>5. QED
    BY <2>3, <2>4 DEF OrderInv
<1>4. ASSUME NEW c \in Commands, Settled(c)'
      PROVE  c # d /\ Settled(c) /\ <<c, d>> \in before'
  <2>1. c # d /\ phase[c] = "answered"
    BY <1>1, <1>4 DEF TypeOK, Settled
  <2>2. ~Overlapped(c)
    <3> SUFFICES ASSUME NEW e \in Commands \ {c}, Wrote(e), UserOf[e] = UserOf[c],
                        <<c, e>> \notin before, <<e, c>> \notin before
                 PROVE  FALSE
      BY DEF Overlapped
    <3>1. e # d /\ Wrote(e)'
      BY <1>1 DEF TypeOK, Wrote
    <3>2. <<c, e>> \notin before' /\ <<e, c>> \notin before'
      BY <1>1, <3>1, <2>1
    <3>3. QED
      BY <1>4, <3>1, <3>2 DEF Settled, Overlapped
  <2>3. QED
    BY <1>1, <2>1, <2>2 DEF Settled, Ended
<1>5. ASSUME NEW c \in Commands, NEW k, NEW s, Survives(c, k, s)
      PROVE  Survives(c, k, s)'
  BY <1>1, <1>5 DEF Survives
<1>6. CopiesKeep'
  <2> SUFFICES ASSUME NEW c \in Commands, NEW e \in Commands, Settled(c)',
                      phase'[e] = "updating", UserOf[e] = UserOf[c], NEW k \in Gives[c]
               PROVE  Survives(c, k, copy[e])'
    BY DEF CopiesKeep
  <2>1. CASE e = d
    <3>1. Survives(c, k, r)
      BY <1>4, <2>1 DEF KeptInv, KeptUnlessOverlapped, Settled
    <3>2. CASE k \in Gives[d]
      BY <1>2, <1>4, <2>1, <3>2, GivesColumns DEF Survives
    <3>3. CASE k \notin Gives[d]
      BY <1>1, <1>2, <2>1, <3>1, <3>3, GivesColumns DEF Survives
    <3>4. QED
      BY <3>2, <3>3
  <2>2. CASE e # d
    BY <1>1, <1>4, <1>5, <2>2 DEF TypeOK, KeptInv, CopiesKeep, Survives
  <2>3. QED
    BY <2>1, <2>2
<1>7. KeptUnlessOverlapped'
  BY <1>1, <1>4, <1>5 DEF KeptInv, KeptUnlessOverlapped, Settled, Survives
<1>8. QED
  BY <1>3, <1>6, <1>7 DEF KeptInv

(* Every other step moves at most one copy into the table, and answers at  *)
(* most the command that does so.                                          *)
LEMMA OtherSteps ==
  ASSUME TypeOK, [Next]_vars, ~\E d \in Commands : FindAndChange(d)
  PROVE  /\ UNCHANGED <<copy, before>>
         /\ \A d \in Commands : (Wrote(d)' <=> Wrote(d)) /\ (Ended(d) => Ended(d)')
         /\ \A d \in Commands : phase'[d] = "updating" => phase[d] = "updating"
         /\ \/ rows' = rows /\ \A c \in Commands : phase'[c] = "answered" <=> phase[c] = "answered"
            \/ \E d \in Commands :
                 /\ phase[d] = "updating"
                 /\ rows' = [rows EXCEPT ![UserOf[d]] = copy[d]]
                 /\ \A c \in Commands \ {d} : phase'[c] = "answered" <=> phase[c] = "answered"
<1> USE DEF Wrote, Ended
<1>1. ASSUME NEW c \in Commands, Execute(c) \/ Fail(c), ~FindAndChange(c)
      PROVE  /\ UNCHANGED <<copy, before>>
             /\ \A d \in Commands : (Wrote(d)' <=> Wrote(d)) /\ (Ended(d) => Ended(d)')
             /\ \A d \in Commands : phase'[d] = "updating" => phase[d] = "updating"
             /\ \/ rows' = rows /\ \A d \in Commands : phase'[d] = "answered" <=> phase[d] = "answered"
                \/ /\ phase[c] = "updating"
                   /\ rows' = [rows EXCEPT ![UserOf[c]] = copy[c]]
                   /\ \A d \in Commands \ {c} : phase'[d] = "answered" <=> phase[d] = "answered"
  <2>1. CASE Overflow(c) \/ Refuse(c) \/ FindFailed(c)
    BY <2>1 DEF TypeOK, Overflow, Refuse, FindFailed
  <2>2. CASE Update(c)
    BY <2>2 DEF TypeOK, Update, UpdateOneUserById, Written
  <2>3. CASE UpdateRetried(c) \/ UpdateFailed(c)
    BY <2>3 DEF TypeOK, UpdateRetried, UpdateFailed, UpdateMaybe, UpdateOneUserById, Written
  <2>4. QED
    BY <1>1, <2>1, <2>2, <2>3 DEF Execute, Fail
<1>2. ASSUME (\E e \in outbox : Publish(e) \/ PublishFailed(e)) \/ Crash \/ UNCHANGED vars
      PROVE  /\ UNCHANGED <<copy, before, rows>>
             /\ \A d \in Commands : (Wrote(d)' <=> Wrote(d)) /\ (Ended(d) => Ended(d)')
             /\ \A d \in Commands : phase'[d] = "updating" => phase[d] = "updating"
             /\ \A c \in Commands : phase'[c] = "answered" <=> phase[c] = "answered"
  BY <1>2 DEF TypeOK, Publish, PublishFailed, Crash, vars
<1>3. QED
  BY <1>1, <1>2 DEF Next

LEMMA OthersKeep ==
  ASSUME TypeOK, KeptInv, [Next]_vars, ~\E d \in Commands : FindAndChange(d)
  PROVE  KeptInv'
<1>1. OrderInv'
  BY OtherSteps DEF KeptInv, OrderInv
<1>2. \A c \in Commands : Overlapped(c)' <=> Overlapped(c)
  BY OtherSteps DEF Overlapped
<1>3. \A c \in Commands : \A k, s : Survives(c, k, s)' <=> Survives(c, k, s)
  BY OtherSteps DEF Survives
<1>4. ASSUME NEW c \in Commands, NEW d \in Commands, UserOf[d] = UserOf[c], d # c,
             phase[d] = "updating", ~Overlapped(c), Wrote(c)
      PROVE  <<c, d>> \in before /\ Ended(c)
  <2>1. Wrote(d) /\ ~Ended(d)
    BY <1>4 DEF Wrote, Ended
  <2>2. QED
    BY <1>4, <2>1 DEF Overlapped, KeptInv, OrderInv
<1>5. CopiesKeep'
  <2> SUFFICES ASSUME NEW c \in Commands, NEW d \in Commands, Settled(c)',
                      phase'[d] = "updating", UserOf[d] = UserOf[c], NEW k \in Gives[c]
               PROVE  Survives(c, k, copy[d])'
    BY DEF CopiesKeep
  <2>1. phase[d] = "updating" /\ d # c /\ ~Overlapped(c) /\ Wrote(c)
    BY OtherSteps, <1>2 DEF Settled, Wrote
  <2>2. Settled(c)
    <3>1. Ended(c)
      BY <1>4, <2>1
    <3>2. QED
      BY <2>1, <3>1, OtherSteps DEF Settled, Ended
  <2>3. QED
    BY <1>3, <2>1, <2>2, OtherSteps DEF KeptInv, CopiesKeep, Survives
<1>6. ASSUME NEW c \in Commands, Settled(c)', NEW k \in Gives[c]
      PROVE  Survives(c, k, rows[UserOf[c]])'
  <2>1. UserOf[c] \in Users /\ Wrote(c) /\ ~Overlapped(c)
    BY <1>1, <1>2, <1>6, OtherSteps DEF Settled, Wrote, OrderInv
  <2>2. CASE rows' = rows /\ phase[c] = "answered"
    BY <2>1, <2>2, <1>3 DEF KeptInv, KeptUnlessOverlapped, Survives
  <2>3. ASSUME NEW d \in Commands, phase[d] = "updating",
               rows' = [rows EXCEPT ![UserOf[d]] = copy[d]],
               d = c \/ phase[c] = "answered"
        PROVE  Survives(c, k, rows[UserOf[c]])'
    <3>1. CASE UserOf[d] # UserOf[c]
      <4>1. rows'[UserOf[c]] = rows[UserOf[c]] /\ phase[c] = "answered"
        BY <2>1, <2>3, <3>1 DEF TypeOK
      <4>2. Survives(c, k, rows[UserOf[c]])
        BY <2>1, <4>1 DEF KeptInv, KeptUnlessOverlapped
      <4>3. QED
        BY <4>1, <4>2, OtherSteps DEF Survives
    <3>2. CASE d = c
      BY <2>1, <2>3, <3>2 DEF TypeOK, KeptInv, OrderInv, Survives
    <3>3. CASE UserOf[d] = UserOf[c] /\ d # c
      BY <1>3, <2>1, <2>3, <3>3, OtherSteps DEF TypeOK, KeptInv, CopiesKeep, Settled, Survives
    <3>4. QED
      BY <3>1, <3>2, <3>3
  <2>4. QED
    BY <1>6, <2>2, <2>3, OtherSteps DEF Settled
<1>7. KeptUnlessOverlapped'
  BY <1>6 DEF KeptUnlessOverlapped, Settled
<1>8. QED
  BY <1>1, <1>5, <1>7 DEF KeptInv

(* What an answered command supplied is taken back only if another command *)
(* for the same user ran at the same time.                                 *)
THEOREM AnswersAreKept == Spec => []KeptUnlessOverlapped
<1>1. TypeOK /\ KeptInv /\ [Next]_vars => KeptInv'
  BY FindKeeps, OthersKeep
<1>2. KeptInv => KeptUnlessOverlapped
  BY DEF KeptInv
<1>3. QED
  BY <1>1, <1>2, InitType, NextType, InitKept, PTL DEF Spec

-----------------------------------------------------------------------------
(* The copy a command is about to write is what it makes of the row, or    *)
(* the row is that copy already, as long as the command is alone.          *)
FreshCopies ==
  \A c \in Commands :
    phase[c] = "updating" /\ ~Overlapped(c) =>
      copy[c] = Changed(c, rows[UserOf[c]]) \/ copy[c] = rows[UserOf[c]]

SerialInv == OrderInv /\ FreshCopies

(* Commands that are both between find and update overlap.                 *)
LEMMA WritersOverlap ==
  ASSUME OrderInv, NEW c \in Commands, NEW d \in Commands, c # d, UserOf[c] = UserOf[d],
         phase[c] = "updating", phase[d] = "updating"
  PROVE  Overlapped(c)
<1>1. ~Ended(c) /\ ~Ended(d) /\ Wrote(d)
  BY DEF Ended, Wrote
<1>2. QED
  BY <1>1 DEF OrderInv, Overlapped

LEMMA FindKeepsFresh ==
  ASSUME TypeOK, SerialInv, OrderInv', NEW d \in Commands, FindAndChange(d)
  PROVE  FreshCopies'
<1>1. /\ UserOf[d] \in Users /\ rows' = rows
      /\ copy' = [copy EXCEPT ![d] = Changed(d, rows[UserOf[d]])]
      /\ phase[d] = "new" /\ phase' = [phase EXCEPT ![d] = "updating"]
      /\ before' = before \cup {<<e, d>> : e \in {e \in Commands : Ended(e)}}
  BY DEF TypeOK, FindAndChange
<1>2. copy'[d] = Changed(d, rows[UserOf[d]])'
  BY <1>1 DEF TypeOK, Changed, UpdateUserProfile, VerifyUserPhoneNumber, ChangePreference, Given
<1>3. ASSUME NEW c \in Commands, c # d, phase'[c] = "updating", ~Overlapped(c)'
      PROVE  copy'[c] = Changed(c, rows[UserOf[c]])' \/ copy'[c] = rows'[UserOf[c]]
  <2>1. phase[c] = "updating" /\ copy'[c] = copy[c]
    BY <1>1, <1>3 DEF TypeOK
  <2>2. ~Overlapped(c)
    <3> SUFFICES ASSUME NEW e \in Commands \ {c}, Wrote(e), UserOf[e] = UserOf[c],
                        <<c, e>> \notin before, <<e, c>> \notin before
                 PROVE  FALSE
      BY DEF Overlapped
    <3>1. e # d /\ Wrote(e)'
      BY <1>1 DEF TypeOK, Wrote
    <3>2. <<c, e>> \notin before' /\ <<e, c>> \notin before'
      BY <1>1, <1>3, <3>1
    <3>3. QED
      BY <1>3, <3>1, <3>2 DEF Overlapped
  <2>3. copy[c] = Changed(c, rows[UserOf[c]]) \/ copy[c] = rows[UserOf[c]]
    BY <2>1, <2>2 DEF SerialInv, FreshCopies
  <2>4. Changed(c, rows[UserOf[c]])' = Changed(c, rows[UserOf[c]])
    BY <1>1 DEF Changed, UpdateUserProfile, VerifyUserPhoneNumber, ChangePreference, Given
  <2>5. QED
    BY <1>1, <2>1, <2>3, <2>4
<1>4. QED
  BY <1>2, <1>3 DEF FreshCopies

LEMMA OthersKeepFresh ==
  ASSUME TypeOK, SerialInv, [Next]_vars, ~\E d \in Commands : FindAndChange(d)
  PROVE  FreshCopies'
<1> SUFFICES ASSUME NEW c \in Commands, phase'[c] = "updating", ~Overlapped(c)'
             PROVE  copy'[c] = Changed(c, rows[UserOf[c]])' \/ copy'[c] = rows'[UserOf[c]]
  BY DEF FreshCopies
<1>1. phase[c] = "updating" /\ copy'[c] = copy[c] /\ ~Overlapped(c)
  BY OtherSteps DEF Overlapped
<1>2. UserOf[c] \in Users
  BY <1>1 DEF SerialInv, OrderInv, Wrote
<1>3. copy[c] = Changed(c, rows[UserOf[c]]) \/ copy[c] = rows[UserOf[c]]
  BY <1>1 DEF SerialInv, FreshCopies
<1>4. CASE rows'[UserOf[c]] = rows[UserOf[c]]
  <2>1. Changed(c, rows[UserOf[c]])' = Changed(c, rows[UserOf[c]])
    BY <1>4 DEF Changed, UpdateUserProfile, VerifyUserPhoneNumber, ChangePreference, Given
  <2>2. QED
    BY <1>1, <1>3, <1>4, <2>1
<1>5. ASSUME NEW d \in Commands, phase[d] = "updating",
             rows' = [rows EXCEPT ![UserOf[d]] = copy[d]]
      PROVE  rows'[UserOf[c]] = rows[UserOf[c]] \/ rows'[UserOf[c]] = copy[c]
  <2>1. CASE UserOf[d] # UserOf[c]
    BY <1>2, <1>5, <2>1 DEF TypeOK
  <2>2. CASE d = c
    BY <1>2, <1>5, <2>2 DEF TypeOK
  <2>3. CASE d # c /\ UserOf[d] = UserOf[c]
    BY <1>1, <1>5, <2>3, WritersOverlap DEF SerialInv
  <2>4. QED
    BY <2>1, <2>2, <2>3
<1>6. QED
  BY <1>1, <1>4, <1>5, OtherSteps

LEMMA NextSerial == TypeOK /\ KeptInv /\ FreshCopies /\ [Next]_vars => FreshCopies'
BY FindKeeps, FindKeepsFresh, OthersKeepFresh DEF SerialInv, KeptInv

LEMMA SerialStep ==
  ASSUME TypeOK, SerialInv, [Next]_vars, NEW u \in Users, rows'[u] # rows[u]
  PROVE  \E c \in Commands :
           /\ UserOf[c] = u /\ phase[c] = "updating"
           /\ Overlapped(c) \/ rows'[u] = Changed(c, rows[u])
<1>1. ~\E d \in Commands : FindAndChange(d)
  BY DEF FindAndChange
<1>2. PICK d \in Commands : phase[d] = "updating" /\ rows' = [rows EXCEPT ![UserOf[d]] = copy[d]]
  BY <1>1, OtherSteps
<1>3. UserOf[d] = u /\ rows'[u] = copy[d]
  BY <1>2 DEF TypeOK
<1>4. Overlapped(d) \/ copy[d] = Changed(d, rows[u])
  BY <1>2, <1>3 DEF SerialInv, FreshCopies
<1>5. QED
  BY <1>2, <1>3, <1>4

(* Without a version or a transaction, and whatever fails or is retried,   *)
(* the only thing that keeps an update from acting as one atomic step is   *)
(* another command for the same user between its find and its update.      *)
THEOREM UpdatesAreSerial == Spec => SerialUnlessOverlapped
<1>1. TypeOK /\ KeptInv /\ FreshCopies /\ [Next]_vars =>
        [\A u \in Users : rows'[u] # rows[u] =>
           \E c \in Commands :
             /\ UserOf[c] = u /\ phase[c] = "updating"
             /\ Overlapped(c) \/ rows'[u] = Changed(c, rows[u])]_vars
  BY SerialStep DEF SerialInv, KeptInv
<1>2. Init => FreshCopies
  BY DEF Init, FreshCopies
<1>3. TypeOK /\ KeptInv /\ [Next]_vars => KeptInv'
  BY FindKeeps, OthersKeep
<1>4. QED
  BY <1>1, <1>2, <1>3, InitType, NextType, InitKept, NextSerial, PTL DEF Spec, SerialUnlessOverlapped
=============================================================================
