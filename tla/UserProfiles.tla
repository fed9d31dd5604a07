---------------------------- MODULE UserProfiles ----------------------------
(***************************************************************************)
(* The update commands of the users service: find the user, change the     *)
(* aggregate in memory, write the whole row back.  Nothing ties the write  *)
(* to the row that was read (no version, no transaction), so commands for  *)
(* one user that overlap overwrite each other; a write that is retried     *)
(* does so even after its first attempt was committed.                     *)
(*                                                                         *)
(* The value of a column is the command that supplied it, or Signup when   *)
(* it is what the user signed up with: no phone number and no birthday.    *)
(***************************************************************************)
EXTENDS Naturals

CONSTANTS
  Commands,     \* calls of the update methods
  KindOf,       \* the method each calls
  UserOf,       \* the id it gives, of a user or of nobody
  Gives,        \* the columns it supplies
  Invalid,      \* the commands whose values fail validation
  Recursive,    \* the methods whose RPC controller calls itself
  Users,
  Signup,
  MaxRetries,   \* of the database handler
  MaxFaults     \* bound: crashes and failed calls

Kinds == {"profile", "language", "theme", "notification", "verify"}
Columns == {"dob", "phone", "avatar", "language", "theme", "notification"}

Supplied == [profile |-> SUBSET {"dob", "phone", "avatar"}, language |-> {{"language"}},
             theme |-> {{"theme"}}, notification |-> {{"notification"}}, verify |-> {{}}]

ASSUME UserProfilesAssumption ==
  /\ Signup \notin Commands
  /\ KindOf \in [Commands -> Kinds]
  /\ Gives \in [Commands -> SUBSET Columns]
  /\ \A c \in Commands : Gives[c] \in Supplied[KindOf[c]]
  /\ Recursive \subseteq Kinds
  /\ MaxRetries \in Nat /\ MaxFaults \in Nat

VARIABLES
  phase,     \* where each command is, or how it ended
  rows,      \* the User table
  copy,      \* the row as each command has changed it in memory
  tries,     \* failed attempts at the update
  outbox,    \* events that commit() has handed to their handlers
  topic,     \* events on the topic 'users'
  before,    \* history: <<c, d>> if c had ended when d read its user
  faults     \* bound: faults so far

vars == <<phase, rows, copy, tries, outbox, topic, before, faults>>

Row == [columns : [Columns -> Commands \cup {Signup}], isPhoneNumberVerified : BOOLEAN]
SignedUp == [columns |-> [k \in Columns |-> Signup], isPhoneNumberVerified |-> FALSE]

Events == {"onboarded", "languageChanged"} \X Commands
Fault == faults < MaxFaults /\ faults' = faults + 1

TypeOK ==
  /\ phase \in [Commands -> {"new", "updating", "answered", "failed", "refused", "overflowed"}]
  /\ rows \in [Users -> Row]
  /\ copy \in [Commands -> Row]
  /\ tries \in [Commands -> 0..MaxRetries]
  /\ outbox \subseteq Events /\ topic \subseteq Events
  /\ before \subseteq Commands \X Commands
  /\ faults \in 0..MaxFaults

Init ==
  /\ phase = [c \in Commands |-> "new"]
  /\ rows = [u \in Users |-> SignedUp]
  /\ copy = [c \in Commands |-> SignedUp]
  /\ tries = [c \in Commands |-> 0]
  /\ outbox = {} /\ topic = {}
  /\ before = {}
  /\ faults = 0

-----------------------------------------------------------------------------
(* What a command makes of the row it read.                                *)
Given(c, r) == [k \in Columns |-> IF k \in Gives[c] THEN c ELSE r.columns[k]]

(* null for a column that was not given.                                   *)
BugResetOthers(c, r) ==
  [columns |-> [k \in Columns |-> IF k \in Gives[c] THEN c
                                  ELSE IF k \in {"dob", "phone"} THEN Signup
                                  ELSE r.columns[k]],
   isPhoneNumberVerified |-> r.isPhoneNumberVerified /\ "phone" \notin Gives[c]]

UpdateUserProfile(c, r) ==
  [columns |-> Given(c, r),
   isPhoneNumberVerified |-> r.isPhoneNumberVerified /\ "phone" \notin Gives[c]]

ChangePreference(c, r) ==
  [columns |-> Given(c, r), isPhoneNumberVerified |-> r.isPhoneNumberVerified]

(* Without a phone number the aggregate answers false, which the handler   *)
(* does not look at.                                                       *)
VerifyUserPhoneNumber(r) ==
  [columns |-> r.columns,
   isPhoneNumberVerified |-> r.isPhoneNumberVerified \/ r.columns["phone"] # Signup]

Changed(c, r) ==
  CASE KindOf[c] = "profile" -> UpdateUserProfile(c, r)
    [] KindOf[c] = "verify"  -> VerifyUserPhoneNumber(r)
    [] OTHER                 -> ChangePreference(c, r)

-----------------------------------------------------------------------------
(* The controller passes the call on to the use case, or calls itself      *)
(* until the stack overflows.                                              *)
Reaches(c) == KindOf[c] \notin Recursive

Overflow(c) ==
  /\ phase[c] = "new" /\ ~Reaches(c)
  /\ phase' = [phase EXCEPT ![c] = "overflowed"]
  /\ UNCHANGED <<rows, copy, tries, outbox, topic, before, faults>>

Ended(c) == phase[c] \in {"answered", "failed"}

(* The user is found and changed in memory.                                *)
FindAndChange(c) ==
  /\ phase[c] = "new" /\ Reaches(c)
  /\ UserOf[c] \in Users /\ c \notin Invalid
  /\ copy' = [copy EXCEPT ![c] = Changed(c, rows[UserOf[c]])]
  /\ before' = before \cup {<<d, c>> : d \in {e \in Commands : Ended(e)}}
  /\ phase' = [phase EXCEPT ![c] = "updating"]
  /\ UNCHANGED <<rows, tries, outbox, topic, faults>>

(* There is no such user, or a value object refuses a value: whatever was  *)
(* changed of the aggregate before is thrown away with it.                 *)
Refuse(c) ==
  /\ phase[c] = "new" /\ Reaches(c)
  /\ UserOf[c] \notin Users \/ c \in Invalid
  /\ phase' = [phase EXCEPT ![c] = "refused"]
  /\ UNCHANGED <<rows, copy, tries, outbox, topic, before, faults>>

FindFailed(c) ==
  /\ phase[c] = "new" /\ Reaches(c)
  /\ Fault
  /\ phase' = [phase EXCEPT ![c] = "refused"]
  /\ UNCHANGED <<rows, copy, tries, outbox, topic, before>>

(* Only the columns the command is about.                                  *)
BugWrittenPartly(c) ==
  [columns |-> [k \in Columns |-> IF k \in Gives[c] THEN c
                                  ELSE rows[UserOf[c]].columns[k]],
   isPhoneNumberVerified |-> copy[c].isPhoneNumberVerified]

(* toPersistance: every column of the aggregate.                           *)
Written(c) == copy[c]

UpdateOneUserById(c) == rows' = [rows EXCEPT ![UserOf[c]] = Written(c)]

(* commit() publishes what was applied since the aggregate was created     *)
(* from the row, and creating it applies an OnboardedDomainEvent.  Only    *)
(* the language handler commits.                                           *)
Committed(c) ==
  IF KindOf[c] = "language" THEN {"onboarded", "languageChanged"} \X {c} ELSE {}

Update(c) ==
  /\ phase[c] = "updating"
  /\ UpdateOneUserById(c)
  /\ outbox' = outbox \cup Committed(c)
  /\ phase' = [phase EXCEPT ![c] = "answered"]
  /\ UNCHANGED <<copy, tries, topic, before, faults>>

(* An update whose answer is an error may have been committed.             *)
UpdateMaybe(c) == UNCHANGED rows \/ UpdateOneUserById(c)

(* The handler has given up, and its retries go on behind it.              *)
BugRetriesGoOn(c) ==
  /\ phase[c] \in {"updating", "failed"} /\ tries[c] < MaxRetries
  /\ Fault
  /\ UpdateMaybe(c)
  /\ tries' = [tries EXCEPT ![c] = @ + 1]
  /\ UNCHANGED <<phase, copy, outbox, topic, before>>

UpdateRetried(c) ==
  /\ phase[c] = "updating" /\ tries[c] < MaxRetries
  /\ Fault
  /\ UpdateMaybe(c)
  /\ tries' = [tries EXCEPT ![c] = @ + 1]
  /\ UNCHANGED <<phase, copy, outbox, topic, before>>

UpdateFailed(c) ==
  /\ phase[c] = "updating"
  /\ Fault
  /\ UpdateMaybe(c)
  /\ phase' = [phase EXCEPT ![c] = "failed"]
  /\ UNCHANGED <<copy, tries, outbox, topic, before>>

-----------------------------------------------------------------------------
Publish(e) ==
  /\ e \in outbox
  /\ outbox' = outbox \ {e}
  /\ topic' = topic \cup {e}
  /\ UNCHANGED <<phase, rows, copy, tries, before, faults>>

(* Out of retries.  Nobody awaits the handler of an event.                 *)
PublishFailed(e) ==
  /\ e \in outbox
  /\ Fault
  /\ outbox' = outbox \ {e}
  /\ UNCHANGED <<phase, rows, copy, tries, topic, before>>

(* The process dies with its commands and events.                          *)
Crash ==
  /\ Fault
  /\ phase' = [c \in Commands |-> IF phase[c] = "updating" THEN "failed" ELSE phase[c]]
  /\ outbox' = {}
  /\ UNCHANGED <<rows, copy, tries, topic, before>>

Execute(c) ==
  Overflow(c) \/ FindAndChange(c) \/ Refuse(c) \/ Update(c)

Fail(c) == FindFailed(c) \/ UpdateRetried(c) \/ UpdateFailed(c)

Next ==
  \/ \E c \in Commands : Execute(c) \/ Fail(c)
  \/ \E e \in outbox : Publish(e) \/ PublishFailed(e)
  \/ Crash

Spec == Init /\ [][Next]_vars

(* A command in the event loop goes on, and so does a publication.         *)
Fairness ==
  /\ \A c \in Commands : WF_vars(Execute(c))
  /\ \A e \in Events : WF_vars(Publish(e))

FairSpec == Spec /\ Fairness

-----------------------------------------------------------------------------
Wrote(c) == phase[c] \in {"updating", "answered", "failed"}

(* A verified phone number was verified: some command saw that very number *)
(* and verified it.  A verification that races with a change of the number *)
(* brings the old number back; it never verifies the new one.              *)
VerifiedWasVerified ==
  \A u \in Users :
    rows[u].isPhoneNumberVerified =>
      \E c \in Commands :
        /\ KindOf[c] = "verify" /\ UserOf[c] = u
        /\ Wrote(c)
        /\ copy[c].columns["phone"] = rows[u].columns["phone"]

Overlapped(c) ==
  \E d \in Commands \ {c} :
    /\ Wrote(d) /\ UserOf[d] = UserOf[c]
    /\ <<c, d>> \notin before /\ <<d, c>> \notin before

Survives(c, k, r) ==
  \/ r.columns[k] = c
  \/ r.columns[k] \in {d \in Commands : <<c, d>> \in before /\ k \in Gives[d]}

(* What an answered command supplied stays until a later command supplies  *)
(* it again, as long as no command for the same user ran at the same time: *)
(* failures, retries and crashes of commands before and after, and later   *)
(* commands that race with each other, never take it back.                 *)
KeptUnlessOverlapped ==
  \A c \in Commands :
    phase[c] = "answered" /\ ~Overlapped(c) =>
      \A k \in Gives[c] : Survives(c, k, rows[UserOf[c]])

(* A row changes only under a command that is between its find and its     *)
(* update, and a command that has not overlapped another one for the user  *)
(* changes it exactly as if it found, changed and wrote in one step: the   *)
(* copy it writes was never stale, whatever failed or was retried.         *)
SerialUnlessOverlapped ==
  [][\A u \in Users : rows'[u] # rows[u] =>
       \E c \in Commands :
         /\ UserOf[c] = u /\ phase[c] = "updating"
         /\ Overlapped(c) \/ rows'[u] = Changed(c, rows[u])]_vars

(* README.md:101-102: the write side emits domain events and translates    *)
(* them to integration events.  An update that was answered is announced   *)
(* unless a fault gets in the way.                                         *)
UpdatesAreAnnounced ==
  \A c \in Commands :
    phase[c] = "answered" ~> \/ faults > 0
                             \/ \E e \in topic : e[2] = c
=============================================================================
