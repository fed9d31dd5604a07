----------------------------- MODULE Onboarding -----------------------------
(***************************************************************************)
(* How a new user reaches the rest of the platform.  The users service     *)
(* inserts the user into PostgreSQL and only then publishes UserOnboarded  *)
(* on the topic 'users'; the read service turns the event into a document  *)
(* of its user projection, from which the gateway decides whether somebody *)
(* who signs in has an account; the email service sends a welcome mail.    *)
(*                                                                         *)
(* Insert and publication are two steps with nothing durable between them  *)
(* (create-profile.handler.ts:41 says so).  Kafka delivers at least once:  *)
(* an offset is committed some time after the message was handled, and a   *)
(* consumer that crashes starts again from the committed offset.           *)
(***************************************************************************)
EXTENDS Naturals, Sequences

CONSTANTS
  Signups,                    \* the CreateProfile commands, hence their events
  AuthOf, EmailOf, HandleOf,  \* the unique columns of the user they create
  Partitions,                 \* the partitions of the topic 'users'
  PartitionOf,                \* where the key of an event, its id, sends it
  MaxRetries,                 \* retries of the database and publisher handlers
  MaxFaults                   \* bound: crashes and failed calls

Groups == {"read", "email"}

ASSUME OnboardingAssumption ==
  /\ PartitionOf \in [Signups -> Partitions]
  /\ MaxRetries \in Nat
  /\ MaxFaults \in Nat

VARIABLES
  signup,       \* what each command is doing, or was answered
  attempts,     \* its failed attempts at the insert, then at the publication
  users,        \* the User table: the commands whose row it holds
  publishing,   \* the events the users service is publishing
  log,          \* the topic 'users'
  position,     \* how far each group has handled each partition
  committed,    \* the offsets each group has committed
  projections,  \* the user projection: the events its documents come from
  mails,        \* welcome mails sent for each event
  faults        \* bound: faults so far

commandVars == <<signup, attempts, users, publishing>>
offsetVars == <<position, committed>>
effectVars == <<projections, mails>>
vars == <<commandVars, log, offsetVars, effectVars, faults>>

Fault == faults < MaxFaults /\ faults' = faults + 1

TypeOK ==
  /\ signup \in [Signups -> {"new", "saving", "answered", "refused", "failed"}]
  /\ attempts \in [Signups -> 0..MaxRetries]
  /\ users \subseteq Signups
  /\ publishing \subseteq Signups
  /\ log \in [Partitions -> Seq(Signups)]
  /\ position \in [Groups -> [Partitions -> Nat]]
  /\ committed \in [Groups -> [Partitions -> Nat]]
  /\ \A g \in Groups, p \in Partitions :
       committed[g][p] <= position[g][p] /\ position[g][p] <= Len(log[p])
  /\ projections \subseteq Signups
  /\ mails \in [Signups -> Nat]
  /\ faults \in 0..MaxFaults

(* Both groups exist and have committed offset 0 before the first event:   *)
(* outside development a group that joins later starts at the end.         *)
Init ==
  /\ signup = [s \in Signups |-> "new"]
  /\ attempts = [s \in Signups |-> 0]
  /\ users = {}
  /\ publishing = {}
  /\ log = [p \in Partitions |-> <<>>]
  /\ position = [g \in Groups |-> [p \in Partitions |-> 0]]
  /\ committed = [g \in Groups |-> [p \in Partitions |-> 0]]
  /\ projections = {}
  /\ mails = [s \in Signups |-> 0]
  /\ faults = 0

-----------------------------------------------------------------------------
(* The users service.  As in CommentsService, the definitions whose names  *)
(* start with Bug are plausible mistakes that nothing here uses.           *)

(* The unique constraints of the User table.                               *)
Taken(s) ==
  \E u \in users : \/ AuthOf[u] = AuthOf[s]
                   \/ EmailOf[u] = EmailOf[s]
                   \/ HandleOf[u] = HandleOf[s]

Active(s) == signup[s] \in {"new", "saving"}

(* commit() before the insert is known to have succeeded.                  *)
BugPublishFirst(s) ==
  /\ Active(s)
  /\ publishing' = publishing \cup {s}
  /\ signup' = [signup EXCEPT ![s] = IF Taken(s) THEN "refused" ELSE "answered"]
  /\ users' = IF Taken(s) THEN users ELSE users \cup {s}
  /\ attempts' = [attempts EXCEPT ![s] = 0]
  /\ UNCHANGED <<log, offsetVars, effectVars, faults>>

(* The command without commit(): the user is saved and nobody is told.     *)
BugNoCommit(s) ==
  /\ Active(s) /\ ~Taken(s)
  /\ users' = users \cup {s}
  /\ signup' = [signup EXCEPT ![s] = "answered"]
  /\ attempts' = [attempts EXCEPT ![s] = 0]
  /\ UNCHANGED <<publishing, log, offsetVars, effectVars, faults>>

(* The insert succeeds: commit() hands the event to its handler, which     *)
(* publishes in the background, and the command is answered.               *)
CreateProfile(s) ==
  /\ Active(s) /\ ~Taken(s)
  /\ users' = users \cup {s}
  /\ publishing' = publishing \cup {s}
  /\ signup' = [signup EXCEPT ![s] = "answered"]
  /\ attempts' = [attempts EXCEPT ![s] = 0]
  /\ UNCHANGED <<log, offsetVars, effectVars, faults>>

(* A unique constraint refuses the insert (P2002), which is not retried.   *)
(* After a retried attempt the row in the way may be the command's own.    *)
AlreadyExists(s) ==
  /\ Active(s) /\ Taken(s)
  /\ signup' = [signup EXCEPT ![s] = "refused"]
  /\ attempts' = [attempts EXCEPT ![s] = 0]
  /\ UNCHANGED <<users, publishing, log, offsetVars, effectVars, faults>>

(* An insert whose answer is an error may have been committed.             *)
InsertMaybe(s) == users' = users \/ (~Taken(s) /\ users' = users \cup {s})

SaveRetried(s) ==
  /\ Active(s) /\ attempts[s] < MaxRetries
  /\ Fault
  /\ InsertMaybe(s)
  /\ signup' = [signup EXCEPT ![s] = "saving"]
  /\ attempts' = [attempts EXCEPT ![s] = @ + 1]
  /\ UNCHANGED <<publishing, log, offsetVars, effectVars>>

(* The last attempt fails, or any attempt with an error not retried.       *)
SaveFailed(s) ==
  /\ Active(s)
  /\ Fault
  /\ InsertMaybe(s)
  /\ signup' = [signup EXCEPT ![s] = "failed"]
  /\ attempts' = [attempts EXCEPT ![s] = 0]
  /\ UNCHANGED <<publishing, log, offsetVars, effectVars>>

(* producer.send                                                           *)
Send(s) == log' = [log EXCEPT ![PartitionOf[s]] = Append(@, s)]

(* The send is retried although it was answered.                           *)
BugSendAgain(s) ==
  /\ s \in publishing
  /\ Send(s)
  /\ publishing' = IF attempts[s] < MaxRetries THEN publishing ELSE publishing \ {s}
  /\ attempts' = [attempts EXCEPT ![s] = IF @ < MaxRetries THEN @ + 1 ELSE 0]
  /\ UNCHANGED <<signup, users, offsetVars, effectVars, faults>>

PublishMessage(s) ==
  /\ s \in publishing
  /\ Send(s)
  /\ publishing' = publishing \ {s}
  /\ attempts' = [attempts EXCEPT ![s] = 0]
  /\ UNCHANGED <<signup, users, offsetVars, effectVars, faults>>

(* A send whose answer is an error may have reached the log.               *)
PublishRetried(s) ==
  /\ s \in publishing /\ attempts[s] < MaxRetries
  /\ Fault
  /\ Send(s) \/ UNCHANGED log
  /\ attempts' = [attempts EXCEPT ![s] = @ + 1]
  /\ UNCHANGED <<signup, users, publishing, offsetVars, effectVars>>

(* The publisher handler gives up.  Its dead-letter branch only logs and   *)
(* sleeps, and nobody awaits the event handler: the event is gone.         *)
PublishFailed(s) ==
  /\ s \in publishing
  /\ Fault
  /\ Send(s) \/ UNCHANGED log
  /\ publishing' = publishing \ {s}
  /\ attempts' = [attempts EXCEPT ![s] = 0]
  /\ UNCHANGED <<signup, users, offsetVars, effectVars>>

(* The users service dies and is restarted: what it was doing is lost.     *)
UsersCrash ==
  /\ Fault
  /\ signup' = [s \in Signups |-> IF signup[s] = "saving" THEN "failed" ELSE signup[s]]
  /\ attempts' = [s \in Signups |-> 0]
  /\ publishing' = {}
  /\ UNCHANGED <<users, log, offsetVars, effectVars>>

-----------------------------------------------------------------------------
(* The consumers.  An exception leaves eachMessage and the message will be *)
(* delivered again: the consumer handler rethrows every error.             *)

HasNext(g, p) == position[g][p] < Len(log[p])
NextOf(g, p) == log[p][position[g][p] + 1]
Advance(g, p) == position' = [position EXCEPT ![g][p] = @ + 1]

(* The unique email of the projection's schema.                            *)
Projected(s) == \E q \in projections : EmailOf[q] = EmailOf[s]

(* The projection's exceptions are swallowed.                              *)
BugSkipFailed(p) ==
  /\ HasNext("read", p)
  /\ Fault
  /\ Advance("read", p)
  /\ UNCHANGED <<commandVars, log, committed, effectVars>>

(* An event whose email is already projected is never handled: create      *)
(* throws each time it is delivered and the group stays where it is.       *)
SaveUser(p) ==
  /\ HasNext("read", p)
  /\ ~Projected(NextOf("read", p))
  /\ projections' = projections \cup {NextOf("read", p)}
  /\ Advance("read", p)
  /\ UNCHANGED <<commandVars, log, committed, mails, faults>>

(* The insert is answered with an error, and may have been applied.        *)
SaveUserFailed(p) ==
  /\ HasNext("read", p)
  /\ Fault
  /\ \/ UNCHANGED projections
     \/ /\ ~Projected(NextOf("read", p))
        /\ projections' = projections \cup {NextOf("read", p)}
  /\ UNCHANGED <<commandVars, log, offsetVars, mails>>

Mail(s) == mails' = [mails EXCEPT ![s] = @ + 1]

(* eachMessage returns before the mail is sent.                            *)
BugNotAwaited(p) ==
  /\ HasNext("email", p)
  /\ Fault
  /\ Advance("email", p)
  /\ UNCHANGED <<commandVars, log, committed, effectVars>>

(* A user is never mailed twice, and the second event is not moved past.   *)
BugStuckMail(p) ==
  /\ HasNext("email", p)
  /\ mails[NextOf("email", p)] = 0
  /\ Mail(NextOf("email", p))
  /\ Advance("email", p)
  /\ UNCHANGED <<commandVars, log, committed, projections, faults>>

SendEmail(p) ==
  /\ HasNext("email", p)
  /\ Mail(NextOf("email", p))
  /\ Advance("email", p)
  /\ UNCHANGED <<commandVars, log, committed, projections, faults>>

SendEmailFailed(p) ==
  /\ HasNext("email", p)
  /\ Fault
  /\ UNCHANGED mails \/ Mail(NextOf("email", p))
  /\ UNCHANGED <<commandVars, log, offsetVars, projections>>

(* kafkajs commits the offsets of what was handled, now and then.          *)
CommitOffset(g, p) ==
  /\ committed' = [committed EXCEPT ![g][p] = position[g][p]]
  /\ UNCHANGED <<commandVars, log, position, effectVars, faults>>

(* A consumer dies or loses its partitions: its group goes back to the     *)
(* committed offsets.                                                      *)
ConsumerCrash(g) ==
  /\ Fault
  /\ position' = [position EXCEPT ![g] = committed[g]]
  /\ UNCHANGED <<commandVars, log, committed, effectVars>>

-----------------------------------------------------------------------------
Next ==
  \/ \E s \in Signups :
       \/ CreateProfile(s)
       \/ AlreadyExists(s)
       \/ SaveRetried(s)
       \/ SaveFailed(s)
       \/ PublishMessage(s)
       \/ PublishRetried(s)
       \/ PublishFailed(s)
  \/ UsersCrash
  \/ \E p \in Partitions :
       \/ SaveUser(p)
       \/ SaveUserFailed(p)
       \/ SendEmail(p)
       \/ SendEmailFailed(p)
  \/ \E g \in Groups : ConsumerCrash(g) \/ \E p \in Partitions : CommitOffset(g, p)

Spec == Init /\ [][Next]_vars

(* Fairness: a publication under way goes on, and a consumer keeps polling *)
(* its partitions.  Nobody has to sign up.                                 *)
Fairness ==
  /\ \A s \in Signups : WF_vars(PublishMessage(s))
  /\ \A p \in Partitions : WF_vars(SaveUser(p)) /\ WF_vars(SendEmail(p))

FairSpec == Spec /\ Fairness

-----------------------------------------------------------------------------
(* Properties.                                                             *)

Published(s) == \E p \in Partitions : \E i \in 1..Len(log[p]) : log[p][i] = s

(* Events are facts that already happened (README.md:127): whatever fails, *)
(* everything published, projected or mailed is about a user the database  *)
(* holds, because the insert is awaited before commit().                   *)
FactsHappened ==
  /\ publishing \subseteq users
  /\ \A p \in Partitions : \A i \in 1..Len(log[p]) : log[p][i] \in users
  /\ projections \subseteq users
  /\ \A s \in Signups : mails[s] > 0 => s \in users

(* What the read group has moved past is projected: a failed projection,   *)
(* a crash or a redelivery never skips a user.                             *)
PassedIsProjected ==
  \A p \in Partitions : \A i \in 1..position["read"][p] : log[p][i] \in projections

(* What the email group has moved past was mailed at least once.           *)
PassedIsMailed ==
  \A p \in Partitions : \A i \in 1..position["email"][p] : mails[log[p][i]] > 0

(* What a group has done for whom.                                         *)
Reached(g) == IF g = "read" THEN projections ELSE {s \in Signups : mails[s] > 0}

(* Without a fault no user is lost between the services: everyone the      *)
(* database holds is projected and mailed, or the event is ahead of the    *)
(* group that still has to do it, or it is being published.  (One failed   *)
(* call is enough to lose a user who was told the signup succeeded: see    *)
(* PublishFailed and AlreadyExists.)                                       *)
OnTheWay(g, s) ==
  \/ s \in Reached(g)
  \/ s \in publishing
  \/ \E p \in Partitions : \E i \in (position[g][p] + 1)..Len(log[p]) : log[p][i] = s

LostOnlyByFault == faults = 0 => \A s \in users, g \in Groups : OnTheWay(g, s)

(* Without a fault the next event of a partition can be projected, and     *)
(* every event is sent once and mailed at most once.  After one, a second  *)
(* delivery of an event that was projected holds up everybody behind it.   *)
SmoothWithoutFault ==
  faults = 0 =>
    /\ \A p \in Partitions : HasNext("read", p) => ~Projected(NextOf("read", p))
    /\ \A s \in Signups : mails[s] <= 1

(* The event of s lies behind the group.                                   *)
Behind(g, s) == \E p \in Partitions : \E i \in 1..position[g][p] : log[p][i] = s

(* Why: without a fault an event is published once, and what a group has   *)
(* done is what lies behind it.                                            *)
OnceInv ==
  /\ \A u, v \in users : EmailOf[u] = EmailOf[v] => u = v
  /\ faults = 0 =>
       /\ \A s \in publishing : ~Published(s)
       /\ \A p, q \in Partitions : \A i \in 1..Len(log[p]), j \in 1..Len(log[q]) :
            log[p][i] = log[q][j] => p = q /\ i = j
       /\ \A s \in projections : Behind("read", s)
       /\ \A s \in Signups : mails[s] > 0 => mails[s] = 1 /\ Behind("email", s)

(* The read group delivers at least once and in order, see AtLeastOnce.    *)
ReadGroup == INSTANCE AtLeastOnce WITH
               Messages <- Signups, reached <- position["read"], handled <- projections
ReadDelivers == ReadGroup!Spec

(* And so does the email group, with mails for effects.                    *)
EmailGroup == INSTANCE AtLeastOnce WITH
                Messages <- Signups, reached <- position["email"],
                handled <- {s \in Signups : mails[s] > 0}
EmailDelivers == EmailGroup!Spec

(* Without a fault everybody who was answered 'User signup successful'     *)
(* ends up with a projection and a mail.                                   *)
EverybodyArrives ==
  \A s \in Signups :
    (signup[s] = "answered") ~> faults > 0 \/ (s \in projections /\ mails[s] > 0)

(* Whatever fails, the email group gets past every published event: no     *)
(* event can hold it up, unlike the read group.                            *)
MailsGetThrough ==
  \A p \in Partitions, i \in 1..3 : (Len(log[p]) >= i) ~> (position["email"][p] >= i)

=============================================================================
