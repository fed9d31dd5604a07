------------------------------ MODULE Engagement ------------------------------
(***************************************************************************)
(* What users do to videos in the reaction and the views service: like,    *)
(* dislike, take either back, watch.  A command runs one Lua script in     *)
(* Redis, which keeps for every video the set of users of each list and a  *)
(* counter of the set in shards; if the script answers 1 the command       *)
(* appends an entry to the service's stream, and is answered.              *)
(*                                                                         *)
(* The script and the XADD are two calls.  Redis survives the services; a  *)
(* script whose reply is lost is sent again after a reconnection.          *)
(***************************************************************************)
EXTENDS Integers, FiniteSets

CONSTANTS
  Commands, Users, Videos, Shards,
  OpOf, UserOf, VideoOf,   \* what each command asks for
  ShardOf,                 \* the hash of videoId + userId
  Builds,                  \* the builds of the two services, see Build
  MaxFaults                \* bound: lost replies, failed calls, crashes

(* The lists of a video, and what each script does to them: it takes the   *)
(* user off one and puts them on another.                                  *)
Lists == {"likes", "dislikes", "views"}
Scripts == {"like", "unlike", "dislike", "undislike", "watch"}

Leaves == [o \in Scripts |->
  CASE o \in {"like", "undislike"} -> "dislikes"
    [] o \in {"dislike", "unlike"} -> "likes"
    [] o = "watch" -> "nothing"]

Joins == [o \in Scripts |->
  CASE o = "like" -> "likes"
    [] o = "dislike" -> "dislikes"
    [] o = "watch" -> "views"
    [] o \in {"unlike", "undislike"} -> "nothing"]

Services == {"reaction", "views"}
ServiceOf(o) == IF o = "watch" THEN "views" ELSE "reaction"

(* "other" is a reaction type that RpcService does not know.               *)
Ops == Scripts \cup {"other"}

(* What a build of the services may get wrong: the names under which the   *)
(* cache adapters look for the scripts, whether the constructor of the     *)
(* stream adapter keeps the client, and whether the reaction is written to *)
(* the stream as the aggregate with its nested private fields or with the  *)
(* fields that the reader of the stream asks for at the top.               *)
Build == [scripts : SUBSET Scripts, clients : SUBSET Services, entries : {"nested", "flat"}]

(* What one service knows of a user and a video.                           *)
Pairs == Services \X Users \X Videos
PairOf(c) == <<ServiceOf(OpOf[c]), UserOf[c], VideoOf[c]>>

ASSUME EngagementAssumption ==
  /\ OpOf \in [Commands -> Ops]
  /\ UserOf \in [Commands -> Users]
  /\ VideoOf \in [Commands -> Videos]
  /\ ShardOf \in [Videos \X Users -> Shards]
  /\ IsFiniteSet(Users)
  /\ Builds \subseteq Build
  /\ MaxFaults \in Nat

VARIABLES
  build,      \* never changes: how the services are built
  members,    \* the users on each list of each video
  counter,    \* the shards of its counter
  latest,     \* what a reader of the stream is last told of a pair
  phase,      \* of each command
  muddled,    \* history: pairs whose last change was disturbed
  faults      \* bound: faults so far

redis == <<members, counter>>
vars == <<build, redis, latest, phase, muddled, faults>>

Phases == {"new", "unheard", "counted", "unbuffered",
           "answered", "already", "refused", "failed"}

TypeOK ==
  /\ build \in Builds
  /\ members \in [Lists \X Videos -> SUBSET Users]
  /\ counter \in [Lists \X Videos \X Shards -> Int]
  /\ latest \in [Pairs -> Scripts \cup {"none"}]
  /\ phase \in [Commands -> Phases]
  /\ muddled \subseteq Pairs
  /\ faults \in 0..MaxFaults

Init ==
  /\ build \in Builds
  /\ members = [k \in Lists \X Videos |-> {}]
  /\ counter = [k \in Lists \X Videos \X Shards |-> 0]
  /\ latest = [p \in Pairs |-> "none"]
  /\ phase = [c \in Commands |-> "new"]
  /\ muddled = {}
  /\ faults = 0

Fault == faults < MaxFaults /\ faults' = faults + 1
Move(c, to) == phase' = [phase EXCEPT ![c] = to]

-----------------------------------------------------------------------------
(* The scripts.                                                            *)
On(l, c) == l \in Lists /\ UserOf[c] \in members[<<l, VideoOf[c]>>]

Removes(c) == On(Leaves[OpOf[c]], c)
Adds(c) == Joins[OpOf[c]] # "nothing" /\ ~On(Joins[OpOf[c]], c)

(* like.lua without the INCRBY of the other counter.                       *)
BugNoDecrement(c) == Joins[OpOf[c]] = "nothing" /\ Removes(c)

(* SREM answered 1.                                                        *)
Decrements(c) == Removes(c)

RunScript(c) ==
  LET u == UserOf[c]
      v == VideoOf[c]
      s == ShardOf[<<v, u>>]
      l == Leaves[OpOf[c]]
      j == Joins[OpOf[c]]
  IN  /\ members' = [k \in Lists \X Videos |->
           IF k = <<l, v>> THEN members[k] \ {u}
           ELSE IF k = <<j, v>> THEN members[k] \cup {u} ELSE members[k]]
      /\ counter' = [k \in Lists \X Videos \X Shards |->
           IF k = <<l, v, s>> /\ Decrements(c) THEN counter[k] - 1
           ELSE IF k = <<j, v, s>> /\ Adds(c) THEN counter[k] + 1 ELSE counter[k]]

(* The script answers 0 when the user comes from the other list.           *)
BugSwitchIsNothing(c) ==
  IF Joins[OpOf[c]] = "nothing" THEN Removes(c) ELSE Adds(c) /\ ~Removes(c)

(* The script answers 1: to like or watch, that the user was added; to     *)
(* unlike, that the user was removed.                                      *)
AnswersOne(c) == IF Joins[OpOf[c]] = "nothing" THEN Removes(c) ELSE Adds(c)

(* Commands whose script has run and which have not been answered.         *)
InFlight(p) == {c \in Commands : PairOf(c) = p /\ phase[c] \in {"unheard", "counted"}}

Alone(c) == InFlight(PairOf(c)) \subseteq {c}

Runnable(c) == OpOf[c] \in build.scripts /\ phase[c] \in {"new", "unheard"}

-----------------------------------------------------------------------------
(* The command handlers.                                                   *)
Record(c) ==
  /\ Runnable(c)
  /\ RunScript(c)
  /\ Move(c, IF AnswersOne(c) THEN "counted" ELSE "already")
  /\ muddled' = IF ~AnswersOne(c) THEN muddled
                ELSE IF Alone(c) THEN muddled \ {PairOf(c)}
                ELSE muddled \cup {PairOf(c)}
  /\ UNCHANGED <<build, latest, faults>>

(* The reply is lost: ioredis sends the script again once it has           *)
(* reconnected.                                                            *)
ReplyLost(c) ==
  /\ Runnable(c)
  /\ Fault
  /\ RunScript(c)
  /\ Move(c, "unheard")
  /\ muddled' = muddled \cup {PairOf(c)}
  /\ UNCHANGED <<build, latest>>

(* Redis stays away for too long; the script may have run.                 *)
RecordFailed(c) ==
  /\ Runnable(c)
  /\ Fault
  /\ RunScript(c) \/ UNCHANGED redis
  /\ Move(c, "failed")
  /\ muddled' = muddled \cup {PairOf(c)}
  /\ UNCHANGED <<build, latest>>

(* The adapter of the reaction service calls scripts under other names     *)
(* than it defined: not a function.                                        *)
NotAFunction(c) ==
  /\ phase[c] = "new" /\ OpOf[c] \in Scripts \ build.scripts
  /\ Move(c, "failed")
  /\ UNCHANGED <<build, redis, latest, muddled, faults>>

InvalidStatus(c) ==
  /\ phase[c] = "new" /\ OpOf[c] = "other"
  /\ Move(c, "refused")
  /\ UNCHANGED <<build, redis, latest, muddled, faults>>

(* The stream adapter of the command's service has its client.             *)
HasClient(c) == PairOf(c)[1] \in build.clients

(* A reader finds user, video and status in the entries of service s.      *)
Legible(s) == s = "views" \/ build.entries = "flat"

(* XADD.  The stream is kept as what a reader is last told of each pair:   *)
(* an entry without the fields it asks for tells it nothing.               *)
Append(c) ==
  latest' = IF Legible(PairOf(c)[1]) THEN [latest EXCEPT ![PairOf(c)] = OpOf[c]] ELSE latest

(* bufferReaction, bufferView.                                             *)
Buffer(c) ==
  /\ phase[c] = "counted" /\ HasClient(c)
  /\ Append(c)
  /\ Move(c, "answered")
  /\ UNCHANGED <<build, redis, muddled, faults>>

(* The XADD fails; it may have been done.                                  *)
BufferFailed(c) ==
  /\ phase[c] = "counted" /\ HasClient(c)
  /\ Fault
  /\ Append(c) \/ UNCHANGED latest
  /\ Move(c, "failed")
  /\ muddled' = muddled \cup {PairOf(c)}
  /\ UNCHANGED <<build, redis>>

(* There is no client to call xadd on: the command ends with a TypeError   *)
(* after its script has run.  (The adapter's onModuleInit fails the same   *)
(* way, so that such a service does not even start; this is its handler.)  *)
NoClient(c) ==
  /\ phase[c] = "counted" /\ ~HasClient(c)
  /\ Move(c, "unbuffered")
  /\ UNCHANGED <<build, redis, latest, muddled, faults>>

(* The process of a service dies, its commands with it.                    *)
Crash(s) ==
  LET dying == {c \in Commands : PairOf(c)[1] = s /\ phase[c] \in {"unheard", "counted"}}
  IN  /\ dying # {}
      /\ Fault
      /\ phase' = [c \in Commands |-> IF c \in dying THEN "failed" ELSE phase[c]]
      /\ muddled' = muddled \cup {PairOf(c) : c \in dying}
      /\ UNCHANGED <<build, redis, latest>>

Execute(c) == Record(c) \/ NotAFunction(c) \/ InvalidStatus(c) \/ Buffer(c) \/ NoClient(c)
Disturb(c) == ReplyLost(c) \/ RecordFailed(c) \/ BufferFailed(c)

Next ==
  \/ \E c \in Commands : Execute(c) \/ Disturb(c)
  \/ \E s \in Services : Crash(s)

Spec == Init /\ [][Next]_vars

-----------------------------------------------------------------------------
InShard(l, v, s) == {u \in members[<<l, v>>] : ShardOf[<<v, u>>] = s}

(* Nobody likes and dislikes a video, and shard by shard the counters are  *)
(* the sizes of the sets, so that getTotalLikes, getTotalDislikes and      *)
(* getTotalViews count people: after any order of commands, lost replies,  *)
(* scripts that run twice and crashes.                                     *)
CountersExact ==
  /\ \A v \in Videos : members[<<"likes", v>>] \cap members[<<"dislikes", v>>] = {}
  /\ \A l \in Lists, v \in Videos, s \in Shards :
       counter[<<l, v, s>>] = Cardinality(InShard(l, v, s))

(* The lists of its service on which the user of a pair is, and those      *)
(* where the last entry of the stream says they are.                       *)
Standing(p) == {l \in Lists : /\ l = "views" <=> p[1] = "views"
                              /\ p[2] \in members[<<l, p[3]>>]}
Told(p) == IF latest[p] = "none" THEN {} ELSE {Joins[latest[p]]} \ {"nothing"}

(* Without a fault a like, a dislike or a view is answered as a repetition *)
(* only when another command of the same user did it to the same video:    *)
(* neither coming from the other list nor a command that overlaps makes a  *)
(* first one look like a second.                                           *)
AlreadyHasReason ==
  faults = 0 =>
    \A c \in Commands : phase[c] = "already" /\ Joins[OpOf[c]] # "nothing" =>
      \E d \in Commands : /\ phase[d] \in {"counted", "answered", "unbuffered"}
                          /\ PairOf(d) = PairOf(c) /\ Joins[OpOf[d]] = Joins[OpOf[c]]

(* The commands of service s reach the reader of its stream.               *)
Carried(s) == s \in build.clients /\ Legible(s)

(* In a build whose commands reach the readers of the stream, the stream,  *)
(* from which the database is to be written, ends with what the sets say   *)
(* of a user and a video, unless the last command that changed it          *)
(* overlapped another one between script and XADD or was disturbed by a    *)
(* fault: whatever went wrong, the next change that runs undisturbed makes *)
(* it good.                                                                *)
StreamTellsSets ==
  \A p \in Pairs :
    Carried(p[1]) /\ p \notin muddled /\ InFlight(p) = {} => Standing(p) = Told(p)
=============================================================================
