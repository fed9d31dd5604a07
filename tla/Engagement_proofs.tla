------------------------- MODULE Engagement_proofs -------------------------
(***************************************************************************)
(* Proofs about reactions and views, for any number of commands, users,    *)
(* videos, shards and faults.                                              *)
(***************************************************************************)
EXTENDS Engagement, FiniteSetTheorems, TLAPS

(* What the table of scripts says: nobody is put on the list they are      *)
(* taken off, a reaction that joins a list leaves the other one, and the   *)
(* lists are those of the service.                                         *)
LEMMA ScriptTable ==
  ASSUME NEW o \in Scripts
  PROVE  /\ Leaves[o] \in Lists \cup {"nothing"} /\ Joins[o] \in Lists \cup {"nothing"}
         /\ Joins[o] # Leaves[o]
         /\ Joins[o] = "likes" => Leaves[o] = "dislikes"
         /\ Joins[o] = "dislikes" => Leaves[o] = "likes"
         /\ o = "watch" => Leaves[o] = "nothing" /\ Joins[o] = "views"
         /\ o # "watch" => Leaves[o] \in {"likes", "dislikes"}
         /\ o # "watch" => Joins[o] \in {"likes", "dislikes", "nothing"}
BY DEF Scripts, Lists, Leaves, Joins

LEMMA CommandTypes ==
  ASSUME NEW c \in Commands
  PROVE  /\ OpOf[c] \in Ops /\ UserOf[c] \in Users /\ VideoOf[c] \in Videos
         /\ ShardOf[<<VideoOf[c], UserOf[c]>>] \in Shards
         /\ PairOf(c) \in Pairs
BY EngagementAssumption DEF PairOf, Pairs, ServiceOf, Services

LEMMA RunnableIsScript ==
  ASSUME TypeOK, NEW c \in Commands, Runnable(c)
  PROVE  OpOf[c] \in Scripts
BY EngagementAssumption DEF TypeOK, Runnable, Build

(* Only a command whose script was found has run it.                       *)
TypeInv ==
  /\ TypeOK
  /\ \A c \in Commands : phase[c] \in {"unheard", "counted"} => OpOf[c] \in build.scripts

(* A command between its script and its XADD has a script.                 *)
LEMMA CountedIsScript ==
  ASSUME TypeInv, NEW c \in Commands, phase[c] = "counted"
  PROVE  OpOf[c] \in Scripts
<1>1. OpOf[c] \in build.scripts /\ build \in Builds
  BY DEF TypeInv, TypeOK
<1>2. QED
  BY <1>1, EngagementAssumption DEF Build

(* An append leaves the stream well typed, read or not.                    *)
LEMMA AppendType ==
  ASSUME TypeOK, NEW c \in Commands, OpOf[c] \in Scripts, Append(c) \/ UNCHANGED latest
  PROVE  latest' \in [Pairs -> Scripts \cup {"none"}]
BY CommandTypes DEF TypeOK, Append

LEMMA InitType == Init => TypeInv
BY EngagementAssumption DEF Init, TypeInv, TypeOK, Phases

LEMMA ScriptType ==
  ASSUME TypeOK, NEW c \in Commands, RunScript(c)
  PROVE  /\ members' \in [Lists \X Videos -> SUBSET Users]
         /\ counter' \in [Lists \X Videos \X Shards -> Int]
<1>1. members' \in [Lists \X Videos -> SUBSET Users]
  <2>1. \A k \in Lists \X Videos : members[k] \in SUBSET Users
    BY DEF TypeOK
  <2>2. QED
    BY <2>1, CommandTypes DEF RunScript
<1>2. counter' \in [Lists \X Videos \X Shards -> Int]
  <2>1. \A k \in Lists \X Videos \X Shards :
          counter[k] \in Int /\ counter[k] - 1 \in Int /\ counter[k] + 1 \in Int
    BY DEF TypeOK
  <2>2. QED
    BY <2>1, Zenon DEF RunScript
<1>3. QED
  BY <1>1, <1>2

LEMMA FaultType ==
  ASSUME TypeOK, Fault
  PROVE  faults' \in 0..MaxFaults
BY EngagementAssumption DEF TypeOK, Fault

LEMMA NextType == TypeInv /\ [Next]_vars => TypeInv'
<1> SUFFICES ASSUME TypeInv, [Next]_vars
             PROVE  TypeInv'
  OBVIOUS
<1> USE EngagementAssumption DEF Phases, TypeInv
<1>1. ASSUME NEW c \in Commands, Execute(c)
      PROVE  TypeInv'
  <2>1. CASE Record(c)
    BY <2>1, ScriptType, CommandTypes DEF TypeOK, Record, Move, Runnable
  <2>2. CASE NotAFunction(c) \/ InvalidStatus(c)
    BY <2>2 DEF TypeOK, NotAFunction, InvalidStatus, Move, redis
  <2>3. CASE Buffer(c)
    <3>1. latest' \in [Pairs -> Scripts \cup {"none"}]
      BY <2>3, AppendType, CountedIsScript DEF Buffer
    <3>2. QED
      BY <2>3, <3>1 DEF TypeOK, Buffer, Move, redis
  <2>4. CASE NoClient(c)
    BY <2>4 DEF TypeOK, NoClient, Move, redis
  <2>5. QED
    BY <1>1, <2>1, <2>2, <2>3, <2>4 DEF Execute
<1>2. ASSUME NEW c \in Commands, Disturb(c)
      PROVE  TypeInv'
  <2>1. CASE ReplyLost(c)
    BY <2>1, ScriptType, CommandTypes, FaultType DEF TypeOK, ReplyLost, Move, Runnable
  <2>2. CASE RecordFailed(c)
    <3>1. /\ members' \in [Lists \X Videos -> SUBSET Users]
          /\ counter' \in [Lists \X Videos \X Shards -> Int]
      BY <2>2, ScriptType DEF TypeOK, RecordFailed, redis
    <3>2. QED
      BY <2>2, <3>1, CommandTypes, FaultType DEF TypeOK, RecordFailed, Move
  <2>3. CASE BufferFailed(c)
    <3>1. latest' \in [Pairs -> Scripts \cup {"none"}]
      BY <2>3, AppendType, CountedIsScript DEF BufferFailed
    <3>2. QED
      BY <2>3, <3>1, CommandTypes, FaultType DEF TypeOK, BufferFailed, Move, redis
  <2>4. QED
    BY <1>2, <2>1, <2>2, <2>3 DEF Disturb
<1>3. ASSUME NEW s \in Services, Crash(s)
      PROVE  TypeInv'
  <2> DEFINE dying == {c \in Commands : PairOf(c)[1] = s /\ phase[c] \in {"unheard", "counted"}}
  <2>1. {PairOf(c) : c \in dying} \subseteq Pairs
    BY CommandTypes
  <2>2. QED
    BY <1>3, <2>1 DEF TypeOK, Crash, redis, Fault
<1>4. CASE UNCHANGED vars
  BY <1>4 DEF TypeOK, vars, redis
<1>5. QED
  BY <1>1, <1>2, <1>3, <1>4 DEF Next

(* Every variable keeps its type; in particular only commands whose script *)
(* the adapter found reach the stream.                                     *)
THEOREM TypeCorrect == Spec => []TypeOK
<1>1. TypeInv => TypeOK
  BY DEF TypeInv
<1>2. QED
  BY <1>1, InitType, NextType, PTL DEF Spec

-----------------------------------------------------------------------------
(* What a script does to each list: it removes its user, adds them, or     *)
(* leaves the list alone.                                                  *)
LEMMA ScriptOnList ==
  ASSUME TypeOK, NEW c \in Commands, OpOf[c] \in Scripts, RunScript(c),
         NEW a \in Lists, NEW v \in Videos
  PROVE  /\ a = Leaves[OpOf[c]] /\ v = VideoOf[c] => members'[<<a, v>>] = members[<<a, v>>] \ {UserOf[c]}
         /\ a = Joins[OpOf[c]] /\ v = VideoOf[c] => members'[<<a, v>>] = members[<<a, v>>] \cup {UserOf[c]}
         /\ \/ a = Leaves[OpOf[c]] /\ v = VideoOf[c]
            \/ a = Joins[OpOf[c]] /\ v = VideoOf[c]
            \/ members'[<<a, v>>] = members[<<a, v>>]
<1>1. <<a, v>> \in Lists \X Videos
  OBVIOUS
<1>2. members'[<<a, v>>] =
        IF <<a, v>> = <<Leaves[OpOf[c]], VideoOf[c]>> THEN members[<<a, v>>] \ {UserOf[c]}
        ELSE IF <<a, v>> = <<Joins[OpOf[c]], VideoOf[c]>> THEN members[<<a, v>>] \cup {UserOf[c]}
        ELSE members[<<a, v>>]
  BY <1>1 DEF RunScript
<1>3. Joins[OpOf[c]] # Leaves[OpOf[c]]
  BY ScriptTable
<1>4. QED
  BY <1>2, <1>3

LEMMA ScriptOnCounter ==
  ASSUME TypeOK, NEW c \in Commands, OpOf[c] \in Scripts, RunScript(c),
         NEW a \in Lists, NEW v \in Videos, NEW s \in Shards
  PROVE  counter'[<<a, v, s>>] =
           IF /\ a = Leaves[OpOf[c]] /\ v = VideoOf[c] /\ s = ShardOf[<<v, UserOf[c]>>]
              /\ UserOf[c] \in members[<<a, v>>]
           THEN counter[<<a, v, s>>] - 1
           ELSE IF /\ a = Joins[OpOf[c]] /\ v = VideoOf[c] /\ s = ShardOf[<<v, UserOf[c]>>]
                   /\ UserOf[c] \notin members[<<a, v>>]
           THEN counter[<<a, v, s>>] + 1
           ELSE counter[<<a, v, s>>]
<1>1. <<a, v, s>> \in Lists \X Videos \X Shards
  OBVIOUS
<1>2. "nothing" \notin Lists
  BY DEF Lists
<1>3. QED
  BY <1>1, <1>2 DEF RunScript, Decrements, Removes, Adds, On

CountInv == TypeInv /\ CountersExact

LEMMA InitCount == Init => CountInv
<1> SUFFICES ASSUME Init
             PROVE  CountersExact
  BY InitType DEF CountInv
<1>1. \A v \in Videos, l \in Lists : members[<<l, v>>] = {}
  BY DEF Init
<1>2. ASSUME NEW l \in Lists, NEW v \in Videos, NEW s \in Shards
      PROVE  counter[<<l, v, s>>] = Cardinality(InShard(l, v, s))
  <2>1. InShard(l, v, s) = {}
    BY <1>1 DEF InShard
  <2>2. counter[<<l, v, s>>] = 0
    BY DEF Init
  <2>3. QED
    BY <2>1, <2>2, FS_EmptySet
<1>3. \A v \in Videos : members[<<"likes", v>>] \cap members[<<"dislikes", v>>] = {}
  BY <1>1 DEF Lists
<1>4. QED
  BY <1>2, <1>3 DEF CountersExact

LEMMA ScriptKeepsCount ==
  ASSUME CountInv, NEW c \in Commands, OpOf[c] \in Scripts, RunScript(c)
  PROVE  CountersExact'
<1> DEFINE u == UserOf[c]
<1>t. TypeOK /\ u \in Users
  BY CommandTypes DEF CountInv, TypeInv
<1>1. ASSUME NEW v \in Videos
      PROVE  members'[<<"likes", v>>] \cap members'[<<"dislikes", v>>] = {}
  <2>1. members[<<"likes", v>>] \cap members[<<"dislikes", v>>] = {}
    BY DEF CountInv, CountersExact
  <2>2. "likes" \in Lists /\ "dislikes" \in Lists
    BY DEF Lists
  <2>3. /\ Joins[OpOf[c]] = "likes" => Leaves[OpOf[c]] = "dislikes"
        /\ Joins[OpOf[c]] = "dislikes" => Leaves[OpOf[c]] = "likes"
    BY ScriptTable
  <2>4. CASE v = VideoOf[c] /\ Joins[OpOf[c]] = "likes"
    <3>1. /\ members'[<<"likes", v>>] = members[<<"likes", v>>] \cup {u}
          /\ members'[<<"dislikes", v>>] = members[<<"dislikes", v>>] \ {u}
      BY <1>t, <2>2, <2>3, <2>4, ScriptOnList
    <3>2. QED
      BY <2>1, <3>1
  <2>5. CASE v = VideoOf[c] /\ Joins[OpOf[c]] = "dislikes"
    <3>1. /\ members'[<<"dislikes", v>>] = members[<<"dislikes", v>>] \cup {u}
          /\ members'[<<"likes", v>>] = members[<<"likes", v>>] \ {u}
      BY <1>t, <2>2, <2>3, <2>5, ScriptOnList
    <3>2. QED
      BY <2>1, <3>1
  <2>6. CASE v # VideoOf[c] \/ Joins[OpOf[c]] \notin {"likes", "dislikes"}
    <3>1. ASSUME NEW a \in {"likes", "dislikes"}
          PROVE  \/ members'[<<a, v>>] = members[<<a, v>>]
                 \/ members'[<<a, v>>] = members[<<a, v>>] \ {u}
      <4>1. a \in Lists
        BY <2>2
      <4>2. ~(a = Joins[OpOf[c]] /\ v = VideoOf[c])
        BY <2>6
      <4>3. CASE a = Leaves[OpOf[c]] /\ v = VideoOf[c]
        BY <1>t, <4>1, <4>3, ScriptOnList
      <4>4. CASE ~(a = Leaves[OpOf[c]] /\ v = VideoOf[c])
        BY <1>t, <4>1, <4>2, <4>4, ScriptOnList
      <4>5. QED
        BY <4>3, <4>4
    <3>2. QED
      BY <2>1, <3>1
  <2>7. QED
    BY <2>4, <2>5, <2>6
<1>2. ASSUME NEW a \in Lists, NEW v \in Videos, NEW s \in Shards
      PROVE  counter'[<<a, v, s>>] = Cardinality(InShard(a, v, s)')
  <2>1. /\ counter[<<a, v, s>>] = Cardinality(InShard(a, v, s))
        /\ IsFiniteSet(InShard(a, v, s))
    <3>1. InShard(a, v, s) \subseteq Users
      BY <1>t DEF InShard, TypeOK
    <3>2. QED
      BY <3>1, FS_Subset, EngagementAssumption DEF CountInv, CountersExact
  <2>2. CASE /\ a = Leaves[OpOf[c]] /\ v = VideoOf[c] /\ s = ShardOf[<<v, u>>]
             /\ u \in members[<<a, v>>]
    <3>1. InShard(a, v, s)' = InShard(a, v, s) \ {u} /\ u \in InShard(a, v, s)
      BY <1>t, <2>2, ScriptOnList DEF InShard
    <3>2. counter'[<<a, v, s>>] = counter[<<a, v, s>>] - 1
      BY <1>t, <2>2, ScriptOnCounter
    <3>3. QED
      BY <2>1, <3>1, <3>2, FS_RemoveElement
  <2>3. CASE /\ a = Joins[OpOf[c]] /\ v = VideoOf[c] /\ s = ShardOf[<<v, u>>]
             /\ u \notin members[<<a, v>>]
    <3>1. InShard(a, v, s)' = InShard(a, v, s) \cup {u} /\ u \notin InShard(a, v, s)
      BY <1>t, <2>3, ScriptOnList, ScriptTable DEF InShard
    <3>2. counter'[<<a, v, s>>] = counter[<<a, v, s>>] + 1
      BY <1>t, <2>3, ScriptOnCounter
    <3>3. QED
      BY <2>1, <3>1, <3>2, FS_AddElement
  <2>4. CASE /\ ~(/\ a = Leaves[OpOf[c]] /\ v = VideoOf[c] /\ s = ShardOf[<<v, u>>]
                  /\ u \in members[<<a, v>>])
             /\ ~(/\ a = Joins[OpOf[c]] /\ v = VideoOf[c] /\ s = ShardOf[<<v, u>>]
                  /\ u \notin members[<<a, v>>])
    <3>1. \A w : ShardOf[<<v, w>>] = s => (w \in members'[<<a, v>>] <=> w \in members[<<a, v>>])
      <4>1. CASE a = Leaves[OpOf[c]] /\ v = VideoOf[c]
        <5>1. members'[<<a, v>>] = members[<<a, v>>] \ {u}
          BY <1>t, <4>1, ScriptOnList
        <5>2. QED
          BY <2>4, <4>1, <5>1
      <4>2. CASE a = Joins[OpOf[c]] /\ v = VideoOf[c]
        <5>1. members'[<<a, v>>] = members[<<a, v>>] \cup {u}
          BY <1>t, <4>2, ScriptOnList, ScriptTable
        <5>2. QED
          BY <2>4, <4>2, <5>1
      <4>3. CASE ~(a = Leaves[OpOf[c]] /\ v = VideoOf[c]) /\ ~(a = Joins[OpOf[c]] /\ v = VideoOf[c])
        BY <1>t, <4>3, ScriptOnList
      <4>4. QED
        BY <4>1, <4>2, <4>3
    <3>4. InShard(a, v, s)' = InShard(a, v, s)
      BY <3>1 DEF InShard
    <3>2. counter'[<<a, v, s>>] = counter[<<a, v, s>>]
      BY <1>t, <2>4, ScriptOnCounter
    <3>3. QED
      BY <2>1, <3>2, <3>4
  <2>5. QED
    BY <2>2, <2>3, <2>4
<1>3. QED
  BY <1>1, <1>2 DEF CountersExact

LEMMA NextCount == CountInv /\ [Next]_vars => CountInv'
<1> SUFFICES ASSUME CountInv, [Next]_vars
             PROVE  CountersExact'
  BY NextType DEF CountInv
<1>1. CASE UNCHANGED redis
  BY <1>1 DEF CountInv, CountersExact, InShard, redis
<1>2. ASSUME NEW c \in Commands, Runnable(c), RunScript(c)
      PROVE  CountersExact'
  BY <1>2, ScriptKeepsCount, RunnableIsScript DEF CountInv, TypeInv
<1>3. ASSUME NEW c \in Commands, Execute(c) \/ Disturb(c)
      PROVE  UNCHANGED redis \/ (Runnable(c) /\ RunScript(c))
  BY <1>3 DEF Execute, Disturb, Record, NotAFunction, InvalidStatus, Buffer, NoClient,
              ReplyLost, RecordFailed, BufferFailed, redis
<1>4. ASSUME (\E s \in Services : Crash(s)) \/ UNCHANGED vars
      PROVE  UNCHANGED redis
  BY <1>4 DEF Crash, vars, redis
<1>5. QED
  BY <1>1, <1>2, <1>3, <1>4 DEF Next

(* Nobody likes and dislikes a video, and every shard of every counter is  *)
(* the number of users in its share of the set, whatever order the scripts *)
(* of like.lua, unlike.lua, dislike.lua, undislike.lua and watch.lua run   *)
(* in and however often they are sent again.                               *)
THEOREM CountersAreExact == Spec => []CountersExact
<1>1. CountInv => CountersExact
  BY DEF CountInv
<1>2. QED
  BY <1>1, InitCount, NextCount, PTL DEF Spec

-----------------------------------------------------------------------------
(* The command that put a user on a list.                                  *)
Put(d, l, v, u) ==
  /\ phase[d] \in {"counted", "answered", "unbuffered"}
  /\ OpOf[d] \in Scripts /\ Joins[OpOf[d]] = l /\ VideoOf[d] = v /\ UserOf[d] = u

(* Why a repetition has a reason: without a fault everybody on a list was  *)
(* put there by a command whose script answered 1.                         *)
ReasonInv ==
  /\ faults = 0 => \A l \in Lists, v \in Videos : \A u \in members[<<l, v>>] :
                     \E d \in Commands : Put(d, l, v, u)
  /\ AlreadyHasReason

LEMMA InitReason == Init => ReasonInv
<1> SUFFICES ASSUME Init PROVE ReasonInv
  OBVIOUS
<1>1. \A l \in Lists, v \in Videos : members[<<l, v>>] = {}
  BY DEF Init
<1>2. QED
  BY <1>1 DEF Init, ReasonInv, AlreadyHasReason

(* A reason stays one: a counted command is answered or ends unbuffered.   *)
LEMMA ReasonStays ==
  ASSUME TypeOK, ReasonInv, faults = 0, UNCHANGED members,
         \A d \in Commands : phase[d] \in {"counted", "answered", "unbuffered"} => phase'[d] \in {"counted", "answered", "unbuffered"},
         \A d \in Commands : phase'[d] = "already" => phase[d] = "already"
  PROVE  ReasonInv'
<1>1. \A l, v, u : \A d \in Commands : Put(d, l, v, u) => Put(d, l, v, u)'
  BY DEF Put
<1>2. AlreadyHasReason'
  BY DEF ReasonInv, AlreadyHasReason, PairOf
<1>3. QED
  BY <1>1, <1>2 DEF ReasonInv

LEMMA RecordReason ==
  ASSUME TypeOK, ReasonInv, faults = 0, NEW c \in Commands, Record(c)
  PROVE  ReasonInv'
<1>1. /\ OpOf[c] \in Scripts /\ RunScript(c) /\ phase[c] \in {"new", "unheard"}
      /\ phase' = [phase EXCEPT ![c] = IF AnswersOne(c) THEN "counted" ELSE "already"]
  BY RunnableIsScript DEF Record, Runnable, Move
<1>2. \A d \in Commands \ {c} : phase'[d] = phase[d]
  BY <1>1 DEF TypeOK
<1>3. ASSUME NEW l \in Lists, NEW v \in Videos, NEW u \in members[<<l, v>>]
      PROVE  \E d \in Commands : Put(d, l, v, u) /\ Put(d, l, v, u)'
  <2>1. PICK d \in Commands : Put(d, l, v, u)
    BY DEF ReasonInv
  <2>2. d # c
    BY <1>1, <2>1 DEF Put
  <2>3. QED
    BY <1>2, <2>1, <2>2 DEF Put
<1>4. ASSUME NEW l \in Lists, NEW v \in Videos, NEW u \in members'[<<l, v>>]
      PROVE  \E d \in Commands : Put(d, l, v, u)'
  <2>1. CASE u \in members[<<l, v>>]
    BY <1>3, <2>1
  <2>2. CASE u \notin members[<<l, v>>]
    <3>1. l = Joins[OpOf[c]] /\ v = VideoOf[c] /\ u = UserOf[c]
      BY <1>1, <2>2, ScriptOnList
    <3>2. l # "nothing" /\ AnswersOne(c)
      BY <2>2, <3>1 DEF AnswersOne, Adds, On, Lists
    <3>3. phase'[c] = "counted"
      BY <1>1, <3>2 DEF TypeOK
    <3>4. QED
      BY <1>1, <3>1, <3>3 DEF Put
  <2>3. QED
    BY <2>1, <2>2
<1>5. ASSUME NEW b \in Commands, phase'[b] = "already", Joins[OpOf[b]] # "nothing"
      PROVE  \E d \in Commands : /\ phase'[d] \in {"counted", "answered", "unbuffered"}
                                /\ PairOf(d) = PairOf(b) /\ Joins[OpOf[d]] = Joins[OpOf[b]]
  <2>1. CASE b = c
    <3>0. ~AnswersOne(c)
      BY <1>1, <1>5, <2>1 DEF TypeOK
    <3>1. /\ Joins[OpOf[c]] \in Lists /\ VideoOf[c] \in Videos
          /\ UserOf[c] \in members[<<Joins[OpOf[c]], VideoOf[c]>>]
      <4>1. Joins[OpOf[c]] \in Lists
        BY <1>1, <1>5, <2>1, ScriptTable
      <4>2. QED
        BY <1>5, <2>1, <3>0, <4>1, CommandTypes DEF AnswersOne, Adds, On
    <3>2. PICK d \in Commands : /\ Put(d, Joins[OpOf[c]], VideoOf[c], UserOf[c])
                                /\ Put(d, Joins[OpOf[c]], VideoOf[c], UserOf[c])'
      BY <1>3, <3>1
    <3>3. ServiceOf(OpOf[d]) = ServiceOf(OpOf[c])
      BY <1>1, <3>1, <3>2, ScriptTable DEF Put, ServiceOf
    <3>4. QED
      BY <2>1, <3>2, <3>3 DEF Put, PairOf
  <2>2. CASE b # c
    <3>1. PICK d \in Commands : /\ phase[d] \in {"counted", "answered", "unbuffered"}
                                /\ PairOf(d) = PairOf(b) /\ Joins[OpOf[d]] = Joins[OpOf[b]]
      BY <1>2, <1>5, <2>2 DEF ReasonInv, AlreadyHasReason
    <3>2. d # c
      BY <1>1, <3>1
    <3>3. QED
      BY <1>2, <3>1, <3>2
  <2>3. QED
    BY <2>1, <2>2
<1>6. QED
  BY <1>4, <1>5 DEF ReasonInv, AlreadyHasReason, PairOf

LEMMA NextReason == TypeOK /\ ReasonInv /\ [Next]_vars => ReasonInv'
<1> SUFFICES ASSUME TypeOK, ReasonInv, [Next]_vars, faults' = 0
             PROVE  ReasonInv'
  BY DEF ReasonInv, AlreadyHasReason
<1>1. ~Fault
  BY DEF TypeOK, Fault
<1>2. /\ \/ \E c \in Commands : Execute(c)
         \/ UNCHANGED vars
      /\ faults = 0
  BY <1>1
  DEF Next, Execute, Disturb, Record, NotAFunction, InvalidStatus, Buffer, NoClient,
      ReplyLost, RecordFailed, BufferFailed, Crash, vars
<1>3. ASSUME NEW c \in Commands, NotAFunction(c) \/ InvalidStatus(c) \/ Buffer(c) \/ NoClient(c)
      PROVE  ReasonInv'
  <2>1. /\ UNCHANGED members
        /\ \/ phase[c] = "new" /\ phase'[c] # "already"
           \/ phase'[c] \in {"answered", "unbuffered"}
        /\ \A d \in Commands \ {c} : phase'[d] = phase[d]
    BY <1>3 DEF TypeOK, NotAFunction, InvalidStatus, Buffer, NoClient, Move, redis
  <2>2. QED
    BY <1>2, <2>1, ReasonStays
<1>4. CASE UNCHANGED vars
  BY <1>2, <1>4, ReasonStays DEF vars, redis
<1>5. QED
  BY <1>2, <1>3, <1>4, RecordReason DEF Execute

(* Nobody is told they had liked, disliked or watched a video already when *)
(* no command of theirs did: like.lua and watch.lua answer 0 only to who   *)
(* is on the list, and without a fault only a counted command puts them    *)
(* there.                                                                  *)
THEOREM RepetitionHasReason == Spec => []AlreadyHasReason
<1>1. ReasonInv => AlreadyHasReason
  BY DEF ReasonInv
<1>2. QED
  BY <1>1, InitReason, NextReason, TypeCorrect, PTL DEF Spec

-----------------------------------------------------------------------------
(* Where a command puts the user of its pair.                              *)
Goal(c) == {Joins[OpOf[c]]} \ {"nothing"}

(* An undisturbed pair has at most one command between script and XADD,    *)
(* and the sets are as that command left them; a script whose reply was    *)
(* lost disturbs its pair.                                                 *)
Undisturbed(p) ==
  /\ \A c \in InFlight(p) :
       /\ phase[c] = "counted"
       /\ InFlight(p) = {c}
       /\ Standing(p) = Goal(c)
  /\ InFlight(p) = {} => Standing(p) = Told(p)

StreamInv == CountInv /\ \A p \in Pairs \ muddled : Carried(p[1]) => Undisturbed(p)

LEMMA InitStream == Init => StreamInv
<1> SUFFICES ASSUME Init, NEW p \in Pairs
             PROVE  Undisturbed(p)
  BY InitCount DEF StreamInv
<1>1. InFlight(p) = {}
  BY DEF Init, InFlight
<1>2. Told(p) = {}
  BY DEF Init, Told
<1>3. Standing(p) = {}
  BY DEF Init, Standing, Pairs
<1>4. QED
  BY <1>1, <1>2, <1>3 DEF Undisturbed

(* A script leaves what it says of other pairs as it was.                  *)
LEMMA OthersStand ==
  ASSUME TypeOK, NEW c \in Commands, OpOf[c] \in Scripts, RunScript(c),
         NEW p \in Pairs, p # PairOf(c)
  PROVE  Standing(p)' = Standing(p)
<1>1. p = <<p[1], p[2], p[3]>> /\ p[1] \in Services /\ p[2] \in Users /\ p[3] \in Videos
  BY DEF Pairs
<1>2. ASSUME NEW l \in Lists, l = "views" <=> p[1] = "views"
      PROVE  p[2] \in members'[<<l, p[3]>>] <=> p[2] \in members[<<l, p[3]>>]
  <2>1. CASE p[2] # UserOf[c]
    BY <1>1, <2>1, ScriptOnList
  <2>2. CASE p[3] # VideoOf[c]
    BY <1>1, <2>2, ScriptOnList
  <2>3. CASE p[1] # ServiceOf(OpOf[c])
    <3>1. l # Leaves[OpOf[c]] /\ l # Joins[OpOf[c]]
      BY <1>1, <1>2, <2>3, ScriptTable DEF Services, ServiceOf, Lists
    <3>2. QED
      BY <1>1, <3>1, ScriptOnList
  <2>4. QED
    BY <1>1, <2>1, <2>2, <2>3 DEF PairOf
<1>3. QED
  BY <1>2 DEF Standing

(* A script that answers 1 leaves its own pair where it was to go; one     *)
(* that answers 0 has changed nothing.                                     *)
LEMMA OwnStands ==
  ASSUME TypeOK, CountersExact, NEW c \in Commands, OpOf[c] \in Scripts, RunScript(c)
  PROVE  /\ AnswersOne(c) => Standing(PairOf(c))' = Goal(c)
         /\ ~AnswersOne(c) => Standing(PairOf(c))' = Standing(PairOf(c))
<1> DEFINE o == OpOf[c]
           u == UserOf[c]
           v == VideoOf[c]
           M(l) == members[<<l, v>>]
<1>1. u \in Users /\ v \in Videos /\ o \in Scripts
  BY CommandTypes
<1>2. "likes" \in Lists /\ "dislikes" \in Lists /\ "views" \in Lists /\ "nothing" \notin Lists
  BY DEF Lists
<1>3. ~(u \in M("likes") /\ u \in M("dislikes"))
  BY <1>1 DEF CountersExact
<1>4. /\ PairOf(c)[1] = ServiceOf(o) /\ PairOf(c)[2] = u /\ PairOf(c)[3] = v
  BY DEF PairOf
<1>5. CASE o = "watch"
  <2>1. Leaves[o] = "nothing" /\ Joins[o] = "views" /\ ServiceOf(o) = "views"
    BY <1>1, <1>5, ScriptTable DEF ServiceOf
  <2>2. members'[<<"views", v>>] = M("views") \cup {u}
    BY <1>1, <1>2, <2>1, ScriptOnList
  <2>3. Standing(PairOf(c)) = (IF u \in M("views") THEN {"views"} ELSE {})
    BY <1>2, <1>4, <2>1 DEF Standing
  <2>4. Standing(PairOf(c))' = {"views"}
    BY <1>2, <1>4, <2>1, <2>2 DEF Standing
  <2>5. AnswersOne(c) <=> u \notin M("views")
    BY <1>2, <2>1 DEF AnswersOne, Adds, On
  <2>6. QED
    BY <2>1, <2>3, <2>4, <2>5 DEF Goal
<1>6. CASE o # "watch"
  <2>1. /\ Leaves[o] \in {"likes", "dislikes"} /\ Joins[o] \in {"likes", "dislikes", "nothing"}
        /\ Joins[o] # Leaves[o] /\ ServiceOf(o) = "reaction"
    BY <1>1, <1>6, ScriptTable DEF ServiceOf
  <2>2. /\ members'[<<Leaves[o], v>>] = M(Leaves[o]) \ {u}
        /\ Joins[o] # "nothing" => members'[<<Joins[o], v>>] = M(Joins[o]) \cup {u}
    BY <1>1, <1>2, <2>1, ScriptOnList
  <2>3. /\ Standing(PairOf(c)) = {l \in {"likes", "dislikes"} : u \in M(l)}
        /\ Standing(PairOf(c))' = {l \in {"likes", "dislikes"} : u \in members'[<<l, v>>]}
    BY <1>4, <2>1 DEF Standing, Lists
  <2>4. CASE Joins[o] = "nothing"
    <3>1. AnswersOne(c) <=> u \in M(Leaves[o])
      BY <1>2, <2>1, <2>4 DEF AnswersOne, Removes, On
    <3>2. \A l \in {"likes", "dislikes"} :
            u \in members'[<<l, v>>] <=> u \in M(l) /\ l # Leaves[o]
      BY <1>1, <1>2, <2>1, <2>2, <2>4, ScriptOnList
    <3>3. CASE u \in M(Leaves[o])
      <4>1. \A l \in {"likes", "dislikes"} : u \notin members'[<<l, v>>]
        BY <1>3, <2>1, <3>2, <3>3
      <4>2. Standing(PairOf(c))' = {}
        BY <2>3, <4>1
      <4>3. QED
        BY <2>4, <3>1, <3>3, <4>2 DEF Goal
    <3>4. CASE u \notin M(Leaves[o])
      BY <2>3, <3>1, <3>2, <3>4
    <3>5. QED
      BY <3>3, <3>4
  <2>5. CASE Joins[o] # "nothing"
    <3>1. AnswersOne(c) <=> u \notin M(Joins[o])
      BY <1>2, <2>1, <2>5 DEF AnswersOne, Adds, On
    <3>2. \A l \in {"likes", "dislikes"} : u \in members'[<<l, v>>] <=> l = Joins[o]
      BY <2>1, <2>2, <2>5
    <3>3. Standing(PairOf(c))' = {Joins[o]}
      BY <2>1, <2>3, <2>5, <3>2
    <3>4. ASSUME u \in M(Joins[o])
          PROVE  Standing(PairOf(c)) = {Joins[o]}
      BY <1>3, <2>1, <2>3, <2>5, <3>4
    <3>5. QED
      BY <2>5, <3>1, <3>3, <3>4 DEF Goal
  <2>6. QED
    BY <2>4, <2>5
<1>7. QED
  BY <1>5, <1>6

(* A pair that a step does not touch.                                      *)
LEMMA Untouched ==
  ASSUME NEW p \in Pairs, Undisturbed(p),
         \A d \in Commands : PairOf(d) = p =>
            \/ phase'[d] = phase[d]
            \/ phase[d] \notin {"unheard", "counted"} /\ phase'[d] \notin {"unheard", "counted"},
         Standing(p)' = Standing(p), latest'[p] = latest[p]
  PROVE  Undisturbed(p)'
<1>1. InFlight(p)' = InFlight(p)
  BY DEF InFlight
<1>2. \A d \in InFlight(p) : phase'[d] = phase[d]
  BY DEF InFlight
<1>3. Told(p)' = Told(p)
  BY DEF Told
<1>4. \A d : Goal(d)' = Goal(d)
  BY DEF Goal
<1>5. QED
  BY <1>1, <1>2, <1>3, <1>4 DEF Undisturbed

LEMMA RecordKeeps ==
  ASSUME StreamInv, NEW c \in Commands, Record(c),
         NEW p \in Pairs, p \notin muddled', Carried(p[1])
  PROVE  Undisturbed(p)'
<1>1. /\ TypeOK /\ CountersExact /\ OpOf[c] \in Scripts /\ RunScript(c)
      /\ phase[c] \in {"new", "unheard"} /\ latest' = latest
      /\ phase' = [phase EXCEPT ![c] = IF AnswersOne(c) THEN "counted" ELSE "already"]
  BY RunnableIsScript DEF StreamInv, CountInv, TypeInv, Record, Runnable, Move
<1>2. CASE p # PairOf(c)
  <2>1. p \notin muddled
    BY <1>2 DEF Record
  <2>2. \A d \in Commands : PairOf(d) = p => phase'[d] = phase[d]
    BY <1>1, <1>2 DEF TypeOK
  <2>3. Standing(p)' = Standing(p)
    BY <1>1, <1>2, OthersStand
  <2>4. QED
    BY <1>1, <2>1, <2>2, <2>3, Untouched DEF StreamInv
<1>3. CASE p = PairOf(c) /\ ~AnswersOne(c)
  <2>1. p \notin muddled
    BY <1>3 DEF Record
  <2>2. phase[c] = "new"
    BY <1>1, <1>3, <2>1 DEF StreamInv, Undisturbed, InFlight
  <2>3. \A d \in Commands :
          \/ phase'[d] = phase[d]
          \/ phase[d] \notin {"unheard", "counted"} /\ phase'[d] \notin {"unheard", "counted"}
    BY <1>1, <1>3, <2>2 DEF TypeOK
  <2>4. Standing(p)' = Standing(p)
    BY <1>1, <1>3, OwnStands
  <2>5. QED
    BY <1>1, <2>1, <2>3, <2>4, Untouched DEF StreamInv
<1>4. CASE p = PairOf(c) /\ AnswersOne(c)
  <2>1. Alone(c)
    BY <1>4 DEF Record
  <2>2. phase'[c] = "counted" /\ \A d \in Commands \ {c} : phase'[d] = phase[d]
    BY <1>1, <1>4 DEF TypeOK
  <2>3. InFlight(p)' = {c}
    BY <1>4, <2>1, <2>2 DEF InFlight, Alone, PairOf
  <2>4. Standing(p)' = Goal(c)
    BY <1>1, <1>4, OwnStands
  <2>5. Goal(c)' = Goal(c)
    BY DEF Goal
  <2>6. QED
    BY <2>2, <2>3, <2>4, <2>5 DEF Undisturbed
<1>5. QED
  BY <1>2, <1>3, <1>4

LEMMA BufferKeeps ==
  ASSUME StreamInv, NEW c \in Commands, Buffer(c),
         NEW p \in Pairs, p \notin muddled', Carried(p[1])
  PROVE  Undisturbed(p)'
<1>1. /\ TypeOK /\ UNCHANGED <<members, muddled>> /\ phase[c] = "counted"
      /\ phase' = [phase EXCEPT ![c] = "answered"]
      /\ Append(c)
  BY DEF StreamInv, CountInv, TypeInv, Buffer, Move, redis
<1>2. Standing(p)' = Standing(p)
  BY <1>1 DEF Standing
<1>3. Undisturbed(p)
  BY <1>1 DEF StreamInv
<1>4. CASE p # PairOf(c)
  <2>1. \A d \in Commands : PairOf(d) = p => phase'[d] = phase[d]
    BY <1>1, <1>4 DEF TypeOK
  <2>2. latest'[p] = latest[p]
    BY <1>1, <1>4 DEF TypeOK, Append
  <2>3. QED
    BY <1>2, <1>3, <2>1, <2>2, Untouched
<1>5. CASE p = PairOf(c)
  <2>1. InFlight(p) = {c} /\ Standing(p) = Goal(c)
    BY <1>1, <1>3, <1>5 DEF Undisturbed, InFlight
  <2>2. InFlight(p)' = {}
    BY <1>1, <2>1 DEF TypeOK, InFlight
  <2>3. OpOf[c] \in Scripts /\ OpOf[c] # "none"
    <3>1. OpOf[c] \in Scripts
      BY <1>1, CountedIsScript DEF StreamInv, CountInv
    <3>2. QED
      BY <3>1 DEF Scripts
  <2>4. latest'[p] = OpOf[c]
    BY <1>1, <1>5 DEF TypeOK, Append, Carried
  <2>5. Told(p)' = Goal(c)
    BY <2>3, <2>4 DEF Told, Goal
  <2>6. QED
    BY <1>2, <2>1, <2>2, <2>5 DEF Undisturbed
<1>6. QED
  BY <1>4, <1>5

LEMMA DisturbKeeps ==
  ASSUME StreamInv, NEW c \in Commands, Disturb(c),
         NEW p \in Pairs, p \notin muddled', Carried(p[1])
  PROVE  Undisturbed(p)'
<1>1. muddled' = muddled \cup {PairOf(c)}
  BY DEF Disturb, ReplyLost, RecordFailed, BufferFailed
<1>2. p # PairOf(c) /\ Undisturbed(p) /\ TypeOK
  BY <1>1 DEF StreamInv, CountInv, TypeInv
<1>3. \A d \in Commands : PairOf(d) = p => phase'[d] = phase[d]
  BY <1>2 DEF TypeOK, Disturb, ReplyLost, RecordFailed, BufferFailed, Move
<1>4. latest'[p] = latest[p]
  BY <1>2 DEF TypeOK, Disturb, ReplyLost, RecordFailed, BufferFailed, Append
<1>5. UNCHANGED redis \/ (Runnable(c) /\ RunScript(c))
  BY DEF Disturb, ReplyLost, RecordFailed, BufferFailed
<1>6. Standing(p)' = Standing(p)
  <2>1. CASE UNCHANGED redis
    BY <2>1 DEF redis, Standing
  <2>2. CASE Runnable(c) /\ RunScript(c)
    BY <1>2, <2>2, OthersStand, RunnableIsScript
  <2>3. QED
    BY <1>5, <2>1, <2>2
<1>7. QED
  BY <1>2, <1>3, <1>4, <1>6, Untouched

LEMMA CrashKeeps ==
  ASSUME StreamInv, NEW s \in Services, Crash(s),
         NEW p \in Pairs, p \notin muddled', Carried(p[1])
  PROVE  Undisturbed(p)'
<1> DEFINE dying == {c \in Commands : PairOf(c)[1] = s /\ phase[c] \in {"unheard", "counted"}}
<1>1. /\ UNCHANGED <<members, latest>> /\ muddled' = muddled \cup {PairOf(c) : c \in dying}
      /\ phase' = [c \in Commands |-> IF c \in dying THEN "failed" ELSE phase[c]]
  BY DEF Crash, redis
<1>2. \A d \in Commands : PairOf(d) = p => phase'[d] = phase[d]
  BY <1>1
<1>3. Undisturbed(p)
  BY <1>1 DEF StreamInv
<1>4. Standing(p)' = Standing(p)
  BY <1>1 DEF Standing
<1>5. QED
  BY <1>1, <1>2, <1>3, <1>4, Untouched

(* The build never changes, nor does what it carries.                      *)
LEMMA SameBuild == [Next]_vars => build' = build
<1> SUFFICES ASSUME [Next]_vars PROVE build' = build
  OBVIOUS
<1>1. ASSUME NEW c \in Commands, Execute(c) PROVE build' = build
  BY <1>1 DEF Execute, Record, NotAFunction, InvalidStatus, Buffer, NoClient
<1>2. ASSUME NEW c \in Commands, Disturb(c) PROVE build' = build
  BY <1>2 DEF Disturb, ReplyLost, RecordFailed, BufferFailed
<1>3. ASSUME NEW s \in Services, Crash(s) PROVE build' = build
  BY <1>3 DEF Crash
<1>4. CASE UNCHANGED vars
  BY <1>4 DEF vars
<1>5. QED
  BY <1>1, <1>2, <1>3, <1>4 DEF Next

LEMMA NextStream == StreamInv /\ [Next]_vars => StreamInv'
<1> SUFFICES ASSUME StreamInv, [Next]_vars, NEW p \in Pairs, p \notin muddled', Carried(p[1])
             PROVE  Undisturbed(p)'
  BY NextCount, SameBuild DEF StreamInv, Carried, Legible
<1>1. ASSUME NEW c \in Commands, Execute(c)
      PROVE  Undisturbed(p)'
  <2>1. CASE NotAFunction(c) \/ InvalidStatus(c)
    <3>1. /\ UNCHANGED <<members, latest, muddled>>
          /\ phase[c] = "new" /\ phase'[c] \notin {"unheard", "counted"}
          /\ \A d \in Commands \ {c} : phase'[d] = phase[d]
      BY <2>1 DEF StreamInv, CountInv, TypeInv, TypeOK, NotAFunction, InvalidStatus, Move, redis
    <3>2. Standing(p)' = Standing(p)
      BY <3>1 DEF Standing
    <3>3. QED
      BY <3>1, <3>2, Untouched DEF StreamInv
  <2>2. CASE NoClient(c)
    <3>1. p # PairOf(c) /\ p \notin muddled
      BY <2>2 DEF NoClient, HasClient, Carried
    <3>2. \A d \in Commands : PairOf(d) = p => phase'[d] = phase[d]
      BY <2>2, <3>1 DEF StreamInv, CountInv, TypeInv, TypeOK, NoClient, Move
    <3>3. UNCHANGED <<members, latest>> /\ Standing(p)' = Standing(p)
      BY <2>2 DEF NoClient, redis, Standing
    <3>4. QED
      BY <3>1, <3>2, <3>3, Untouched DEF StreamInv
  <2>3. QED
    BY <1>1, <2>1, <2>2, RecordKeeps, BufferKeeps DEF Execute
<1>2. CASE UNCHANGED vars
  <2>1. UNCHANGED <<members, latest, muddled, phase>>
    BY <1>2 DEF vars, redis
  <2>2. Standing(p)' = Standing(p)
    BY <2>1 DEF Standing
  <2>3. QED
    BY <2>1, <2>2, Untouched DEF StreamInv
<1>3. QED
  BY <1>1, <1>2, DisturbKeeps, CrashKeeps DEF Next

(* If the service has its client and writes entries that their reader      *)
(* understands, the stream ends with what the sets say of a user and a     *)
(* video, unless the last change of the pair was disturbed: the handlers   *)
(* of like.handler.ts and its siblings call the cache and then the buffer, *)
(* and this is all that the order of the two calls guarantees.             *)
THEOREM StreamFollowsSets == Spec => []StreamTellsSets
<1>1. StreamInv => StreamTellsSets
  BY DEF StreamInv, StreamTellsSets, Undisturbed
<1>2. QED
  BY <1>1, InitStream, NextStream, PTL DEF Spec
=============================================================================
