---------------------------- MODULE MCEngagement ----------------------------
(***************************************************************************)
(* Small instances of Engagement: one video, a user who changes their mind *)
(* in every way and watches it twice, and another one, in the same shard,  *)
(* who likes it.                                                           *)
(***************************************************************************)
EXTENDS Engagement, TLC

CONSTANTS watch1, watch2

MCCommands == {"like", "dislike", "unlike", "undislike", watch1, watch2, "ana", "odd"}
MCOpOf == [c \in MCCommands |->
  CASE c \in {watch1, watch2} -> "watch"
    [] c = "ana" -> "like"
    [] c = "odd" -> "other"
    [] OTHER -> c]
MCUserOf == [c \in MCCommands |-> IF c = "ana" THEN "ana" ELSE "bob"]
MCVideoOf == [c \in MCCommands |-> "film"]
MCShardOf == [k \in {"film"} \X {"ana", "bob"} |-> 0]

(* The services as they are, and with the names of the scripts, the client *)
(* of the views and the entries of the reactions mended.                   *)
MCBuilds == {[scripts |-> {"watch"}, clients |-> {"reaction"}, entries |-> "nested"],
             [scripts |-> Scripts, clients |-> Services, entries |-> "flat"]}

(* The two commands that watch ask for the same.                           *)
WatchesAlike == Permutations({watch1, watch2})
=============================================================================
