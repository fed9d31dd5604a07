----------------------------- MODULE MCComments -----------------------------
(***************************************************************************)
(* Small instances of CommentsService: two commands race for the comment   *)
(* of u1 on v1, a third is u2's comment on the same video.                 *)
(***************************************************************************)
EXTENDS CommentsService

CONSTANTS u1, u2, v1, r1, r2, r3

MCUserOf == [r \in Requests |-> IF r = r3 THEN u2 ELSE u1]
MCVideoOf == [r \in Requests |-> v1]

(* Two users' comments on one video may share a counter shard or not.      *)
MCShardOf == [p \in Ids \X Ids |-> IF u1 \in {p[1], p[2]} THEN 0 ELSE 1]
=============================================================================
