---------------------------- MODULE MCOnboarding ----------------------------
(***************************************************************************)
(* Small instances of Onboarding: two signups of one person (the gateway   *)
(* sends somebody without a projection to the onboarding page again), with *)
(* different handles, and a third by somebody else.                        *)
(***************************************************************************)
EXTENDS Onboarding

CONSTANTS s1, s2, s3

MCAuthOf == [s \in Signups |-> IF s = s3 THEN "auth2" ELSE "auth1"]
MCEmailOf == [s \in Signups |-> IF s = s3 THEN "b@mail" ELSE "a@mail"]
MCHandleOf == [s \in Signups |-> IF s = s1 THEN "h1" ELSE IF s = s2 THEN "h2" ELSE "h3"]

(* The first person's events may share a partition with the other's.       *)
MCPartitionOf == [s \in Signups |-> IF s = s2 THEN 2 ELSE 1]
=============================================================================
