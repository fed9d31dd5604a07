--------------------------- MODULE MCVideoLifecycle ---------------------------
(***************************************************************************)
(* Small instances of VideoLifecycle: one video, two verifications, two    *)
(* updates and one that validation refuses.                                *)
(***************************************************************************)
EXTENDS VideoLifecycle

CONSTANTS verify1, verify2, update1, update2, bad, video

MCKindOf == [c \in Commands |-> IF c \in {verify1, verify2} THEN "verify" ELSE "update"]
MCVideoOf == [c \in Commands |-> video]
=============================================================================
