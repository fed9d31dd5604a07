---------------------------- MODULE MCResilience ----------------------------
(***************************************************************************)
(* Small instances of Resilience, one per family of handlers.              *)
(***************************************************************************)
EXTENDS Resilience

CONSTANT SendToDlqAfterAttempts   \* of the Kafka handlers' configuration

(* The configuration of every Kafka handler says sendToDlqAfterAttempts:   *)
(* a message is given up to the dead letters after so many attempts.       *)
DlqAfterAttempts == \A c \in letters : runs[c] = SendToDlqAfterAttempts
=============================================================================
