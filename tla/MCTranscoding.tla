--------------------------- MODULE MCTranscoding ---------------------------
(***************************************************************************)
(* Small instances of Transcoding: a video, and one without a video stream *)
(* that competes for the worker.                                           *)
(***************************************************************************)
EXTENDS Transcoding

CONSTANTS movie, broken

MCCode == {[rawRoot |-> "raw", sizeType |-> "bigint"]}
MCBuilds ==
  {[rawRoot |-> "videos", sizeType |-> t] : t \in {"bigint", "number"}} \cup MCCode
=============================================================================
