---------------------------- MODULE MCTranscript ----------------------------
(* Transcript for TLC: three appends, a cap that the second one can pass,  *)
(* and a size that is refused.                                             *)
EXTENDS Transcript
=============================================================================
