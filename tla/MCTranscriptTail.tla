-------------------------- MODULE MCTranscriptTail --------------------------
(* Small instances of TranscriptTail for TLC. *)
EXTENDS TranscriptTail

MCTurns == {"user", "assistant"}
=============================================================================
