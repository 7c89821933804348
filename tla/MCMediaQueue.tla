----------------------------- MODULE MCMediaQueue -----------------------------
(* Small instances of MediaQueue for TLC. *)
EXTENDS MediaQueue, TLC

\* A live voice note is claimed before anything else.
VoiceFirst == [m \in Media |-> IF m = "voice" THEN 1 ELSE 0]
===============================================================================
