-------------------------- MODULE MCProcessingQueue --------------------------
(* Small instances of ProcessingQueue for TLC. *)
EXTENDS ProcessingQueue, TLC

\* A live voice note is claimed before anything else.
VoiceFirst == [m \in Media |-> IF m = "voice" THEN 1 ELSE 0]

\* Two instances side by side: both rows, orderly, through one death less than the
\* bound; or the voice note alone, which is not orderly, through all of them.
Scenario ==
  \/ orderly = Media /\ restarts >= 1
  \/ orderly = {} /\ status["photo"] = "absent"

MCInit == Init /\ Scenario

MCNext == Next /\ UNCHANGED orderly /\ Scenario'

MCSpec == MCInit /\ [][MCNext]_<<vars, orderly>> /\ Fairness
===============================================================================
