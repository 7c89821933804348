------------------------------- MODULE MCNotify -------------------------------
(* Small instances of Notify for TLC. *)
EXTENDS Notify, TLC

\* Two calls and a retry under one idempotency key, and a call with its own.
Duplicated == [r \in Requests |-> IF r = "other" THEN "k2" ELSE "k1"]
ToOne == [r \in Requests |-> "anna"]
===============================================================================
