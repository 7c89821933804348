------------------------------- MODULE MCTyping -------------------------------
(* Small instances of Typing for TLC. *)
EXTENDS Typing, TLC

Chat == [s \in Sessions |-> IF s = "h1" THEN "home" ELSE "work"]
===============================================================================
