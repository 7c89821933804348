---------------------------- MODULE MCMessageStore ----------------------------
(* Small instances of MessageStore for TLC. *)
EXTENDS MessageStore, TLC

Body(m, b)     == [what |-> "body", msg |-> m, body |-> b]
Edit(m, b)     == [what |-> "edit", msg |-> m, body |-> b]
Revoke(m)      == [what |-> "revoke", msg |-> m]
Remove(m)      == [what |-> "delete", msg |-> m]
React(m, x, t) == [what |-> "reaction", msg |-> m, emoji |-> x, ts |-> t]

\* A message, its copy in a history chunk, two edits of it, its revocation in
\* one batch with a reaction, the removal of that reaction and two deletions.
Deliveries ==
  ("new"     :> <<Body("m1", 0)>>) @@
  ("history" :> <<Body("m1", 0), Body("m2", 0)>>) @@
  ("edit1"   :> <<Edit("m1", 1)>>) @@
  ("edit2"   :> <<Edit("m1", 2)>>) @@
  ("batch"   :> <<Revoke("m1"), React("m2", "heart", 2)>>) @@
  ("react"   :> <<React("m2", "none", 3)>>) @@
  ("remove"  :> <<Remove("m1")>>) @@
  ("clear"   :> <<>>)
Given == [e \in Events |-> Deliveries[e]]
As == [e \in Events |->
         CASE e \in {"new", "history", "batch"} -> "messages.upsert"
           [] e \in {"edit1", "edit2"} -> "messages.update"
           [] e = "react"  -> "messages.reaction"
           [] e = "remove" -> "messages.delete"
           [] e = "clear"  -> "clear"]
===============================================================================
