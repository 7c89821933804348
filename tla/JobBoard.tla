------------------------------- MODULE JobBoard -------------------------------
(***************************************************************************)
(* What each of the three durable queues of the bot (wa.media,             *)
(* wa.media_processing, wa.webhook_deliveries) promises its callers, with  *)
(* leases, attempts, timers, crashes and worker loops abstracted away: a   *)
(* job is posted once, a worker may hold it only while it waits, a held    *)
(* job either goes back to waiting or settles, and a settled job never     *)
(* moves again.                                                            *)
(***************************************************************************)
CONSTANTS Jobs,      \* the rows a table may hold
          Outcomes   \* the statuses in which a row is finished

VARIABLE state       \* state[j]: where job j stands

Places == {"absent", "waiting", "held", "removed"} \union Outcomes

TypeOK == state \in [Jobs -> Places]

Init == state = [j \in Jobs |-> "absent"]

-----------------------------------------------------------------------------
In(place) == {j \in Jobs : state[j] = place}

\* Every job of S goes to place, no other job moves.
Move(S, place) == state' = [j \in Jobs |-> IF j \in S THEN place ELSE state[j]]

\* A producer inserts rows (the fan-out of one event inserts several at once).
Post == \E S \in SUBSET In("absent") : Move(S, "waiting")

\* A worker claims a batch.
Take == \E S \in SUBSET In("waiting") : Move(S, "held")

\* Retries and the lease reaper give jobs back.
GiveBack == \E S \in SUBSET In("held") : Move(S, "waiting")

\* The worker that holds a job records its outcome.
Settle == \E j \in In("held"), o \in Outcomes : Move({j}, o)

\* The owner of the jobs is deleted and its rows go with it.
Remove == \E S \in SUBSET {j \in Jobs : state[j] # "absent"} : Move(S, "removed")

Next == Post \/ Take \/ GiveBack \/ Settle \/ Remove

Spec == Init /\ [][Next]_state
===============================================================================
