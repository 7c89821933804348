----------------------------- MODULE WebhookQueue -----------------------------
(***************************************************************************)
(* The webhook queue: the subscriptions an API client manages              *)
(* (src/api/routes/webhooks.ts), the enqueuer that fans one bus event out  *)
(* to a row of wa.webhook_deliveries per subscription                      *)
(* (src/webhooks/enqueue.ts), and the WebhookWorker that posts the rows    *)
(* (src/webhooks/worker.ts).                                               *)
(*                                                                         *)
(* Unlike the media and processing workers this one awaits a whole batch   *)
(* before it looks at the table again, and its notify() leaves no note for *)
(* a worker that is not asleep yet. As there, elapsed[d] stands for the    *)
(* comparison of a row's deadline with NOW().                              *)
(***************************************************************************)
EXTENDS Integers, FiniteSets

CONSTANTS
  Events,       \* the bus events
  Tests,        \* the synthetic events of POST /v1/webhooks/:id/test
  Subs,         \* the subscriptions
  Wanted,       \* the <<event, subscription>> pairs eventTypes lets through
  Concurrency,  \* WEBHOOK_CONCURRENCY, the slots of the p-limit limiter
  BatchSize,    \* WEBHOOK_BATCH_SIZE
  MaxAttempts,  \* WEBHOOK_MAX_ATTEMPTS
  MaxRestarts,  \* bound: how often the process may die and come back
  MaxFaults     \* bound: how many statements may fail

ASSUME ConstantsAssumption ==
  /\ IsFiniteSet(Events) /\ IsFiniteSet(Tests) /\ IsFiniteSet(Subs)
  /\ Events \intersect Tests = {}
  /\ Wanted \subseteq Events \X Subs
  /\ Concurrency \in Nat \ {0}
  /\ BatchSize \in Nat \ {0}
  /\ MaxAttempts \in Nat \ {0}
  /\ MaxRestarts \in Nat
  /\ MaxFaults \in Nat

Deliveries == (Events \union Tests) \X Subs

VARIABLES
  \* wa.webhook_subscriptions and wa.webhook_deliveries
  sub,          \* sub[s]: the subscription's row
  status,       \* status
  attempts,     \* attempts
  elapsed,      \* next_attempt_at <= NOW() (pending), lease_until < NOW() (in progress)
  \* the enqueuer, one listener call per event
  fan,          \* fan[e]: where the listener of e is suspended
  targets,      \* targets[e]: the subscriptions its SELECT returned
  attached,     \* the listener is on the bus
  \* the WebhookWorker of the running process
  loop,         \* where loop() is suspended
  running,      \* this.running
  job,          \* job[d]: where deliverRow(d) is suspended
  claim,        \* claim[d]: the attempts and active columns the claim returned
  restarts, faults

rows   == <<status, attempts, elapsed>>
outbox == <<fan, targets, attached>>
batch  == <<job, claim>>
bounds == <<restarts, faults>>
vars   == <<sub, status, attempts, elapsed, fan, targets, attached, loop, running, job, claim,
            restarts, faults>>

Terminal == {"delivered", "abandoned"}
Statuses == {"absent", "pending", "in_progress", "removed"} \union Terminal
Working  == {"posting", "disabling", "accepted", "refused"}
NoClaim  == [attempt |-> 0, active |-> FALSE]

Flags ==
  /\ elapsed \in [Deliveries -> BOOLEAN]
  /\ claim \in [Deliveries -> [attempt : Nat, active : BOOLEAN]]
  /\ attached \in BOOLEAN
  /\ running \in BOOLEAN

Values ==
  /\ sub \in [Subs -> {"absent", "active", "disabled", "deleted"}]
  /\ status \in [Deliveries -> Statuses]
  /\ attempts \in [Deliveries -> Nat]
  /\ fan \in [Events -> {"idle", "building", "selecting", "inserting", "inserted", "done", "lost"}]
  /\ targets \in [Events -> SUBSET Subs]
  /\ loop \in {"top", "reaping", "claiming", "claimed", "delivering", "sleeping", "stopped", "down"}
  /\ job \in [Deliveries -> {"none", "queued"} \union Working]
  /\ restarts \in 0..MaxRestarts
  /\ faults \in 0..MaxFaults

TypeOK == Flags /\ Values

Init ==
  /\ sub = [s \in Subs |-> "absent"]
  /\ status = [d \in Deliveries |-> "absent"]
  /\ attempts = [d \in Deliveries |-> 0]
  /\ elapsed = [d \in Deliveries |-> FALSE]
  /\ fan = [e \in Events |-> "idle"]
  /\ targets = [e \in Events |-> {}]
  /\ attached = TRUE
  /\ loop = "top" /\ running = TRUE
  /\ job = [d \in Deliveries |-> "none"]
  /\ claim = [d \in Deliveries |-> NoClaim]
  /\ restarts = 0 /\ faults = 0

-----------------------------------------------------------------------------
Smaller(a, b) == IF a <= b THEN a ELSE b

\* A statement that may fail does so at most MaxFaults times.
Fault == faults < MaxFaults /\ faults' = faults + 1 /\ UNCHANGED restarts

\* notify(): end the sleep. A worker that is not asleep learns nothing.
Notify == loop' = IF loop = "sleeping" THEN "top" ELSE loop

\* INSERT of rows with their column defaults: pending and due at once.
InsertRows(S) ==
  /\ status' = [d \in Deliveries |-> IF d \in S THEN "pending" ELSE status[d]]
  /\ elapsed' = [d \in Deliveries |-> IF d \in S THEN TRUE ELSE elapsed[d]]
  /\ UNCHANGED attempts

-----------------------------------------------------------------------------
(* The subscription routes.                                                *)

Subscribe(s) ==
  /\ loop # "down" /\ sub[s] = "absent"
  /\ \E st \in {"active", "disabled"} : sub' = [sub EXCEPT ![s] = st]
  /\ UNCHANGED <<rows, outbox, loop, running, batch, bounds>>

SetActive(s) ==
  /\ loop # "down" /\ sub[s] \in {"active", "disabled"}
  /\ sub' = [sub EXCEPT ![s] = IF @ = "active" THEN "disabled" ELSE "active"]
  /\ UNCHANGED <<rows, outbox, loop, running, batch, bounds>>

\* DELETE cascades to the subscription's deliveries, claimed ones included.
Unsubscribe(s) ==
  /\ loop # "down" /\ sub[s] \in {"active", "disabled"}
  /\ sub' = [sub EXCEPT ![s] = "deleted"]
  /\ LET gone == {d \in Deliveries : d[2] = s /\ status[d] # "absent"}
     IN  status' = [d \in Deliveries |-> IF d \in gone THEN "removed" ELSE status[d]]
  /\ UNCHANGED <<attempts, elapsed, outbox, loop, running, batch, bounds>>

\* POST /v1/webhooks/:id/test inserts a row and leaves the worker alone.
SendTest(t, s) ==
  /\ loop # "down" /\ sub[s] \in {"active", "disabled"} /\ status[<<t, s>>] = "absent"
  /\ InsertRows({<<t, s>>})
  /\ UNCHANGED <<sub, outbox, loop, running, batch, bounds>>

-----------------------------------------------------------------------------
(* The enqueuer.                                                           *)

\* The bus calls the listener, if it is still attached.
Emit(e) ==
  /\ loop # "down" /\ fan[e] = "idle"
  /\ fan' = [fan EXCEPT ![e] = IF attached THEN "building" ELSE "lost"]
  /\ UNCHANGED <<sub, rows, targets, attached, loop, running, batch, bounds>>

Matching(e) == {s \in Subs : sub[s] = "active" /\ <<e, s>> \in Wanted}

\* The payload is built from the tables; an event without a message row, or of
\* our own message, is skipped.
BuildPayload(e) ==
  /\ fan[e] = "building"
  /\ \/ \E at \in {"selecting", "done"} : fan' = [fan EXCEPT ![e] = at] /\ UNCHANGED bounds
     \/ fan' = [fan EXCEPT ![e] = "lost"] /\ Fault
  /\ UNCHANGED <<sub, rows, targets, attached, loop, running, batch>>

\* The active subscriptions are read.
SelectSubscriptions(e) ==
  /\ fan[e] = "selecting"
  /\ \/ /\ Matching(e) # {}
        /\ fan' = [fan EXCEPT ![e] = "inserting"]
        /\ targets' = [targets EXCEPT ![e] = Matching(e)]
        /\ UNCHANGED bounds
     \/ Matching(e) = {} /\ fan' = [fan EXCEPT ![e] = "done"] /\ UNCHANGED <<targets, bounds>>
     \/ fan' = [fan EXCEPT ![e] = "lost"] /\ UNCHANGED targets /\ Fault
  /\ UNCHANGED <<sub, rows, attached, loop, running, batch>>

\* One INSERT for all targets: the foreign key refuses every row if one
\* subscription has been deleted since, and the error is logged.
InsertDeliveries(e) ==
  /\ fan[e] = "inserting"
  /\ \/ /\ \A s \in targets[e] : sub[s] # "deleted"
        /\ InsertRows({e} \X targets[e])
        /\ fan' = [fan EXCEPT ![e] = "inserted"]
        /\ UNCHANGED bounds
     \/ /\ \E s \in targets[e] : sub[s] = "deleted"
        /\ fan' = [fan EXCEPT ![e] = "lost"]
        /\ UNCHANGED <<rows, bounds>>
     \/ /\ Fault                        \* it fails, or its answer is lost
        /\ fan' = [fan EXCEPT ![e] = "lost"]
        /\ \/ UNCHANGED rows
           \/ (\A s \in targets[e] : sub[s] # "deleted") /\ InsertRows({e} \X targets[e])
  /\ UNCHANGED <<sub, targets, attached, loop, running, batch>>

NotifyWorker(e) ==
  /\ fan[e] = "inserted"
  /\ fan' = [fan EXCEPT ![e] = "done"]
  /\ Notify
  /\ UNCHANGED <<sub, rows, targets, attached, running, batch, bounds>>

-----------------------------------------------------------------------------
(* loop(): from one await to the next.                                     *)

\* Mutant: a loop that never calls the reaper.
LoopTopWithoutReaper ==
  /\ loop = "top"
  /\ loop' = IF running THEN "claiming" ELSE "stopped"
  /\ UNCHANGED <<sub, rows, outbox, running, batch, bounds>>

LoopTop ==
  /\ loop = "top"
  /\ loop' = IF running THEN "reaping" ELSE "stopped"
  /\ UNCHANGED <<sub, rows, outbox, running, batch, bounds>>

Expired == {d \in Deliveries : status[d] = "in_progress" /\ elapsed[d]}

\* reapExpiredLeases(), at every turn; a failure is logged and the loop goes on.
ReapExpiredLeases ==
  /\ loop = "reaping"
  /\ loop' = "claiming"
  /\ \/ /\ status' = [d \in Deliveries |-> IF d \in Expired THEN "pending" ELSE status[d]]
        /\ UNCHANGED bounds
     \/ Fault /\ UNCHANGED status
  /\ UNCHANGED <<sub, attempts, elapsed, outbox, running, batch>>

Ready == {d \in Deliveries : status[d] = "pending" /\ elapsed[d]}

\* The rows one claim takes: BatchSize of them, the ORDER BY left open.
Batches ==
  {S \in SUBSET Ready : Cardinality(S) = Smaller(BatchSize, Cardinality(Ready))}

Stamp(S) ==
  /\ status' = [d \in Deliveries |-> IF d \in S THEN "in_progress" ELSE status[d]]
  /\ attempts' = [d \in Deliveries |-> IF d \in S THEN attempts[d] + 1 ELSE attempts[d]]
  /\ elapsed' = [d \in Deliveries |-> IF d \in S THEN FALSE ELSE elapsed[d]]

\* claimBatch() runs in the database and joins the subscription, whose url,
\* secret and active columns are those of now; it may fail there, or its answer
\* may be lost.
ClaimBatch ==
  /\ loop = "claiming"
  /\ loop' = "claimed"
  /\ \/ \E S \in Batches :
          /\ Stamp(S)
          /\ job' = [d \in Deliveries |-> IF d \in S THEN "queued" ELSE job[d]]
          /\ claim' = [d \in Deliveries |->
                         IF d \in S
                           THEN [attempt |-> attempts[d] + 1, active |-> sub[d[2]] = "active"]
                           ELSE claim[d]]
          /\ UNCHANGED bounds
     \/ Fault /\ UNCHANGED <<rows, batch>>
     \/ Fault /\ UNCHANGED batch /\ \E S \in Batches : Stamp(S)
  /\ UNCHANGED <<sub, outbox, running>>

\* Back in the loop: deliver the batch, or without one leave if stopping and
\* sleep otherwise.
Claimed ==
  /\ loop = "claimed"
  /\ loop' = IF \E d \in Deliveries : job[d] # "none" THEN "delivering"
             ELSE IF running THEN "sleeping" ELSE "stopped"
  /\ UNCHANGED <<sub, rows, outbox, running, batch, bounds>>

\* The idle timer of sleepUntilWake().
PollTimeout ==
  /\ loop = "sleeping"
  /\ loop' = "top"
  /\ UNCHANGED <<sub, rows, outbox, running, batch, bounds>>

\* Mutant: the loop goes on without the Promise.all.
BatchForgotten ==
  /\ loop = "delivering"
  /\ loop' = "top"
  /\ UNCHANGED <<sub, rows, outbox, running, batch, bounds>>

\* Promise.all of the batch resolves.
BatchSettles ==
  /\ loop = "delivering"
  /\ \A d \in Deliveries : job[d] = "none"
  /\ loop' = "top"
  /\ UNCHANGED <<sub, rows, outbox, running, batch, bounds>>

-----------------------------------------------------------------------------
(* One delivery: deliverRow().                                             *)

Step(d, at) == job' = [job EXCEPT ![d] = at]

\* The limiter lets the next delivery in; one whose subscription was disabled
\* when it was claimed is abandoned, any other is posted.
Begin(d) ==
  /\ loop = "delivering" /\ job[d] = "queued"
  /\ Cardinality({x \in Deliveries : job[x] \in Working}) < Concurrency
  /\ Step(d, IF claim[d].active THEN "posting" ELSE "disabling")
  /\ UNCHANGED <<sub, rows, outbox, loop, running, claim, bounds>>

\* The POST ends: accepted, refused, or given up although the consumer had
\* taken it (timeout, lost answer).
Post(d) ==
  /\ job[d] = "posting"
  /\ Step(d, "accepted") \/ Step(d, "refused")
  /\ UNCHANGED <<sub, rows, outbox, loop, running, claim, bounds>>

\* Mutant: a status the table's CHECK does not know.
OutcomeRenamed(d) == IF job[d] = "accepted" THEN "delivered" ELSE "retrying"

\* The outcome a finished delivery writes.
Outcome(d) ==
  CASE job[d] = "accepted" -> "delivered"
    [] job[d] = "disabling" -> "abandoned"
    [] job[d] = "refused" -> IF claim[d].attempt >= MaxAttempts THEN "abandoned" ELSE "pending"

Finish(d) ==
  /\ job' = [job EXCEPT ![d] = "none"]
  /\ claim' = [claim EXCEPT ![d] = NoClaim]

\* Mutant: an upsert, which brings a removed row back.
RecordOutcomeUpsert(d) ==
  /\ job[d] \in {"accepted", "refused", "disabling"}
  /\ status' = [status EXCEPT ![d] = Outcome(d)]
  /\ elapsed' = [elapsed EXCEPT ![d] = FALSE]
  /\ Finish(d)
  /\ UNCHANGED <<sub, attempts, outbox, loop, running, bounds>>

\* UPDATE ... WHERE id: nothing is left to update once the row was removed.
RecordOutcome(d) ==
  /\ job[d] \in {"accepted", "refused", "disabling"}
  /\ status' = [status EXCEPT ![d] = IF @ = "removed" THEN @ ELSE Outcome(d)]
  /\ elapsed' = [elapsed EXCEPT ![d] = FALSE]
  /\ Finish(d)
  /\ UNCHANGED <<sub, attempts, outbox, loop, running, bounds>>

\* That UPDATE fails: the row keeps its lease.
LoseOutcome(d) ==
  /\ job[d] \in {"accepted", "refused", "disabling"}
  /\ Fault
  /\ Finish(d)
  /\ UNCHANGED <<sub, rows, outbox, loop, running>>

Deliver(d) == Begin(d) \/ Post(d) \/ RecordOutcome(d) \/ LoseOutcome(d)

-----------------------------------------------------------------------------
(* Time: a lease may lapse while its delivery waits for a slot or an answer. *)

DeadlinePasses(d) ==
  /\ status[d] \in {"pending", "in_progress"} /\ ~elapsed[d]
  /\ elapsed' = [elapsed EXCEPT ![d] = TRUE]
  /\ UNCHANGED <<sub, status, attempts, outbox, loop, running, batch, bounds>>

-----------------------------------------------------------------------------
(* The life of the process.                                                *)

\* Bot.stop() detaches the enqueuer first ...
DetachEnqueuer ==
  /\ loop # "down" /\ attached /\ restarts < MaxRestarts
  /\ attached' = FALSE
  /\ UNCHANGED <<sub, rows, fan, targets, loop, running, batch, bounds>>

\* ... and stops this worker last.
Stop ==
  /\ loop # "down" /\ running /\ ~attached
  /\ running' = FALSE
  /\ Notify
  /\ UNCHANGED <<sub, rows, outbox, batch, bounds>>

\* A crash, a kill, or the exit that follows stop().
ProcessDies ==
  /\ loop # "down" /\ restarts < MaxRestarts
  /\ loop' = "down"
  /\ running' = FALSE /\ attached' = FALSE
  /\ fan' = [e \in Events |->
               CASE fan[e] \in {"building", "selecting", "inserting"} -> "lost"
                 [] fan[e] = "inserted" -> "done"
                 [] OTHER -> fan[e]]
  /\ job' = [d \in Deliveries |-> "none"]
  /\ claim' = [d \in Deliveries |-> NoClaim]
  /\ restarts' = restarts + 1
  /\ UNCHANGED <<sub, rows, targets, faults>>

Boot ==
  /\ loop = "down"
  /\ loop' = "top" /\ running' = TRUE /\ attached' = TRUE
  /\ UNCHANGED <<sub, rows, fan, targets, batch, bounds>>

-----------------------------------------------------------------------------
Loop ==
  LoopTop \/ ReapExpiredLeases \/ ClaimBatch \/ Claimed \/ PollTimeout \/ BatchSettles

FanOut(e) ==
  BuildPayload(e) \/ SelectSubscriptions(e) \/ InsertDeliveries(e) \/ NotifyWorker(e)

Next ==
  \/ \E s \in Subs : Subscribe(s) \/ SetActive(s) \/ Unsubscribe(s)
  \/ \E t \in Tests, s \in Subs : SendTest(t, s)
  \/ \E e \in Events : Emit(e) \/ FanOut(e)
  \/ Loop
  \/ \E d \in Deliveries : Deliver(d) \/ DeadlinePasses(d)
  \/ DetachEnqueuer \/ Stop \/ ProcessDies \/ Boot

Spec == Init /\ [][Next]_vars

\* The event loop resumes what is runnable, timers and database clocks run,
\* every POST ends (the AbortController sees to it), Bot.stop() once begun is
\* carried through, and the service manager restarts the process.
Fairness ==
  /\ WF_vars(Loop)
  /\ WF_vars(Boot)
  /\ WF_vars(Stop)
  /\ WF_vars(loop = "stopped" /\ ProcessDies)
  /\ \A e \in Events : WF_vars(FanOut(e))
  /\ \A d \in Deliveries : WF_vars(Deliver(d)) /\ WF_vars(DeadlinePasses(d))

FairSpec == Spec /\ Fairness

-----------------------------------------------------------------------------
(* Properties.                                                             *)

\* Whatever its lease, a delivery under way is owned by this worker: its row is
\* in progress at the attempt it claimed (or was deleted), and the loop waits
\* for it, so that neither the reaper nor a second claim can touch it.
BatchOwned ==
  \A d \in Deliveries : job[d] # "none" =>
    /\ loop \in {"claimed", "delivering"}
    /\ \/ status[d] = "removed"
       \/ status[d] = "in_progress" /\ attempts[d] = claim[d].attempt

\* Every inserted delivery is delivered, abandoned or removed in the end, across
\* crashes, shutdowns, lost wake-ups and failed statements.
EventuallySettled ==
  \A d \in Deliveries : status[d] = "pending" ~> status[d] \in Terminal \union {"removed"}

\* enqueue.ts: every event fans out to all matching active subscriptions, one
\* row per subscription. Once the listener is through, each subscription it
\* selected and that is still active has its row.
FansOutToAll ==
  \A e \in Events : fan[e] \in {"done", "lost"} =>
    \A s \in targets[e] : sub[s] = "active" => status[<<e, s>>] # "absent"

\* The queue implements the job board.
Place(st) ==
  CASE st = "pending" -> "waiting" [] st = "in_progress" -> "held" [] OTHER -> st
Board == INSTANCE JobBoard
           WITH Jobs <- Deliveries, Outcomes <- Terminal,
                state <- [d \in Deliveries |-> Place(status[d])]
BoardSpec == Board!Spec
===============================================================================
