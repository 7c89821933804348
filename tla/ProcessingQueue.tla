--------------------------- MODULE ProcessingQueue ---------------------------
(***************************************************************************)
(* The AI processing queue: the wa.media_processing table, the             *)
(* ProcessingWorker that drains it (src/store/processing/worker.ts), and   *)
(* the message.processed event it emits for the webhook enqueuer, from the *)
(* insertion of a job by enqueueProcessing to the shutdown sequence of the *)
(* bot, which detaches the enqueuer long before it stops this worker.      *)
(*                                                                         *)
(* As in MediaQueue, elapsed[m] stands for the comparison of a row's       *)
(* deadline with NOW(). A job is named by the media row it processes: the  *)
(* unique index on (media_id, processor) allows one.                       *)
(***************************************************************************)
EXTENDS Integers, FiniteSets

CONSTANTS
  Media,        \* the media rows that reach download_status done
  Known,        \* those whose processor is in the registry of this build
  Rank,         \* the place of a row in the claim's ORDER BY (live, audio)
  Concurrency,  \* PROCESSING_CONCURRENCY
  BatchSize,    \* PROCESSING_BATCH_SIZE
  MaxAttempts,  \* PROCESSING_MAX_ATTEMPTS
  MaxRestarts,  \* bound: how often the process may die and come back
  MaxFaults     \* bound: how many statements may fail

ASSUME ConstantsAssumption ==
  /\ IsFiniteSet(Media)
  /\ Known \subseteq Media
  /\ Rank \in [Media -> Nat]
  /\ Concurrency \in Nat \ {0}
  /\ BatchSize \in Nat \ {0}
  /\ MaxAttempts \in Nat \ {0}
  /\ MaxRestarts \in Nat
  /\ MaxFaults \in Nat

VARIABLES
  \* wa.media_processing
  status,       \* status
  attempts,     \* attempts
  elapsed,      \* next_attempt_at <= NOW() (pending), lease_until < NOW() (in progress)
  results,      \* rows with a result_text
  \* the ProcessingWorker of the running process
  loop,         \* where loop() is suspended
  limit,        \* the row limit of the claim under way
  returned,     \* the rows the claim brought back
  running,      \* this.running
  wakePending,  \* this.wakePending
  reapDue,      \* 30 s have passed since lastReapAt
  inFlight,     \* this.inFlight, each job with the attempt it claimed
  orderly,      \* the rows whose calls end within their lease and whose UPDATEs are
                \* answered, chosen once; for the others neither is certain
  \* the rest of the process
  enqueued,     \* inserted rows for which 'enqueued' has not been emitted yet
  attached,     \* the webhook enqueuer listens on the bus
  restarts, faults,
  \* history
  reaps,        \* reaps[m]: leases of m the reaper took back
  announced,    \* announced[m]: message.processed events the enqueuer received
  owed          \* notify() was called and no claim has been tried since

lease  == <<status, attempts, elapsed, reaps>>
output == <<results, announced>>
claim  == <<limit, returned>>
bounds == <<restarts, faults>>
wake   == <<loop, wakePending, owed>>
vars   == <<status, attempts, elapsed, results, loop, limit, returned, running, wakePending,
            reapDue, inFlight, enqueued, attached, restarts, faults, reaps, announced, owed>>

Terminal == {"done", "failed"}
Statuses == {"absent", "pending", "in_progress"} \union Terminal
Stages   == {"calling", "answered", "announcing", "failing"}
Job      == [media : Media, attempt : Nat, at : Stages]

Flags ==
  /\ elapsed \in [Media -> BOOLEAN]
  /\ running \in BOOLEAN
  /\ wakePending \in BOOLEAN
  /\ reapDue \in BOOLEAN
  /\ attached \in BOOLEAN
  /\ owed \in BOOLEAN

Values ==
  /\ status \in [Media -> Statuses]
  /\ attempts \in [Media -> Nat]
  /\ reaps \in [Media -> Nat]
  /\ announced \in [Media -> Nat]
  /\ results \subseteq Media
  /\ returned \subseteq Media /\ enqueued \subseteq Media
  /\ inFlight \subseteq Job
  /\ loop \in {"top", "reaping", "claiming", "claimed", "sleeping", "stopped", "down"}
  /\ limit \in 0..Concurrency
  /\ restarts \in 0..MaxRestarts
  /\ faults \in 0..MaxFaults

TypeOK == Flags /\ Values /\ orderly \subseteq Media

Init ==
  /\ status = [m \in Media |-> "absent"]
  /\ attempts = [m \in Media |-> 0]
  /\ elapsed = [m \in Media |-> FALSE]
  /\ results = {}
  /\ loop = "top" /\ limit = 0 /\ returned = {}
  /\ running = TRUE /\ wakePending = FALSE /\ reapDue = TRUE
  /\ inFlight = {} /\ enqueued = {}
  /\ attached = TRUE
  /\ orderly \in SUBSET Media
  /\ restarts \in 0..MaxRestarts /\ faults = 0
  /\ reaps = [m \in Media |-> 0]
  /\ announced = [m \in Media |-> 0]
  /\ owed = FALSE

-----------------------------------------------------------------------------
Smaller(a, b) == IF a <= b THEN a ELSE b

\* A statement that may fail does so at most MaxFaults times.
Fault == faults < MaxFaults /\ faults' = faults + 1 /\ UNCHANGED restarts

\* Mutant: notify() wakes a sleeper and leaves no note.
NotifySleeperOnly ==
  /\ loop' = IF loop = "sleeping" THEN "top" ELSE loop
  /\ owed' = TRUE /\ UNCHANGED wakePending

\* notify(): end the sleep, or leave a note for the next one.
Notify ==
  /\ IF loop = "sleeping"
       THEN loop' = "top" /\ UNCHANGED wakePending
       ELSE wakePending' = TRUE /\ UNCHANGED loop
  /\ owed' = TRUE

\* sleepUntilWake(): a note left by notify() makes it return at once.
SleepUntilWake ==
  /\ loop' = IF wakePending THEN "top" ELSE "sleeping"
  /\ wakePending' = FALSE

FreeSlots == Concurrency - Cardinality(inFlight)

-----------------------------------------------------------------------------
(* The producer: enqueueProcessing() inserts the job unless the table has  *)
(* it, then emits 'enqueued', which stop() has made fall on deaf ears.     *)

\* Mutant: ON CONFLICT DO UPDATE, a second enqueue starts the job over.
EnqueueAgain(m) ==
  /\ loop # "down" /\ status[m] \in {"absent", "done", "failed"}
  /\ status' = [status EXCEPT ![m] = "pending"]
  /\ elapsed' = [elapsed EXCEPT ![m] = TRUE]
  /\ enqueued' = enqueued \union {m}
  /\ UNCHANGED <<attempts, reaps, output, wake, claim, running, reapDue, inFlight, attached,
                 bounds>>

Enqueue(m) ==
  /\ loop # "down" /\ status[m] = "absent"
  /\ status' = [status EXCEPT ![m] = "pending"]
  /\ elapsed' = [elapsed EXCEPT ![m] = TRUE]
  /\ enqueued' = enqueued \union {m}
  /\ UNCHANGED <<attempts, reaps, output, wake, claim, running, reapDue, inFlight, attached,
                 bounds>>

EmitEnqueued(m) ==
  /\ m \in enqueued
  /\ enqueued' = enqueued \ {m}
  /\ IF running THEN Notify ELSE UNCHANGED wake
  /\ UNCHANGED <<lease, output, claim, running, reapDue, inFlight, attached, bounds>>

-----------------------------------------------------------------------------
(* loop(): from one await to the next.                                     *)

\* The top of the while: stop, idle without a free slot, or go on.
LoopTop ==
  /\ loop = "top"
  /\ \/ /\ ~running
        /\ loop' = "stopped"
        /\ UNCHANGED <<wakePending, limit, reapDue>>
     \/ /\ running /\ FreeSlots <= 0
        /\ SleepUntilWake
        /\ UNCHANGED <<limit, reapDue>>
     \/ /\ running /\ FreeSlots > 0
        /\ limit' = Smaller(FreeSlots, BatchSize)
        /\ loop' = IF reapDue THEN "reaping" ELSE "claiming"
        /\ reapDue' = FALSE
        /\ UNCHANGED wakePending
  /\ UNCHANGED <<lease, output, returned, running, inFlight, enqueued, attached, bounds, owed>>

\* Mutant: every lease is taken back, lapsed or not.
HeldRows == {m \in Media : status[m] = "in_progress"}

Expired == {m \in Media : status[m] = "in_progress" /\ elapsed[m]}

\* reapExpiredLeases(); a failure is logged and the loop goes on.
ReapExpiredLeases ==
  /\ loop = "reaping"
  /\ loop' = "claiming"
  /\ \/ /\ status' = [m \in Media |-> IF m \in Expired THEN "pending" ELSE status[m]]
        /\ reaps' = [m \in Media |-> IF m \in Expired THEN reaps[m] + 1 ELSE reaps[m]]
        /\ UNCHANGED bounds
     \/ Fault /\ UNCHANGED <<status, reaps>>
  /\ UNCHANGED <<attempts, elapsed, output, claim, running, wakePending, reapDue, inFlight,
                 enqueued, attached, owed>>

Ready == {m \in Media : status[m] = "pending" /\ elapsed[m]}

\* The rows one claim takes: as many as the limit allows, the highest ranks first.
Batches ==
  {S \in SUBSET Ready :
     /\ Cardinality(S) = Smaller(limit, Cardinality(Ready))
     /\ \A m \in S, n \in Ready \ S : Rank[m] >= Rank[n]}

\* Mutant: a claim that leaves lease_until as the last holder set it.
StampOldLease(S) ==
  /\ status' = [m \in Media |-> IF m \in S THEN "in_progress" ELSE status[m]]
  /\ attempts' = [m \in Media |-> IF m \in S THEN attempts[m] + 1 ELSE attempts[m]]
  /\ UNCHANGED <<elapsed, reaps>>

Stamp(S) ==
  /\ status' = [m \in Media |-> IF m \in S THEN "in_progress" ELSE status[m]]
  /\ attempts' = [m \in Media |-> IF m \in S THEN attempts[m] + 1 ELSE attempts[m]]
  /\ elapsed' = [m \in Media |-> IF m \in S THEN FALSE ELSE elapsed[m]]
  /\ UNCHANGED reaps

\* claimBatch() runs in the database; it may fail there, or its answer may be lost.
ClaimBatch ==
  /\ loop = "claiming"
  /\ loop' = "claimed"
  /\ \/ \E S \in Batches : Stamp(S) /\ returned' = S /\ UNCHANGED bounds
     \/ Fault /\ returned' = {} /\ UNCHANGED lease
     \/ Fault /\ returned' = {} /\ \E S \in Batches : Stamp(S)
  /\ owed' = FALSE
  /\ UNCHANGED <<output, limit, running, wakePending, reapDue, inFlight, enqueued, attached>>

NewJobs == {[media |-> m, attempt |-> attempts[m], at |-> "calling"] : m \in returned}

\* Back in the loop with rows: start a job for each and look for more.
StartJobs ==
  /\ loop = "claimed" /\ returned # {}
  /\ loop' = "top"
  /\ inFlight' = inFlight \union NewJobs
  /\ returned' = {}
  /\ UNCHANGED <<lease, output, limit, running, wakePending, reapDue, enqueued, attached, bounds,
                 owed>>

\* Back without rows: leave if stopping, sleep otherwise.
ClaimedNothing ==
  /\ loop = "claimed" /\ returned = {}
  /\ IF running THEN SleepUntilWake ELSE loop' = "stopped" /\ UNCHANGED wakePending
  /\ UNCHANGED <<lease, output, claim, running, reapDue, inFlight, enqueued, attached, bounds,
                 owed>>

\* The idle timer of sleepUntilWake().
PollTimeout ==
  /\ loop = "sleeping"
  /\ loop' = "top"
  /\ UNCHANGED <<lease, output, claim, running, wakePending, reapDue, inFlight, enqueued,
                 attached, bounds, owed>>

-----------------------------------------------------------------------------
(* One job: processRow().                                                  *)

Finish(j) == inFlight' = inFlight \ {j} /\ Notify

Resume(j, at) ==
  /\ inFlight' = (inFlight \ {j}) \union {[j EXCEPT !.at = at]}
  /\ UNCHANGED wake

SetRow(m, st) ==
  /\ status' = [status EXCEPT ![m] = st]
  /\ elapsed' = [elapsed EXCEPT ![m] = FALSE]
  /\ UNCHANGED <<attempts, reaps>>

\* No entry in PROCESSOR_REGISTRY: failed at once.
RejectUnknown(j) ==
  /\ j.at = "calling" /\ j.media \notin Known
  /\ SetRow(j.media, "failed")
  /\ Finish(j)
  /\ UNCHANGED <<output, claim, running, reapDue, enqueued, attached, bounds>>

\* The processor answers.
Answer(j) ==
  /\ j.at = "calling" /\ j.media \in Known
  /\ Resume(j, "answered")
  /\ UNCHANGED <<lease, output, claim, running, reapDue, enqueued, attached, bounds>>

\* The answer is written, without a look at who holds the row by now; the
\* statement may fail, or only its answer.
RecordDone(j) ==
  /\ j.at = "answered"
  /\ \/ /\ SetRow(j.media, "done") /\ results' = results \union {j.media}
        /\ \/ Resume(j, "announcing") /\ UNCHANGED bounds
           \/ j.media \notin orderly /\ Fault /\ Resume(j, "failing")
     \/ UNCHANGED <<lease, results>> /\ Fault /\ Resume(j, "failing")
  /\ UNCHANGED <<announced, claim, running, reapDue, enqueued, attached>>

\* Mutant: message.processed is emitted before the UPDATE.
AnnounceEarly(j) ==
  /\ j.at = "answered"
  /\ announced' = [announced EXCEPT ![j.media] = IF attached THEN @ + 1 ELSE @]
  /\ Finish(j)
  /\ UNCHANGED <<lease, results, claim, running, reapDue, enqueued, attached, bounds>>

\* Back from the UPDATE, the job emits message.processed to whoever listens.
Announce(j) ==
  /\ j.at = "announcing"
  /\ announced' = [announced EXCEPT ![j.media] = IF attached THEN @ + 1 ELSE @]
  /\ Finish(j)
  /\ UNCHANGED <<lease, results, claim, running, reapDue, enqueued, attached, bounds>>

\* Mutant: a status the table's CHECK does not know.
AfterRetryRenamed(j) == IF j.attempt >= MaxAttempts THEN "failed" ELSE "retrying"

\* The status a retry leaves: by the attempt this job claimed, not the row's.
AfterRetry(j) == IF j.attempt >= MaxAttempts THEN "failed" ELSE "pending"

\* The processor threw, or the UPDATE of its answer did.
Retry(j) ==
  /\ j.at = "failing" \/ (j.at = "calling" /\ j.media \in Known)
  /\ SetRow(j.media, AfterRetry(j))
  /\ Finish(j)
  /\ UNCHANGED <<output, claim, running, reapDue, enqueued, attached, bounds>>

\* The statement that ends the job fails: the row stays as it is.
LoseOutcome(j) ==
  /\ j.at \in {"calling", "failing"}
  /\ Fault
  /\ Finish(j)
  /\ UNCHANGED <<lease, output, claim, running, reapDue, enqueued, attached>>

JobStep(j) ==
  \/ RejectUnknown(j) \/ Answer(j) \/ RecordDone(j) \/ Announce(j)
  \/ Retry(j) \/ LoseOutcome(j)

-----------------------------------------------------------------------------
(* Time.                                                                   *)

BackoffPasses(m) ==
  /\ status[m] = "pending" /\ ~elapsed[m]
  /\ elapsed' = [elapsed EXCEPT ![m] = TRUE]
  /\ UNCHANGED <<status, attempts, reaps, output, wake, claim, running, reapDue, inFlight,
                 enqueued, attached, bounds>>

LeaseLapses(m) ==
  /\ status[m] = "in_progress" /\ ~elapsed[m]
  /\ m \in orderly => m \notin returned /\ \A j \in inFlight : j.media # m
  /\ elapsed' = [elapsed EXCEPT ![m] = TRUE]
  /\ UNCHANGED <<status, attempts, reaps, output, wake, claim, running, reapDue, inFlight,
                 enqueued, attached, bounds>>

\* Mutant: the reaper runs at boot only.
ReapAtBootOnly == FALSE /\ UNCHANGED vars

ReapIntervalPasses ==
  /\ loop # "down" /\ ~reapDue
  /\ reapDue' = TRUE
  /\ UNCHANGED <<lease, output, wake, claim, running, inFlight, enqueued, attached, bounds>>

-----------------------------------------------------------------------------
(* The life of the process.                                                *)

\* Bot.stop() detaches the webhook enqueuer while this worker runs on: the
\* socket and the media worker (up to 20 s) are stopped first.
DetachEnqueuer ==
  /\ loop # "down" /\ attached /\ restarts < MaxRestarts
  /\ attached' = FALSE
  /\ UNCHANGED <<lease, output, wake, claim, running, reapDue, inFlight, enqueued, bounds>>

\* stop(): the loop ends at its next turn, jobs in flight go on.
Stop ==
  /\ loop # "down" /\ running /\ ~attached
  /\ running' = FALSE
  /\ Notify
  /\ UNCHANGED <<lease, output, claim, reapDue, inFlight, enqueued, attached, bounds>>

\* A crash, a kill, or the exit that follows stop() when its 20 s for the jobs
\* in flight are over.
ProcessDies ==
  /\ loop # "down" /\ restarts < MaxRestarts
  /\ loop' = "down"
  /\ inFlight' = {} /\ enqueued' = {}
  /\ limit' = 0 /\ returned' = {} /\ running' = FALSE /\ wakePending' = FALSE /\ reapDue' = TRUE
  /\ attached' = FALSE /\ owed' = FALSE
  /\ restarts' = restarts + 1
  /\ UNCHANGED <<lease, output, faults>>

Boot ==
  /\ loop = "down"
  /\ loop' = "top" /\ running' = TRUE /\ attached' = TRUE
  /\ UNCHANGED <<lease, output, claim, wakePending, reapDue, inFlight, enqueued, bounds, owed>>

-----------------------------------------------------------------------------
Loop == LoopTop \/ ReapExpiredLeases \/ ClaimBatch \/ StartJobs \/ ClaimedNothing \/ PollTimeout

Next ==
  \/ \E m \in Media : Enqueue(m) \/ EmitEnqueued(m) \/ BackoffPasses(m) \/ LeaseLapses(m)
  \/ Loop
  \/ \E j \in inFlight : JobStep(j)
  \/ ReapIntervalPasses
  \/ DetachEnqueuer \/ Stop \/ ProcessDies \/ Boot

Spec == Init /\ [][Next /\ UNCHANGED orderly]_<<vars, orderly>>

\* The event loop resumes what is runnable, timers fire, every AI call ends
\* one way or another, Bot.stop() once begun is carried through, and the
\* service manager restarts the process. Nothing is assumed of the producers,
\* of the decision to stop or of crashes.
Fairness ==
  /\ WF_vars(Loop)
  /\ WF_vars(ReapIntervalPasses)
  /\ WF_vars(Boot)
  /\ WF_vars(Stop)
  /\ WF_vars(loop = "stopped" /\ ProcessDies)
  /\ \A m \in Media :
       /\ WF_vars(EmitEnqueued(m))
       /\ WF_vars(BackoffPasses(m))
       /\ WF_vars(LeaseLapses(m))
       /\ WF_vars(\E j \in inFlight : j.media = m /\ JobStep(j))

FairSpec == Spec /\ Fairness

-----------------------------------------------------------------------------
(* Properties.                                                             *)

\* message.processed is announced only for a row whose result is stored, and
\* again only if the reaper took a lease back in between, even when stale
\* calls finish after their row was claimed anew.
AnnouncedWithResult ==
  \A m \in Media :
    /\ announced[m] > 0 => m \in results
    /\ announced[m] <= 1 + reaps[m]

\* A consumer hears of an orderly row once at most: message.processed is
\* emitted by the one job that ended the row.
AnnouncedOnce ==
  \A m \in orderly : announced[m] <= 1 /\ (announced[m] = 1 => status[m] = "done")

\* The job of an orderly row owns it, at the attempt it claimed, and the row is
\* in progress, or done once recorded: processRow names it by id alone.
OwnsRow(j) ==
  /\ attempts[j.media] = j.attempt
  /\ \/ status[j.media] = "in_progress" /\ j.at # "announcing"
     \/ status[j.media] = "done" /\ j.at = "announcing"
SoleOwner ==
  /\ \A j \in inFlight : j.media \in orderly => OwnsRow(j)
  /\ \A j, k \in inFlight : j.media \in orderly /\ j.media = k.media => j = k
  /\ \A m \in returned \intersect orderly :
       status[m] = "in_progress" /\ \A j \in inFlight : j.media # m

\* While the worker sleeps with a free slot, every 'enqueued' event so far has
\* been followed by a claim: the job starts without waiting for a poll.
NoLostWake == loop = "sleeping" /\ FreeSlots > 0 => ~owed

\* Every enqueued job ends done or failed, across crashes, shutdowns and
\* failed statements.
EventuallyTerminal == \A m \in Media : status[m] = "pending" ~> status[m] \in Terminal

\* API.md: message.processed fires when the AI result is ready.
ResultIsAnnounced == \A m \in Media : m \in results ~> announced[m] > 0

\* For orderly rows the queue implements the job board.
Place(st) ==
  CASE st = "pending" -> "waiting" [] st = "in_progress" -> "held" [] OTHER -> st
Board == INSTANCE JobBoard
           WITH Jobs <- Media, Outcomes <- Terminal,
                state <- [m \in Media |-> IF m \in orderly THEN Place(status[m]) ELSE "absent"]
BoardSpec == Board!Spec
===============================================================================
