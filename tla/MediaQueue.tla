------------------------------ MODULE MediaQueue ------------------------------
(***************************************************************************)
(* The media download queue: the wa.media table, the MediaWorker that      *)
(* drains it (src/store/media/worker.ts), the downloader that runs one     *)
(* claimed row (src/store/media/downloader.ts) and the hand-over of a      *)
(* downloaded row to wa.media_processing (src/store/processing/enqueue.ts).*)
(*                                                                         *)
(* Time appears only as the two comparisons the SQL makes with NOW():      *)
(* elapsed[m] says that the row's deadline has passed, next_attempt_at of  *)
(* a pending row or lease_until of a row in progress.                      *)
(***************************************************************************)
EXTENDS Integers, FiniteSets

CONSTANTS
  Media,        \* the media messages that may be ingested
  Routed,       \* those whose type an AI processor is configured for
  Rank,         \* the place of a row in the claim's ORDER BY (live, audio)
  Concurrency,  \* MEDIA_DOWNLOAD_CONCURRENCY
  BatchSize,    \* MEDIA_DOWNLOAD_BATCH_SIZE
  MaxAttempts,  \* MEDIA_MAX_ATTEMPTS
  Backends,     \* the storage kinds a boot may end up with
  Orderly,      \* the rows whose downloads end within their lease and whose UPDATEs are
                \* answered; for the others neither is certain
  MaxRestarts,  \* bound: how often the process may die and come back
  MaxFaults     \* bound: how many statements may fail

ASSUME ConstantsAssumption ==
  /\ IsFiniteSet(Media)
  /\ Routed \subseteq Media
  /\ Rank \in [Media -> Nat]
  /\ Concurrency \in Nat \ {0}
  /\ BatchSize \in Nat \ {0}
  /\ MaxAttempts \in Nat \ {0}
  /\ Backends \subseteq {"firebase", "noop"}
  /\ Orderly \subseteq Media
  /\ MaxRestarts \in Nat
  /\ MaxFaults \in Nat

VARIABLES
  \* wa.media, wa.media_processing and the bucket: what outlives the process
  status,       \* download_status
  attempts,     \* download_attempts
  elapsed,      \* next_attempt_at <= NOW() (pending), lease_until < NOW() (in progress)
  bucket,       \* rows whose bytes are in the storage bucket
  queued,       \* rows that have a processing job
  \* the MediaWorker of the running process
  loop,         \* where loop() is suspended
  limit,        \* the row limit of the claim under way
  returned,     \* the rows the claim brought back
  running,      \* this.running (stop() clears it)
  wakePending,  \* this.wakePending
  reapDue,      \* 30 s have passed since lastReapAt
  inFlight,     \* this.inFlight, each job with the attempt it claimed
  storage,      \* this.storage.kind
  \* the rest of the process
  handling,     \* inserted rows whose store handler has not called notify() yet
  restarts, faults,
  \* history
  reaps,        \* reaps[m]: leases of m the reaper took back
  owed          \* notify() was called and no claim has been tried since

table  == <<status, attempts, elapsed, reaps>>
stores == <<bucket, queued>>
claim  == <<limit, returned>>
worker == <<loop, claim, running, reapDue, storage>>
bounds == <<restarts, faults>>
wake   == <<loop, wakePending, owed>>
vars   == <<status, attempts, elapsed, bucket, queued, loop, limit, returned, running, wakePending,
            reapDue, inFlight, storage, handling, restarts, faults, reaps, owed>>

Terminal == {"done", "failed", "skipped"}
Statuses == {"absent", "pending", "in_progress"} \union Terminal
Stages   == {"fetching", "storing", "enqueueing", "failing"}
Job      == [media : Media, attempt : Nat, at : Stages]

Flags ==
  /\ elapsed \in [Media -> BOOLEAN]
  /\ running \in BOOLEAN
  /\ wakePending \in BOOLEAN
  /\ reapDue \in BOOLEAN
  /\ owed \in BOOLEAN

Values ==
  /\ status \in [Media -> Statuses]
  /\ attempts \in [Media -> Nat]
  /\ reaps \in [Media -> Nat]
  /\ bucket \subseteq Media /\ queued \subseteq Media
  /\ returned \subseteq Media /\ handling \subseteq Media
  /\ inFlight \subseteq Job
  /\ loop \in {"top", "reaping", "claiming", "claimed", "sleeping", "stopped", "down"}
  /\ storage \in {"firebase", "noop"}
  /\ limit \in 0..Concurrency
  /\ restarts \in 0..MaxRestarts
  /\ faults \in 0..MaxFaults

TypeOK == Flags /\ Values

Init ==
  /\ status = [m \in Media |-> "absent"]
  /\ attempts = [m \in Media |-> 0]
  /\ elapsed = [m \in Media |-> FALSE]
  /\ bucket = {} /\ queued = {}
  /\ loop = "top" /\ limit = 0 /\ returned = {}
  /\ running = TRUE /\ wakePending = FALSE /\ reapDue = TRUE
  /\ inFlight = {}
  /\ storage \in Backends
  /\ handling = {}
  /\ restarts = 0 /\ faults = 0
  /\ reaps = [m \in Media |-> 0]
  /\ owed = FALSE

-----------------------------------------------------------------------------
Smaller(a, b) == IF a <= b THEN a ELSE b

\* A statement that may fail does so at most MaxFaults times.
Fault == faults < MaxFaults /\ faults' = faults + 1 /\ UNCHANGED restarts

\* Mutant: notify() wakes a sleeper and leaves no note.
NotifySleeperOnly ==
  /\ loop' = IF loop = "sleeping" THEN "top" ELSE loop
  /\ owed' = TRUE /\ UNCHANGED wakePending

\* notify(): end the sleep, or leave a note for the next one.
Notify ==
  /\ IF loop = "sleeping"
       THEN loop' = "top" /\ UNCHANGED wakePending
       ELSE wakePending' = TRUE /\ UNCHANGED loop
  /\ owed' = TRUE

\* sleepUntilWake(): a note left by notify() makes it return at once.
SleepUntilWake ==
  /\ loop' = IF wakePending THEN "top" ELSE "sleeping"
  /\ wakePending' = FALSE

\* Mutant: a claim for the whole concurrency, whatever is in flight.
AllSlots == Concurrency

FreeSlots == Concurrency - Cardinality(inFlight)

\* Write one column set of row m, as every UPDATE ... WHERE id = does: whoever holds it.
SetRow(m, st) ==
  /\ status' = [status EXCEPT ![m] = st]
  /\ elapsed' = [elapsed EXCEPT ![m] = FALSE]
  /\ UNCHANGED <<attempts, reaps>>

-----------------------------------------------------------------------------
(* The producer: a store handler inserts the media row with the message,   *)
(* and calls notify() when the rest of its work is done.                   *)

\* Mutant: ON CONFLICT DO UPDATE, a message seen again starts its row over.
IngestAgain(m) ==
  /\ loop # "down" /\ status[m] \in {"absent", "done", "failed", "skipped"}
  /\ status' = [status EXCEPT ![m] = "pending"]
  /\ elapsed' = [elapsed EXCEPT ![m] = TRUE]
  /\ handling' = handling \union {m}
  /\ UNCHANGED <<attempts, reaps, stores, worker, wakePending, inFlight, bounds, owed>>

Ingest(m) ==
  /\ loop # "down" /\ status[m] = "absent"
  /\ status' = [status EXCEPT ![m] = "pending"]
  /\ elapsed' = [elapsed EXCEPT ![m] = TRUE]
  /\ handling' = handling \union {m}
  /\ UNCHANGED <<attempts, reaps, stores, worker, wakePending, inFlight, bounds, owed>>

HandlerReturns(m) ==
  /\ m \in handling
  /\ handling' = handling \ {m}
  /\ \/ Notify /\ UNCHANGED bounds
     \/ Fault /\ UNCHANGED wake           \* run() catches what the handler throws
  /\ UNCHANGED <<table, stores, claim, running, reapDue, storage, inFlight>>

-----------------------------------------------------------------------------
(* loop(): from one await to the next.                                     *)

\* The top of the while: stop, idle without storage, idle without a free slot, or go on.
LoopTop ==
  /\ loop = "top"
  /\ \/ /\ ~running
        /\ loop' = "stopped"
        /\ UNCHANGED <<wakePending, limit, reapDue>>
     \/ /\ running /\ (storage = "noop" \/ FreeSlots <= 0)
        /\ SleepUntilWake
        /\ UNCHANGED <<limit, reapDue>>
     \/ /\ running /\ storage # "noop" /\ FreeSlots > 0
        /\ limit' = Smaller(FreeSlots, BatchSize)
        /\ loop' = IF reapDue THEN "reaping" ELSE "claiming"
        /\ reapDue' = FALSE
        /\ UNCHANGED wakePending
  /\ UNCHANGED <<table, stores, returned, running, inFlight, storage, handling, bounds, owed>>

\* Mutant: every lease is taken back, lapsed or not.
HeldRows == {m \in Media : status[m] = "in_progress"}

Expired == {m \in Media : status[m] = "in_progress" /\ elapsed[m]}

\* reapExpiredLeases(); a failure is logged and the loop goes on.
ReapExpiredLeases ==
  /\ loop = "reaping"
  /\ loop' = "claiming"
  /\ \/ /\ status' = [m \in Media |-> IF m \in Expired THEN "pending" ELSE status[m]]
        /\ reaps' = [m \in Media |-> IF m \in Expired THEN reaps[m] + 1 ELSE reaps[m]]
        /\ UNCHANGED bounds
     \/ Fault /\ UNCHANGED <<status, reaps>>
  /\ UNCHANGED <<attempts, elapsed, stores, claim, running, wakePending, reapDue, inFlight,
                 storage, handling, owed>>

Ready == {m \in Media : status[m] = "pending" /\ elapsed[m]}

\* The rows one claim takes: as many as the limit allows, the highest ranks first.
Batches ==
  {S \in SUBSET Ready :
     /\ Cardinality(S) = Smaller(limit, Cardinality(Ready))
     /\ \A m \in S, n \in Ready \ S : Rank[m] >= Rank[n]}

Stamp(S) ==
  /\ status' = [m \in Media |-> IF m \in S THEN "in_progress" ELSE status[m]]
  /\ attempts' = [m \in Media |-> IF m \in S THEN attempts[m] + 1 ELSE attempts[m]]
  /\ elapsed' = [m \in Media |-> IF m \in S THEN FALSE ELSE elapsed[m]]
  /\ UNCHANGED reaps

\* claimBatch() runs in the database; it may fail there, or its answer may be lost.
ClaimBatch ==
  /\ loop = "claiming"
  /\ loop' = "claimed"
  /\ \/ \E S \in Batches : Stamp(S) /\ returned' = S /\ UNCHANGED bounds
     \/ Fault /\ returned' = {} /\ UNCHANGED table
     \/ Fault /\ returned' = {} /\ \E S \in Batches : Stamp(S)
  /\ owed' = FALSE
  /\ UNCHANGED <<stores, limit, running, wakePending, reapDue, inFlight, storage, handling>>

NewJobs == {[media |-> m, attempt |-> attempts[m], at |-> "fetching"] : m \in returned}

\* Back in the loop with rows: start a job for each and look for more.
StartJobs ==
  /\ loop = "claimed" /\ returned # {}
  /\ loop' = "top"
  /\ inFlight' = inFlight \union NewJobs
  /\ returned' = {}
  /\ UNCHANGED <<table, stores, limit, running, wakePending, reapDue, storage, handling, bounds,
                 owed>>

\* Back without rows: leave if stopping, sleep otherwise.
ClaimedNothing ==
  /\ loop = "claimed" /\ returned = {}
  /\ IF running THEN SleepUntilWake ELSE loop' = "stopped" /\ UNCHANGED wakePending
  /\ UNCHANGED <<table, stores, claim, running, reapDue, inFlight, storage, handling, bounds,
                 owed>>

\* The idle timer of sleepUntilWake().
PollTimeout ==
  /\ loop = "sleeping"
  /\ loop' = "top"
  /\ UNCHANGED <<table, stores, claim, running, wakePending, reapDue, inFlight, storage,
                 handling, bounds, owed>>

-----------------------------------------------------------------------------
(* One job: processRow() around downloadOne().                             *)

Finish(j) == inFlight' = inFlight \ {j} /\ Notify

Resume(j, at) ==
  /\ inFlight' = (inFlight \ {j}) \union {[j EXCEPT !.at = at]}
  /\ UNCHANGED <<loop, wakePending, owed>>

\* The UPDATE is committed and its answer does not come back: downloadOne throws.
LoseAnswer(j) == j.media \notin Orderly /\ Fault /\ Resume(j, "failing")

\* Type or size refused, no raw message, or an error that is not transient.
GiveUpAtOnce(j) ==
  /\ j.at = "fetching"
  /\ \E st \in {"skipped", "failed"} : SetRow(j.media, st)
  /\ \/ Finish(j) /\ UNCHANGED bounds
     \/ LoseAnswer(j)
  /\ UNCHANGED <<stores, claim, running, reapDue, storage, handling>>

\* The object of row m, which an earlier attempt may have put there already.
Put(m) == bucket' = bucket \union {m}

\* The bytes are downloaded, decrypted and put in the bucket.
Store(j) ==
  /\ j.at = "fetching"
  /\ Put(j.media)
  /\ Resume(j, "storing")
  /\ UNCHANGED <<table, queued, claim, running, reapDue, storage, handling, bounds>>

\* Mutant: the row is marked done before its bytes are put in the bucket.
RecordDoneEarly(j) ==
  /\ j.at = "fetching"
  /\ SetRow(j.media, "done")
  /\ Resume(j, "enqueueing")
  /\ UNCHANGED <<stores, claim, running, reapDue, storage, handling, bounds>>

\* The row is marked done, without a look at who holds it by now; the statement
\* may fail, or only its answer.
RecordDone(j) ==
  /\ j.at = "storing"
  /\ \/ SetRow(j.media, "done") /\ Resume(j, "enqueueing") /\ UNCHANGED bounds
     \/ SetRow(j.media, "done") /\ LoseAnswer(j)
     \/ UNCHANGED table /\ Fault /\ Resume(j, "failing")
  /\ UNCHANGED <<stores, claim, running, reapDue, storage, handling>>

\* enqueueProcessing(): insert the processing job unless it exists; errors are swallowed.
EnqueueProcessing(j) ==
  /\ j.at = "enqueueing"
  /\ \/ queued' = queued \union ({j.media} \intersect Routed) /\ UNCHANGED bounds
     \/ Fault /\ UNCHANGED queued
  /\ Finish(j)
  /\ UNCHANGED <<table, bucket, claim, running, reapDue, storage, handling>>

\* Mutant: one attempt too many.
AfterRetryOneMore(j) == IF j.attempt > MaxAttempts THEN "failed" ELSE "pending"

\* The status a retry leaves: by the attempt this job claimed, not the row's.
AfterRetry(j) == IF j.attempt >= MaxAttempts THEN "failed" ELSE "pending"

\* A transient download or upload error, or a statement that threw: back to
\* pending with a backoff, or failed after the last attempt.
Retry(j) ==
  /\ j.at \in {"fetching", "failing"}
  /\ SetRow(j.media, AfterRetry(j))
  /\ Finish(j)
  /\ UNCHANGED <<stores, claim, running, reapDue, storage, handling, bounds>>

\* That last statement fails: the row stays as it is.
LoseOutcome(j) ==
  /\ j.at \in {"fetching", "failing"}
  /\ Fault
  /\ Finish(j)
  /\ UNCHANGED <<table, stores, claim, running, reapDue, storage, handling>>

JobStep(j) ==
  \/ GiveUpAtOnce(j) \/ Store(j) \/ RecordDone(j) \/ EnqueueProcessing(j)
  \/ Retry(j) \/ LoseOutcome(j)

-----------------------------------------------------------------------------
(* Time.                                                                   *)

BackoffPasses(m) ==
  /\ status[m] = "pending" /\ ~elapsed[m]
  /\ elapsed' = [elapsed EXCEPT ![m] = TRUE]
  /\ UNCHANGED <<status, attempts, reaps, stores, worker, wakePending, inFlight, handling,
                 bounds, owed>>

LeaseLapses(m) ==
  /\ status[m] = "in_progress" /\ ~elapsed[m]
  /\ m \in Orderly => m \notin returned /\ \A j \in inFlight : j.media # m
  /\ elapsed' = [elapsed EXCEPT ![m] = TRUE]
  /\ UNCHANGED <<status, attempts, reaps, stores, worker, wakePending, inFlight, handling,
                 bounds, owed>>

\* Mutant: the reaper runs at boot only.
ReapAtBootOnly == FALSE /\ UNCHANGED vars

ReapIntervalPasses ==
  /\ loop # "down" /\ ~reapDue
  /\ reapDue' = TRUE
  /\ UNCHANGED <<table, stores, loop, claim, running, wakePending, inFlight, storage, handling,
                 bounds, owed>>

-----------------------------------------------------------------------------
(* The life of the process.                                                *)

\* stop(): the loop ends at its next turn, jobs in flight go on.
Stop ==
  /\ loop # "down" /\ running /\ restarts < MaxRestarts
  /\ running' = FALSE
  /\ Notify
  /\ UNCHANGED <<table, stores, claim, reapDue, inFlight, storage, handling, bounds>>

\* A crash, a kill, or the exit that follows stop() when its 20 s for the jobs
\* in flight are over: all that lives in memory is gone.
ProcessDies ==
  /\ loop # "down" /\ restarts < MaxRestarts
  /\ loop' = "down"
  /\ inFlight' = {} /\ handling' = {}
  /\ limit' = 0 /\ returned' = {} /\ running' = FALSE /\ wakePending' = FALSE /\ reapDue' = TRUE
  /\ owed' = FALSE
  /\ restarts' = restarts + 1
  /\ UNCHANGED <<table, stores, storage, faults>>

\* start() in a new process: lastReapAt is 0, so it reaps before its first claim.
Boot ==
  /\ loop = "down"
  /\ loop' = "top" /\ running' = TRUE
  /\ storage' \in Backends
  /\ UNCHANGED <<table, stores, claim, wakePending, reapDue, inFlight, handling, bounds, owed>>

-----------------------------------------------------------------------------
Loop == LoopTop \/ ReapExpiredLeases \/ ClaimBatch \/ StartJobs \/ ClaimedNothing \/ PollTimeout

Next ==
  \/ \E m \in Media : Ingest(m) \/ HandlerReturns(m) \/ BackoffPasses(m) \/ LeaseLapses(m)
  \/ Loop
  \/ \E j \in inFlight : JobStep(j)
  \/ ReapIntervalPasses
  \/ Stop \/ ProcessDies \/ Boot

Spec == Init /\ [][Next]_vars

\* The event loop resumes what is runnable, timers fire, every download ends
\* one way or another, and the service manager restarts the process. Nothing
\* is assumed of the producers, of stop() or of crashes.
Fairness ==
  /\ WF_vars(Loop)
  /\ WF_vars(ReapIntervalPasses)
  /\ WF_vars(Boot)
  /\ WF_vars(loop = "stopped" /\ ProcessDies)
  /\ \A m \in Media :
       /\ WF_vars(HandlerReturns(m))
       /\ WF_vars(BackoffPasses(m))
       /\ WF_vars(LeaseLapses(m))
       /\ WF_vars(\E j \in inFlight : j.media = m /\ JobStep(j))

FairSpec == Spec /\ Fairness

-----------------------------------------------------------------------------
(* Properties.                                                             *)

\* A row is never tried more often than MEDIA_MAX_ATTEMPTS plus once for each
\* lease the reaper took back, whatever stale jobs write (claimBatch counts
\* the attempt, processRow enforces the cap, reapExpiredLeases ignores it).
AttemptsBounded == \A m \in Media : attempts[m] <= MaxAttempts + reaps[m]

\* The worker never runs more jobs than MEDIA_DOWNLOAD_CONCURRENCY, though the
\* limit of a claim is computed before two awaits and used after them.
ConcurrencyRespected == Cardinality(inFlight) <= Concurrency

\* A row is done, or has a processing job, only when its object is in the
\* bucket: the order of put, UPDATE and INSERT in downloadOne survives crashes
\* and stale jobs.
DoneMeansStored ==
  /\ \A m \in Media : status[m] = "done" => m \in bucket
  /\ queued \subseteq bucket \intersect Routed

\* The job of an orderly row owns it, at the attempt it claimed, and the row is
\* in progress, or done once recorded. This is what lets every UPDATE of a job
\* name the row by id alone (downloader.ts, worker.ts).
OwnsRow(j) ==
  /\ attempts[j.media] = j.attempt
  /\ \/ status[j.media] = "in_progress" /\ j.at # "enqueueing"
     \/ status[j.media] = "done" /\ j.at = "enqueueing"
SoleOwner ==
  /\ \A j \in inFlight : j.media \in Orderly => OwnsRow(j)
  /\ \A j, k \in inFlight : j.media \in Orderly /\ j.media = k.media => j = k
  /\ \A m \in returned \intersect Orderly :
       status[m] = "in_progress" /\ \A j \in inFlight : j.media # m

\* SCHEMA.md draws done, failed and skipped as terminal: a row that reached one
\* of them keeps it, in the code if the row is orderly.
KeepsTerminal(S) == \A m \in S : status[m] \in Terminal => status'[m] = status[m]
TerminalIsFinal == [][KeepsTerminal(Orderly)]_vars

\* While the worker sleeps with storage and a free slot, every notify() so far
\* has been followed by a claim: wakePending closes the gap between an empty
\* claim and the sleep.
NoLostWake ==
  loop = "sleeping" /\ storage # "noop" /\ FreeSlots > 0 => ~owed

\* Every ingested row ends done, failed or skipped, across crashes, lost
\* notifications and failed statements.
EventuallyTerminal == \A m \in Media : status[m] = "pending" ~> status[m] \in Terminal

\* For orderly rows the queue implements the job board.
Place(st) ==
  CASE st = "pending" -> "waiting" [] st = "in_progress" -> "held" [] OTHER -> st
Board == INSTANCE JobBoard
           WITH Jobs <- Orderly, Outcomes <- Terminal,
                state <- [m \in Orderly |-> Place(status[m])]
BoardSpec == Board!Spec
===============================================================================
