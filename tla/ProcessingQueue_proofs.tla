------------------------ MODULE ProcessingQueue_proofs ------------------------
(***************************************************************************)
(* Theorems about ProcessingQueue, for every set of rows, registry of      *)
(* processors, concurrency, batch size, retry cap and number of crashes    *)
(* and failed statements.                                                  *)
(***************************************************************************)
EXTENDS ProcessingQueue, Counting

USE DEF lease, output, claim, bounds, wake, Resume

(***************************************************************************)
(* The type invariant, inductive once inFlight is known to be finite.      *)
(***************************************************************************)
TypeInv == TypeOK /\ IsFiniteSet(inFlight)

\* A claim starts at most one job for each row it brought back.
LEMMA NewJobsAreFew ==
  ASSUME TypeOK
  PROVE  /\ NewJobs \subseteq Job
         /\ IsFiniteSet(NewJobs)
         /\ Cardinality(NewJobs) <= Cardinality(returned)
<1> DEFINE row == [j \in NewJobs |-> j.media]
<1>1. IsFiniteSet(returned)
  BY ConstantsAssumption, FS_Subset DEF TypeOK, Values
<1>2. row \in Injection(NewJobs, returned)
  BY DEF Injection, IsInjective, NewJobs
<1>3. IsFiniteSet(NewJobs) /\ Cardinality(NewJobs) <= Cardinality(returned)
  BY ONLY <1>1, <1>2, FS_Injection
<1>4. NewJobs \subseteq Job
  BY DEF NewJobs, Job, Stages, TypeOK, Values
<1>. QED  BY <1>3, <1>4

LEMMA FreeSlotsType ==
  ASSUME IsFiniteSet(inFlight)
  PROVE  FreeSlots \in Int /\ FreeSlots <= Concurrency
BY FS_CardinalityType, ConstantsAssumption DEF FreeSlots

LEMMA TypeInit == Init => TypeInv
<1> USE ConstantsAssumption DEF Init
<1>1. Init => Values                  BY DEF Values, Statuses
<1>2. Init => Flags                   BY DEF Flags
<1>3. Init => IsFiniteSet(inFlight)   BY FS_EmptySet
<1>. QED  BY <1>1, <1>2, <1>3 DEF TypeInv, TypeOK

LEMMA ValuesStep == TypeInv /\ [Next]_vars => Values'
<1> SUFFICES ASSUME TypeInv, Values, [Next]_vars PROVE Values'
  BY DEF TypeInv, TypeOK
<1> USE ConstantsAssumption DEF Values, Statuses
<1>1. ASSUME NEW m \in Media, Enqueue(m) \/ EmitEnqueued(m) PROVE Values'
  BY <1>1 DEF Enqueue, EmitEnqueued, Notify
<1>2. CASE LoopTop
  BY <1>2, FreeSlotsType DEF LoopTop, SleepUntilWake, Smaller, TypeInv
<1>3. CASE ReapExpiredLeases
  BY <1>3 DEF ReapExpiredLeases, Fault
<1>4. CASE ClaimBatch
  <2>1. ASSUME NEW S \in Batches, Stamp(S)
        PROVE  /\ status' \in [Media -> Statuses]
               /\ attempts' \in [Media -> Nat]
               /\ reaps' \in [Media -> Nat]
               /\ S \subseteq Media
    BY <2>1 DEF Stamp, Batches, Ready
  <2>. QED  BY <1>4, <2>1 DEF ClaimBatch, Fault
<1>5. CASE StartJobs
  BY <1>5, NewJobsAreFew DEF StartJobs, TypeInv
<1>6. CASE ClaimedNothing
  BY <1>6 DEF ClaimedNothing, SleepUntilWake
<1>7. CASE PollTimeout
  BY <1>7 DEF PollTimeout
<1>8. ASSUME NEW j \in inFlight, JobStep(j) PROVE Values'
  <2> USE DEF Job, Stages, Finish, Notify, SetRow, Fault, Terminal
  <2>1. CASE RejectUnknown(j)  BY <2>1 DEF RejectUnknown
  <2>2. CASE Answer(j)         BY <2>2 DEF Answer
  <2>3. CASE RecordDone(j)     BY <2>3 DEF RecordDone
  <2>4. CASE Announce(j)       BY <2>4 DEF Announce
  <2>5. CASE Retry(j)          BY <2>5 DEF Retry, AfterRetry
  <2>6. CASE LoseOutcome(j)    BY <2>6 DEF LoseOutcome
  <2>. QED  BY <1>8, <2>1, <2>2, <2>3, <2>4, <2>5, <2>6 DEF JobStep
<1>9. ASSUME NEW m \in Media, BackoffPasses(m) \/ LeaseLapses(m) PROVE Values'
  BY <1>9 DEF BackoffPasses, LeaseLapses
<1>10. CASE ReapIntervalPasses \/ DetachEnqueuer
  BY <1>10 DEF ReapIntervalPasses, DetachEnqueuer
<1>11. CASE Stop
  BY <1>11 DEF Stop, Notify
<1>12. CASE ProcessDies
  BY <1>12 DEF ProcessDies
<1>13. CASE Boot
  BY <1>13 DEF Boot
<1>14. CASE UNCHANGED vars
  BY <1>14 DEF vars
<1>. QED
  BY <1>1, <1>2, <1>3, <1>4, <1>5, <1>6, <1>7, <1>8, <1>9, <1>10, <1>11, <1>12, <1>13, <1>14
     DEF Next, Loop

LEMMA FlagsStep == TypeInv /\ [Next]_vars => Flags'
<1> SUFFICES ASSUME Flags, [Next]_vars PROVE Flags'
  BY DEF TypeInv, TypeOK
<1> USE DEF Flags, Notify, SleepUntilWake, SetRow, Stamp, Finish
<1>1. ASSUME NEW m \in Media, Enqueue(m) \/ EmitEnqueued(m) PROVE Flags'
  BY <1>1 DEF Enqueue, EmitEnqueued
<1>2. CASE Loop
  <2>1. CASE LoopTop  BY <2>1 DEF LoopTop
  <2>2. CASE ReapExpiredLeases  BY <2>2 DEF ReapExpiredLeases
  <2>3. CASE ClaimBatch  BY <2>3 DEF ClaimBatch
  <2>4. CASE StartJobs \/ ClaimedNothing \/ PollTimeout
    BY <2>4 DEF StartJobs, ClaimedNothing, PollTimeout
  <2>. QED  BY <1>2, <2>1, <2>2, <2>3, <2>4 DEF Loop
<1>3. ASSUME NEW j \in inFlight, JobStep(j) PROVE Flags'
  <2>1. CASE RejectUnknown(j) \/ Answer(j) \/ Announce(j) \/ Retry(j) \/ LoseOutcome(j)
    BY <2>1 DEF RejectUnknown, Answer, Announce, Retry, LoseOutcome
  <2>2. CASE RecordDone(j)
    BY <2>2 DEF RecordDone
  <2>. QED  BY <1>3, <2>1, <2>2 DEF JobStep
<1>4. ASSUME NEW m \in Media, BackoffPasses(m) \/ LeaseLapses(m) PROVE Flags'
  BY <1>4 DEF BackoffPasses, LeaseLapses
<1>5. CASE ReapIntervalPasses \/ DetachEnqueuer \/ Stop \/ ProcessDies \/ Boot
  BY <1>5 DEF ReapIntervalPasses, DetachEnqueuer, Stop, ProcessDies, Boot
<1>6. CASE UNCHANGED vars
  BY <1>6 DEF vars
<1>. QED
  BY <1>1, <1>2, <1>3, <1>4, <1>5, <1>6 DEF Next

\* A job's step takes the job out, or puts it back at another stage.
LEMMA JobMoves ==
  ASSUME NEW j \in inFlight, JobStep(j)
  PROVE  /\ returned' = returned /\ limit' = limit /\ attempts' = attempts /\ reaps' = reaps
         /\ enqueued' = enqueued /\ running' = running /\ attached' = attached
         /\ \/ inFlight' = inFlight \ {j} /\ Notify
            \/ UNCHANGED wake /\ \E st \in Stages : Resume(j, st)
BY DEF JobStep, RejectUnknown, Answer, RecordDone, Announce, Retry, LoseOutcome, Finish, SetRow,
       Stages

LEMMA FiniteStep == TypeInv /\ [Next]_vars => IsFiniteSet(inFlight)'
<1> SUFFICES ASSUME TypeInv, [Next]_vars PROVE IsFiniteSet(inFlight')
  OBVIOUS
<1> USE DEF TypeInv
<1>1. CASE inFlight' = inFlight
  BY <1>1
<1>2. CASE StartJobs
  BY <1>2, NewJobsAreFew, FS_Union DEF StartJobs
<1>3. ASSUME NEW j \in inFlight, JobStep(j) PROVE IsFiniteSet(inFlight')
  <2>1. \/ inFlight' = inFlight \ {j}
        \/ \E k : inFlight' = (inFlight \ {j}) \union {k}
    BY <1>3, JobMoves
  <2>2. IsFiniteSet(inFlight \ {j})
    BY CountRemove
  <2>3. ASSUME NEW k PROVE IsFiniteSet((inFlight \ {j}) \union {k})
    BY CountReplace
  <2>. QED  BY <2>1, <2>2, <2>3
<1>4. CASE ProcessDies
  BY <1>4, FS_EmptySet DEF ProcessDies
<1>5. inFlight' = inFlight \/ StartJobs \/ (\E j \in inFlight : JobStep(j)) \/ ProcessDies
  BY DEF Next, Loop, vars, Enqueue, EmitEnqueued, BackoffPasses, LeaseLapses, LoopTop,
     ReapExpiredLeases, ClaimBatch, ClaimedNothing, PollTimeout, ReapIntervalPasses,
     DetachEnqueuer, Stop, Boot
<1>. QED  BY <1>1, <1>2, <1>3, <1>4, <1>5

LEMMA TypeStep ==
  ASSUME TypeInv, [Next]_vars, orderly' = orderly
  PROVE  TypeInv'
BY ValuesStep, FlagsStep, FiniteStep DEF TypeInv, TypeOK

\* A step of Spec is one of Next, and the rows that are orderly stay so.
LEMMA SpecStep ==
  ASSUME [Next /\ UNCHANGED orderly]_<<vars, orderly>>
  PROVE  [Next]_vars /\ orderly' = orderly
OBVIOUS

\* Every variable keeps its type, and the jobs in flight stay finitely many.
THEOREM TypeCorrect == Spec => []TypeOK
<1>1. TypeInv => TypeOK  BY DEF TypeInv
<1>. QED  BY TypeInit, TypeStep, SpecStep, <1>1, PTL DEF Spec

(***************************************************************************)
(* The slots of the worker, and its wake-ups.                              *)
(***************************************************************************)

\* A claim's rows are handed to jobs before the loop does anything else.
HandedOver == loop # "claimed" => returned = {}

\* The free slots a claim's limit was computed from are still free when its
\* rows arrive: nothing but the loop starts jobs.
SlotsKept ==
  /\ loop \in {"reaping", "claiming"} => Cardinality(inFlight) + limit <= Concurrency
  /\ Cardinality(inFlight) + Cardinality(returned) <= Concurrency

\* An attempt of a row is one job, and it is over when the row is claimed again:
\* however many jobs of a row overlap, they can be told apart.
OneJobPerAttempt ==
  /\ \A j \in inFlight : j.attempt <= attempts[j.media]
  /\ \A j \in inFlight : j.media \in returned => j.attempt < attempts[j.media]
  /\ \A j, k \in inFlight : j.media = k.media /\ j.attempt = k.attempt => j = k

\* A notify() that no claim has followed is remembered, or a claim is on its way,
\* or the worker sleeps because its slots are taken: the job that frees one wakes it.
Woken ==
  /\ loop = "sleeping" => ~wakePending
  /\ owed => \/ wakePending
             \/ loop \in {"top", "reaping", "claiming", "stopped", "down"}
             \/ loop = "sleeping" /\ FreeSlots <= 0

WInv == TypeInv /\ HandedOver /\ SlotsKept /\ OneJobPerAttempt /\ Woken

LEMMA WInvInit == Init => WInv
<1> SUFFICES ASSUME Init PROVE WInv
  OBVIOUS
<1>1. TypeInv /\ Cardinality(inFlight) = 0 /\ Cardinality(returned) = 0
  BY TypeInit, FS_EmptySet DEF Init
<1>. QED
  BY <1>1, ConstantsAssumption
     DEF Init, WInv, HandedOver, SlotsKept, OneJobPerAttempt, Woken

LEMMA HandedOverStep == HandedOver /\ [Next]_vars => HandedOver'
<1> SUFFICES ASSUME HandedOver, [Next]_vars PROVE HandedOver'
  OBVIOUS
<1> USE DEF HandedOver, Notify, SleepUntilWake
<1>1. ASSUME NEW m \in Media, Enqueue(m) \/ EmitEnqueued(m) PROVE HandedOver'
  BY <1>1 DEF Enqueue, EmitEnqueued
<1>2. CASE Loop
  BY <1>2 DEF Loop, LoopTop, ReapExpiredLeases, ClaimBatch, StartJobs, ClaimedNothing, PollTimeout
<1>3. ASSUME NEW j \in inFlight, JobStep(j) PROVE HandedOver'
  BY <1>3, JobMoves
<1>4. ASSUME NEW m \in Media, BackoffPasses(m) \/ LeaseLapses(m) PROVE HandedOver'
  BY <1>4 DEF BackoffPasses, LeaseLapses
<1>5. CASE ReapIntervalPasses \/ DetachEnqueuer \/ Stop \/ ProcessDies \/ Boot \/ UNCHANGED vars
  BY <1>5 DEF ReapIntervalPasses, DetachEnqueuer, Stop, ProcessDies, Boot, vars
<1>. QED  BY <1>1, <1>2, <1>3, <1>4, <1>5 DEF Next

LEMMA OneJobPerAttemptStep ==
  ASSUME TypeInv, HandedOver, OneJobPerAttempt, [Next]_vars
  PROVE  OneJobPerAttempt'
<1>0. inFlight \subseteq Job /\ returned \subseteq Media /\ attempts \in [Media -> Nat]
  BY DEF TypeInv, TypeOK, Values
<1> USE <1>0 DEF OneJobPerAttempt
<1>1. CASE inFlight' = inFlight /\ attempts' = attempts /\ returned' = returned
  BY <1>1
<1>2. CASE ClaimBatch
  <2>1. inFlight' = inFlight /\ returned = {}
    BY <1>2 DEF ClaimBatch, HandedOver
  <2>2. ASSUME NEW S \in Batches, Stamp(S), returned' \in {S, {}} PROVE OneJobPerAttempt'
    <3>1. \A m \in Media : /\ attempts[m] \in Nat /\ attempts'[m] \in Nat
                           /\ attempts[m] <= attempts'[m]
                           /\ m \in S => attempts[m] < attempts'[m]
      BY <2>2 DEF Stamp
    <3>2. \A j \in inFlight : j.media \in Media /\ j.attempt \in Nat
      BY DEF Job
    <3>3. \A j \in inFlight : /\ j.attempt <= attempts'[j.media]
                              /\ j.media \in S => j.attempt < attempts'[j.media]
      BY <3>1, <3>2
    <3>. QED  BY <2>1, <2>2, <3>3
  <2>3. CASE returned' = {} /\ attempts' = attempts
    BY <2>1, <2>3
  <2>. QED  BY <1>2, <2>2, <2>3 DEF ClaimBatch
<1>3. CASE StartJobs
  <2>1. attempts' = attempts /\ inFlight' = inFlight \union NewJobs /\ returned' = {}
    BY <1>3 DEF StartJobs
  <2>2. \A j \in NewJobs : j.media \in returned /\ j.attempt = attempts[j.media]
    BY DEF NewJobs
  <2>3. \A j, k \in NewJobs : j.media = k.media => j = k
    BY DEF NewJobs
  <2>. QED  BY <2>1, <2>2, <2>3 DEF Job
<1>4. ASSUME NEW j \in inFlight, JobStep(j) PROVE OneJobPerAttempt'
  <2>1. attempts' = attempts /\ returned' = returned /\ j \in Job
    BY <1>4, JobMoves
  <2>2. ASSUME NEW st \in Stages, Resume(j, st) PROVE OneJobPerAttempt'
    BY <2>1, <2>2 DEF Job
  <2>3. CASE inFlight' = inFlight \ {j}
    BY <2>1, <2>3
  <2>. QED  BY <1>4, <2>2, <2>3, JobMoves
<1>5. CASE ProcessDies
  BY <1>5 DEF ProcessDies
<1>6. ASSUME NEW m \in Media,
             Enqueue(m) \/ EmitEnqueued(m) \/ BackoffPasses(m) \/ LeaseLapses(m)
      PROVE  OneJobPerAttempt'
  BY <1>1, <1>6 DEF Enqueue, EmitEnqueued, BackoffPasses, LeaseLapses
<1>7. CASE LoopTop \/ ReapExpiredLeases \/ ClaimedNothing \/ PollTimeout
  BY <1>1, <1>7 DEF LoopTop, ReapExpiredLeases, ClaimedNothing, PollTimeout
<1>8. CASE ReapIntervalPasses \/ DetachEnqueuer \/ Stop \/ Boot \/ UNCHANGED vars
  BY <1>1, <1>8 DEF ReapIntervalPasses, DetachEnqueuer, Stop, Boot, vars
<1>. QED
  BY <1>2, <1>3, <1>4, <1>5, <1>6, <1>7, <1>8 DEF Next, Loop

\* A job that goes on keeps its slot, one that ends frees it.
LEMMA JobsOnlyShrink ==
  ASSUME TypeInv, OneJobPerAttempt, NEW j \in inFlight, JobStep(j)
  PROVE  /\ Cardinality(inFlight') \in Nat /\ Cardinality(inFlight') <= Cardinality(inFlight)
         /\ \/ Notify
            \/ UNCHANGED wake /\ Cardinality(inFlight') = Cardinality(inFlight)
<1>1. IsFiniteSet(inFlight \ {j}) /\ Cardinality(inFlight) \in Nat
      /\ Cardinality(inFlight \ {j}) \in Nat
      /\ Cardinality(inFlight \ {j}) = Cardinality(inFlight) - 1
  BY CountRemove, CountType DEF TypeInv
<1>2. ASSUME NEW st \in Stages, Resume(j, st)
      PROVE  Cardinality(inFlight') = Cardinality(inFlight)
  <2> DEFINE k == [j EXCEPT !.at = st]
  <2>1. k \notin inFlight \ {j}
    BY DEF OneJobPerAttempt, Job, TypeInv, TypeOK, Values
  <2>2. inFlight' = (inFlight \ {j}) \union {k}
    BY <1>2
  <2>. QED
    <3> HIDE DEF k
    <3>1. Cardinality((inFlight \ {j}) \union {k}) = Cardinality(inFlight \ {j}) + 1
      BY <1>1, <2>1, FS_AddElement
    <3>. QED  BY <1>1, <2>2, <3>1
<1>3. CASE inFlight' = inFlight \ {j} /\ Notify
  BY <1>1, <1>3
<1>4. CASE UNCHANGED wake /\ \E st \in Stages : Resume(j, st)
  <2>1. Cardinality(inFlight') = Cardinality(inFlight)
    BY <1>2, <1>4
  <2>. QED  BY <1>1, <1>4, <2>1
<1>. QED  BY <1>3, <1>4, JobMoves

LEMMA SlotsKeptStep ==
  ASSUME TypeInv, HandedOver, SlotsKept, OneJobPerAttempt, [Next]_vars
  PROVE  SlotsKept'
<1> USE ConstantsAssumption DEF SlotsKept, TypeInv
<1>1. /\ Cardinality(inFlight) \in Nat
      /\ IsFiniteSet(returned) /\ Cardinality(returned) \in Nat
      /\ limit \in Nat
  BY FS_CardinalityType, FS_Subset DEF TypeOK, Values
<1>2. CASE /\ inFlight' = inFlight /\ returned' = returned /\ limit' = limit
           /\ loop' \in {"reaping", "claiming"} => loop \in {"reaping", "claiming"}
  BY <1>2
<1>3. CASE LoopTop
  <2>1. /\ inFlight' = inFlight /\ returned' = returned
        /\ \/ loop' \in {"top", "sleeping", "stopped"}
           \/ limit' = Smaller(FreeSlots, BatchSize)
    BY <1>3 DEF LoopTop, SleepUntilWake
  <2>. QED  BY <1>1, <2>1 DEF FreeSlots, Smaller
<1>4. CASE ClaimBatch
  <2>1. ASSUME NEW S \in Batches PROVE Cardinality(S) \in Nat /\ Cardinality(S) <= limit
    <3>1. IsFiniteSet(Ready) /\ Cardinality(Ready) \in Nat
      BY FS_Subset, FS_CardinalityType DEF Ready
    <3>2. IsFiniteSet(S)
      BY <3>1, FS_Subset DEF Batches
    <3>. QED  BY <1>1, <3>1, <3>2, FS_CardinalityType DEF Batches, Smaller
  <2>2. loop = "claiming" /\ loop' = "claimed" /\ inFlight' = inFlight
    BY <1>4 DEF ClaimBatch
  <2>3. CASE returned' = {}
    BY <1>1, <2>2, <2>3, FS_EmptySet
  <2>4. CASE \E S \in Batches : returned' = S
    BY <1>1, <2>1, <2>2, <2>4
  <2>. QED  BY <1>4, <2>3, <2>4 DEF ClaimBatch
<1>5. CASE StartJobs
  <2>1. /\ IsFiniteSet(NewJobs) /\ Cardinality(NewJobs) \in Nat
        /\ Cardinality(NewJobs) <= Cardinality(returned)
    BY NewJobsAreFew, FS_CardinalityType
  <2>2. /\ Cardinality(inFlight \union NewJobs) \in Nat
        /\ Cardinality(inFlight \union NewJobs) <= Cardinality(inFlight) + Cardinality(NewJobs)
    BY <2>1, CountUnion
  <2>3. loop' = "top" /\ inFlight' = inFlight \union NewJobs /\ returned' = {}
    BY <1>5 DEF StartJobs
  <2>. QED  BY <1>1, <2>1, <2>2, <2>3, FS_EmptySet
<1>6. ASSUME NEW j \in inFlight, JobStep(j) PROVE SlotsKept'
  <2>1. /\ returned' = returned /\ limit' = limit
        /\ loop' \in {"reaping", "claiming"} => loop \in {"reaping", "claiming"}
    BY <1>6, JobMoves DEF Notify
  <2>2. Cardinality(inFlight') \in Nat /\ Cardinality(inFlight') <= Cardinality(inFlight)
    BY <1>6, JobsOnlyShrink
  <2>. QED  BY <1>1, <2>1, <2>2
<1>7. CASE ProcessDies
  <2>1. inFlight' = {} /\ returned' = {} /\ loop' = "down"
    BY <1>7 DEF ProcessDies
  <2>. QED  BY <2>1, FS_EmptySet
<1>8. ASSUME NEW m \in Media,
             Enqueue(m) \/ EmitEnqueued(m) \/ BackoffPasses(m) \/ LeaseLapses(m)
      PROVE  SlotsKept'
  BY <1>2, <1>8 DEF Enqueue, EmitEnqueued, BackoffPasses, LeaseLapses, Notify
<1>9. CASE ReapExpiredLeases \/ Boot
  BY <1>2, <1>9 DEF ReapExpiredLeases, Boot
<1>10. CASE ClaimedNothing \/ PollTimeout
  BY <1>2, <1>10 DEF ClaimedNothing, PollTimeout, SleepUntilWake
<1>11. CASE ReapIntervalPasses \/ DetachEnqueuer \/ Stop \/ UNCHANGED vars
  BY <1>2, <1>11 DEF ReapIntervalPasses, DetachEnqueuer, Stop, Notify, vars
<1>. QED
  BY <1>3, <1>4, <1>5, <1>6, <1>7, <1>8, <1>9, <1>10, <1>11 DEF Next, Loop

LEMMA WokenStep ==
  ASSUME TypeInv, OneJobPerAttempt, Woken, [Next]_vars
  PROVE  Woken'
<1> USE DEF Woken
<1>0. /\ loop \in {"top", "reaping", "claiming", "claimed", "sleeping", "stopped", "down"}
      /\ wakePending \in BOOLEAN /\ owed \in BOOLEAN
  BY DEF TypeInv, TypeOK, Values, Flags
<1>1. CASE Notify
  BY <1>0, <1>1 DEF Notify
<1>2. CASE UNCHANGED wake /\ FreeSlots' = FreeSlots
  BY <1>2
<1>3. inFlight' = inFlight => FreeSlots' = FreeSlots
  BY DEF FreeSlots
<1>4. ASSUME NEW m \in Media,
             Enqueue(m) \/ EmitEnqueued(m) \/ BackoffPasses(m) \/ LeaseLapses(m)
      PROVE  Woken'
  BY <1>1, <1>2, <1>3, <1>4 DEF Enqueue, EmitEnqueued, BackoffPasses, LeaseLapses
<1>5. CASE LoopTop
  BY <1>0, <1>3, <1>5 DEF LoopTop, SleepUntilWake
<1>6. CASE ReapExpiredLeases
  BY <1>6 DEF ReapExpiredLeases
<1>7. CASE ClaimBatch
  BY <1>7 DEF ClaimBatch
<1>8. CASE StartJobs \/ PollTimeout
  BY <1>8 DEF StartJobs, PollTimeout
<1>9. CASE ClaimedNothing
  BY <1>0, <1>9 DEF ClaimedNothing, SleepUntilWake
<1>10. ASSUME NEW j \in inFlight, JobStep(j) PROVE Woken'
  BY <1>1, <1>2, <1>10, JobMoves, JobsOnlyShrink DEF FreeSlots
<1>11. CASE ReapIntervalPasses \/ DetachEnqueuer \/ UNCHANGED vars
  BY <1>2, <1>3, <1>11 DEF ReapIntervalPasses, DetachEnqueuer, vars
<1>12. CASE Stop
  BY <1>1, <1>12 DEF Stop
<1>13. CASE ProcessDies \/ Boot
  BY <1>13 DEF ProcessDies, Boot
<1>. QED
  BY <1>4, <1>5, <1>6, <1>7, <1>8, <1>9, <1>10, <1>11, <1>12, <1>13 DEF Next, Loop

LEMMA WInvStep ==
  ASSUME WInv, [Next]_vars, orderly' = orderly
  PROVE  WInv'
BY TypeStep, HandedOverStep, SlotsKeptStep, OneJobPerAttemptStep, WokenStep DEF WInv

LEMMA WInvAlways == Spec => []WInv
BY WInvInit, WInvStep, SpecStep, PTL DEF Spec

\* loop() computes a claim's limit, awaits the reaper and the claim, and only then
\* starts jobs; still it never has more AI calls open than PROCESSING_CONCURRENCY.
THEOREM ConcurrencyIsRespected == Spec => [](Cardinality(inFlight) <= Concurrency)
<1>1. WInv => Cardinality(inFlight) <= Concurrency
  <2> SUFFICES ASSUME WInv PROVE Cardinality(inFlight) <= Concurrency
    OBVIOUS
  <2>1. IsFiniteSet(returned) /\ IsFiniteSet(inFlight)
    BY ConstantsAssumption, FS_Subset DEF WInv, TypeInv, TypeOK, Values
  <2>2. Cardinality(returned) \in Nat /\ Cardinality(inFlight) \in Nat /\ Concurrency \in Nat
    BY <2>1, CountType, ConstantsAssumption
  <2>. QED  BY <2>2 DEF WInv, SlotsKept
<1>. QED  BY WInvAlways, <1>1, PTL

\* While the worker sleeps with a free slot, no 'enqueued' event is unanswered,
\* wherever in its awaits the loop was when the event came.
THEOREM WakesAreKept == Spec => []NoLostWake
<1>1. WInv => NoLostWake
  BY FreeSlotsType, ConstantsAssumption DEF WInv, TypeInv, Woken, NoLostWake
<1>. QED  BY WInvAlways, <1>1, PTL

(***************************************************************************)
(* Ownership of orderly rows. The lease of one that is claimed or worked   *)
(* on cannot lapse, so the reaper leaves the row to its job.               *)
(***************************************************************************)

Unexpired ==
  /\ \A j \in inFlight :
       j.media \in orderly /\ status[j.media] = "in_progress" => ~elapsed[j.media]
  /\ \A m \in returned \intersect orderly : ~elapsed[m]

Owned == SoleOwner /\ Unexpired

LEMMA OwnedInit == Init => Owned
BY DEF Init, Owned, SoleOwner, Unexpired

\* What a job writes to its row does not touch the rows of others.
LEMMA OthersUntouched ==
  ASSUME TypeInv, Owned, NEW j \in inFlight,
         UNCHANGED lease \/ \E st \in Statuses : SetRow(j.media, st)
  PROVE  /\ \A k \in inFlight \ {j} :
              k.media \in orderly => /\ k.media # j.media
                                     /\ attempts'[k.media] = attempts[k.media]
                                     /\ elapsed'[k.media] = elapsed[k.media]
                                     /\ status'[k.media] = status[k.media]
         /\ \A m \in returned \intersect orderly :
              /\ m # j.media /\ status'[m] = "in_progress" /\ ~elapsed'[m]
         /\ attempts' = attempts
<1>1. /\ status \in [Media -> Statuses] /\ elapsed \in [Media -> BOOLEAN]
      /\ inFlight \subseteq Job /\ returned \subseteq Media
  BY DEF TypeInv, TypeOK, Values, Flags
<1>. QED  BY <1>1 DEF SetRow, Job, Owned, SoleOwner, Unexpired

\* An orderly job that goes on holds its row, or has just recorded its end.
LEMMA ResumeOwns ==
  ASSUME TypeInv, Owned, orderly' = orderly, returned' = returned,
         NEW j \in inFlight, NEW at \in Stages, Resume(j, at),
         UNCHANGED lease \/ \E st \in Statuses : SetRow(j.media, st),
         \/ j.media \notin orderly
         \/ status'[j.media] = "in_progress" /\ ~elapsed'[j.media] /\ at # "announcing"
         \/ status'[j.media] = "done" /\ at = "announcing"
  PROVE  Owned'
<1> DEFINE jx == [j EXCEPT !.at = at]
<1>1. j \in Job /\ inFlight \subseteq Job
  BY DEF TypeInv, TypeOK, Values
<1>2. inFlight' = (inFlight \ {j}) \union {jx}
  OBVIOUS
<1>3. jx.media = j.media /\ jx.attempt = j.attempt /\ jx.at = at
  BY <1>1 DEF Job
<1>4. /\ \A k \in inFlight \ {j} :
           k.media \in orderly => /\ OwnsRow(k)' /\ k.media # jx.media
                                  /\ (status'[k.media] = "in_progress" => ~elapsed'[k.media])
      /\ \A m \in returned \intersect orderly :
           /\ status'[m] = "in_progress" /\ ~elapsed'[m] /\ m # jx.media
           /\ \A k \in inFlight : k.media # m
  BY <1>3, OthersUntouched DEF OwnsRow, Owned, SoleOwner, Unexpired
<1>5. jx.media \in orderly =>
        OwnsRow(jx)' /\ (status'[jx.media] = "in_progress" => ~elapsed'[jx.media])
  BY <1>3, OthersUntouched DEF OwnsRow, Owned, SoleOwner
<1>6. \A k \in inFlight \ {j} :
        k.media \in orderly \/ jx.media \in orderly => k.media # jx.media
  BY <1>3 DEF Owned, SoleOwner
<1> HIDE DEF jx
<1>7. SoleOwner'
  <2>1. \A k \in inFlight' : k.media \in orderly' => OwnsRow(k)'
    BY <1>2, <1>4, <1>5
  <2>2. \A k, l \in inFlight' : k.media \in orderly' /\ k.media = l.media => k = l
    <3>1. \A k, l \in inFlight : k.media \in orderly /\ k.media = l.media => k = l
      BY DEF Owned, SoleOwner
    <3>. QED  BY <1>2, <1>6, <3>1
  <2>3. \A m \in returned' \intersect orderly' :
          status'[m] = "in_progress" /\ \A k \in inFlight' : k.media # m
    BY <1>2, <1>4
  <2>. QED  BY <2>1, <2>2, <2>3 DEF SoleOwner
<1>8. Unexpired'
  BY <1>2, <1>4, <1>5 DEF Unexpired
<1>. QED  BY <1>7, <1>8 DEF Owned

LEMMA JobKeepsOwned ==
  ASSUME TypeInv, Owned, orderly' = orderly, NEW j \in inFlight, JobStep(j)
  PROVE  Owned'
<1>0. /\ j \in Job /\ returned' = returned
      /\ status \in [Media -> Statuses] /\ elapsed \in [Media -> BOOLEAN]
  BY JobMoves DEF TypeInv, TypeOK, Values, Flags
<1>1. CASE inFlight' = inFlight \ {j}
           /\ (UNCHANGED lease \/ \E st \in Statuses : SetRow(j.media, st))
  BY <1>0, <1>1, OthersUntouched DEF Owned, SoleOwner, Unexpired, OwnsRow
<1>2. CASE RejectUnknown(j)
  BY <1>1, <1>2 DEF RejectUnknown, Finish, Statuses, Terminal
<1>3. CASE Answer(j)
  BY <1>0, <1>3, ResumeOwns DEF Answer, Stages, Owned, SoleOwner, Unexpired, OwnsRow
<1>4. CASE RecordDone(j)
  <2>1. CASE SetRow(j.media, "done") /\ \/ Resume(j, "announcing")
                                        \/ j.media \notin orderly /\ Resume(j, "failing")
    <3>1. status'[j.media] = "done"
      BY <1>0, <2>1 DEF SetRow, Job
    <3>2. "done" \in Statuses /\ "announcing" \in Stages /\ "failing" \in Stages
      BY DEF Statuses, Terminal, Stages
    <3>. QED  BY <1>0, <2>1, <3>1, <3>2, ResumeOwns
  <2>2. CASE UNCHANGED lease /\ Resume(j, "failing")
    BY <1>0, <1>4, <2>2, ResumeOwns DEF RecordDone, Stages, Owned, SoleOwner, Unexpired, OwnsRow
  <2>. QED  BY <1>4, <2>1, <2>2 DEF RecordDone
<1>5. CASE Announce(j) \/ LoseOutcome(j)
  BY <1>1, <1>5 DEF Announce, LoseOutcome, Finish
<1>6. CASE Retry(j)
  BY <1>1, <1>6 DEF Retry, AfterRetry, Finish, Statuses, Terminal
<1>. QED  BY <1>2, <1>3, <1>4, <1>5, <1>6 DEF JobStep

LEMMA OwnedStep ==
  ASSUME TypeInv, HandedOver, Owned, [Next]_vars, orderly' = orderly
  PROVE  Owned'
<1>0. /\ status \in [Media -> Statuses] /\ attempts \in [Media -> Nat]
      /\ elapsed \in [Media -> BOOLEAN]
      /\ inFlight \subseteq Job /\ returned \subseteq Media
  BY DEF TypeInv, TypeOK, Values, Flags
<1> USE <1>0 DEF Owned, SoleOwner, Unexpired, OwnsRow
<1>1. CASE inFlight' = inFlight /\ status' = status /\ attempts' = attempts
           /\ elapsed' = elapsed /\ returned' = returned
  BY <1>1
<1>2. ASSUME NEW m \in Media, Enqueue(m) PROVE Owned'
  <2>1. \A j \in inFlight : j.media \in orderly => j.media # m
    BY <1>2 DEF Enqueue
  <2>. QED  BY <1>2, <2>1 DEF Enqueue, Job
<1>3. ASSUME NEW m \in Media, EmitEnqueued(m) PROVE Owned'
  BY <1>1, <1>3 DEF EmitEnqueued
<1>4. ASSUME NEW m \in Media, BackoffPasses(m) PROVE Owned'
  BY <1>4 DEF BackoffPasses, Job
<1>5. ASSUME NEW m \in Media, LeaseLapses(m) PROVE Owned'
  BY <1>5 DEF LeaseLapses, Job
<1>6. CASE ReapExpiredLeases
  BY <1>6 DEF ReapExpiredLeases, Expired, Job
<1>7. CASE ClaimBatch
  <2>0. inFlight' = inFlight /\ returned = {}
    BY <1>7 DEF ClaimBatch, HandedOver
  <2>1. ASSUME NEW S \in Batches, Stamp(S), returned' \in {S, {}} PROVE Owned'
    <3>1. \A m \in S : m \in Media /\ status[m] = "pending"
      BY DEF Batches, Ready
    <3>2. \A j \in inFlight : j.media \in Media /\ (j.media \in orderly => j.media \notin S)
      BY <3>1 DEF Job
    <3>. QED  BY <2>0, <2>1, <3>1, <3>2 DEF Stamp
  <2>2. CASE returned' = {} /\ UNCHANGED lease
    BY <2>0, <2>2
  <2>. QED  BY <1>7, <2>1, <2>2 DEF ClaimBatch
<1>8. CASE StartJobs
  <2>1. /\ status' = status /\ attempts' = attempts /\ elapsed' = elapsed
        /\ inFlight' = inFlight \union NewJobs /\ returned' = {}
    BY <1>8 DEF StartJobs
  <2>2. \A j \in NewJobs : /\ j.media \in returned /\ j.attempt = attempts[j.media]
                          /\ j.at = "calling"
    BY DEF NewJobs
  <2>3. \A j, k \in NewJobs : j.media = k.media => j = k
    BY DEF NewJobs
  <2>. QED  BY <2>1, <2>2, <2>3
<1>9. ASSUME NEW j \in inFlight, JobStep(j) PROVE Owned'
  BY <1>9, JobKeepsOwned
<1>10. CASE ProcessDies
  BY <1>10 DEF ProcessDies
<1>11. CASE LoopTop \/ ClaimedNothing \/ PollTimeout \/ ReapIntervalPasses \/ DetachEnqueuer
            \/ Stop \/ Boot \/ UNCHANGED vars
  BY <1>1, <1>11 DEF LoopTop, ClaimedNothing, PollTimeout, ReapIntervalPasses, DetachEnqueuer,
                     Stop, Boot, vars
<1>. QED
  BY <1>2, <1>3, <1>4, <1>5, <1>6, <1>7, <1>8, <1>9, <1>10, <1>11 DEF Next, Loop

OInv == TypeInv /\ HandedOver /\ Owned

LEMMA OInvAlways == Spec => []OInv
<1>1. Init => OInv
  BY WInvInit, OwnedInit DEF OInv, WInv
<1>2. ASSUME OInv, [Next]_vars, orderly' = orderly PROVE OInv'
  BY <1>2, TypeStep, HandedOverStep, OwnedStep DEF OInv
<1>. QED  BY <1>1, <1>2, SpecStep, PTL DEF Spec

\* The job of an orderly row owns it, at the attempt it claimed, across crashes,
\* lost claims and lost outcomes, and whatever the jobs of other rows do.
THEOREM JobsOwnTheirRows == Spec => []SoleOwner
<1>1. OInv => SoleOwner
  BY DEF OInv, Owned
<1>. QED  BY OInvAlways, <1>1, PTL

(***************************************************************************)
(* What one step may do to the orderly rows: the moves of the job board.   *)
(***************************************************************************)
OrderlyIn(st) == {m \in orderly : status[m] = st}
Becomes(S, st) == \A m \in orderly : status'[m] = IF m \in S THEN st ELSE status[m]

\* A job's step leaves the orderly rows alone, or ends the one it holds.
LEMMA JobIsBoardMove ==
  ASSUME OInv, NEW j \in inFlight, JobStep(j)
  PROVE  \/ \A m \in orderly : status'[m] = status[m]
         \/ \E S \in SUBSET OrderlyIn("in_progress") : Becomes(S, "pending")
         \/ \E m \in OrderlyIn("in_progress"), st \in Terminal : Becomes({m}, st)
<1> USE DEF OrderlyIn, Becomes
<1>0. status \in [Media -> Statuses] /\ inFlight \subseteq Job /\ orderly \subseteq Media
  BY DEF OInv, TypeInv, TypeOK, Values
<1>1. CASE status' = status
  BY <1>1
<1>2. j \in Job /\ j.media \in Media /\ (j.media \in orderly => OwnsRow(j))
  BY <1>0 DEF OInv, Owned, SoleOwner, Job
<1>3. ASSUME NEW st, SetRow(j.media, st), j.media \notin orderly
      PROVE  \A m \in orderly : status'[m] = status[m]
  BY <1>0, <1>2, <1>3 DEF SetRow
<1>4. ASSUME j.at # "announcing", NEW st, SetRow(j.media, st), j.media \in orderly
      PROVE  j.media \in OrderlyIn("in_progress") /\ Becomes({j.media}, st)
  BY <1>0, <1>2, <1>4 DEF OwnsRow, SetRow
<1>5. ASSUME j.at # "announcing", NEW st \in Terminal, SetRow(j.media, st)
      PROVE  \/ \A m \in orderly : status'[m] = status[m]
             \/ \E m \in OrderlyIn("in_progress") : Becomes({m}, st)
  BY <1>3, <1>4, <1>5
<1>6. ASSUME j.at # "announcing", SetRow(j.media, "pending")
      PROVE  \/ \A m \in orderly : status'[m] = status[m]
             \/ \E S \in SUBSET OrderlyIn("in_progress") : Becomes(S, "pending")
  <2>1. CASE j.media \in orderly
    <3>1. {j.media} \in SUBSET OrderlyIn("in_progress") /\ Becomes({j.media}, "pending")
      BY <1>4, <1>6, <2>1
    <3>. QED  BY <3>1
  <2>. QED  BY <1>3, <1>6, <2>1
<1>7. CASE RejectUnknown(j)
  BY <1>5, <1>7 DEF RejectUnknown, Terminal
<1>8. CASE RecordDone(j)
  BY <1>1, <1>5, <1>8 DEF RecordDone, Terminal
<1>9. CASE Retry(j)
  BY <1>5, <1>6, <1>9 DEF Retry, AfterRetry, Terminal
<1>. QED
  BY <1>1, <1>7, <1>8, <1>9 DEF JobStep, Answer, Announce, LoseOutcome

LEMMA StepIsBoardMove ==
  ASSUME OInv, [Next]_vars
  PROVE  \/ \A m \in orderly : status'[m] = status[m]
         \/ \E S \in SUBSET OrderlyIn("absent") : Becomes(S, "pending")
         \/ \E S \in SUBSET OrderlyIn("pending") : Becomes(S, "in_progress")
         \/ \E S \in SUBSET OrderlyIn("in_progress") : Becomes(S, "pending")
         \/ \E m \in OrderlyIn("in_progress"), st \in Terminal : Becomes({m}, st)
<1> USE DEF OrderlyIn, Becomes
<1>0. status \in [Media -> Statuses] /\ orderly \subseteq Media
  BY DEF OInv, TypeInv, TypeOK, Values
<1>1. CASE status' = status
  BY <1>1
<1>2. ASSUME NEW m \in Media, Enqueue(m)
      PROVE  \E S \in SUBSET OrderlyIn("absent") : Becomes(S, "pending")
  <2>1. {m} \intersect orderly \in SUBSET OrderlyIn("absent")
    BY <1>2 DEF Enqueue
  <2>2. Becomes({m} \intersect orderly, "pending")
    BY <1>0, <1>2 DEF Enqueue
  <2>. QED  BY <2>1, <2>2
<1>3. CASE ReapExpiredLeases
  <2>1. CASE status' = [m \in Media |-> IF m \in Expired THEN "pending" ELSE status[m]]
    <3>1. Expired \intersect orderly \in SUBSET OrderlyIn("in_progress")
      BY DEF Expired
    <3>2. Becomes(Expired \intersect orderly, "pending")
      BY <1>0, <2>1
    <3>. QED  BY <3>1, <3>2
  <2>. QED  BY <1>1, <1>3, <2>1 DEF ReapExpiredLeases
<1>4. CASE ClaimBatch
  <2>1. ASSUME NEW S \in Batches, Stamp(S)
        PROVE  \E T \in SUBSET OrderlyIn("pending") : Becomes(T, "in_progress")
    <3>1. S \intersect orderly \in SUBSET OrderlyIn("pending")
      BY DEF Batches, Ready
    <3>2. Becomes(S \intersect orderly, "in_progress")
      BY <1>0, <2>1 DEF Stamp
    <3>. QED  BY <3>1, <3>2
  <2>. QED  BY <1>1, <1>4, <2>1 DEF ClaimBatch
<1>5. ASSUME NEW m \in Media, EmitEnqueued(m) \/ BackoffPasses(m) \/ LeaseLapses(m)
      PROVE  status' = status
  BY <1>5 DEF EmitEnqueued, BackoffPasses, LeaseLapses
<1>6. CASE LoopTop \/ StartJobs \/ ClaimedNothing \/ PollTimeout \/ ReapIntervalPasses
           \/ DetachEnqueuer \/ Stop \/ ProcessDies \/ Boot \/ UNCHANGED vars
  BY <1>1, <1>6 DEF LoopTop, StartJobs, ClaimedNothing, PollTimeout, ReapIntervalPasses,
                    DetachEnqueuer, Stop, ProcessDies, Boot, vars
<1>. QED
  BY <1>1, <1>2, <1>3, <1>4, <1>5, <1>6, JobIsBoardMove DEF Next, Loop

\* A row that is done, failed or skipped moves no more, if it is orderly.
LEMMA TerminalStays ==
  ASSUME OInv, [Next]_vars, NEW m \in orderly, status[m] \in Terminal
  PROVE  status'[m] = status[m]
<1>1. status[m] \notin {"absent", "pending", "in_progress"}
  BY DEF Terminal
<1>. QED  BY <1>1, StepIsBoardMove DEF OrderlyIn, Becomes

\* For orderly rows the AI queue implements the job board: leases, retries, the
\* reaper, crashes and shutdowns amount to rows taken, given back and settled once.
THEOREM ImplementsBoard == Spec => BoardSpec
<1> DEFINE state == [m \in Media |-> IF m \in orderly THEN Place(status[m]) ELSE "absent"]
<1>1. Init => Board!Init
  BY DEF Init, Board!Init, Place
<1>2. OInv /\ [Next]_vars /\ orderly' = orderly => [Board!Next]_state
  <2> SUFFICES ASSUME OInv, [Next]_vars, orderly' = orderly PROVE Board!Next \/ state' = state
    OBVIOUS
  <2>0. orderly \subseteq Media /\ status \in [Media -> Statuses]
    BY DEF OInv, TypeInv, TypeOK, Values
  <2>1. CASE \A m \in orderly : status'[m] = status[m]
    BY <2>1
  <2>2. ASSUME NEW S \in SUBSET orderly, NEW st, Becomes(S, st)
        PROVE  Board!Move(S, Place(st))
    BY <2>2 DEF Board!Move, Becomes
  <2>3. /\ OrderlyIn("absent") \subseteq Board!In("absent")
        /\ OrderlyIn("pending") \subseteq Board!In("waiting")
        /\ OrderlyIn("in_progress") \subseteq Board!In("held")
    BY <2>0 DEF OrderlyIn, Board!In, Place
  <2>4. /\ Place("pending") = "waiting" /\ Place("in_progress") = "held"
        /\ \A st \in Terminal : Place(st) = st
    BY DEF Place, Terminal
  <2>5. CASE \E S \in SUBSET OrderlyIn("absent") : Becomes(S, "pending")
    BY <2>2, <2>3, <2>4, <2>5 DEF Board!Next, Board!Post, OrderlyIn
  <2>6. CASE \E S \in SUBSET OrderlyIn("pending") : Becomes(S, "in_progress")
    BY <2>2, <2>3, <2>4, <2>6 DEF Board!Next, Board!Take, OrderlyIn
  <2>7. CASE \E S \in SUBSET OrderlyIn("in_progress") : Becomes(S, "pending")
    BY <2>2, <2>3, <2>4, <2>7 DEF Board!Next, Board!GiveBack, OrderlyIn
  <2>8. CASE \E m \in OrderlyIn("in_progress"), st \in Terminal : Becomes({m}, st)
    <3>1. PICK m \in OrderlyIn("in_progress"), st \in Terminal : Becomes({m}, st)
      BY <2>8
    <3>2. {m} \in SUBSET orderly
      BY DEF OrderlyIn
    <3>3. Board!Move({m}, st)
      BY <2>2, <2>4, <3>1, <3>2
    <3>. QED  BY <2>3, <3>1, <3>3 DEF Board!Next, Board!Settle
  <2>. QED  BY <2>1, <2>5, <2>6, <2>7, <2>8, StepIsBoardMove
<1>. QED  BY OInvAlways, SpecStep, <1>1, <1>2, PTL DEF Spec, BoardSpec, Board!Spec

(***************************************************************************)
(* message.processed.                                                      *)
(***************************************************************************)

\* An orderly row that was announced is done, and has no job left to announce it.
Told ==
  \A m \in orderly :
    \/ announced[m] = 0
    \/ announced[m] = 1 /\ status[m] = "done" /\ \A j \in inFlight : j.media # m

LEMMA ToldStep ==
  ASSUME OInv, Told, [Next]_vars, orderly' = orderly
  PROVE  Told'
<1>0. /\ orderly \subseteq Media /\ inFlight \subseteq Job /\ announced \in [Media -> Nat]
  BY DEF OInv, TypeInv, TypeOK, Values
<1>1. \A m \in orderly : status[m] = "done" => status'[m] = "done"
  BY TerminalStays DEF Terminal
<1>2. CASE announced' = announced /\ inFlight' \subseteq inFlight
  BY <1>1, <1>2 DEF Told
<1>3. CASE StartJobs
  <2>1. \A j \in NewJobs : j.media \in orderly => status[j.media] = "in_progress"
    BY DEF NewJobs, OInv, Owned, SoleOwner
  <2>2. announced' = announced /\ inFlight' = inFlight \union NewJobs
    BY <1>3 DEF StartJobs
  <2>. QED  BY <1>1, <2>1, <2>2 DEF Told
<1>4. ASSUME NEW j \in inFlight, JobStep(j) PROVE Told'
  <2>1. CASE Announce(j)
    <3>1. j.media \in orderly =>
            /\ status[j.media] = "done" /\ announced[j.media] = 0
            /\ \A k \in inFlight \ {j} : k.media # j.media
      BY <2>1 DEF Announce, Told, OInv, Owned, SoleOwner, OwnsRow
    <3>2. /\ inFlight' = inFlight \ {j}
          /\ announced' = [announced EXCEPT ![j.media] = IF attached THEN @ + 1 ELSE @]
      BY <2>1 DEF Announce, Finish
    <3>. QED  BY <1>0, <1>1, <3>1, <3>2 DEF Told
  <2>2. CASE announced' = announced
    <3>1. ASSUME NEW st \in Stages, Resume(j, st)
          PROVE  \A k \in inFlight' : \E l \in inFlight : k.media = l.media
      BY <1>0, <3>1 DEF Job
    <3>2. \A k \in inFlight' : \E l \in inFlight : k.media = l.media
      BY <1>4, <3>1, JobMoves
    <3>. QED  BY <1>1, <2>2, <3>2 DEF Told
  <2>. QED
    BY <1>4, <2>1, <2>2 DEF JobStep, RejectUnknown, Answer, RecordDone, Retry, LoseOutcome
<1>5. CASE ProcessDies
  BY <1>2, <1>5 DEF ProcessDies
<1>6. ASSUME NEW m \in Media,
             Enqueue(m) \/ EmitEnqueued(m) \/ BackoffPasses(m) \/ LeaseLapses(m)
      PROVE  Told'
  BY <1>2, <1>6 DEF Enqueue, EmitEnqueued, BackoffPasses, LeaseLapses
<1>7. CASE LoopTop \/ ReapExpiredLeases \/ ClaimBatch \/ ClaimedNothing \/ PollTimeout
  BY <1>2, <1>7 DEF LoopTop, ReapExpiredLeases, ClaimBatch, ClaimedNothing, PollTimeout
<1>8. CASE ReapIntervalPasses \/ DetachEnqueuer \/ Stop \/ Boot \/ UNCHANGED vars
  BY <1>2, <1>8 DEF ReapIntervalPasses, DetachEnqueuer, Stop, Boot, vars
<1>. QED  BY <1>3, <1>4, <1>5, <1>6, <1>7, <1>8 DEF Next, Loop

\* A consumer hears of an orderly row at most once, and only when it is done:
\* no crash, retry or shutdown lets a second job of the row end it again.
THEOREM OrderlyRowsAreToldOnce == Spec => []AnnouncedOnce
<1>1. Init => Told
  BY DEF Init, Told
<1>2. Told => AnnouncedOnce
  BY DEF Told, AnnouncedOnce
<1>. QED  BY OInvAlways, ToldStep, SpecStep, <1>1, <1>2, PTL DEF Spec

\* What is announced was stored first: RecordDone writes the result, and only the
\* job that wrote it goes on to announce.
ToldStored ==
  /\ \A j \in inFlight : j.at = "announcing" => j.media \in results
  /\ \A m \in Media : announced[m] > 0 => m \in results

LEMMA ToldStoredStep ==
  ASSUME TypeInv, ToldStored, [Next]_vars
  PROVE  ToldStored'
<1>0. inFlight \subseteq Job /\ announced \in [Media -> Nat]
  BY DEF TypeInv, TypeOK, Values
<1> USE <1>0 DEF ToldStored
<1>1. CASE announced' = announced /\ results' = results /\ inFlight' \subseteq inFlight
  BY <1>1
<1>2. CASE StartJobs
  BY <1>2 DEF StartJobs, NewJobs
<1>3. ASSUME NEW j \in inFlight, JobStep(j) PROVE ToldStored'
  <2>0. j \in Job
    OBVIOUS
  <2>1. CASE RejectUnknown(j) \/ Retry(j) \/ LoseOutcome(j)
    BY <1>1, <2>1 DEF RejectUnknown, Retry, LoseOutcome, Finish
  <2>2. CASE Answer(j)
    BY <2>0, <2>2 DEF Answer, Job
  <2>3. CASE RecordDone(j)
    <3>1. CASE results' = results \union {j.media} /\ Resume(j, "announcing")
      BY <2>0, <2>3, <3>1 DEF RecordDone, Job
    <3>2. CASE results \subseteq results' /\ Resume(j, "failing")
      BY <2>0, <2>3, <3>2 DEF RecordDone, Job
    <3>. QED  BY <2>3, <3>1, <3>2 DEF RecordDone
  <2>4. CASE Announce(j)
    BY <2>0, <2>4 DEF Announce, Finish, Job
  <2>. QED  BY <1>3, <2>1, <2>2, <2>3, <2>4 DEF JobStep
<1>4. CASE ProcessDies
  BY <1>1, <1>4 DEF ProcessDies
<1>5. ASSUME NEW m \in Media,
             Enqueue(m) \/ EmitEnqueued(m) \/ BackoffPasses(m) \/ LeaseLapses(m)
      PROVE  ToldStored'
  BY <1>1, <1>5 DEF Enqueue, EmitEnqueued, BackoffPasses, LeaseLapses
<1>6. CASE LoopTop \/ ReapExpiredLeases \/ ClaimBatch \/ ClaimedNothing \/ PollTimeout
  BY <1>1, <1>6 DEF LoopTop, ReapExpiredLeases, ClaimBatch, ClaimedNothing, PollTimeout
<1>7. CASE ReapIntervalPasses \/ DetachEnqueuer \/ Stop \/ Boot \/ UNCHANGED vars
  BY <1>1, <1>7 DEF ReapIntervalPasses, DetachEnqueuer, Stop, Boot, vars
<1>. QED  BY <1>2, <1>3, <1>4, <1>5, <1>6, <1>7 DEF Next, Loop

\* The announcements of a row that can still come: one by each of its jobs, one
\* by the job a claim under way will start, one by the claim the row waits for.
\* Only the reaper adds one.
JobsOf(m)    == {j \in inFlight : j.media = m}
Returning(m) == IF m \in returned THEN 1 ELSE 0
Waiting(m)   == IF status[m] \in {"absent", "pending"} THEN 1 ELSE 0
Budget(m)    == announced[m] + Cardinality(JobsOf(m)) + Returning(m) + Waiting(m) <= 1 + reaps[m]

LEMMA JobsOfType ==
  ASSUME TypeInv, NEW m \in Media
  PROVE  IsFiniteSet(JobsOf(m)) /\ Cardinality(JobsOf(m)) \in Nat
BY CountSubset DEF JobsOf, TypeInv

\* A row whose jobs and chances do not grow stays within its budget.
LEMMA BudgetKept ==
  ASSUME TypeInv, TypeInv', NEW m \in Media, Budget(m),
         announced'[m] = announced[m], reaps'[m] = reaps[m],
         Cardinality(JobsOf(m)') <= Cardinality(JobsOf(m)),
         Cardinality(JobsOf(m)') \in Nat,
         m \in returned' => m \in returned,
         status'[m] \in {"absent", "pending"} => status[m] \in {"absent", "pending"}
  PROVE  Budget(m)'
<1>1. /\ announced[m] \in Nat /\ reaps[m] \in Nat /\ Cardinality(JobsOf(m)) \in Nat
  BY JobsOfType DEF TypeInv, TypeOK, Values
<1>2. /\ Returning(m) \in Nat /\ Returning(m)' \in Nat /\ Returning(m)' <= Returning(m)
      /\ Waiting(m) \in Nat /\ Waiting(m)' \in Nat /\ Waiting(m)' <= Waiting(m)
  BY DEF Returning, Waiting
<1>. QED  BY <1>1, <1>2 DEF Budget

LEMMA BudgetStep ==
  ASSUME TypeInv, TypeInv', HandedOver, NEW m \in Media, Budget(m), [Next]_vars
  PROVE  Budget(m)'
<1> DEFINE jobs  == Cardinality(JobsOf(m))
           jobsx == Cardinality(JobsOf(m)')
<1>1. /\ jobs \in Nat /\ jobsx \in Nat
      /\ announced[m] \in Nat /\ reaps[m] \in Nat /\ announced'[m] \in Nat /\ reaps'[m] \in Nat
      /\ Returning(m) \in Nat /\ Returning(m)' \in Nat
      /\ Waiting(m) \in 0..1 /\ Waiting(m)' \in 0..1
  <2>1. jobs \in Nat
    BY JobsOfType
  <2>2. jobsx \in Nat
    <3>1. JobsOf(m)' \subseteq inFlight' /\ IsFiniteSet(inFlight')
      BY DEF JobsOf, TypeInv
    <3>. QED  BY <3>1, CountSubset
  <2>3. announced[m] \in Nat /\ reaps[m] \in Nat /\ announced'[m] \in Nat /\ reaps'[m] \in Nat
    BY DEF TypeInv, TypeOK, Values
  <2>. QED  BY <2>1, <2>2, <2>3 DEF Returning, Waiting
<1>2. CASE inFlight' = inFlight /\ announced' = announced /\ reaps' = reaps
           /\ status' = status /\ returned' = returned
  <2>1. JobsOf(m)' = JobsOf(m)
    BY <1>2 DEF JobsOf
  <2>. QED  BY <1>1, <1>2, <2>1, BudgetKept
<1>3. ASSUME NEW n \in Media, Enqueue(n) PROVE Budget(m)'
  <2>1. JobsOf(m)' = JobsOf(m)
    BY <1>3 DEF Enqueue, JobsOf
  <2>2. status'[m] \in {"absent", "pending"} => status[m] \in {"absent", "pending"}
    BY <1>3 DEF Enqueue, TypeInv, TypeOK, Values
  <2>3. announced' = announced /\ reaps' = reaps /\ returned' = returned
    BY <1>3 DEF Enqueue
  <2>. QED  BY <1>1, <2>1, <2>2, <2>3, BudgetKept
<1>4. ASSUME NEW n \in Media,
             EmitEnqueued(n) \/ BackoffPasses(n) \/ LeaseLapses(n)
      PROVE  Budget(m)'
  BY <1>2, <1>4 DEF EmitEnqueued, BackoffPasses, LeaseLapses
<1>5. CASE LoopTop \/ ClaimedNothing \/ PollTimeout \/ ReapIntervalPasses \/ DetachEnqueuer
           \/ Stop \/ Boot \/ UNCHANGED vars
  BY <1>2, <1>5 DEF LoopTop, ClaimedNothing, PollTimeout, ReapIntervalPasses, DetachEnqueuer,
                    Stop, Boot, vars
<1>6. CASE ReapExpiredLeases
  <2>1. CASE status' = status /\ reaps' = reaps
    BY <1>2, <1>6, <2>1 DEF ReapExpiredLeases
  <2>2. CASE /\ status' = [n \in Media |-> IF n \in Expired THEN "pending" ELSE status[n]]
             /\ reaps' = [n \in Media |-> IF n \in Expired THEN reaps[n] + 1 ELSE reaps[n]]
    <3>1. announced' = announced /\ returned' = returned /\ inFlight' = inFlight
      BY <1>6 DEF ReapExpiredLeases
    <3>2. JobsOf(m)' = JobsOf(m) /\ Returning(m)' = Returning(m)
      BY <3>1 DEF JobsOf, Returning
    <3>3. CASE m \in Expired
      <4>1. reaps'[m] = reaps[m] + 1 /\ Waiting(m)' <= Waiting(m) + 1
        BY <1>1, <2>2, <3>3
      <4>. QED  BY <1>1, <3>1, <3>2, <4>1 DEF Budget
    <3>4. CASE m \notin Expired
      <4>1. status'[m] = status[m] /\ reaps'[m] = reaps[m]
        BY <2>2, <3>4
      <4>. QED  BY <1>1, <3>1, <3>2, <4>1, BudgetKept
    <3>. QED  BY <3>3, <3>4
  <2>. QED  BY <1>6, <2>1, <2>2 DEF ReapExpiredLeases
<1>7. CASE ClaimBatch
  <2>0. /\ announced' = announced /\ returned = {} /\ JobsOf(m)' = JobsOf(m)
    BY <1>7 DEF ClaimBatch, HandedOver, JobsOf
  <2>1. ASSUME NEW S \in Batches, Stamp(S), returned' \in {S, {}} PROVE Budget(m)'
    <3>0. reaps' = reaps
      BY <2>1 DEF Stamp
    <3>1. CASE m \notin S
      BY <1>1, <2>0, <2>1, <3>0, <3>1, BudgetKept DEF Stamp
    <3>2. CASE m \in S
      <4>1. status[m] = "pending" /\ status'[m] = "in_progress"
        BY <2>1, <3>2 DEF Batches, Ready, Stamp
      <4>2. Waiting(m) = 1 /\ Waiting(m)' = 0 /\ Returning(m) = 0 /\ Returning(m)' <= 1
        BY <2>0, <4>1 DEF Waiting, Returning
      <4>. QED  BY <1>1, <2>0, <3>0, <4>2 DEF Budget
    <3>. QED  BY <3>1, <3>2
  <2>2. CASE returned' = {} /\ UNCHANGED lease
    BY <1>2, <1>7, <2>0, <2>2 DEF ClaimBatch
  <2>. QED  BY <1>7, <2>1, <2>2 DEF ClaimBatch
<1>8. CASE StartJobs
  <2>1. /\ status' = status /\ announced' = announced /\ reaps' = reaps
        /\ inFlight' = inFlight \union NewJobs /\ returned' = {}
    BY <1>8 DEF StartJobs
  <2>2. Returning(m)' = 0 /\ Waiting(m)' = Waiting(m)
    BY <2>1 DEF Returning, Waiting
  <2>3. CASE m \in returned
    <3> DEFINE new == [media |-> m, attempt |-> attempts[m], at |-> "calling"]
    <3>1. JobsOf(m)' = JobsOf(m) \union {new}
      BY <2>1, <2>3 DEF JobsOf, NewJobs
    <3>2. jobsx <= jobs + 1
      <4> HIDE DEF new
      <4>. QED  BY <3>1, JobsOfType, CountAdd
    <3>3. Returning(m) = 1
      BY <2>3 DEF Returning
    <3>. QED  BY <1>1, <2>1, <2>2, <3>2, <3>3 DEF Budget
  <2>4. CASE m \notin returned
    <3>1. JobsOf(m)' = JobsOf(m)
      BY <2>1, <2>4 DEF JobsOf, NewJobs
    <3>. QED  BY <1>1, <2>1, <3>1, BudgetKept
  <2>. QED  BY <2>3, <2>4
<1>9. ASSUME NEW j \in inFlight, JobStep(j) PROVE Budget(m)'
  <2>0. /\ returned' = returned /\ reaps' = reaps
        /\ j \in Job /\ j.media \in Media /\ j.attempt \in Nat
        /\ status \in [Media -> Statuses] /\ announced \in [Media -> Nat]
    BY <1>9, JobMoves DEF TypeInv, TypeOK, Values, Job
  <2>1. Returning(m)' = Returning(m)
    BY <2>0 DEF Returning
  <2>2. CASE j.media # m
    <3>1. JobsOf(m)' = JobsOf(m)
      <4>1. ASSUME NEW st \in Stages, Resume(j, st) PROVE JobsOf(m)' = JobsOf(m)
        <5>1. [j EXCEPT !.at = st].media # m
          BY <2>0, <2>2 DEF Job
        <5>. QED  BY <2>2, <4>1, <5>1 DEF JobsOf
      <4>2. CASE inFlight' = inFlight \ {j}
        BY <2>2, <4>2 DEF JobsOf
      <4>. QED  BY <1>9, <4>1, <4>2, JobMoves
    <3>2. announced'[m] = announced[m] /\ status'[m] = status[m]
      BY <1>9, <2>0, <2>2 DEF JobStep, RejectUnknown, Answer, RecordDone, Announce, Retry,
                              LoseOutcome, SetRow
    <3>. QED  BY <1>1, <2>0, <3>1, <3>2, BudgetKept
  <2>3. CASE j.media = m
    <3>1. CASE RejectUnknown(j) \/ Announce(j) \/ Retry(j) \/ LoseOutcome(j)
      <4>1. JobsOf(m)' = JobsOf(m) \ {j} /\ j \in JobsOf(m)
        BY <2>3, <3>1 DEF JobsOf, RejectUnknown, Announce, Retry, LoseOutcome, Finish
      <4>2. jobsx = jobs - 1
        BY <4>1, JobsOfType, CountRemove
      <4>3. CASE Announce(j)
        <5>1. announced'[m] <= announced[m] + 1 /\ status' = status
          BY <1>1, <2>0, <2>3, <4>3 DEF Announce
        <5>2. Waiting(m)' = Waiting(m)
          BY <5>1 DEF Waiting
        <5>. QED  BY <1>1, <2>0, <2>1, <4>2, <5>1, <5>2 DEF Budget
      <4>4. CASE RejectUnknown(j)
        <5>1. status'[m] = "failed" /\ announced' = announced
          BY <2>0, <2>3, <4>4 DEF RejectUnknown, SetRow
        <5>. QED  BY <1>1, <2>0, <4>2, <5>1, BudgetKept
      <4>5. CASE LoseOutcome(j)
        BY <1>1, <2>0, <4>2, <4>5, BudgetKept DEF LoseOutcome
      <4>6. CASE Retry(j)
        <5>1. announced' = announced
          BY <4>6 DEF Retry
        <5>. QED  BY <1>1, <2>0, <2>1, <4>2, <5>1 DEF Budget
      <4>. QED  BY <3>1, <4>3, <4>4, <4>5, <4>6
    <3>2. ASSUME NEW st \in Stages, Resume(j, st), Answer(j) \/ RecordDone(j) PROVE Budget(m)'
      <4> DEFINE k == [j EXCEPT !.at = st]
      <4>1. k.media = m
        BY <2>0, <2>3 DEF Job
      <4>2. inFlight' = (inFlight \ {j}) \union {k} /\ j \in JobsOf(m)
        BY <2>3, <3>2 DEF JobsOf
      <4> HIDE DEF k
      <4>3. JobsOf(m)' = (JobsOf(m) \ {j}) \union {k}
        BY <2>3, <4>1, <4>2 DEF JobsOf
      <4>4. jobsx <= jobs
        BY <4>2, <4>3, JobsOfType, CountReplace
      <4>5. announced' = announced /\ (status'[m] = status[m] \/ status'[m] = "done")
        BY <2>0, <2>3, <3>2 DEF Answer, RecordDone, SetRow
      <4>. QED  BY <1>1, <2>0, <4>4, <4>5, BudgetKept
    <3>3. Answer(j) \/ RecordDone(j) => \E st \in Stages : Resume(j, st)
      BY DEF Answer, RecordDone, Stages
    <3>. QED  BY <1>9, <3>1, <3>2, <3>3 DEF JobStep
  <2>. QED  BY <2>2, <2>3
<1>10. CASE ProcessDies
  <2>1. /\ announced' = announced /\ reaps' = reaps /\ status' = status /\ returned' = {}
        /\ JobsOf(m)' = {}
    BY <1>10 DEF ProcessDies, JobsOf
  <2>2. jobsx = 0
    BY <2>1, FS_EmptySet
  <2>. QED  BY <1>1, <2>1, <2>2, BudgetKept
<1>. QED
  BY <1>3, <1>4, <1>5, <1>6, <1>7, <1>8, <1>9, <1>10 DEF Next, Loop

TInv == WInv /\ ToldStored /\ \A m \in Media : Budget(m)

LEMMA TInvAlways == Spec => []TInv
<1>1. Init => TInv
  <2> SUFFICES ASSUME Init PROVE TInv
    OBVIOUS
  <2>1. WInv /\ ToldStored
    BY WInvInit DEF Init, ToldStored
  <2>2. ASSUME NEW m \in Media PROVE Budget(m)
    <3>1. JobsOf(m) = {} /\ Returning(m) = 0 /\ Waiting(m) = 1
      BY DEF Init, JobsOf, Returning, Waiting
    <3>. QED  BY <3>1, FS_EmptySet DEF Init, Budget
  <2>. QED  BY <2>1, <2>2 DEF TInv
<1>2. ASSUME TInv, [Next]_vars, orderly' = orderly PROVE TInv'
  <2>1. WInv' /\ TypeInv /\ TypeInv' /\ HandedOver
    BY <1>2, WInvStep DEF TInv, WInv
  <2>. QED  BY <1>2, <2>1, ToldStoredStep, BudgetStep DEF TInv
<1>. QED  BY <1>1, <1>2, SpecStep, PTL DEF Spec

\* message.processed is announced only for a stored result, and again only after
\* the reaper took a lease back: a job that outlives its lease, a claim whose
\* answer was lost and a retried row add up to no more.
THEOREM AnnouncementsArePaidFor == Spec => []AnnouncedWithResult
<1>1. TInv => AnnouncedWithResult
  <2> SUFFICES ASSUME TInv, NEW m \in Media
               PROVE  (announced[m] > 0 => m \in results) /\ announced[m] <= 1 + reaps[m]
    BY DEF AnnouncedWithResult
  <2>1. /\ Cardinality(JobsOf(m)) \in Nat /\ announced[m] \in Nat /\ reaps[m] \in Nat
        /\ Returning(m) \in Nat /\ Waiting(m) \in Nat
    BY JobsOfType DEF TInv, WInv, TypeInv, TypeOK, Values, Returning, Waiting
  <2>. QED  BY <2>1 DEF TInv, ToldStored, Budget
<1>. QED  BY TInvAlways, <1>1, PTL
===============================================================================
