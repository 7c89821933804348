-------------------------- MODULE MediaQueue_proofs --------------------------
(***************************************************************************)
(* Theorems about MediaQueue, for every set of rows, concurrency, batch    *)
(* size, retry cap and number of crashes and failed statements.            *)
(***************************************************************************)
EXTENDS MediaQueue, Counting

USE DEF table, stores, claim, worker, bounds, wake, Resume, LoseAnswer

(***************************************************************************)
(* The type invariant. It is inductive once inFlight is known to be finite,*)
(* which is what gives FreeSlots, and so limit, its bounds.                *)
(***************************************************************************)
TypeInv == TypeOK /\ IsFiniteSet(inFlight)

\* A claim starts at most one job for each row it brought back.
LEMMA NewJobsAreFew ==
  ASSUME TypeOK
  PROVE  /\ NewJobs \subseteq Job
         /\ IsFiniteSet(NewJobs)
         /\ Cardinality(NewJobs) <= Cardinality(returned)
<1> DEFINE row == [j \in NewJobs |-> j.media]
<1>1. IsFiniteSet(returned)
  BY ConstantsAssumption, FS_Subset DEF TypeOK, Values
<1>2. row \in Injection(NewJobs, returned)
  BY DEF Injection, IsInjective, NewJobs
<1>3. IsFiniteSet(NewJobs) /\ Cardinality(NewJobs) <= Cardinality(returned)
  BY ONLY <1>1, <1>2, FS_Injection
<1>4. NewJobs \subseteq Job
  BY DEF NewJobs, Job, Stages, TypeOK, Values
<1>. QED  BY <1>3, <1>4

LEMMA FreeSlotsType ==
  ASSUME IsFiniteSet(inFlight)
  PROVE  FreeSlots \in Int /\ FreeSlots <= Concurrency
BY FS_CardinalityType, ConstantsAssumption DEF FreeSlots

LEMMA TypeInit == Init => TypeInv
<1> USE ConstantsAssumption DEF Init
<1>1. Init => Values                  BY DEF Values, Statuses
<1>2. Init => Flags                   BY DEF Flags
<1>3. Init => IsFiniteSet(inFlight)   BY FS_EmptySet
<1>. QED  BY <1>1, <1>2, <1>3 DEF TypeInv, TypeOK

LEMMA ValuesStep == TypeInv /\ [Next]_vars => Values'
<1> SUFFICES ASSUME TypeInv, Values, [Next]_vars PROVE Values'
  BY DEF TypeInv, TypeOK
<1> USE ConstantsAssumption DEF Values, Statuses
<1>1. ASSUME NEW m \in Media, Ingest(m) PROVE Values'
  BY <1>1 DEF Ingest
<1>2. ASSUME NEW m \in Media, HandlerReturns(m) PROVE Values'
  BY <1>2 DEF HandlerReturns, Notify, Fault
<1>3. CASE LoopTop
  BY <1>3, FreeSlotsType DEF LoopTop, SleepUntilWake, Smaller, TypeInv
<1>4. CASE ReapExpiredLeases
  BY <1>4 DEF ReapExpiredLeases, Fault
<1>5. CASE ClaimBatch
  <2>1. ASSUME NEW S \in Batches, Stamp(S)
        PROVE  /\ status' \in [Media -> Statuses]
               /\ attempts' \in [Media -> Nat]
               /\ reaps' \in [Media -> Nat]
               /\ S \subseteq Media
    BY <2>1 DEF Stamp, Batches, Ready
  <2>. QED  BY <1>5, <2>1 DEF ClaimBatch, Fault
<1>6. CASE StartJobs
  BY <1>6, NewJobsAreFew DEF StartJobs, TypeInv
<1>7. CASE ClaimedNothing
  BY <1>7 DEF ClaimedNothing, SleepUntilWake
<1>8. CASE PollTimeout
  BY <1>8 DEF PollTimeout
<1>9. ASSUME NEW j \in inFlight, JobStep(j) PROVE Values'
  <2> USE DEF Job, Stages, Finish, Notify, SetRow, Fault, Terminal
  <2>1. CASE GiveUpAtOnce(j)       BY <2>1 DEF GiveUpAtOnce
  <2>2. CASE Store(j)              BY <2>2 DEF Store, Put
  <2>3. CASE RecordDone(j)         BY <2>3 DEF RecordDone
  <2>4. CASE EnqueueProcessing(j)  BY <2>4 DEF EnqueueProcessing
  <2>5. CASE Retry(j)              BY <2>5 DEF Retry, AfterRetry
  <2>6. CASE LoseOutcome(j)        BY <2>6 DEF LoseOutcome
  <2>. QED  BY <1>9, <2>1, <2>2, <2>3, <2>4, <2>5, <2>6 DEF JobStep
<1>10. ASSUME NEW m \in Media, BackoffPasses(m) \/ LeaseLapses(m) PROVE Values'
  BY <1>10 DEF BackoffPasses, LeaseLapses
<1>11. CASE ReapIntervalPasses
  BY <1>11 DEF ReapIntervalPasses
<1>12. CASE Stop
  BY <1>12 DEF Stop, Notify
<1>13. CASE ProcessDies
  BY <1>13 DEF ProcessDies
<1>14. CASE Boot
  BY <1>14 DEF Boot
<1>15. CASE UNCHANGED vars
  BY <1>15 DEF vars
<1>. QED
  BY <1>1, <1>2, <1>3, <1>4, <1>5, <1>6, <1>7, <1>8, <1>9, <1>10, <1>11, <1>12, <1>13, <1>14,
     <1>15 DEF Next, Loop

LEMMA FlagsStep == TypeInv /\ [Next]_vars => Flags'
<1> SUFFICES ASSUME Flags, [Next]_vars PROVE Flags'
  BY DEF TypeInv, TypeOK
<1> USE DEF Flags, Notify, SleepUntilWake, SetRow, Stamp, Finish
<1>1. ASSUME NEW m \in Media, Ingest(m) \/ HandlerReturns(m) PROVE Flags'
  BY <1>1 DEF Ingest, HandlerReturns
<1>2. CASE Loop
  <2>1. CASE LoopTop  BY <2>1 DEF LoopTop
  <2>2. CASE ReapExpiredLeases  BY <2>2 DEF ReapExpiredLeases
  <2>3. CASE ClaimBatch  BY <2>3 DEF ClaimBatch
  <2>4. CASE StartJobs \/ ClaimedNothing \/ PollTimeout
    BY <2>4 DEF StartJobs, ClaimedNothing, PollTimeout
  <2>. QED  BY <1>2, <2>1, <2>2, <2>3, <2>4 DEF Loop
<1>3. ASSUME NEW j \in inFlight, JobStep(j) PROVE Flags'
  <2>1. CASE GiveUpAtOnce(j) \/ EnqueueProcessing(j) \/ Retry(j) \/ LoseOutcome(j)
    BY <2>1 DEF GiveUpAtOnce, EnqueueProcessing, Retry, LoseOutcome
  <2>2. CASE Store(j) \/ RecordDone(j)
    BY <2>2 DEF Store, Put, RecordDone
  <2>. QED  BY <1>3, <2>1, <2>2 DEF JobStep
<1>4. ASSUME NEW m \in Media, BackoffPasses(m) \/ LeaseLapses(m) PROVE Flags'
  BY <1>4 DEF BackoffPasses, LeaseLapses
<1>5. CASE ReapIntervalPasses \/ Stop \/ ProcessDies \/ Boot
  BY <1>5 DEF ReapIntervalPasses, Stop, ProcessDies, Boot
<1>6. CASE UNCHANGED vars
  BY <1>6 DEF vars
<1>. QED
  BY <1>1, <1>2, <1>3, <1>4, <1>5, <1>6 DEF Next

LEMMA FiniteStep == TypeInv /\ [Next]_vars => IsFiniteSet(inFlight)'
<1> SUFFICES ASSUME TypeInv, [Next]_vars PROVE IsFiniteSet(inFlight')
  OBVIOUS
<1> USE DEF TypeInv
<1>1. CASE inFlight' = inFlight
  BY <1>1
<1>2. CASE StartJobs
  BY <1>2, NewJobsAreFew, FS_Union DEF StartJobs
<1>3. ASSUME NEW j \in inFlight, JobStep(j) PROVE IsFiniteSet(inFlight')
  <2>1. \/ inFlight' = inFlight \ {j}
        \/ \E k : inFlight' = (inFlight \ {j}) \union {k}
    BY <1>3
    DEF JobStep, GiveUpAtOnce, Store, Put, RecordDone, EnqueueProcessing, Retry, LoseOutcome, Finish
  <2>2. IsFiniteSet(inFlight \ {j})
    BY CountRemove
  <2>3. ASSUME NEW k PROVE IsFiniteSet((inFlight \ {j}) \union {k})
    BY CountReplace
  <2>. QED  BY <2>1, <2>2, <2>3
<1>4. CASE ProcessDies
  BY <1>4, FS_EmptySet DEF ProcessDies
<1>5. inFlight' = inFlight \/ StartJobs \/ (\E j \in inFlight : JobStep(j)) \/ ProcessDies
  BY DEF Next, Loop, vars, Ingest, HandlerReturns, BackoffPasses, LeaseLapses, LoopTop,
     ReapExpiredLeases, ClaimBatch, ClaimedNothing, PollTimeout, ReapIntervalPasses, Stop, Boot
<1>. QED  BY <1>1, <1>2, <1>3, <1>4, <1>5

LEMMA TypeStep == TypeInv /\ [Next]_vars => TypeInv'
BY ValuesStep, FlagsStep, FiniteStep DEF TypeInv, TypeOK

\* Every variable keeps its type, and the jobs in flight stay finitely many.
THEOREM TypeCorrect == Spec => []TypeOK
<1>1. TypeInv => TypeOK  BY DEF TypeInv
<1>. QED  BY TypeInit, TypeStep, <1>1, PTL DEF Spec

(***************************************************************************)
(* The inductive invariant behind the safety properties of the runs.       *)
(***************************************************************************)

\* A claim's rows are handed to jobs before the loop does anything else.
HandedOver == loop # "claimed" => returned = {}

\* The free slots a claim's limit was computed from are still free when its
\* rows arrive: nothing but the loop starts jobs.
SlotsKept ==
  /\ loop \in {"reaping", "claiming"} => Cardinality(inFlight) + limit <= Concurrency
  /\ Cardinality(inFlight) + Cardinality(returned) <= Concurrency

\* A job that got past its upload left the object in the bucket.
JobsStored == \A j \in inFlight : j.at \in {"storing", "enqueueing"} => j.media \in bucket

\* How many claims of m can still follow without the reaper: one if m waits,
\* one for each job that may still give m back, and one for each attempt at
\* which a future job may give it back.
Spendable(m) == {j \in inFlight : j.media = m /\ j.attempt < MaxAttempts /\ j.at # "enqueueing"}
Unclaimed(m) == IF attempts[m] < MaxAttempts THEN MaxAttempts - 1 - attempts[m] ELSE 0
Waiting(m)   == IF status[m] \in {"absent", "pending"} THEN 1 ELSE 0
Returning(m) == IF m \in returned /\ attempts[m] < MaxAttempts THEN 1 ELSE 0

Budget(m) ==
  attempts[m] + Unclaimed(m) + Waiting(m) + Returning(m) + Cardinality(Spendable(m))
    <= MaxAttempts + reaps[m]

IInv ==
  /\ TypeInv
  /\ HandedOver
  /\ SlotsKept
  /\ JobsStored /\ DoneMeansStored
  /\ \A m \in Media : Budget(m)


LEMMA IInvInit == Init => IInv
<1> SUFFICES ASSUME Init PROVE IInv
  OBVIOUS
<1> USE ConstantsAssumption DEF Init
<1>1. TypeInv                  BY TypeInit
<1>2. HandedOver               BY DEF HandedOver
<1>3. SlotsKept                BY FS_EmptySet DEF SlotsKept
<1>4. JobsStored /\ DoneMeansStored
  BY DEF JobsStored, DoneMeansStored
<1>5. ASSUME NEW m \in Media PROVE Budget(m)
  <2>1. Spendable(m) = {}  BY DEF Spendable
  <2>. QED  BY <2>1, FS_EmptySet DEF Budget, Unclaimed, Waiting, Returning
<1>. QED  BY <1>1, <1>2, <1>3, <1>4, <1>5 DEF IInv

LEMMA HandedOverStep == HandedOver /\ [Next]_vars => HandedOver'
<1> SUFFICES ASSUME HandedOver, [Next]_vars PROVE HandedOver'
  OBVIOUS
<1> USE DEF HandedOver, Notify, SleepUntilWake, Finish
<1>1. ASSUME NEW m \in Media, Ingest(m) \/ HandlerReturns(m) PROVE HandedOver'
  BY <1>1 DEF Ingest, HandlerReturns
<1>2. CASE Loop
  BY <1>2 DEF Loop, LoopTop, ReapExpiredLeases, ClaimBatch, StartJobs, ClaimedNothing, PollTimeout
<1>3. ASSUME NEW j \in inFlight, JobStep(j) PROVE HandedOver'
  BY <1>3 DEF JobStep, GiveUpAtOnce, Store, Put, RecordDone, EnqueueProcessing, Retry, LoseOutcome
<1>4. ASSUME NEW m \in Media, BackoffPasses(m) \/ LeaseLapses(m) PROVE HandedOver'
  BY <1>4 DEF BackoffPasses, LeaseLapses
<1>5. CASE ReapIntervalPasses \/ Stop \/ ProcessDies \/ Boot \/ UNCHANGED vars
  BY <1>5 DEF ReapIntervalPasses, Stop, ProcessDies, Boot, vars
<1>. QED  BY <1>1, <1>2, <1>3, <1>4, <1>5 DEF Next

\* A job's step puts at most the same job back, at a later stage.
LEMMA JobsOnlyShrink ==
  ASSUME TypeInv, NEW j \in inFlight, JobStep(j)
  PROVE  /\ \/ inFlight' = inFlight \ {j}
            \/ /\ j.at \in {"fetching", "storing"}
               /\ \E st \in Stages :
                    inFlight' = (inFlight \ {j}) \union {[j EXCEPT !.at = st]}
         /\ Cardinality(inFlight') <= Cardinality(inFlight)
<1>1. \/ inFlight' = inFlight \ {j}
      \/ /\ j.at \in {"fetching", "storing"}
         /\ \E st \in Stages :
              inFlight' = (inFlight \ {j}) \union {[j EXCEPT !.at = st]}
  BY DEF JobStep, GiveUpAtOnce, Store, Put, RecordDone, EnqueueProcessing, Retry, LoseOutcome,
         Finish, Stages
<1>2. Cardinality(inFlight \ {j}) <= Cardinality(inFlight)
  BY CountRemove, CountType DEF TypeInv
<1>3. ASSUME NEW k
      PROVE  Cardinality((inFlight \ {j}) \union {k}) <= Cardinality(inFlight)
  BY CountReplace DEF TypeInv
<1>. QED  BY <1>1, <1>2, <1>3

LEMMA SlotsKeptStep == TypeInv /\ HandedOver /\ SlotsKept /\ [Next]_vars => SlotsKept'
<1> SUFFICES ASSUME TypeInv, HandedOver, SlotsKept, [Next]_vars PROVE SlotsKept'
  OBVIOUS
<1> USE ConstantsAssumption DEF SlotsKept, TypeInv
<1>1. /\ Cardinality(inFlight) \in Nat
      /\ IsFiniteSet(returned) /\ Cardinality(returned) \in Nat
      /\ limit \in Nat
  BY FS_CardinalityType, FS_Subset DEF TypeOK, Values
<1>2. CASE /\ inFlight' = inFlight /\ returned' = returned /\ limit' = limit
           /\ loop' \in {"reaping", "claiming"} => loop \in {"reaping", "claiming"}
  BY <1>2
<1>3. CASE LoopTop
  <2>1. /\ inFlight' = inFlight /\ returned' = returned
        /\ \/ loop' \in {"top", "sleeping", "stopped"}
           \/ limit' = Smaller(FreeSlots, BatchSize)
    BY <1>3 DEF LoopTop, SleepUntilWake
  <2>. QED  BY <1>1, <2>1 DEF FreeSlots, Smaller
<1>4. CASE ClaimBatch
  <2>1. ASSUME NEW S \in Batches PROVE IsFiniteSet(S) /\ Cardinality(S) <= limit
    <3>1. IsFiniteSet(Ready) /\ Cardinality(Ready) \in Nat
      BY FS_Subset, FS_CardinalityType DEF Ready
    <3>. QED  BY <1>1, <3>1, FS_Subset DEF Batches, Smaller
  <2>2. loop = "claiming" /\ loop' = "claimed" /\ inFlight' = inFlight
    BY <1>4 DEF ClaimBatch
  <2>3. CASE returned' = {}
    BY <1>1, <2>2, <2>3, FS_EmptySet
  <2>4. CASE \E S \in Batches : returned' = S
    <3>. PICK S \in Batches : returned' = S  BY <2>4
    <3>1. Cardinality(S) \in Nat /\ Cardinality(S) <= limit
      BY <2>1, FS_CardinalityType
    <3>. QED  BY <1>1, <2>2, <3>1
  <2>. QED  BY <1>4, <2>3, <2>4 DEF ClaimBatch
<1>5. CASE StartJobs
  <2>1. /\ IsFiniteSet(NewJobs) /\ Cardinality(NewJobs) \in Nat
        /\ Cardinality(NewJobs) <= Cardinality(returned)
    BY NewJobsAreFew, FS_CardinalityType
  <2>2. /\ Cardinality(inFlight \union NewJobs) \in Nat
        /\ Cardinality(inFlight \union NewJobs) <= Cardinality(inFlight) + Cardinality(NewJobs)
    BY <2>1, CountUnion
  <2>4. loop' = "top" /\ inFlight' = inFlight \union NewJobs /\ returned' = {}
    BY <1>5 DEF StartJobs
  <2>. QED  BY <1>1, <2>1, <2>2, <2>4, FS_EmptySet
<1>6. ASSUME NEW j \in inFlight, JobStep(j) PROVE SlotsKept'
  <2>1. /\ returned' = returned /\ limit' = limit
        /\ loop' \in {"reaping", "claiming"} => loop \in {"reaping", "claiming"}
    BY <1>6 DEF JobStep, GiveUpAtOnce, Store, Put, RecordDone, EnqueueProcessing, Retry,
                LoseOutcome, Finish, Notify
  <2>2. IsFiniteSet(inFlight')
    BY FiniteStep
  <2>3. Cardinality(inFlight') \in Nat
    BY <2>2, FS_CardinalityType
  <2>4. Cardinality(inFlight') <= Cardinality(inFlight)
    BY <1>6, JobsOnlyShrink
  <2>. QED  BY <1>1, <2>1, <2>3, <2>4
<1>7. CASE ProcessDies
  <2>1. inFlight' = {} /\ returned' = {} /\ loop' = "down"
    BY <1>7 DEF ProcessDies
  <2>. QED  BY <2>1, FS_EmptySet
<1>8. CASE Boot
  BY <1>2, <1>8 DEF Boot
<1>9. ASSUME NEW m \in Media,
             Ingest(m) \/ HandlerReturns(m) \/ BackoffPasses(m) \/ LeaseLapses(m)
      PROVE  SlotsKept'
  BY <1>2, <1>9 DEF Ingest, HandlerReturns, BackoffPasses, LeaseLapses, Notify
<1>10. CASE ReapExpiredLeases
  BY <1>2, <1>10 DEF ReapExpiredLeases
<1>11. CASE ClaimedNothing \/ PollTimeout
  BY <1>2, <1>11 DEF ClaimedNothing, PollTimeout, SleepUntilWake
<1>12. CASE ReapIntervalPasses \/ Stop \/ UNCHANGED vars
  BY <1>2, <1>12 DEF ReapIntervalPasses, Stop, Notify, vars
<1>. QED
  BY <1>3, <1>4, <1>5, <1>6, <1>7, <1>8, <1>9, <1>10, <1>11, <1>12 DEF Next, Loop

LEMMA StoredStep ==
  TypeInv /\ JobsStored /\ DoneMeansStored /\ [Next]_vars => (JobsStored /\ DoneMeansStored)'
<1> SUFFICES ASSUME TypeInv, JobsStored, DoneMeansStored, [Next]_vars
             PROVE  JobsStored' /\ DoneMeansStored'
  OBVIOUS
<1> USE DEF JobsStored, DoneMeansStored, TypeInv, TypeOK, Values
<1>1. CASE /\ inFlight' \subseteq inFlight
           /\ bucket' = bucket /\ queued' = queued
           /\ \A m \in Media : status'[m] = "done" => status[m] = "done"
  BY <1>1
<1>2. ASSUME NEW m \in Media,
             Ingest(m) \/ HandlerReturns(m) \/ BackoffPasses(m) \/ LeaseLapses(m)
      PROVE  JobsStored' /\ DoneMeansStored'
  BY <1>1, <1>2 DEF Ingest, HandlerReturns, BackoffPasses, LeaseLapses
<1>3. CASE LoopTop \/ ReapExpiredLeases \/ ClaimedNothing \/ PollTimeout
  BY <1>1, <1>3 DEF LoopTop, ReapExpiredLeases, ClaimedNothing, PollTimeout
<1>4. CASE ClaimBatch
  BY <1>1, <1>4 DEF ClaimBatch, Stamp
<1>5. CASE StartJobs
  BY <1>5 DEF StartJobs, NewJobs
<1>6. ASSUME NEW j \in inFlight, JobStep(j) PROVE JobsStored' /\ DoneMeansStored'
  <2> USE DEF Job, SetRow, Finish
  <2>1. CASE GiveUpAtOnce(j)
    BY <1>1, <2>1 DEF GiveUpAtOnce
  <2>2. CASE Store(j)
    BY <2>2 DEF Store, Put
  <2>3. CASE RecordDone(j)
    BY <2>3 DEF RecordDone
  <2>4. CASE EnqueueProcessing(j)
    BY <2>4 DEF EnqueueProcessing
  <2>5. CASE Retry(j) \/ LoseOutcome(j)
    BY <1>1, <2>5 DEF Retry, AfterRetry, LoseOutcome
  <2>. QED  BY <1>6, <2>1, <2>2, <2>3, <2>4, <2>5 DEF JobStep
<1>7. CASE ReapIntervalPasses \/ Stop \/ ProcessDies \/ Boot \/ UNCHANGED vars
  BY <1>1, <1>7 DEF ReapIntervalPasses, Stop, ProcessDies, Boot, vars
<1>. QED  BY <1>2, <1>3, <1>4, <1>5, <1>6, <1>7 DEF Next, Loop

-----------------------------------------------------------------------------
(* The attempt budget.                                                     *)

LEMMA SpendableType ==
  ASSUME TypeInv, NEW m
  PROVE  IsFiniteSet(Spendable(m)) /\ Cardinality(Spendable(m)) \in Nat
<1>1. Spendable(m) \subseteq inFlight
  BY DEF Spendable
<1>. QED  BY <1>1, CountSubset DEF TypeInv

\* A step that adds nothing to what m may spend keeps its budget.
LEMMA BudgetKept ==
  ASSUME TypeInv, TypeInv', NEW m \in Media, Budget(m),
         attempts'[m] = attempts[m], reaps'[m] = reaps[m],
         Spendable(m)' \subseteq Spendable(m),
         status'[m] \in {"absent", "pending"} => status[m] \in {"absent", "pending"},
         m \in returned' => m \in returned
  PROVE  Budget(m)'
<1>1. /\ Cardinality(Spendable(m)) \in Nat
      /\ Cardinality(Spendable(m)') \in Nat
      /\ Cardinality(Spendable(m)') <= Cardinality(Spendable(m))
  BY SpendableType, CountSubset
<1>2. /\ Unclaimed(m)' = Unclaimed(m) /\ Unclaimed(m) \in Int
      /\ Waiting(m)' <= Waiting(m) /\ Waiting(m) \in Nat /\ Waiting(m)' \in Nat
      /\ Returning(m)' <= Returning(m) /\ Returning(m) \in Nat /\ Returning(m)' \in Nat
  BY ConstantsAssumption DEF Unclaimed, Waiting, Returning, TypeInv, TypeOK, Values
<1>3. attempts[m] \in Nat /\ reaps[m] \in Nat /\ MaxAttempts \in Nat
  BY ConstantsAssumption DEF TypeInv, TypeOK, Values
<1>. QED  BY <1>1, <1>2, <1>3 DEF Budget

LEMMA BudgetStep ==
  ASSUME TypeInv, TypeInv', HandedOver, NEW m \in Media, Budget(m), [Next]_vars
  PROVE  Budget(m)'
<1> DEFINE spend  == Cardinality(Spendable(m))
           spendx == Cardinality(Spendable(m)')
<1>1. /\ spend \in Nat /\ spendx \in Nat
      /\ attempts[m] \in Nat /\ reaps[m] \in Nat /\ MaxAttempts \in Nat
      /\ attempts'[m] \in Nat /\ reaps'[m] \in Nat
  <2>1. spend \in Nat
    BY SpendableType
  <2>2. spendx \in Nat
    <3>1. Spendable(m)' \subseteq inFlight' /\ IsFiniteSet(inFlight')
      BY DEF Spendable, TypeInv
    <3>. QED  BY <3>1, CountSubset
  <2>3. /\ attempts[m] \in Nat /\ reaps[m] \in Nat /\ MaxAttempts \in Nat
        /\ attempts'[m] \in Nat /\ reaps'[m] \in Nat
    BY ConstantsAssumption DEF TypeInv, TypeOK, Values
  <2>. QED  BY <2>1, <2>2, <2>3
<1>2. CASE inFlight' = inFlight /\ attempts' = attempts /\ reaps' = reaps
           /\ status' = status /\ returned' = returned
  <2>1. Spendable(m)' \subseteq Spendable(m)
    BY <1>2 DEF Spendable
  <2>. QED  BY <1>2, <2>1, BudgetKept
<1>3. ASSUME NEW n \in Media, Ingest(n) PROVE Budget(m)'
  <2>1. Spendable(m)' \subseteq Spendable(m)
    BY <1>3 DEF Ingest, Spendable
  <2>2. status'[m] \in {"absent", "pending"} => status[m] \in {"absent", "pending"}
    BY <1>3 DEF Ingest, TypeInv, TypeOK, Values
  <2>3. attempts' = attempts /\ reaps' = reaps /\ returned' = returned
    BY <1>3 DEF Ingest
  <2>. QED  BY <2>1, <2>2, <2>3, BudgetKept
<1>4. ASSUME NEW n \in Media,
             HandlerReturns(n) \/ BackoffPasses(n) \/ LeaseLapses(n)
      PROVE  Budget(m)'
  BY <1>2, <1>4 DEF HandlerReturns, BackoffPasses, LeaseLapses
<1>5. CASE LoopTop \/ ClaimedNothing \/ PollTimeout \/ ReapIntervalPasses \/ Stop \/ Boot
           \/ UNCHANGED vars
  BY <1>2, <1>5 DEF LoopTop, ClaimedNothing, PollTimeout, ReapIntervalPasses, Stop, Boot, vars
<1>6. CASE ReapExpiredLeases
  <2>1. CASE status' = status /\ reaps' = reaps
    BY <1>2, <1>6, <2>1 DEF ReapExpiredLeases
  <2>2. CASE /\ status' = [n \in Media |-> IF n \in Expired THEN "pending" ELSE status[n]]
             /\ reaps' = [n \in Media |-> IF n \in Expired THEN reaps[n] + 1 ELSE reaps[n]]
    <3>1. attempts' = attempts /\ returned' = returned /\ inFlight' = inFlight
      BY <1>6 DEF ReapExpiredLeases
    <3>2. Spendable(m)' = Spendable(m)
      BY <3>1 DEF Spendable
    <3>3. CASE m \in Expired
      <4>1. reaps'[m] = reaps[m] + 1
        BY <2>2, <3>3
      <4>2. Unclaimed(m)' = Unclaimed(m) /\ Returning(m)' = Returning(m)
        BY <3>1 DEF Unclaimed, Returning
      <4>3. Waiting(m)' <= Waiting(m) + 1
        BY DEF Waiting
      <4>4. /\ Unclaimed(m) \in Int /\ Returning(m) \in Nat
            /\ Waiting(m) \in Nat /\ Waiting(m)' \in Nat
        BY <1>1 DEF Unclaimed, Returning, Waiting
      <4>. QED  BY <1>1, <3>1, <3>2, <4>1, <4>2, <4>3, <4>4 DEF Budget
    <3>4. CASE m \notin Expired
      <4>1. status'[m] = status[m] /\ reaps'[m] = reaps[m]
        BY <2>2, <3>4
      <4>. QED  BY <3>1, <3>2, <4>1, BudgetKept
    <3>. QED  BY <3>3, <3>4
  <2>. QED  BY <1>6, <2>1, <2>2 DEF ReapExpiredLeases
<1>7. CASE ClaimBatch
  <2>0. /\ inFlight' = inFlight /\ returned = {} /\ Spendable(m)' = Spendable(m)
    BY <1>7 DEF ClaimBatch, HandedOver, Spendable
  <2>1. ASSUME NEW S \in Batches, Stamp(S), returned' \in {S, {}} PROVE Budget(m)'
    <3>1. CASE m \notin S
      <4>1. status'[m] = status[m] /\ attempts'[m] = attempts[m] /\ reaps'[m] = reaps[m]
            /\ m \notin returned'
        BY <2>1, <3>1 DEF Stamp
      <4>. QED  BY <2>0, <4>1, BudgetKept
    <3>2. CASE m \in S
      <4>1. status[m] = "pending"
        BY <3>2 DEF Batches, Ready
      <4>2. status'[m] = "in_progress" /\ attempts'[m] = attempts[m] + 1 /\ reaps'[m] = reaps[m]
        BY <2>1, <3>2 DEF Stamp
      <4>3. Waiting(m) = 1 /\ Waiting(m)' = 0 /\ Returning(m) = 0
        BY <2>0, <4>1, <4>2 DEF Waiting, Returning
      <4>4. CASE attempts[m] + 1 < MaxAttempts
        <5>1. /\ Unclaimed(m) = MaxAttempts - 1 - attempts[m]
              /\ Unclaimed(m)' = MaxAttempts - 2 - attempts[m]
              /\ Returning(m)' \in 0..1
          BY <1>1, <4>2, <4>4 DEF Unclaimed, Returning
        <5>. QED  BY <1>1, <2>0, <4>2, <4>3, <5>1 DEF Budget
      <4>5. CASE ~(attempts[m] + 1 < MaxAttempts)
        <5>1. Unclaimed(m) = 0 /\ Unclaimed(m)' = 0 /\ Returning(m)' = 0
          BY <1>1, <4>2, <4>5 DEF Unclaimed, Returning
        <5>. QED  BY <1>1, <2>0, <4>2, <4>3, <5>1 DEF Budget
      <4>. QED  BY <4>4, <4>5
    <3>. QED  BY <3>1, <3>2
  <2>2. CASE returned' = {} /\ UNCHANGED table
    BY <1>2, <2>0, <2>2
  <2>. QED  BY <1>7, <2>1, <2>2 DEF ClaimBatch
<1>8. CASE StartJobs
  <2>1. /\ status' = status /\ attempts' = attempts /\ reaps' = reaps
        /\ inFlight' = inFlight \union NewJobs /\ returned' = {}
    BY <1>8 DEF StartJobs
  <2>2. CASE m \in returned /\ attempts[m] < MaxAttempts
    <3> DEFINE new == [media |-> m, attempt |-> attempts[m], at |-> "fetching"]
    <3>1. Spendable(m)' \subseteq Spendable(m) \union {new}
      BY <2>1 DEF Spendable, NewJobs
    <3>2. spendx <= spend + 1
      <4> HIDE DEF new
      <4>1. /\ IsFiniteSet(Spendable(m) \union {new})
            /\ Cardinality(Spendable(m) \union {new}) \in Nat
            /\ Cardinality(Spendable(m) \union {new}) <= spend + 1
        BY SpendableType, CountAdd
      <4>2. spendx <= Cardinality(Spendable(m) \union {new})
        BY <3>1, <4>1, CountSubset
      <4>. QED  BY <1>1, <4>1, <4>2
    <3>3. Returning(m) = 1 /\ Returning(m)' = 0
      BY <2>1, <2>2 DEF Returning
    <3>4. Unclaimed(m)' = Unclaimed(m) /\ Waiting(m)' = Waiting(m)
      BY <2>1 DEF Unclaimed, Waiting
    <3>5. Unclaimed(m) \in Int /\ Waiting(m) \in Nat
      BY <1>1 DEF Unclaimed, Waiting
    <3>. QED  BY <1>1, <2>1, <3>2, <3>3, <3>4, <3>5 DEF Budget
  <2>3. CASE ~(m \in returned /\ attempts[m] < MaxAttempts)
    <3>1. Spendable(m)' \subseteq Spendable(m)
      BY <2>1, <2>3 DEF Spendable, NewJobs
    <3>. QED  BY <2>1, <3>1, BudgetKept
  <2>. QED  BY <2>2, <2>3
<1>9. ASSUME NEW j \in inFlight, JobStep(j) PROVE Budget(m)'
  <2>1. attempts' = attempts /\ reaps' = reaps /\ returned' = returned
    BY <1>9 DEF JobStep, GiveUpAtOnce, Store, Put, RecordDone, EnqueueProcessing, Retry,
                LoseOutcome, SetRow, Finish
  <2>2. j \in Job /\ status \in [Media -> Statuses]
    BY DEF TypeInv, TypeOK, Values
  <2>3. CASE inFlight' = inFlight \ {j}
             /\ (status'[m] \in {"absent", "pending"} => status[m] \in {"absent", "pending"})
    <3>1. Spendable(m)' \subseteq Spendable(m)
      BY <2>3 DEF Spendable
    <3>. QED  BY <2>1, <2>3, <3>1, BudgetKept
  <2>4. CASE /\ j.at \in {"fetching", "storing"}
             /\ \E st \in Stages : inFlight' = (inFlight \ {j}) \union {[j EXCEPT !.at = st]}
             /\ status'[m] \in {"absent", "pending"} => status[m] \in {"absent", "pending"}
    <3>1. status'[m] \in {"absent", "pending"} => status[m] \in {"absent", "pending"}
      BY <2>4
    <3>2. CASE j \in Spendable(m)
      <4>1. PICK k : inFlight' = (inFlight \ {j}) \union {k}
        BY <2>4
      <4>2. Spendable(m)' \subseteq (Spendable(m) \ {j}) \union {k}
        BY <4>1 DEF Spendable
      <4>3. spendx <= spend
        <5>1. /\ IsFiniteSet((Spendable(m) \ {j}) \union {k})
              /\ Cardinality((Spendable(m) \ {j}) \union {k}) \in Nat
              /\ Cardinality((Spendable(m) \ {j}) \union {k}) <= spend
          BY <3>2, SpendableType, CountReplace
        <5>2. spendx <= Cardinality((Spendable(m) \ {j}) \union {k})
          BY <4>2, <5>1, CountSubset
        <5>. QED  BY <1>1, <5>1, <5>2
      <4>4. /\ Unclaimed(m)' = Unclaimed(m) /\ Returning(m)' = Returning(m)
            /\ Waiting(m)' <= Waiting(m)
        BY <2>1, <3>1 DEF Unclaimed, Returning, Waiting
      <4>5. /\ Unclaimed(m) \in Int /\ Returning(m) \in Nat
            /\ Waiting(m) \in Nat /\ Waiting(m)' \in Nat
        BY <1>1 DEF Unclaimed, Returning, Waiting
      <4>. QED  BY <1>1, <2>1, <4>3, <4>4, <4>5 DEF Budget
    <3>3. CASE j \notin Spendable(m)
      <4>1. Spendable(m)' \subseteq Spendable(m)
        BY <2>2, <2>4, <3>3 DEF Spendable, Job
      <4>. QED  BY <2>1, <3>1, <4>1, BudgetKept
    <3>. QED  BY <3>2, <3>3
  <2>5. CASE ~Retry(j)
    <3>1. status'[m] \in {"absent", "pending"} => status[m] \in {"absent", "pending"}
      BY <1>9, <2>2, <2>5 DEF JobStep, GiveUpAtOnce, Store, Put, RecordDone, EnqueueProcessing,
                              LoseOutcome, SetRow
    <3>. QED  BY <1>9, <2>3, <2>4, <3>1, JobsOnlyShrink
  <2>6. CASE Retry(j)
    <3>1. inFlight' = inFlight \ {j}
      BY <2>6 DEF Retry, Finish
    <3>2. CASE status'[m] = status[m] \/ status'[m] = "failed"
      BY <2>3, <3>1, <3>2
    <3>3. CASE j.media = m /\ j.attempt < MaxAttempts
      <4>1. j \in Spendable(m) /\ Spendable(m)' = Spendable(m) \ {j}
        BY <2>6, <3>1, <3>3 DEF Retry, Spendable
      <4>2. spendx = spend - 1
        BY <4>1, SpendableType, CountRemove
      <4>3. /\ Unclaimed(m)' = Unclaimed(m) /\ Returning(m)' = Returning(m)
            /\ Waiting(m)' <= Waiting(m) + 1
        BY <2>1 DEF Unclaimed, Returning, Waiting
      <4>4. /\ Unclaimed(m) \in Int /\ Returning(m) \in Nat
            /\ Waiting(m) \in Nat /\ Waiting(m)' \in Nat
        BY <1>1 DEF Unclaimed, Returning, Waiting
      <4>. QED  BY <1>1, <2>1, <4>2, <4>3, <4>4 DEF Budget
    <3>. QED  BY <1>1, <2>2, <2>6, <3>2, <3>3 DEF Retry, SetRow, AfterRetry, Job
  <2>. QED  BY <2>5, <2>6
<1>10. CASE ProcessDies
  <2>1. /\ attempts' = attempts /\ reaps' = reaps /\ status' = status /\ returned' = {}
        /\ inFlight' = {}
    BY <1>10 DEF ProcessDies
  <2>2. Spendable(m)' \subseteq Spendable(m)
    BY <2>1 DEF Spendable
  <2>. QED  BY <2>1, <2>2, BudgetKept
<1>. QED
  BY <1>3, <1>4, <1>5, <1>6, <1>7, <1>8, <1>9, <1>10 DEF Next, Loop

LEMMA IInvStep == IInv /\ [Next]_vars => IInv'
<1> SUFFICES ASSUME IInv, [Next]_vars PROVE IInv'
  OBVIOUS
<1>1. TypeInv'                        BY TypeStep DEF IInv
<1>2. HandedOver' /\ SlotsKept'       BY HandedOverStep, SlotsKeptStep DEF IInv
<1>3. JobsStored' /\ DoneMeansStored' BY StoredStep DEF IInv
<1>4. ASSUME NEW m \in Media PROVE Budget(m)'
  BY <1>1, BudgetStep DEF IInv
<1>. QED  BY <1>1, <1>2, <1>3, <1>4 DEF IInv

LEMMA IInvAlways == Spec => []IInv
BY IInvInit, IInvStep, PTL DEF Spec

\* claimBatch counts an attempt, processRow stops at MEDIA_MAX_ATTEMPTS by the
\* attempt it claimed: however many jobs of a row are in flight or stale, its
\* attempts stay within the cap and one more for each lease taken back.
THEOREM AttemptsStayBounded == Spec => []AttemptsBounded
<1>1. IInv => AttemptsBounded
  <2> SUFFICES ASSUME IInv, NEW m \in Media PROVE attempts[m] <= MaxAttempts + reaps[m]
    BY DEF AttemptsBounded
  <2>1. Budget(m) /\ TypeInv
    BY DEF IInv
  <2>2. Cardinality(Spendable(m)) \in Nat
    BY <2>1, SpendableType
  <2>3. attempts[m] \in Nat /\ reaps[m] \in Nat /\ MaxAttempts \in Nat
    BY <2>1, ConstantsAssumption DEF TypeInv, TypeOK, Values
  <2>4. Unclaimed(m) \in Nat /\ Waiting(m) \in Nat /\ Returning(m) \in Nat
    BY <2>3 DEF Unclaimed, Waiting, Returning
  <2>. QED  BY <2>1, <2>2, <2>3, <2>4 DEF Budget
<1>. QED  BY IInvAlways, <1>1, PTL

\* loop() computes a claim's limit, awaits the reaper and the claim, and only
\* then starts jobs; still it never has more than MEDIA_DOWNLOAD_CONCURRENCY.
THEOREM ConcurrencyIsRespected == Spec => []ConcurrencyRespected
<1>1. IInv => ConcurrencyRespected
  <2> SUFFICES ASSUME IInv PROVE Cardinality(inFlight) <= Concurrency
    BY DEF ConcurrencyRespected
  <2>1. IsFiniteSet(returned) /\ IsFiniteSet(inFlight)
    BY ConstantsAssumption, FS_Subset DEF IInv, TypeInv, TypeOK, Values
  <2>2. Cardinality(returned) \in Nat /\ Cardinality(inFlight) \in Nat /\ Concurrency \in Nat
    BY <2>1, CountType, ConstantsAssumption
  <2>. QED  BY <2>2 DEF IInv, SlotsKept
<1>. QED  BY IInvAlways, <1>1, PTL

\* downloadOne() puts the object, marks the row done and inserts the processing
\* job in this order: a row done or queued has its object, after any crash.
THEOREM DoneIsStored == Spec => []DoneMeansStored
<1>1. IInv => DoneMeansStored
  BY DEF IInv
<1>. QED  BY IInvAlways, <1>1, PTL

(***************************************************************************)
(* Wake-ups.                                                               *)
(***************************************************************************)

\* A job's step takes the job out, or puts it back at another stage.
LEMMA JobMoves ==
  ASSUME NEW j \in inFlight, JobStep(j)
  PROVE  /\ returned' = returned /\ attempts' = attempts /\ storage' = storage
         /\ \/ inFlight' = inFlight \ {j} /\ Notify
            \/ UNCHANGED wake /\ \E st \in Stages : Resume(j, st)
BY DEF JobStep, GiveUpAtOnce, Store, Put, RecordDone, EnqueueProcessing, Retry, LoseOutcome,
       Finish, SetRow, Stages

\* An attempt of a row is one job, and it is over when the row is claimed again:
\* however many jobs of a row overlap, they can be told apart.
OneJobPerAttempt ==
  /\ \A j \in inFlight : j.attempt <= attempts[j.media]
  /\ \A j \in inFlight : j.media \in returned => j.attempt < attempts[j.media]
  /\ \A j, k \in inFlight : j.media = k.media /\ j.attempt = k.attempt => j = k

\* A notify() that no claim has followed is remembered, or a claim is on its way,
\* or the worker sleeps because it has no storage or no slot: the job that frees
\* one wakes it.
Woken ==
  /\ loop = "sleeping" => ~wakePending
  /\ owed => \/ wakePending
             \/ loop \in {"top", "reaping", "claiming", "stopped", "down"}
             \/ loop = "sleeping" /\ (storage = "noop" \/ FreeSlots <= 0)

LEMMA OneJobPerAttemptStep ==
  ASSUME TypeInv, HandedOver, OneJobPerAttempt, [Next]_vars
  PROVE  OneJobPerAttempt'
<1>0. inFlight \subseteq Job /\ returned \subseteq Media /\ attempts \in [Media -> Nat]
  BY DEF TypeInv, TypeOK, Values
<1> USE <1>0 DEF OneJobPerAttempt
<1>1. CASE inFlight' = inFlight /\ attempts' = attempts /\ returned' = returned
  BY <1>1
<1>2. CASE ClaimBatch
  <2>1. inFlight' = inFlight /\ returned = {}
    BY <1>2 DEF ClaimBatch, HandedOver
  <2>2. ASSUME NEW S \in Batches, Stamp(S), returned' \in {S, {}} PROVE OneJobPerAttempt'
    <3>1. \A m \in Media : /\ attempts[m] \in Nat /\ attempts'[m] \in Nat
                           /\ attempts[m] <= attempts'[m]
                           /\ m \in S => attempts[m] < attempts'[m]
      BY <2>2 DEF Stamp
    <3>2. \A j \in inFlight : j.media \in Media /\ j.attempt \in Nat
      BY DEF Job
    <3>3. \A j \in inFlight : /\ j.attempt <= attempts'[j.media]
                              /\ j.media \in S => j.attempt < attempts'[j.media]
      BY <3>1, <3>2
    <3>. QED  BY <2>1, <2>2, <3>3
  <2>3. CASE returned' = {} /\ attempts' = attempts
    BY <2>1, <2>3
  <2>. QED  BY <1>2, <2>2, <2>3 DEF ClaimBatch
<1>3. CASE StartJobs
  <2>1. attempts' = attempts /\ inFlight' = inFlight \union NewJobs /\ returned' = {}
    BY <1>3 DEF StartJobs
  <2>2. \A j \in NewJobs : j.media \in returned /\ j.attempt = attempts[j.media]
    BY DEF NewJobs
  <2>3. \A j, k \in NewJobs : j.media = k.media => j = k
    BY DEF NewJobs
  <2>. QED  BY <2>1, <2>2, <2>3 DEF Job
<1>4. ASSUME NEW j \in inFlight, JobStep(j) PROVE OneJobPerAttempt'
  <2>1. attempts' = attempts /\ returned' = returned /\ j \in Job
    BY <1>4, JobMoves
  <2>2. ASSUME NEW st \in Stages, Resume(j, st) PROVE OneJobPerAttempt'
    BY <2>1, <2>2 DEF Job
  <2>3. CASE inFlight' = inFlight \ {j}
    BY <2>1, <2>3
  <2>. QED  BY <1>4, <2>2, <2>3, JobMoves
<1>5. CASE ProcessDies
  BY <1>5 DEF ProcessDies
<1>6. ASSUME NEW m \in Media,
             Ingest(m) \/ HandlerReturns(m) \/ BackoffPasses(m) \/ LeaseLapses(m)
      PROVE  OneJobPerAttempt'
  BY <1>1, <1>6 DEF Ingest, HandlerReturns, BackoffPasses, LeaseLapses
<1>7. CASE LoopTop \/ ReapExpiredLeases \/ ClaimedNothing \/ PollTimeout
  BY <1>1, <1>7 DEF LoopTop, ReapExpiredLeases, ClaimedNothing, PollTimeout
<1>8. CASE ReapIntervalPasses \/ Stop \/ Boot \/ UNCHANGED vars
  BY <1>1, <1>8 DEF ReapIntervalPasses, Stop, Boot, vars
<1>. QED
  BY <1>2, <1>3, <1>4, <1>5, <1>6, <1>7, <1>8 DEF Next, Loop

\* A slot is freed by nothing but the end of a job, which notifies.
LEMMA FreedSlotsNotify ==
  ASSUME TypeInv, OneJobPerAttempt, NEW j \in inFlight, JobStep(j)
  PROVE  Notify \/ (UNCHANGED wake /\ FreeSlots' = FreeSlots)
<1>1. IsFiniteSet(inFlight \ {j}) /\ Cardinality(inFlight) \in Nat
      /\ Cardinality(inFlight \ {j}) \in Nat
      /\ Cardinality(inFlight \ {j}) = Cardinality(inFlight) - 1
  BY CountRemove, CountType DEF TypeInv
<1>2. ASSUME NEW st \in Stages, Resume(j, st) PROVE FreeSlots' = FreeSlots
  <2> DEFINE k == [j EXCEPT !.at = st]
  <2>1. k \notin inFlight \ {j}
    BY DEF OneJobPerAttempt, Job, TypeInv, TypeOK, Values
  <2>2. inFlight' = (inFlight \ {j}) \union {k}
    BY <1>2
  <2> HIDE DEF k
  <2>3. Cardinality(inFlight') = Cardinality(inFlight)
    <3>1. Cardinality((inFlight \ {j}) \union {k}) = Cardinality(inFlight \ {j}) + 1
      BY <1>1, <2>1, FS_AddElement
    <3>. QED  BY <1>1, <2>2, <3>1
  <2>. QED  BY <2>3 DEF FreeSlots
<1>. QED  BY <1>2, JobMoves

LEMMA WokenStep ==
  ASSUME TypeInv, OneJobPerAttempt, Woken, [Next]_vars
  PROVE  Woken'
<1> USE DEF Woken
<1>0. /\ loop \in {"top", "reaping", "claiming", "claimed", "sleeping", "stopped", "down"}
      /\ wakePending \in BOOLEAN /\ owed \in BOOLEAN
  BY DEF TypeInv, TypeOK, Values, Flags
<1>1. CASE Notify
  BY <1>0, <1>1 DEF Notify
<1>2. CASE UNCHANGED wake /\ FreeSlots' = FreeSlots /\ storage' = storage
  BY <1>2
<1>3. inFlight' = inFlight => FreeSlots' = FreeSlots
  BY DEF FreeSlots
<1>4. ASSUME NEW m \in Media,
             Ingest(m) \/ HandlerReturns(m) \/ BackoffPasses(m) \/ LeaseLapses(m)
      PROVE  Woken'
  BY <1>1, <1>2, <1>3, <1>4 DEF Ingest, HandlerReturns, BackoffPasses, LeaseLapses
<1>5. CASE LoopTop
  BY <1>0, <1>3, <1>5 DEF LoopTop, SleepUntilWake
<1>6. CASE ReapExpiredLeases
  BY <1>6 DEF ReapExpiredLeases
<1>7. CASE ClaimBatch
  BY <1>7 DEF ClaimBatch
<1>8. CASE StartJobs \/ PollTimeout
  BY <1>8 DEF StartJobs, PollTimeout
<1>9. CASE ClaimedNothing
  BY <1>0, <1>9 DEF ClaimedNothing, SleepUntilWake
<1>10. ASSUME NEW j \in inFlight, JobStep(j) PROVE Woken'
  BY <1>1, <1>2, <1>10, JobMoves, FreedSlotsNotify
<1>11. CASE ReapIntervalPasses \/ UNCHANGED vars
  BY <1>2, <1>3, <1>11 DEF ReapIntervalPasses, vars
<1>12. CASE Stop
  BY <1>1, <1>12 DEF Stop
<1>13. CASE ProcessDies \/ Boot
  BY <1>13 DEF ProcessDies, Boot
<1>. QED
  BY <1>4, <1>5, <1>6, <1>7, <1>8, <1>9, <1>10, <1>11, <1>12, <1>13 DEF Next, Loop

\* While the worker sleeps with storage and a free slot, no notify() is unanswered,
\* wherever in its awaits the loop was when it came.
THEOREM WakesAreKept == Spec => []NoLostWake
<1> DEFINE Inv == TypeInv /\ HandedOver /\ OneJobPerAttempt /\ Woken
<1>1. Init => Inv
  <2>1. Init => TypeInv /\ HandedOver
    BY IInvInit DEF IInv
  <2>2. Init => OneJobPerAttempt /\ Woken
    BY DEF Init, OneJobPerAttempt, Woken
  <2>. QED  BY <2>1, <2>2
<1>2. ASSUME Inv, [Next]_vars PROVE Inv'
  BY <1>2, TypeStep, HandedOverStep, OneJobPerAttemptStep, WokenStep
<1>3. Inv => NoLostWake
  BY FreeSlotsType, ConstantsAssumption DEF TypeInv, Woken, NoLostWake
<1> HIDE DEF Inv
<1>. QED  BY <1>1, <1>2, <1>3, PTL DEF Spec

-----------------------------------------------------------------------------
(* Ownership of orderly rows. The lease of one that is claimed or worked   *)
(* on cannot lapse, so the reaper leaves the row to its job.               *)

Unexpired ==
  /\ \A j \in inFlight :
       j.media \in Orderly /\ status[j.media] = "in_progress" => ~elapsed[j.media]
  /\ \A m \in returned \intersect Orderly : ~elapsed[m]

Owned == SoleOwner /\ Unexpired

LEMMA OwnedInit == Init => Owned
BY DEF Init, Owned, SoleOwner, Unexpired

LEMMA OwnedStep == TypeInv /\ HandedOver /\ Owned /\ [Next]_vars => Owned'
<1> SUFFICES ASSUME TypeInv, HandedOver, Owned, [Next]_vars PROVE Owned'
  OBVIOUS
<1>0. /\ status \in [Media -> Statuses] /\ attempts \in [Media -> Nat]
      /\ elapsed \in [Media -> BOOLEAN]
      /\ inFlight \subseteq Job /\ returned \subseteq Media
  BY DEF TypeInv, TypeOK, Values, Flags
<1> USE <1>0 DEF Owned, SoleOwner, Unexpired, OwnsRow
<1>1. CASE inFlight' = inFlight /\ status' = status /\ attempts' = attempts
           /\ elapsed' = elapsed /\ returned' = returned
  BY <1>1
<1>2. ASSUME NEW m \in Media, Ingest(m) PROVE Owned'
  <2>1. \A j \in inFlight : j.media \in Orderly => j.media # m
    BY <1>2 DEF Ingest
  <2>. QED  BY <1>2, <2>1 DEF Ingest, Job
<1>3. ASSUME NEW m \in Media, HandlerReturns(m) PROVE Owned'
  BY <1>1, <1>3 DEF HandlerReturns
<1>4. ASSUME NEW m \in Media, BackoffPasses(m) PROVE Owned'
  BY <1>4 DEF BackoffPasses, Job
<1>5. ASSUME NEW m \in Media, LeaseLapses(m) PROVE Owned'
  BY <1>5 DEF LeaseLapses, Job
<1>6. CASE ReapExpiredLeases
  BY <1>6 DEF ReapExpiredLeases, Expired, Job
<1>7. CASE ClaimBatch
  <2>0. inFlight' = inFlight /\ returned = {}
    BY <1>7 DEF ClaimBatch, HandedOver
  <2>1. ASSUME NEW S \in Batches, Stamp(S), returned' \in {S, {}} PROVE Owned'
    <3>1. \A m \in S : m \in Media /\ status[m] = "pending"
      BY DEF Batches, Ready
    <3>2. \A j \in inFlight : j.media \in Media /\ (j.media \in Orderly => j.media \notin S)
      BY <3>1 DEF Job
    <3>. QED  BY <2>0, <2>1, <3>1, <3>2 DEF Stamp
  <2>2. CASE returned' = {} /\ UNCHANGED table
    BY <2>0, <2>2
  <2>. QED  BY <1>7, <2>1, <2>2 DEF ClaimBatch
<1>8. CASE StartJobs
  <2>1. /\ status' = status /\ attempts' = attempts /\ elapsed' = elapsed
        /\ inFlight' = inFlight \union NewJobs /\ returned' = {}
    BY <1>8 DEF StartJobs
  <2>2. \A j \in NewJobs : /\ j.media \in returned /\ j.attempt = attempts[j.media]
                          /\ j.at = "fetching"
    BY DEF NewJobs
  <2>3. \A j, k \in NewJobs : j.media = k.media => j = k
    BY DEF NewJobs
  <2>. QED  BY <2>1, <2>2, <2>3
<1>9. ASSUME NEW j \in inFlight, JobStep(j) PROVE Owned'
  <2>0. j \in Job /\ returned' = returned
    BY <1>9 DEF JobStep, GiveUpAtOnce, Store, Put, RecordDone, EnqueueProcessing, Retry,
                LoseOutcome, Finish
  <2>1. ASSUME UNCHANGED table \/ \E st \in Statuses : SetRow(j.media, st)
        PROVE  /\ \A k \in inFlight \ {j} :
                    k.media \in Orderly => /\ OwnsRow(k)' /\ k.media # j.media
                                           /\ elapsed'[k.media] = elapsed[k.media]
                                           /\ status'[k.media] = status[k.media]
               /\ \A m \in returned \intersect Orderly :
                    /\ status'[m] = "in_progress" /\ ~elapsed'[m]
                    /\ \A k \in inFlight : k.media # m
               /\ j.media \in Orderly => attempts'[j.media] = j.attempt
    BY <2>0, <2>1 DEF SetRow, Job
  <2>2. CASE inFlight' = inFlight \ {j}
             /\ (UNCHANGED table \/ \E st \in Statuses : SetRow(j.media, st))
    BY <2>0, <2>1, <2>2
  <2>3. ASSUME NEW at \in Stages, Resume(j, at),
               UNCHANGED table \/ \E st \in Statuses : SetRow(j.media, st),
               \/ j.media \notin Orderly
               \/ status'[j.media] = "in_progress" /\ ~elapsed'[j.media] /\ at # "enqueueing"
               \/ status'[j.media] = "done" /\ at = "enqueueing"
        PROVE  Owned'
    <3> DEFINE jx == [j EXCEPT !.at = at]
    <3>1. inFlight' = (inFlight \ {j}) \union {jx}
      BY <2>3
    <3>2. jx.media = j.media /\ jx.attempt = j.attempt /\ jx.at = at
      BY <2>0 DEF Job
    <3>3. jx.media \in Orderly =>
            OwnsRow(jx)' /\ (status'[jx.media] = "in_progress" => ~elapsed'[jx.media])
      BY <2>1, <2>3, <3>2
    <3>4. \A k \in inFlight \ {j} :
            k.media \in Orderly \/ jx.media \in Orderly => k.media # jx.media
      BY <3>2
    <3>. QED
      <4> HIDE DEF jx
      <4>. QED  BY <2>0, <2>1, <2>3, <3>1, <3>2, <3>3, <3>4
  <2>4. CASE GiveUpAtOnce(j)
    <3>1. PICK st \in {"skipped", "failed"} : SetRow(j.media, st)
      BY <2>4 DEF GiveUpAtOnce
    <3>2. status'[j.media] = st /\ st \in Terminal /\ st \in Statuses
      BY <2>0, <3>1 DEF SetRow, Job, Terminal, Statuses
    <3>. QED  BY <2>2, <2>3, <2>4, <3>1, <3>2 DEF GiveUpAtOnce, Finish, Stages
  <2>5. CASE Store(j)
    BY <2>0, <2>3, <2>5 DEF Store, Put, Stages
  <2>6. CASE RecordDone(j)
    <3>1. CASE SetRow(j.media, "done")
      <4>1. status'[j.media] = "done"
        BY <2>0, <3>1 DEF SetRow, Job
      <4>. QED  BY <2>3, <2>6, <3>1, <4>1 DEF RecordDone, Stages, Statuses, Terminal
    <3>2. CASE UNCHANGED table /\ Resume(j, "failing")
      BY <2>0, <2>3, <2>6, <3>2 DEF RecordDone, Stages
    <3>. QED  BY <2>6, <3>1, <3>2 DEF RecordDone
  <2>7. CASE EnqueueProcessing(j) \/ Retry(j) \/ LoseOutcome(j)
    BY <2>2, <2>7 DEF EnqueueProcessing, Retry, AfterRetry, LoseOutcome, Finish, Statuses, Terminal
  <2>. QED  BY <1>9, <2>4, <2>5, <2>6, <2>7 DEF JobStep
<1>10. CASE ProcessDies
  BY <1>10 DEF ProcessDies
<1>11. CASE LoopTop \/ ClaimedNothing \/ PollTimeout \/ ReapIntervalPasses \/ Stop \/ Boot
           \/ UNCHANGED vars
  BY <1>1, <1>11 DEF LoopTop, ClaimedNothing, PollTimeout, ReapIntervalPasses, Stop, Boot, vars
<1>. QED
  BY <1>2, <1>3, <1>4, <1>5, <1>6, <1>7, <1>8, <1>9, <1>10, <1>11 DEF Next, Loop

OInv == TypeInv /\ HandedOver /\ Owned

LEMMA OInvAlways == Spec => []OInv
<1>1. Init => OInv
  BY IInvInit, OwnedInit DEF OInv, IInv
<1>2. OInv /\ [Next]_vars => OInv'
  BY TypeStep, HandedOverStep, OwnedStep DEF OInv
<1>. QED  BY <1>1, <1>2, PTL DEF Spec

\* The job of an orderly row owns it, at the attempt it claimed, across crashes,
\* lost claims and lost outcomes, and whatever the jobs of other rows do.
THEOREM JobsOwnTheirRows == Spec => []SoleOwner
<1>1. OInv => SoleOwner
  BY DEF OInv, Owned
<1>. QED  BY OInvAlways, <1>1, PTL

\* What one step may do to the orderly rows: the moves of the job board.
OrderlyIn(st) == {m \in Orderly : status[m] = st}
Becomes(S, st) == \A m \in Orderly : status'[m] = IF m \in S THEN st ELSE status[m]

LEMMA StepIsBoardMove ==
  ASSUME OInv, [Next]_vars
  PROVE  \/ \A m \in Orderly : status'[m] = status[m]
         \/ \E S \in SUBSET OrderlyIn("absent") : Becomes(S, "pending")
         \/ \E S \in SUBSET OrderlyIn("pending") : Becomes(S, "in_progress")
         \/ \E S \in SUBSET OrderlyIn("in_progress") : Becomes(S, "pending")
         \/ \E m \in OrderlyIn("in_progress"), st \in Terminal : Becomes({m}, st)
<1> USE DEF OrderlyIn, Becomes
<1>0. status \in [Media -> Statuses] /\ inFlight \subseteq Job /\ Orderly \subseteq Media
  BY ConstantsAssumption DEF OInv, TypeInv, TypeOK, Values
<1>1. CASE status' = status
  BY <1>1
<1>2. ASSUME NEW m \in Media, Ingest(m)
      PROVE  \E S \in SUBSET OrderlyIn("absent") : Becomes(S, "pending")
  <2>1. {m} \intersect Orderly \in SUBSET OrderlyIn("absent")
    BY <1>2 DEF Ingest
  <2>2. Becomes({m} \intersect Orderly, "pending")
    BY <1>0, <1>2 DEF Ingest
  <2>. QED  BY <2>1, <2>2
<1>3. CASE ReapExpiredLeases
  <2>1. CASE status' = [m \in Media |-> IF m \in Expired THEN "pending" ELSE status[m]]
    <3>1. Expired \intersect Orderly \in SUBSET OrderlyIn("in_progress")
      BY DEF Expired
    <3>2. Becomes(Expired \intersect Orderly, "pending")
      BY <1>0, <2>1
    <3>. QED  BY <3>1, <3>2
  <2>. QED  BY <1>1, <1>3, <2>1 DEF ReapExpiredLeases
<1>4. CASE ClaimBatch
  <2>1. ASSUME NEW S \in Batches, Stamp(S)
        PROVE  \E T \in SUBSET OrderlyIn("pending") : Becomes(T, "in_progress")
    <3>1. S \intersect Orderly \in SUBSET OrderlyIn("pending")
      BY DEF Batches, Ready
    <3>2. Becomes(S \intersect Orderly, "in_progress")
      BY <1>0, <2>1 DEF Stamp
    <3>. QED  BY <3>1, <3>2
  <2>. QED  BY <1>1, <1>4, <2>1 DEF ClaimBatch
<1>5. ASSUME NEW j \in inFlight, JobStep(j)
      PROVE  \/ \A m \in Orderly : status'[m] = status[m]
             \/ \E S \in SUBSET OrderlyIn("in_progress") : Becomes(S, "pending")
             \/ \E m \in OrderlyIn("in_progress"), st \in Terminal : Becomes({m}, st)
  <2>1. j \in Job /\ j.media \in Media /\ (j.media \in Orderly => OwnsRow(j))
    BY <1>0 DEF OInv, Owned, SoleOwner, Job
  <2>2. ASSUME NEW st, SetRow(j.media, st), j.media \notin Orderly
        PROVE  \A m \in Orderly : status'[m] = status[m]
    BY <1>0, <2>1, <2>2 DEF SetRow
  <2>3. ASSUME j.at # "enqueueing", NEW st, SetRow(j.media, st), j.media \in Orderly
        PROVE  j.media \in OrderlyIn("in_progress") /\ Becomes({j.media}, st)
    BY <1>0, <2>1, <2>3 DEF OwnsRow, SetRow
  <2>4. ASSUME j.at # "enqueueing", NEW st \in Terminal, SetRow(j.media, st)
        PROVE  \/ \A m \in Orderly : status'[m] = status[m]
               \/ \E m \in OrderlyIn("in_progress") : Becomes({m}, st)
    BY <2>2, <2>3, <2>4
  <2>5. ASSUME j.at # "enqueueing", SetRow(j.media, "pending")
        PROVE  \/ \A m \in Orderly : status'[m] = status[m]
               \/ \E S \in SUBSET OrderlyIn("in_progress") : Becomes(S, "pending")
    <3>1. CASE j.media \in Orderly
      <4>1. {j.media} \in SUBSET OrderlyIn("in_progress") /\ Becomes({j.media}, "pending")
        BY <2>3, <2>5, <3>1
      <4>. QED  BY <4>1
    <3>. QED  BY <2>2, <2>5, <3>1
  <2>6. CASE GiveUpAtOnce(j)
    BY <2>4, <2>6 DEF GiveUpAtOnce, Terminal
  <2>7. CASE RecordDone(j)
    BY <1>1, <2>4, <2>7 DEF RecordDone, Terminal
  <2>8. CASE Retry(j)
    BY <2>4, <2>5, <2>8 DEF Retry, AfterRetry, Terminal
  <2>. QED
    BY <1>1, <1>5, <2>6, <2>7, <2>8 DEF JobStep, Store, Put, EnqueueProcessing, LoseOutcome
<1>6. ASSUME NEW m \in Media, HandlerReturns(m) \/ BackoffPasses(m) \/ LeaseLapses(m)
      PROVE  status' = status
  BY <1>6 DEF HandlerReturns, BackoffPasses, LeaseLapses
<1>7. CASE LoopTop \/ StartJobs \/ ClaimedNothing \/ PollTimeout \/ ReapIntervalPasses \/ Stop
           \/ ProcessDies \/ Boot \/ UNCHANGED vars
  BY <1>1, <1>7 DEF LoopTop, StartJobs, ClaimedNothing, PollTimeout, ReapIntervalPasses, Stop,
                    ProcessDies, Boot, vars
<1>. QED  BY <1>1, <1>2, <1>3, <1>4, <1>5, <1>6, <1>7 DEF Next, Loop

\* done, failed and skipped are terminal for an orderly row, as SCHEMA.md draws
\* them for every row.
THEOREM TerminalStaysFinal == Spec => TerminalIsFinal
<1>1. OInv /\ [Next]_vars => KeepsTerminal(Orderly)
  <2> SUFFICES ASSUME OInv, [Next]_vars, NEW m \in Orderly, status[m] \in Terminal
               PROVE  status'[m] = status[m]
    BY DEF KeepsTerminal
  <2>1. status[m] \notin {"absent", "pending", "in_progress"}
    BY DEF Terminal
  <2>. QED  BY <2>1, StepIsBoardMove DEF OrderlyIn, Becomes
<1>. QED  BY OInvAlways, <1>1, PTL DEF Spec, TerminalIsFinal

\* For orderly rows the download queue implements the job board: leases, retries,
\* the reaper and crashes amount to rows taken, given back and settled once.
THEOREM ImplementsBoard == Spec => BoardSpec
<1> DEFINE state == [m \in Orderly |-> Place(status[m])]
<1>0. Orderly \subseteq Media
  BY ConstantsAssumption
<1>1. Init => Board!Init
  BY <1>0 DEF Init, Board!Init, Place
<1>2. OInv /\ [Next]_vars => [Board!Next]_state
  <2> SUFFICES ASSUME OInv, [Next]_vars PROVE Board!Next \/ state' = state
    OBVIOUS
  <2>1. CASE \A m \in Orderly : status'[m] = status[m]
    BY <2>1
  <2>2. ASSUME NEW S \in SUBSET Orderly, NEW st, Becomes(S, st)
        PROVE  Board!Move(S, Place(st))
    BY <2>2 DEF Board!Move, Becomes
  <2>3. /\ OrderlyIn("absent") = Board!In("absent") /\ OrderlyIn("pending") = Board!In("waiting")
        /\ OrderlyIn("in_progress") = Board!In("held")
    <3>1. \A m \in Orderly : status[m] \in Statuses
      BY <1>0 DEF OInv, TypeInv, TypeOK, Values
    <3>. QED  BY <3>1 DEF OrderlyIn, Board!In, Place, Statuses, Terminal
  <2>4. /\ Place("pending") = "waiting" /\ Place("in_progress") = "held"
        /\ \A st \in Terminal : Place(st) = st
    BY DEF Place, Terminal
  <2>5. CASE \E S \in SUBSET OrderlyIn("absent") : Becomes(S, "pending")
    BY <2>2, <2>3, <2>4, <2>5 DEF Board!Next, Board!Post, OrderlyIn
  <2>6. CASE \E S \in SUBSET OrderlyIn("pending") : Becomes(S, "in_progress")
    BY <2>2, <2>3, <2>4, <2>6 DEF Board!Next, Board!Take, OrderlyIn
  <2>7. CASE \E S \in SUBSET OrderlyIn("in_progress") : Becomes(S, "pending")
    BY <2>2, <2>3, <2>4, <2>7 DEF Board!Next, Board!GiveBack, OrderlyIn
  <2>8. CASE \E m \in OrderlyIn("in_progress"), st \in Terminal : Becomes({m}, st)
    <3>1. PICK m \in OrderlyIn("in_progress"), st \in Terminal : Becomes({m}, st)
      BY <2>8
    <3>2. {m} \in SUBSET Orderly
      BY DEF OrderlyIn
    <3>3. Board!Move({m}, st)
      BY <2>2, <2>4, <3>1, <3>2
    <3>. QED  BY <2>3, <3>1, <3>3 DEF Board!Next, Board!Settle
  <2>. QED  BY <2>1, <2>5, <2>6, <2>7, <2>8, StepIsBoardMove
<1>. QED  BY OInvAlways, <1>1, <1>2, PTL DEF Spec, BoardSpec, Board!Spec
===============================================================================
