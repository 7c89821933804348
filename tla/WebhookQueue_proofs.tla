-------------------------- MODULE WebhookQueue_proofs --------------------------
(***************************************************************************)
(* Theorems about WebhookQueue, for every set of events, subscriptions and *)
(* event filters, every concurrency, batch size and retry cap, and every   *)
(* number of crashes and failed statements.                                *)
(***************************************************************************)
EXTENDS WebhookQueue, TLAPS

USE DEF rows, outbox, batch, bounds

(***************************************************************************)
(* The type invariant.                                                     *)
(***************************************************************************)

LEMMA TypeInit == Init => TypeOK
BY ConstantsAssumption DEF Init, TypeOK, Flags, Values, Statuses, NoClaim

\* A delivery is named by its event and its subscription.
LEMMA DeliveryOf ==
  /\ \A e \in Events \union Tests, s \in Subs : <<e, s>> \in Deliveries
  /\ \A d \in Deliveries : d = <<d[1], d[2]>> /\ d[1] \in Events \union Tests /\ d[2] \in Subs
BY DEF Deliveries

LEMMA OutcomeType ==
  ASSUME NEW d, job[d] \in {"accepted", "refused", "disabling"}
  PROVE  Outcome(d) \in Terminal \union {"pending"}
BY DEF Outcome, Terminal

LEMMA FlagsStep == TypeOK /\ [Next]_vars => Flags'
<1> SUFFICES ASSUME Flags, attempts \in [Deliveries -> Nat], [Next]_vars PROVE Flags'
  BY DEF TypeOK, Values
<1> USE DEF Flags
<1>1. CASE UNCHANGED <<elapsed, claim, attached, running>>
  BY <1>1
<1>2. ASSUME NEW s \in Subs, Subscribe(s) \/ SetActive(s) \/ Unsubscribe(s) PROVE Flags'
  BY <1>2 DEF Subscribe, SetActive, Unsubscribe
<1>3. ASSUME NEW t \in Tests, NEW s \in Subs, SendTest(t, s) PROVE Flags'
  BY <1>3 DEF SendTest, InsertRows
<1>4. ASSUME NEW e \in Events, Emit(e) \/ FanOut(e) PROVE Flags'
  <2>1. CASE InsertDeliveries(e)
    BY <2>1 DEF InsertDeliveries, InsertRows
  <2>. QED
    BY <1>1, <1>4, <2>1 DEF Emit, FanOut, BuildPayload, SelectSubscriptions, NotifyWorker
<1>5. CASE Loop
  <2>1. CASE ClaimBatch
    <3>1. /\ attached' = attached /\ running' = running
          /\ elapsed' \in [Deliveries -> BOOLEAN]
      BY <2>1 DEF ClaimBatch, Stamp
    <3>2. \/ claim' = claim
          \/ \E S : claim' = [d \in Deliveries |->
                                IF d \in S
                                  THEN [attempt |-> attempts[d] + 1,
                                        active |-> sub[d[2]] = "active"]
                                  ELSE claim[d]]
      BY <2>1 DEF ClaimBatch
    <3>3. \A d \in Deliveries : [attempt |-> attempts[d] + 1, active |-> sub[d[2]] = "active"]
                                  \in [attempt : Nat, active : BOOLEAN]
      OBVIOUS
    <3>4. claim' \in [Deliveries -> [attempt : Nat, active : BOOLEAN]]
      <4> DEFINE new(d) == [attempt |-> attempts[d] + 1, active |-> sub[d[2]] = "active"]
      <4>1. \A d \in Deliveries : new(d) \in [attempt : Nat, active : BOOLEAN]
        BY <3>3
      <4>2. claim' = claim \/ \E S : claim' = [d \in Deliveries |-> IF d \in S THEN new(d) ELSE claim[d]]
        BY <3>2
      <4> HIDE DEF new
      <4>. QED  BY <4>1, <4>2
    <3>. QED  BY <3>1, <3>4
  <2>. QED
    BY <1>1, <1>5, <2>1 DEF Loop, LoopTop, ReapExpiredLeases, Claimed, PollTimeout, BatchSettles
<1>6. ASSUME NEW d \in Deliveries, Deliver(d) \/ DeadlinePasses(d) PROVE Flags'
  <2>1. NoClaim \in [attempt : Nat, active : BOOLEAN]
    BY DEF NoClaim
  <2>2. CASE Begin(d) \/ Post(d)
    BY <1>1, <2>2 DEF Begin, Post
  <2>3. CASE RecordOutcome(d) \/ LoseOutcome(d)
    BY <2>1, <2>3 DEF RecordOutcome, LoseOutcome, Finish
  <2>4. CASE DeadlinePasses(d)
    BY <2>4 DEF DeadlinePasses
  <2>. QED  BY <1>6, <2>2, <2>3, <2>4 DEF Deliver
<1>7. CASE DetachEnqueuer \/ Stop \/ Boot \/ UNCHANGED vars
  BY <1>7 DEF DetachEnqueuer, Stop, Boot, vars
<1>8. CASE ProcessDies
  BY <1>8 DEF ProcessDies, NoClaim
<1>. QED
  BY <1>2, <1>3, <1>4, <1>5, <1>6, <1>7, <1>8 DEF Next

LEMMA ValuesStep == TypeOK /\ [Next]_vars => Values'
<1> SUFFICES ASSUME Values, [Next]_vars PROVE Values'
  BY DEF TypeOK
<1> USE ConstantsAssumption DEF Values, Statuses
<1>1. ASSUME NEW s \in Subs, Subscribe(s) \/ SetActive(s) \/ Unsubscribe(s) PROVE Values'
  BY <1>1 DEF Subscribe, SetActive, Unsubscribe
<1>2. ASSUME NEW t \in Tests, NEW s \in Subs, SendTest(t, s) PROVE Values'
  BY <1>2 DEF SendTest, InsertRows
<1>3. ASSUME NEW e \in Events, Emit(e) \/ FanOut(e) PROVE Values'
  <2>1. CASE Emit(e)
    BY <2>1 DEF Emit
  <2>2. CASE BuildPayload(e)
    BY <2>2 DEF BuildPayload, Fault
  <2>3. CASE SelectSubscriptions(e)
    <3>1. Matching(e) \in SUBSET Subs
      BY DEF Matching
    <3>2. targets' = targets \/ targets' = [targets EXCEPT ![e] = Matching(e)]
      BY <2>3 DEF SelectSubscriptions
    <3>3. targets' \in [Events -> SUBSET Subs]
      BY <3>1, <3>2
    <3>. QED  BY <2>3, <3>3 DEF SelectSubscriptions, Fault
  <2>4. CASE InsertDeliveries(e)
    <3>1. status' = status \/ \E S : InsertRows(S)
      BY <2>4 DEF InsertDeliveries
    <3>2. status' \in [Deliveries -> Statuses] /\ attempts' \in [Deliveries -> Nat]
      BY <2>4, <3>1 DEF InsertDeliveries, InsertRows
    <3>. QED  BY <2>4, <3>2 DEF InsertDeliveries, Fault
  <2>5. CASE NotifyWorker(e)
    BY <2>5 DEF NotifyWorker, Notify
  <2>. QED  BY <1>3, <2>1, <2>2, <2>3, <2>4, <2>5 DEF FanOut
<1>4. CASE ClaimBatch
  <2>1. (status' = status /\ attempts' = attempts) \/ \E S : Stamp(S)
    BY <1>4 DEF ClaimBatch
  <2>2. status' \in [Deliveries -> Statuses] /\ attempts' \in [Deliveries -> Nat]
    <3>1. ASSUME NEW S, Stamp(S)
          PROVE  status' \in [Deliveries -> Statuses] /\ attempts' \in [Deliveries -> Nat]
      BY <3>1 DEF Stamp
    <3>. QED  BY <2>1, <3>1
  <2>3. job' = job \/ \E S : job' = [d \in Deliveries |-> IF d \in S THEN "queued" ELSE job[d]]
    BY <1>4 DEF ClaimBatch
  <2>4. job' \in [Deliveries -> {"none", "queued"} \union Working]
    BY <2>3
  <2>. QED  BY <1>4, <2>2, <2>4 DEF ClaimBatch, Fault
<1>5. CASE LoopTop \/ ReapExpiredLeases \/ Claimed \/ PollTimeout \/ BatchSettles
  BY <1>5 DEF LoopTop, ReapExpiredLeases, Claimed, PollTimeout, BatchSettles, Fault
<1>6. ASSUME NEW d \in Deliveries, Deliver(d) \/ DeadlinePasses(d) PROVE Values'
  <2>1. CASE Begin(d) \/ Post(d)
    BY <2>1 DEF Begin, Post, Step, Working
  <2>2. CASE RecordOutcome(d)
    BY <2>2, OutcomeType DEF RecordOutcome, Finish
  <2>3. CASE LoseOutcome(d)
    BY <2>3 DEF LoseOutcome, Finish, Fault
  <2>4. CASE DeadlinePasses(d)
    BY <2>4 DEF DeadlinePasses
  <2>. QED  BY <1>6, <2>1, <2>2, <2>3, <2>4 DEF Deliver
<1>7. CASE DetachEnqueuer \/ Stop \/ Boot \/ UNCHANGED vars
  BY <1>7 DEF DetachEnqueuer, Stop, Notify, Boot, vars
<1>8. CASE ProcessDies
  <2>1. fan' \in [Events -> {"idle", "building", "selecting", "inserting", "inserted", "done", "lost"}]
    BY <1>8 DEF ProcessDies
  <2>. QED  BY <1>8, <2>1 DEF ProcessDies
<1>. QED
  BY <1>1, <1>2, <1>3, <1>4, <1>5, <1>6, <1>7, <1>8 DEF Next, Loop

LEMMA TypeStep == TypeOK /\ [Next]_vars => TypeOK'
BY FlagsStep, ValuesStep DEF TypeOK

\* Every variable keeps its type; in particular no row takes a status that the
\* table's CHECK does not know.
THEOREM TypeCorrect == Spec => []TypeOK
BY TypeInit, TypeStep, PTL DEF Spec

(***************************************************************************)
(* The batch under way.                                                    *)
(***************************************************************************)

\* Until its listener runs the INSERT, an event has no rows: the INSERT never
\* meets a row that is claimed or settled.
Fresh ==
  \A e \in Events, s \in Subs :
    fan[e] \in {"idle", "building", "selecting", "inserting"} => status[<<e, s>>] = "absent"

BInv == TypeOK /\ Fresh /\ BatchOwned

\* An INSERT posts rows that the table has not.
LEMMA InsertsAreNew ==
  ASSUME TypeOK, Fresh, NEW e \in Events, fan[e] = "inserting", NEW d \in {e} \X targets[e]
  PROVE  d \in Deliveries /\ status[d] = "absent"
<1>1. targets[e] \subseteq Subs
  BY DEF TypeOK, Values
<1>2. PICK s \in Subs : d = <<e, s>>
  BY <1>1
<1>. QED  BY <1>2 DEF Fresh, Deliveries

LEMMA FreshStep == BInv /\ [Next]_vars => Fresh'
<1> SUFFICES ASSUME TypeOK, Fresh, BatchOwned, [Next]_vars, NEW e \in Events, NEW s \in Subs,
                    fan'[e] \in {"idle", "building", "selecting", "inserting"}
             PROVE  status'[<<e, s>>] = "absent"
  BY DEF BInv, Fresh
<1>0. /\ <<e, s>> \in Deliveries
      /\ status \in [Deliveries -> Statuses]
      /\ fan \in [Events -> {"idle", "building", "selecting", "inserting", "inserted", "done", "lost"}]
  BY DeliveryOf DEF TypeOK, Values
<1>1. CASE fan' = fan /\ status' = status
  BY <1>1 DEF Fresh
<1>2. ASSUME NEW x \in Subs, Subscribe(x) \/ SetActive(x) \/ Unsubscribe(x)
      PROVE  status'[<<e, s>>] = "absent"
  BY <1>0, <1>2 DEF Fresh, Subscribe, SetActive, Unsubscribe
<1>3. ASSUME NEW t \in Tests, NEW x \in Subs, SendTest(t, x)
      PROVE  status'[<<e, s>>] = "absent"
  <2>1. <<e, s>> # <<t, x>>
    BY ConstantsAssumption
  <2>. QED  BY <1>0, <1>3, <2>1 DEF Fresh, SendTest, InsertRows
<1>4. ASSUME NEW x \in Events, Emit(x) \/ FanOut(x)
      PROVE  status'[<<e, s>>] = "absent"
  <2>1. CASE InsertDeliveries(x)
    <3>1. x # e
      BY <1>0, <2>1 DEF InsertDeliveries
    <3>2. <<e, s>> \notin {x} \X targets[x]
      BY <3>1
    <3>3. fan'[e] = fan[e] /\ (status' = status \/ InsertRows({x} \X targets[x]))
      BY <1>0, <2>1, <3>1 DEF InsertDeliveries
    <3>. QED  BY <1>0, <3>2, <3>3 DEF Fresh, InsertRows
  <2>2. CASE Emit(x) \/ BuildPayload(x) \/ SelectSubscriptions(x) \/ NotifyWorker(x)
    <3>1. /\ status' = status
          /\ fan[e] \in {"idle", "building", "selecting", "inserting"}
      BY <1>0, <2>2 DEF Emit, BuildPayload, SelectSubscriptions, NotifyWorker
    <3>. QED  BY <3>1 DEF Fresh
  <2>. QED  BY <1>4, <2>1, <2>2 DEF FanOut
<1>5. CASE Loop
  <2>1. CASE ClaimBatch
    <3>1. status' = status \/ \E S \in Batches : Stamp(S)
      BY <2>1 DEF ClaimBatch
    <3>2. fan' = fan
      BY <2>1 DEF ClaimBatch
    <3>3. status[<<e, s>>] = "absent"
      BY <3>2 DEF Fresh
    <3>. QED  BY <1>0, <3>1, <3>3 DEF Stamp, Batches, Ready
  <2>2. CASE ReapExpiredLeases
    BY <1>0, <2>2 DEF Fresh, ReapExpiredLeases, Expired
  <2>. QED
    BY <1>1, <1>5, <2>1, <2>2 DEF Loop, LoopTop, Claimed, PollTimeout, BatchSettles
<1>6. ASSUME NEW d \in Deliveries, Deliver(d) \/ DeadlinePasses(d)
      PROVE  status'[<<e, s>>] = "absent"
  <2>1. fan' = fan /\ status[<<e, s>>] = "absent"
    BY <1>6 DEF Fresh, Deliver, Begin, Post, RecordOutcome, LoseOutcome, DeadlinePasses
  <2>2. CASE RecordOutcome(d)
    <3>1. status[d] # "absent"
      BY <2>2 DEF RecordOutcome, BatchOwned
    <3>. QED  BY <1>0, <2>1, <2>2, <3>1 DEF RecordOutcome
  <2>. QED
    BY <1>6, <2>1, <2>2 DEF Deliver, Begin, Post, LoseOutcome, DeadlinePasses
<1>7. CASE DetachEnqueuer \/ Stop \/ Boot \/ UNCHANGED vars
  BY <1>1, <1>7 DEF DetachEnqueuer, Stop, Boot, vars
<1>8. CASE ProcessDies
  <2>1. fan'[e] = fan[e] /\ status' = status
    BY <1>0, <1>8 DEF ProcessDies
  <2>. QED  BY <2>1 DEF Fresh
<1>. QED
  BY <1>2, <1>3, <1>4, <1>5, <1>6, <1>7, <1>8 DEF Next

LEMMA BatchOwnedStep == BInv /\ [Next]_vars => BatchOwned'
<1> SUFFICES ASSUME TypeOK, Fresh, BatchOwned, [Next]_vars PROVE BatchOwned'
  BY DEF BInv
<1>0. /\ status \in [Deliveries -> Statuses] /\ attempts \in [Deliveries -> Nat]
      /\ claim \in [Deliveries -> [attempt : Nat, active : BOOLEAN]]
      /\ job \in [Deliveries -> {"none", "queued"} \union Working]
  BY DEF TypeOK, Flags, Values
<1> USE <1>0 DEF BatchOwned
<1>1. CASE UNCHANGED <<status, attempts, job, claim>> /\ (loop' = loop \/ loop = "sleeping")
  BY <1>1
<1>2. ASSUME NEW s \in Subs, Subscribe(s) \/ SetActive(s) PROVE BatchOwned'
  BY <1>1, <1>2 DEF Subscribe, SetActive
<1>3. ASSUME NEW s \in Subs, Unsubscribe(s) PROVE BatchOwned'
  BY <1>3 DEF Unsubscribe
<1>4. ASSUME NEW S, \A d \in S : status[d] = "absent", InsertRows(S), UNCHANGED <<job, claim, loop>>
      PROVE  BatchOwned'
  BY <1>4 DEF InsertRows
<1>5. ASSUME NEW t \in Tests, NEW s \in Subs, SendTest(t, s) PROVE BatchOwned'
  <2>1. \A d \in {<<t, s>>} : status[d] = "absent"
    BY <1>5 DEF SendTest
  <2>. QED  BY <1>4, <1>5, <2>1 DEF SendTest
<1>6. ASSUME NEW e \in Events, Emit(e) \/ FanOut(e) PROVE BatchOwned'
  <2>1. CASE InsertDeliveries(e)
    <3>1. \A d \in {e} \X targets[e] : status[d] = "absent"
      BY <2>1, InsertsAreNew DEF InsertDeliveries
    <3>2. UNCHANGED rows \/ InsertRows({e} \X targets[e])
      BY <2>1 DEF InsertDeliveries
    <3>. QED  BY <1>1, <1>4, <2>1, <3>1, <3>2 DEF InsertDeliveries
  <2>. QED
    BY <1>1, <1>6, <2>1 DEF Emit, FanOut, BuildPayload, SelectSubscriptions, NotifyWorker, Notify
<1>7. CASE Loop
  <2>1. CASE ClaimBatch
    <3>1. \A d \in Deliveries : job[d] = "none"
      BY <2>1 DEF ClaimBatch
    <3>2. CASE UNCHANGED batch
      BY <3>1, <3>2
    <3>3. ASSUME NEW S, Stamp(S),
                 job' = [d \in Deliveries |-> IF d \in S THEN "queued" ELSE job[d]],
                 claim' = [d \in Deliveries |->
                             IF d \in S
                               THEN [attempt |-> attempts[d] + 1, active |-> sub[d[2]] = "active"]
                               ELSE claim[d]]
          PROVE  BatchOwned'
      <4>1. ASSUME NEW d \in Deliveries, job'[d] # "none"
            PROVE  status'[d] = "in_progress" /\ attempts'[d] = claim'[d].attempt
        <5>1. d \in S
          BY <3>1, <3>3, <4>1
        <5>. QED  BY <3>3, <5>1 DEF Stamp
      <4>2. loop' = "claimed"
        BY <2>1 DEF ClaimBatch
      <4>. QED  BY <4>1, <4>2
    <3>. QED  BY <2>1, <3>2, <3>3 DEF ClaimBatch
  <2>2. CASE LoopTop \/ ReapExpiredLeases
    <3>1. (\A d \in Deliveries : job[d] = "none") /\ job' = job
      BY <2>2 DEF LoopTop, ReapExpiredLeases
    <3>. QED  BY <3>1
  <2>3. CASE Claimed \/ PollTimeout \/ BatchSettles
    BY <2>3 DEF Claimed, PollTimeout, BatchSettles
  <2>. QED  BY <1>7, <2>1, <2>2, <2>3 DEF Loop
<1>8. ASSUME NEW d \in Deliveries, Deliver(d) \/ DeadlinePasses(d) PROVE BatchOwned'
  <2>1. CASE Begin(d) \/ Post(d)
    BY <2>1 DEF Begin, Post, Step
  <2>2. CASE RecordOutcome(d) \/ LoseOutcome(d)
    BY <2>2 DEF RecordOutcome, LoseOutcome, Finish
  <2>3. CASE DeadlinePasses(d)
    BY <1>1, <2>3 DEF DeadlinePasses
  <2>. QED  BY <1>8, <2>1, <2>2, <2>3 DEF Deliver
<1>9. CASE DetachEnqueuer \/ Stop \/ UNCHANGED vars
  BY <1>1, <1>9 DEF DetachEnqueuer, Stop, Notify, vars
<1>10. CASE ProcessDies \/ Boot
  BY <1>10 DEF ProcessDies, Boot
<1>. QED
  BY <1>2, <1>3, <1>5, <1>6, <1>7, <1>8, <1>9, <1>10 DEF Next

LEMMA BInvAlways == Spec => []BInv
<1>1. Init => BInv
  BY TypeInit, DeliveryOf DEF Init, BInv, Fresh, BatchOwned
<1>2. BInv /\ [Next]_vars => BInv'
  BY TypeStep, FreshStep, BatchOwnedStep DEF BInv
<1>. QED  BY <1>1, <1>2, PTL DEF Spec

\* Whatever its lease, a delivery under way is this worker's alone: the loop waits
\* for the whole batch before it reaps or claims again.
THEOREM BatchIsOwned == Spec => []BatchOwned
<1>1. BInv => BatchOwned
  BY DEF BInv
<1>. QED  BY BInvAlways, <1>1, PTL

(***************************************************************************)
(* The queue implements the job board.                                     *)
(***************************************************************************)

\* What one step may do to the table.
With(st)       == {d \in Deliveries : status[d] = st}
Becomes(S, st) == status' = [d \in Deliveries |-> IF d \in S THEN st ELSE status[d]]

LEMMA DeliveryIsBoardMove ==
  ASSUME BInv, NEW d \in Deliveries, Deliver(d)
  PROVE  \/ status' = status
         \/ \E S \in SUBSET With("in_progress") : Becomes(S, "pending")
         \/ \E x \in With("in_progress"), st \in Terminal : Becomes({x}, st)
<1>1. CASE Begin(d) \/ Post(d) \/ LoseOutcome(d)
  BY <1>1 DEF Begin, Post, LoseOutcome
<1>2. CASE RecordOutcome(d)
  <2>0. /\ status \in [Deliveries -> Statuses]
        /\ status' = [status EXCEPT ![d] = IF @ = "removed" THEN @ ELSE Outcome(d)]
        /\ status[d] \in {"removed", "in_progress"}
    BY <1>2 DEF RecordOutcome, BInv, TypeOK, Values, BatchOwned
  <2>1. CASE status[d] = "removed"
    BY <2>0, <2>1
  <2>2. CASE status[d] = "in_progress"
    <3>1. d \in With("in_progress") /\ Becomes({d}, Outcome(d))
      BY <2>0, <2>2 DEF With, Becomes
    <3>2. Outcome(d) \in Terminal \/ Outcome(d) = "pending"
      BY <1>2, OutcomeType DEF RecordOutcome
    <3>3. {d} \in SUBSET With("in_progress")
      BY <3>1
    <3>. QED  BY <3>1, <3>2, <3>3
  <2>. QED  BY <2>0, <2>1, <2>2
<1>. QED  BY <1>1, <1>2 DEF Deliver

LEMMA StepIsBoardMove ==
  ASSUME BInv, [Next]_vars
  PROVE  \/ status' = status
         \/ \E S \in SUBSET With("absent") : Becomes(S, "pending")
         \/ \E S \in SUBSET With("pending") : Becomes(S, "in_progress")
         \/ \E S \in SUBSET With("in_progress") : Becomes(S, "pending")
         \/ \E d \in With("in_progress"), st \in Terminal : Becomes({d}, st)
         \/ \E S \in SUBSET {d \in Deliveries : status[d] # "absent"} : Becomes(S, "removed")
<1> USE DEF With, Becomes
<1>1. ASSUME NEW s \in Subs, Unsubscribe(s)
      PROVE  \E S \in SUBSET {d \in Deliveries : status[d] # "absent"} : Becomes(S, "removed")
  <2> DEFINE gone == {d \in Deliveries : d[2] = s /\ status[d] # "absent"}
  <2>1. gone \in SUBSET {d \in Deliveries : status[d] # "absent"} /\ Becomes(gone, "removed")
    BY <1>1 DEF Unsubscribe
  <2>. QED  BY <2>1
<1>2. ASSUME NEW t \in Tests, NEW s \in Subs, SendTest(t, s)
      PROVE  \E S \in SUBSET With("absent") : Becomes(S, "pending")
  <2>1. {<<t, s>>} \in SUBSET With("absent") /\ Becomes({<<t, s>>}, "pending")
    BY <1>2, DeliveryOf DEF SendTest, InsertRows
  <2>. QED  BY <2>1
<1>3. ASSUME NEW e \in Events, InsertDeliveries(e)
      PROVE  status' = status \/ \E S \in SUBSET With("absent") : Becomes(S, "pending")
  <2>1. {e} \X targets[e] \in SUBSET With("absent")
    BY <1>3, InsertsAreNew DEF InsertDeliveries, BInv
  <2>2. status' = status \/ Becomes({e} \X targets[e], "pending")
    BY <1>3 DEF InsertDeliveries, InsertRows
  <2>. QED  BY <2>1, <2>2
<1>4. CASE ReapExpiredLeases
  <2>1. Expired \in SUBSET With("in_progress")
    BY DEF Expired
  <2>2. status' = status \/ Becomes(Expired, "pending")
    BY <1>4 DEF ReapExpiredLeases
  <2>. QED  BY <2>1, <2>2
<1>5. CASE ClaimBatch
  <2>1. status' = status \/ \E S \in Batches : Becomes(S, "in_progress")
    BY <1>5 DEF ClaimBatch, Stamp
  <2>2. \A S \in Batches : S \in SUBSET With("pending")
    BY DEF Batches, Ready
  <2>. QED  BY <2>1, <2>2
<1>6. ASSUME NEW s \in Subs, Subscribe(s) \/ SetActive(s) PROVE status' = status
  BY <1>6 DEF Subscribe, SetActive
<1>7. ASSUME NEW e \in Events, ~InsertDeliveries(e), Emit(e) \/ FanOut(e) PROVE status' = status
  BY <1>7 DEF Emit, FanOut, BuildPayload, SelectSubscriptions, NotifyWorker
<1>8. ASSUME NEW d \in Deliveries, DeadlinePasses(d) PROVE status' = status
  BY <1>8 DEF DeadlinePasses
<1>9. CASE LoopTop \/ Claimed \/ PollTimeout \/ BatchSettles \/ DetachEnqueuer \/ Stop
           \/ ProcessDies \/ Boot \/ UNCHANGED vars
  BY <1>9 DEF LoopTop, Claimed, PollTimeout, BatchSettles, DetachEnqueuer, Stop, ProcessDies,
              Boot, vars
<1> HIDE DEF With, Becomes
<1>. QED
  BY <1>1, <1>2, <1>3, <1>4, <1>5, <1>6, <1>7, <1>8, <1>9, DeliveryIsBoardMove DEF Next, Loop

\* The webhook queue implements the job board: retries, the reaper, crashes and
\* deleted subscriptions amount to rows taken, given back, settled once or removed,
\* and nothing brings a settled or removed row back.
THEOREM ImplementsBoard == Spec => BoardSpec
<1> DEFINE state == [d \in Deliveries |-> Place(status[d])]
<1>1. Init => Board!Init
  BY DEF Init, Board!Init, Place
<1>2. BInv /\ [Next]_vars => [Board!Next]_state
  <2> SUFFICES ASSUME BInv, [Next]_vars PROVE Board!Next \/ state' = state
    OBVIOUS
  <2>0. status \in [Deliveries -> Statuses]
    BY DEF BInv, TypeOK, Values
  <2>1. CASE status' = status
    BY <2>1
  <2>2. ASSUME NEW S, NEW st, Becomes(S, st) PROVE Board!Move(S, Place(st))
    BY <2>2 DEF Board!Move, Becomes
  <2>3. /\ With("absent") \subseteq Board!In("absent")
        /\ With("pending") \subseteq Board!In("waiting")
        /\ With("in_progress") \subseteq Board!In("held")
        /\ \A d \in Deliveries : status[d] # "absent" => state[d] # "absent"
    BY <2>0 DEF With, Board!In, Place
  <2>4. /\ Place("pending") = "waiting" /\ Place("in_progress") = "held"
        /\ Place("removed") = "removed" /\ \A st \in Terminal : Place(st) = st
    BY DEF Place, Terminal
  <2>5. CASE \E S \in SUBSET With("absent") : Becomes(S, "pending")
    BY <2>2, <2>3, <2>4, <2>5 DEF Board!Next, Board!Post
  <2>6. CASE \E S \in SUBSET With("pending") : Becomes(S, "in_progress")
    BY <2>2, <2>3, <2>4, <2>6 DEF Board!Next, Board!Take
  <2>7. CASE \E S \in SUBSET With("in_progress") : Becomes(S, "pending")
    BY <2>2, <2>3, <2>4, <2>7 DEF Board!Next, Board!GiveBack
  <2>8. CASE \E d \in With("in_progress"), st \in Terminal : Becomes({d}, st)
    <3>1. PICK d \in With("in_progress"), st \in Terminal : Becomes({d}, st)
      BY <2>8
    <3>2. Board!Move({d}, st)
      BY <2>2, <2>4, <3>1
    <3>. QED  BY <2>3, <3>1, <3>2 DEF Board!Next, Board!Settle
  <2>9. CASE \E S \in SUBSET {d \in Deliveries : status[d] # "absent"} : Becomes(S, "removed")
    BY <2>2, <2>3, <2>4, <2>9 DEF Board!Next, Board!Remove
  <2>. QED  BY <2>1, <2>5, <2>6, <2>7, <2>8, <2>9, StepIsBoardMove
<1>. QED  BY BInvAlways, <1>1, <1>2, PTL DEF Spec, BoardSpec, Board!Spec
===============================================================================
