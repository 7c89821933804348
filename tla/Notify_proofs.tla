---------------------------- MODULE Notify_proofs ----------------------------
(***************************************************************************)
(* Theorems about Notify, for any number of requests, idempotency keys and *)
(* recipients, any limits, and any number of crashes and lost answers.     *)
(***************************************************************************)
EXTENDS Notify, Counting

USE DEF row, bounds, record

LEMMA RowOfRequest ==
  ASSUME TypeOK, NEW r \in Requests
  PROVE  /\ KeyOf[r] \in Keys
         /\ sends[KeyOf[r]] \in Nat /\ sends[KeyOf[r]] + 1 \in Nat
         /\ misjudged[KeyOf[r]] \in Nat /\ misjudged[KeyOf[r]] + 1 \in Nat
BY ConstantsAssumption DEF TypeOK

LEMMA PassedIsFinite ==
  ASSUME NEW j
  PROVE  IsFiniteSet(Passed(j)) /\ Cardinality(Passed(j)) \in Nat
<1>1. Passed(j) \subseteq Requests
  BY DEF Passed
<1>. QED  BY <1>1, CountSubset, ConstantsAssumption

LEMMA TypeInit == Init => TypeOK
BY ConstantsAssumption DEF Init, TypeOK, Ages

LEMMA TypeStep == TypeOK /\ [Next]_vars => TypeOK'
<1> SUFFICES ASSUME TypeOK, [Next]_vars PROVE TypeOK'
  OBVIOUS
<1> USE ConstantsAssumption DEF TypeOK, Waiting, Undecided, Holding, Answers, Goto, Reply, Fault
<1>1. ASSUME NEW r \in Requests, LookUp(r) PROVE TypeOK'
  <2>1. slots' \in 0..MinuteLimit
    BY <1>1 DEF LookUp
  <2>2. /\ stage' \in [Requests -> {"idle"} \union Waiting \union Holding \union Answers]
        /\ target' \in [Requests -> Jids \union {<<>>}]
    BY <1>1 DEF LookUp
  <2>. QED  BY <1>1, <2>1, <2>2 DEF LookUp
<1>2. ASSUME NEW r \in Requests, CountDay(r) PROVE TypeOK'
  BY <1>2 DEF CountDay
<1>3. ASSUME NEW r \in Requests, Resolve(r) PROVE TypeOK'
  <2>1. CASE Reply(r, "rejected")
    BY <1>3, <2>1 DEF Resolve
  <2>2. ASSUME NEW jid \in Found(PersonOf[r]),
               stage' = [stage EXCEPT ![r] = "checking"],
               target' = [target EXCEPT ![r] =
                            IF PersonOf[r] \in mapped THEN <<PersonOf[r], "lid">> ELSE jid]
        PROVE  TypeOK'
    <3>1. (IF PersonOf[r] \in mapped THEN <<PersonOf[r], "lid">> ELSE jid) \in Jids
      BY DEF Jids, Found
    <3>2. target' \in [Requests -> Jids \union {<<>>}]
      BY <2>2, <3>1
    <3>. QED  BY <1>3, <2>2, <3>2 DEF Resolve
  <2>. QED  BY <1>3, <2>1, <2>2 DEF Resolve
<1>4. ASSUME NEW r \in Requests, CheckRecipient(r) PROVE TypeOK'
  <2>1. CASE Reply(r, "rejected") /\ UNCHANGED widest
    BY <1>4, <2>1 DEF CheckRecipient
  <2>2. CASE PassCheck(r)
    <3>1. Cardinality(Passed(target[r])) + 1 \in Nat
      BY PassedIsFinite
    <3>2. widest' \in [Jids -> Nat]
      BY <2>2, <3>1 DEF PassCheck, Bigger
    <3>. QED  BY <1>4, <2>2, <3>2 DEF CheckRecipient, PassCheck
  <2>. QED  BY <1>4, <2>1, <2>2 DEF CheckRecipient
<1>5. ASSUME NEW r \in Requests, Claim(r) PROVE TypeOK'
  <2>1. ASSUME TakeRow(r)
        PROVE  /\ status' \in [Keys -> {"absent", "pending", "sent", "failed"}]
               /\ toJid' \in [Keys -> Jids \union {<<>>}]
               /\ age' \in [Keys -> Ages]
    <3>1. status' \in [Keys -> {"absent", "pending", "sent", "failed"}]
      BY <2>1 DEF TakeRow
    <3>2. toJid' \in [Keys -> Jids \union {<<>>}]
      BY <2>1 DEF TakeRow
    <3>3. age' \in [Keys -> Ages]
      BY <2>1 DEF TakeRow, Ages
    <3>. QED  BY <3>1, <3>2, <3>3
  <2>2. CASE TakeRow(r) /\ Goto(r, "sending") /\ UNCHANGED bounds
    BY <1>5, <2>1, <2>2 DEF Claim
  <2>3. CASE Reply(r, "rejected") /\ UNCHANGED <<row, bounds>>
    BY <1>5, <2>3 DEF Claim
  <2>4. CASE TakeRow(r) /\ Reply(r, "rejected") /\ Fault
    BY <1>5, <2>1, <2>4 DEF Claim
  <2>. QED  BY ONLY <1>5, <2>2, <2>3, <2>4 DEF Claim
<1>6. ASSUME NEW r \in Requests, Send(r) PROVE TypeOK'
  <2>1. CASE Goto(r, "recording") /\ sends' = [sends EXCEPT ![KeyOf[r]] = @ + 1]
             /\ UNCHANGED <<misjudged, bounds>>
    <3>1. sends' \in [Keys -> Nat]
      BY <2>1
    <3>. QED  BY <1>6, <2>1, <3>1 DEF Send
  <2>2. CASE Goto(r, "failing") /\ UNCHANGED <<record, bounds>>
    BY <1>6, <2>2 DEF Send
  <2>3. CASE /\ Goto(r, "failing") /\ Fault
             /\ sends' = [sends EXCEPT ![KeyOf[r]] = @ + 1]
             /\ misjudged' = [misjudged EXCEPT ![KeyOf[r]] = @ + 1]
    <3>1. sends' \in [Keys -> Nat]
      BY <2>3
    <3>2. misjudged' \in [Keys -> Nat]
      BY <2>3
    <3>. QED  BY <1>6, <2>3, <3>1, <3>2 DEF Send
  <2>. QED  BY <1>6, <2>1, <2>2, <2>3 DEF Send
<1>7. ASSUME NEW r \in Requests, RecordSent(r) PROVE TypeOK'
  <2>1. [status EXCEPT ![KeyOf[r]] = "sent"] \in [Keys -> {"absent", "pending", "sent", "failed"}]
    OBVIOUS
  <2>2. CASE status' = [status EXCEPT ![KeyOf[r]] = "sent"] /\ Reply(r, "sent")
             /\ UNCHANGED <<misjudged, bounds>>
    BY <1>7, <2>1, <2>2 DEF RecordSent
  <2>3. CASE /\ status' \in {status, [status EXCEPT ![KeyOf[r]] = "sent"]}
             /\ Goto(r, "failing") /\ Fault
             /\ misjudged' = [misjudged EXCEPT ![KeyOf[r]] = @ + 1]
    <3>1. misjudged' \in [Keys -> Nat]
      BY <2>3
    <3>2. status' \in [Keys -> {"absent", "pending", "sent", "failed"}]
      BY <2>1, <2>3
    <3>3. stage' \in [Requests -> {"idle"} \union Waiting \union Holding \union Answers]
      BY <2>3
    <3>. QED  BY <1>7, <2>3, <3>1, <3>2, <3>3 DEF RecordSent
  <2>. QED  BY <1>7, <2>2, <2>3 DEF RecordSent
<1>8. ASSUME NEW r \in Requests, RecordFailed(r) PROVE TypeOK'
  <2>1. CASE status' = [status EXCEPT ![KeyOf[r]] = "failed"] /\ UNCHANGED bounds
    BY <1>8, <2>1 DEF RecordFailed
  <2>2. CASE Fault /\ UNCHANGED status
    BY <1>8, <2>2 DEF RecordFailed
  <2>. QED  BY <1>8, <2>1, <2>2 DEF RecordFailed
<1>9. ASSUME NEW p \in Persons, LearnLid(p) PROVE TypeOK'
  BY <1>9 DEF LearnLid
<1>10. ASSUME NEW k \in Keys, RowAges(k) PROVE TypeOK'
  BY <1>10 DEF RowAges, Ages
<1>11. CASE SlotAges \/ ProcessDies
  BY <1>11 DEF SlotAges, ProcessDies
<1>12. CASE UNCHANGED vars
  BY <1>12 DEF vars
<1>. QED
  BY <1>1, <1>2, <1>3, <1>4, <1>5, <1>6, <1>7, <1>8, <1>9, <1>10, <1>11, <1>12 DEF Next, Step

\* Every variable keeps its type.
THEOREM TypeCorrect == Spec => []TypeOK
BY TypeInit, TypeStep, PTL DEF Spec

(***************************************************************************)
(* The claim makes its request the holder of the row until the outcome is  *)
(* recorded. A holder's row is pending, or sent when the UPDATE was        *)
(* committed and its answer lost; a row without a holder that may be taken *)
(* again has no send that was not judged failed.                           *)
(***************************************************************************)
HoldersRow ==
  \A r \in Requests : stage[r] \in Holding =>
    /\ status[KeyOf[r]] \in {"pending", "sent"}
    /\ toJid[KeyOf[r]] = target[r]

Accounted ==
  \A k \in Keys :
    /\ status[k] \in {"absent", "failed"} => sends[k] <= misjudged[k]
    /\ \A r \in Requests :
         stage[r] \in {"sending", "failing"} /\ KeyOf[r] = k => sends[k] <= misjudged[k]

Witnessed ==
  /\ SentIsTrue
  /\ \A r \in Requests : stage[r] = "recording" => sends[KeyOf[r]] > 0

HInv == TypeOK /\ OneHolder /\ HoldersRow /\ Accounted /\ SentOnce /\ Witnessed

LEMMA HInvInit == Init => HInv
<1>1. Init => TypeOK
  BY TypeInit
<1>2. Init => OneHolder /\ HoldersRow /\ Accounted /\ SentOnce /\ Witnessed
  BY ConstantsAssumption
  DEF Init, OneHolder, HoldersRow, Accounted, SentOnce, Witnessed, SentIsTrue, Holding, Undecided
<1>. QED  BY <1>1, <1>2 DEF HInv

(***************************************************************************)
(* What a step does to the variables of the invariant, point by point.     *)
(***************************************************************************)
Moves(r, at) ==
  /\ stage'[r] = at
  /\ \A q \in Requests \ {r} : stage'[q] = stage[q] /\ target'[q] = target[q]

SetsStatus(r, st) ==
  /\ status'[KeyOf[r]] = st
  /\ \A k \in Keys \ {KeyOf[r]} : status'[k] = status[k]

CountsSend(r) ==
  /\ sends'[KeyOf[r]] = sends[KeyOf[r]] + 1
  /\ \A k \in Keys \ {KeyOf[r]} : sends'[k] = sends[k]

CountsMisjudged(r) ==
  /\ misjudged'[KeyOf[r]] = misjudged[KeyOf[r]] + 1
  /\ \A k \in Keys \ {KeyOf[r]} : misjudged'[k] = misjudged[k]

LEMMA GotoMoves ==
  ASSUME TypeOK, NEW r \in Requests, NEW at, Goto(r, at)
  PROVE  Moves(r, at) /\ target' = target
BY DEF TypeOK, Goto, Moves

LEMMA ReplyMoves ==
  ASSUME TypeOK, NEW r \in Requests, NEW answer, Reply(r, answer)
  PROVE  Moves(r, answer)
BY DEF TypeOK, Reply, Moves

LEMMA SettingStatus ==
  ASSUME TypeOK, NEW r \in Requests, NEW st, status' = [status EXCEPT ![KeyOf[r]] = st]
  PROVE  SetsStatus(r, st)
BY RowOfRequest DEF TypeOK, SetsStatus

LEMMA CountingOn ==
  ASSUME TypeOK, NEW r \in Requests
  PROVE  /\ sends' = [sends EXCEPT ![KeyOf[r]] = @ + 1] => CountsSend(r)
         /\ misjudged' = [misjudged EXCEPT ![KeyOf[r]] = @ + 1] => CountsMisjudged(r)
BY RowOfRequest DEF TypeOK, CountsSend, CountsMisjudged

\* Up to its claim a request holds nothing and moves nothing but itself.
LEMMA BeforeClaim ==
  ASSUME TypeOK, NEW r \in Requests, LookUp(r) \/ CountDay(r) \/ Resolve(r) \/ CheckRecipient(r)
  PROVE  /\ UNCHANGED <<status, toJid, sends, misjudged>>
         /\ \E at \in Waiting \union {"rejected", "deduplicated"} :
              Moves(r, at) /\ (at = "deduplicated" => status[KeyOf[r]] = "sent")
<1> USE GotoMoves, ReplyMoves DEF Waiting
<1>1. CASE LookUp(r)
  BY <1>1 DEF LookUp
<1>2. CASE CountDay(r)
  BY <1>2 DEF CountDay
<1>3. CASE Resolve(r)
  <2>1. CASE Reply(r, "rejected")
    BY <1>3, <2>1 DEF Resolve
  <2>2. CASE \E jid : /\ stage' = [stage EXCEPT ![r] = "checking"]
                      /\ target' = [target EXCEPT ![r] = jid]
    <3>1. Moves(r, "checking")
      BY <2>2 DEF Moves, TypeOK
    <3>. QED  BY <1>3, <3>1 DEF Resolve
  <2>. QED  BY <1>3, <2>1, <2>2 DEF Resolve
<1>4. CASE CheckRecipient(r)
  BY <1>4 DEF CheckRecipient, PassCheck
<1>. QED  BY <1>1, <1>2, <1>3, <1>4

LEMMA ClaimShape ==
  ASSUME TypeOK, NEW r \in Requests, Claim(r)
  PROVE  /\ stage[r] = "claiming"
         /\ UNCHANGED <<sends, misjudged>>
         /\ \/ /\ Moves(r, "rejected")
               /\ UNCHANGED <<status, toJid>>
            \/ /\ Moves(r, "rejected") \/ (Moves(r, "sending") /\ target' = target)
               /\ status[KeyOf[r]] \in {"absent", "failed"}
               /\ SetsStatus(r, "pending")
               /\ toJid'[KeyOf[r]] = target[r]
               /\ \A k \in Keys \ {KeyOf[r]} : toJid'[k] = toJid[k]
<1>1. ASSUME TakeRow(r)
      PROVE  /\ SetsStatus(r, "pending") /\ toJid'[KeyOf[r]] = target[r]
             /\ \A k \in Keys \ {KeyOf[r]} : toJid'[k] = toJid[k]
  BY <1>1, RowOfRequest, SettingStatus DEF TakeRow, TypeOK
<1>2. CASE TakeRow(r) /\ Goto(r, "sending")
  BY <1>1, <1>2, GotoMoves DEF Claim, TakeRow
<1>3. CASE TakeRow(r) /\ Reply(r, "rejected")
  BY <1>1, <1>3, ReplyMoves DEF Claim, TakeRow
<1>4. CASE Reply(r, "rejected") /\ UNCHANGED <<row, bounds>>
  BY <1>4, ReplyMoves DEF Claim
<1>. QED  BY <1>2, <1>3, <1>4 DEF Claim

LEMMA SendShape ==
  ASSUME TypeOK, NEW r \in Requests, Send(r)
  PROVE  /\ stage[r] = "sending"
         /\ UNCHANGED <<status, toJid, target>>
         /\ \/ Moves(r, "recording") /\ CountsSend(r) /\ misjudged' = misjudged
            \/ Moves(r, "failing") /\ UNCHANGED <<sends, misjudged>>
            \/ Moves(r, "failing") /\ CountsSend(r) /\ CountsMisjudged(r)
BY GotoMoves, CountingOn DEF Send

LEMMA RecordSentShape ==
  ASSUME TypeOK, NEW r \in Requests, RecordSent(r)
  PROVE  /\ stage[r] = "recording"
         /\ UNCHANGED <<toJid, sends>>
         /\ \/ Moves(r, "sent") /\ SetsStatus(r, "sent") /\ misjudged' = misjudged
            \/ /\ Moves(r, "failing") /\ target' = target
               /\ status' = status \/ SetsStatus(r, "sent")
               /\ CountsMisjudged(r)
BY GotoMoves, ReplyMoves, SettingStatus, CountingOn DEF RecordSent

LEMMA RecordFailedShape ==
  ASSUME TypeOK, NEW r \in Requests, RecordFailed(r)
  PROVE  /\ stage[r] = "failing"
         /\ Moves(r, "rejected")
         /\ UNCHANGED <<toJid, sends, misjudged>>
         /\ status' = status \/ SetsStatus(r, "failed")
BY ReplyMoves, SettingStatus DEF RecordFailed

LEMMA DeathShape ==
  ASSUME TypeOK, ProcessDies
  PROVE  /\ UNCHANGED <<status, toJid, sends, misjudged>>
         /\ \A r \in Requests : stage'[r] \in {"lost", stage[r]} /\ stage'[r] \notin Holding
BY DEF TypeOK, ProcessDies, Holding, Undecided

LEMMA HolderStep == HInv /\ [Next]_vars => OneHolder' /\ HoldersRow'
<1> SUFFICES ASSUME TypeOK, OneHolder, HoldersRow, [Next]_vars PROVE OneHolder' /\ HoldersRow'
  BY DEF HInv
<1> USE RowOfRequest DEF OneHolder, HoldersRow, Undecided, Holding
<1>1. ASSUME NEW r \in Requests, LookUp(r) \/ CountDay(r) \/ Resolve(r) \/ CheckRecipient(r)
      PROVE OneHolder' /\ HoldersRow'
  BY <1>1, BeforeClaim DEF Moves, Waiting
<1>2. ASSUME NEW r \in Requests, Claim(r) PROVE OneHolder' /\ HoldersRow'
  BY <1>2, ClaimShape DEF Moves, SetsStatus
<1>3. ASSUME NEW r \in Requests, Send(r) PROVE OneHolder' /\ HoldersRow'
  BY <1>3, SendShape DEF Moves
<1>4. ASSUME NEW r \in Requests, RecordSent(r) PROVE OneHolder' /\ HoldersRow'
  BY <1>4, RecordSentShape DEF Moves, SetsStatus
<1>5. ASSUME NEW r \in Requests, RecordFailed(r) PROVE OneHolder' /\ HoldersRow'
  BY <1>5, RecordFailedShape DEF Moves, SetsStatus
<1>6. CASE ProcessDies
  BY <1>6, DeathShape
<1>7. ASSUME UNCHANGED <<status, toJid, stage, target>> PROVE OneHolder' /\ HoldersRow'
  BY <1>7
<1>. QED
  BY <1>1, <1>2, <1>3, <1>4, <1>5, <1>6, <1>7 DEF Next, Step, LearnLid, RowAges, SlotAges, vars

LEMMA AccountedStep == HInv /\ [Next]_vars => Accounted' /\ SentOnce'
<1> SUFFICES ASSUME HInv, TypeOK, OneHolder, HoldersRow, Accounted, SentOnce, [Next]_vars
             PROVE  Accounted' /\ SentOnce'
  BY DEF HInv
<1> USE RowOfRequest DEF Accounted, SentOnce
<1>0. \A k \in Keys : sends[k] \in Nat /\ misjudged[k] \in Nat
  BY DEF TypeOK
<1>1. ASSUME NEW r \in Requests, LookUp(r) \/ CountDay(r) \/ Resolve(r) \/ CheckRecipient(r)
      PROVE Accounted' /\ SentOnce'
  BY <1>1, BeforeClaim DEF Moves, Waiting
<1>2. ASSUME NEW r \in Requests, Claim(r) PROVE Accounted' /\ SentOnce'
  BY <1>2, ClaimShape DEF Moves, SetsStatus
<1>3. ASSUME NEW r \in Requests, Send(r) PROVE Accounted' /\ SentOnce'
  <2>1. status[KeyOf[r]] \notin {"absent", "failed"} /\ sends[KeyOf[r]] <= misjudged[KeyOf[r]]
    BY <1>3, SendShape DEF HoldersRow, Holding, Undecided
  <2>2. \A q \in Requests \ {r} : KeyOf[q] = KeyOf[r] => stage[q] \notin {"sending", "failing"}
    BY <1>3, SendShape DEF OneHolder, Holding, Undecided
  <2>. QED
    BY <1>0, <1>3, <2>1, <2>2, SendShape DEF Moves, CountsSend, CountsMisjudged
<1>4. ASSUME NEW r \in Requests, RecordSent(r) PROVE Accounted' /\ SentOnce'
  BY <1>0, <1>4, RecordSentShape DEF Moves, SetsStatus, CountsMisjudged
<1>5. ASSUME NEW r \in Requests, RecordFailed(r) PROVE Accounted' /\ SentOnce'
  BY <1>5, RecordFailedShape DEF Moves, SetsStatus
<1>6. CASE ProcessDies
  BY <1>6, DeathShape DEF Holding, Undecided
<1>7. ASSUME UNCHANGED <<status, stage, sends, misjudged>> PROVE Accounted' /\ SentOnce'
  BY <1>7
<1>. QED
  BY <1>1, <1>2, <1>3, <1>4, <1>5, <1>6, <1>7 DEF Next, Step, LearnLid, RowAges, SlotAges, vars

LEMMA WitnessedStep == HInv /\ [Next]_vars => Witnessed'
<1> SUFFICES ASSUME TypeOK, Witnessed, [Next]_vars PROVE Witnessed'
  BY DEF HInv
<1> USE RowOfRequest DEF Witnessed, SentIsTrue
<1>1. ASSUME NEW r \in Requests, LookUp(r) \/ CountDay(r) \/ Resolve(r) \/ CheckRecipient(r)
      PROVE Witnessed'
  BY <1>1, BeforeClaim DEF Moves, Waiting
<1>2. ASSUME NEW r \in Requests, Claim(r) PROVE Witnessed'
  BY <1>2, ClaimShape DEF Moves, SetsStatus
<1>3. ASSUME NEW r \in Requests, Send(r) PROVE Witnessed'
  BY <1>3, SendShape DEF Moves, CountsSend
<1>4. ASSUME NEW r \in Requests, RecordSent(r) PROVE Witnessed'
  BY <1>4, RecordSentShape DEF Moves, SetsStatus
<1>5. ASSUME NEW r \in Requests, RecordFailed(r) PROVE Witnessed'
  BY <1>5, RecordFailedShape DEF Moves, SetsStatus
<1>6. CASE ProcessDies
  BY <1>6, DeathShape DEF Holding, Undecided
<1>7. ASSUME UNCHANGED <<status, stage, sends>> PROVE Witnessed'
  BY <1>7
<1>. QED
  BY <1>1, <1>2, <1>3, <1>4, <1>5, <1>6, <1>7 DEF Next, Step, LearnLid, RowAges, SlotAges, vars

LEMMA HInvStep == HInv /\ [Next]_vars => HInv'
<1>1. HInv /\ [Next]_vars => TypeOK'
  BY TypeStep DEF HInv
<1>. QED  BY <1>1, HolderStep, AccountedStep, WitnessedStep DEF HInv

LEMMA HInvAlways == Spec => []HInv
BY HInvInit, HInvStep, PTL DEF Spec

\* From its claim to its outcome a request has its row to itself, however many
\* duplicates of it run.
THEOREM HolderIsUnique == Spec => []OneHolder
<1>1. HInv => OneHolder  BY DEF HInv
<1>. QED  BY HInvAlways, <1>1, PTL

\* No key is sent more often than once, plus once for each send that was taken
\* for failed although WhatsApp had accepted it.
THEOREM SendsAreAccounted == Spec => []SentOnce
<1>1. HInv => SentOnce  BY DEF HInv
<1>. QED  BY HInvAlways, <1>1, PTL

\* An answer or a row that says sent speaks the truth.
THEOREM SentIsNeverFalse == Spec => []SentIsTrue
<1>1. HInv => SentIsTrue  BY DEF HInv, Witnessed
<1>. QED  BY HInvAlways, <1>1, PTL

(***************************************************************************)
(* The limit of a recipient. A request is passed or counted, never both,   *)
(* and becomes counted only by ceasing to be passed.                       *)
(***************************************************************************)
LimitFor(j) ==
  widest[j] > 0 => Cardinality(Counted(j)) + Cardinality(Passed(j)) < RecipientLimit + widest[j]

LEMMA CountedIsFinite ==
  ASSUME NEW j
  PROVE  IsFiniteSet(Counted(j)) /\ Cardinality(Counted(j)) \in Nat
<1>1. Counted(j) \subseteq Keys
  BY DEF Counted
<1>. QED  BY <1>1, CountSubset, ConstantsAssumption

\* A step that counts and passes nobody new keeps the limit.
LEMMA LimitKept ==
  ASSUME TypeOK, NEW j \in Jids, LimitFor(j), widest'[j] = widest[j],
         Counted(j)' \subseteq Counted(j), Passed(j)' \subseteq Passed(j)
  PROVE  LimitFor(j)'
<1>1. Cardinality(Counted(j)') \in Nat /\ Cardinality(Counted(j)') <= Cardinality(Counted(j))
  BY CountedIsFinite, CountSubset
<1>2. Cardinality(Passed(j)') \in Nat /\ Cardinality(Passed(j)') <= Cardinality(Passed(j))
  BY PassedIsFinite, CountSubset
<1>3. /\ Cardinality(Counted(j)) \in Nat /\ Cardinality(Passed(j)) \in Nat
      /\ widest[j] \in Nat /\ RecipientLimit \in Nat
  BY CountedIsFinite, PassedIsFinite, ConstantsAssumption DEF TypeOK
<1>. QED  BY <1>1, <1>2, <1>3 DEF LimitFor

\* A step of r that does not end in the stages of Passed passes nobody.
LEMMA PassedShrinks ==
  ASSUME NEW r \in Requests, NEW at, Moves(r, at), NEW j,
         at \notin {"claiming"} \union Undecided \/ (r \in Passed(j) \/ target'[r] # j)
  PROVE  Passed(j)' \subseteq Passed(j)
BY DEF Moves, Passed

\* Passing the check: the recipient had room, and widest takes the request in.
LEMMA LimitPassing ==
  ASSUME TypeOK, NEW r \in Requests, NEW j \in Jids, LimitFor(j),
         stage[r] = "checking", PassCheck(r), Cardinality(Counted(target[r])) < RecipientLimit,
         UNCHANGED <<status, toJid, age>>
  PROVE  LimitFor(j)'
<1>1. Moves(r, "claiming") /\ target' = target
  BY GotoMoves DEF PassCheck
<1>2. Counted(j)' = Counted(j)
  BY DEF Counted
<1>3. CASE target[r] = j
  <2>1. Passed(j)' \subseteq Passed(j) \union {r}
    BY <1>1 DEF Moves, Passed
  <2>2. Cardinality(Passed(j)') \in Nat /\ Cardinality(Passed(j)') <= Cardinality(Passed(j)) + 1
    <3>1. /\ IsFiniteSet(Passed(j) \union {r})
          /\ Cardinality(Passed(j) \union {r}) <= Cardinality(Passed(j)) + 1
      BY PassedIsFinite, CountAdd
    <3>2. /\ Cardinality(Passed(j)') \in Nat
          /\ Cardinality(Passed(j)') <= Cardinality(Passed(j) \union {r})
      BY <2>1, <3>1, CountSubset
    <3>3. Cardinality(Passed(j) \union {r}) \in Nat /\ Cardinality(Passed(j)) \in Nat
      BY <3>1, PassedIsFinite, CountType
    <3>. QED  BY <3>1, <3>2, <3>3
  <2>3. widest'[j] = Bigger(widest[j], Cardinality(Passed(j)) + 1)
    BY <1>3 DEF PassCheck, TypeOK
  <2>4. /\ widest[j] \in Nat /\ Cardinality(Passed(j)) \in Nat
        /\ Cardinality(Counted(j)) \in Nat /\ RecipientLimit \in Nat
    BY PassedIsFinite, CountedIsFinite, ConstantsAssumption DEF TypeOK
  <2>5. Cardinality(Counted(j)) < RecipientLimit
    BY <1>3
  <2>6. Cardinality(Passed(j)') <= widest'[j] /\ widest'[j] \in Nat
    BY <2>2, <2>3, <2>4 DEF Bigger
  <2>. QED  BY <1>2, <2>2, <2>4, <2>5, <2>6 DEF LimitFor
<1>4. CASE target[r] # j
  <2>1. Passed(j)' \subseteq Passed(j)
    BY <1>1, <1>4, PassedShrinks
  <2>2. widest'[j] = widest[j]
    BY <1>4 DEF PassCheck, TypeOK
  <2>. QED  BY <1>2, <2>1, <2>2, LimitKept
<1>. QED  BY <1>3, <1>4

\* Recording a send: what is newly counted was passed.
LEMMA LimitRecording ==
  ASSUME TypeOK, HoldersRow, NEW r \in Requests, NEW j \in Jids, LimitFor(j), RecordSent(r)
  PROVE  LimitFor(j)'
<1> DEFINE k == KeyOf[r]
<1>1. \E at \in {"sent", "failing"} : Moves(r, at)
  BY RecordSentShape
<1>2. Passed(j)' \subseteq Passed(j) \ {r}
  BY <1>1 DEF Moves, Passed, Undecided
<1>3. status' = status \/ SetsStatus(r, "sent")
  BY RecordSentShape
<1>4. toJid' = toJid /\ age' = age /\ widest' = widest /\ stage[r] = "recording"
  BY DEF RecordSent
<1>5. toJid[k] = target[r] /\ k \in Keys
  BY <1>4, RowOfRequest DEF HoldersRow, Holding, Undecided
<1>6. CASE target[r] = j
  <2>1. r \in Passed(j)
    BY <1>4, <1>6 DEF Passed, Undecided
  <2>2. Counted(j)' \subseteq Counted(j) \union {k}
    BY <1>3, <1>4 DEF Counted, SetsStatus
  <2>3. /\ Cardinality(Counted(j)') \in Nat
        /\ Cardinality(Counted(j)') <= Cardinality(Counted(j)) + 1
    <3>1. /\ IsFiniteSet(Counted(j) \union {k}) /\ Cardinality(Counted(j) \union {k}) \in Nat
          /\ Cardinality(Counted(j) \union {k}) <= Cardinality(Counted(j)) + 1
      BY CountedIsFinite, CountAdd
    <3>2. /\ Cardinality(Counted(j)') \in Nat
          /\ Cardinality(Counted(j)') <= Cardinality(Counted(j) \union {k})
      BY <2>2, <3>1, CountSubset
    <3>. QED  BY <3>1, <3>2, CountedIsFinite
  <2>4. Cardinality(Passed(j)') \in Nat /\ Cardinality(Passed(j)') <= Cardinality(Passed(j)) - 1
    <3>1. /\ IsFiniteSet(Passed(j) \ {r}) /\ Cardinality(Passed(j) \ {r}) \in Nat
          /\ Cardinality(Passed(j) \ {r}) = Cardinality(Passed(j)) - 1
      BY <2>1, PassedIsFinite, CountRemove
    <3>2. /\ Cardinality(Passed(j)') \in Nat
          /\ Cardinality(Passed(j)') <= Cardinality(Passed(j) \ {r})
      BY <1>2, <3>1, CountSubset
    <3>. QED  BY <3>1, <3>2
  <2>5. /\ Cardinality(Counted(j)) \in Nat /\ Cardinality(Passed(j)) \in Nat
        /\ widest[j] \in Nat /\ RecipientLimit \in Nat
    BY CountedIsFinite, PassedIsFinite, ConstantsAssumption DEF TypeOK
  <2>. QED  BY <1>4, <2>3, <2>4, <2>5 DEF LimitFor
<1>7. CASE target[r] # j
  <2>1. Counted(j)' \subseteq Counted(j)
    BY <1>3, <1>4, <1>5, <1>7 DEF Counted, SetsStatus
  <2>. QED  BY <1>2, <1>4, <2>1, LimitKept
<1>. QED  BY <1>6, <1>7

LEMMA LimitStep ==
  ASSUME TypeOK, HoldersRow, NEW j \in Jids, LimitFor(j), [Next]_vars
  PROVE  LimitFor(j)'
<1>1. ASSUME NEW r \in Requests, LookUp(r) \/ CountDay(r) \/ Resolve(r) PROVE LimitFor(j)'
  <2>1. UNCHANGED <<status, toJid, age, widest>> /\ stage[r] \in {"idle", "counting", "resolving"}
    BY <1>1 DEF LookUp, CountDay, Resolve
  <2>2. PICK at : Moves(r, at) /\ at \in Waiting \union {"rejected", "deduplicated"}
    BY <1>1, BeforeClaim
  <2>3. at # "claiming"
    BY <1>1, <2>2 DEF LookUp, CountDay, Resolve, Goto, Reply, Moves, TypeOK
  <2>4. Passed(j)' \subseteq Passed(j)
    BY <2>2, <2>3, PassedShrinks DEF Waiting, Undecided
  <2>. QED  BY <2>1, <2>4, LimitKept DEF Counted
<1>2. ASSUME NEW r \in Requests, CheckRecipient(r) PROVE LimitFor(j)'
  <2>1. UNCHANGED <<status, toJid, age>> /\ stage[r] = "checking"
    BY <1>2 DEF CheckRecipient
  <2>2. CASE Reply(r, "rejected") /\ UNCHANGED widest
    <3>1. Moves(r, "rejected")
      BY <2>2, ReplyMoves
    <3>2. Passed(j)' \subseteq Passed(j)
      BY <3>1, PassedShrinks DEF Undecided
    <3>. QED  BY <2>1, <2>2, <3>2, LimitKept DEF Counted
  <2>3. CASE Cardinality(Counted(target[r])) < RecipientLimit /\ PassCheck(r)
    BY <2>1, <2>3, LimitPassing
  <2>. QED  BY <1>2, <2>2, <2>3 DEF CheckRecipient
<1>3. ASSUME NEW r \in Requests, Claim(r) PROVE LimitFor(j)'
  <2>1. widest' = widest
    BY <1>3 DEF Claim
  <2>2. Counted(j)' \subseteq Counted(j)
    <3>1. CASE UNCHANGED <<status, toJid>> /\ Reply(r, "rejected") /\ UNCHANGED row
      BY <3>1 DEF Counted
    <3>2. CASE TakeRow(r)
      BY <3>2, RowOfRequest DEF TakeRow, Counted, TypeOK
    <3>. QED  BY <1>3, <3>1, <3>2 DEF Claim
  <2>3. Passed(j)' \subseteq Passed(j)
    <3>1. stage[r] = "claiming"
      BY <1>3 DEF Claim
    <3>2. Moves(r, "rejected") \/ (Moves(r, "sending") /\ target' = target)
      BY <1>3, ClaimShape
    <3>. QED  BY <3>1, <3>2 DEF Moves, Passed, Undecided
  <2>. QED  BY <2>1, <2>2, <2>3, LimitKept
<1>4. ASSUME NEW r \in Requests, Send(r) PROVE LimitFor(j)'
  <2>1. UNCHANGED <<status, toJid, age, widest, target>> /\ stage[r] = "sending"
    BY <1>4 DEF Send, Goto
  <2>2. Moves(r, "recording") \/ Moves(r, "failing")
    BY <1>4, SendShape
  <2>3. Passed(j)' \subseteq Passed(j)
    BY <2>1, <2>2 DEF Moves, Passed, Undecided
  <2>. QED  BY <2>1, <2>3, LimitKept DEF Counted
<1>5. ASSUME NEW r \in Requests, RecordSent(r) PROVE LimitFor(j)'
  BY <1>5, LimitRecording
<1>6. ASSUME NEW r \in Requests, RecordFailed(r) PROVE LimitFor(j)'
  <2>1. UNCHANGED <<toJid, age, widest>>
    BY <1>6 DEF RecordFailed
  <2>2. Counted(j)' \subseteq Counted(j)
    BY <1>6, <2>1, RecordFailedShape DEF SetsStatus, Counted
  <2>3. Passed(j)' \subseteq Passed(j)
    BY <1>6, RecordFailedShape, PassedShrinks DEF Undecided
  <2>. QED  BY <2>1, <2>2, <2>3, LimitKept
<1>7. ASSUME NEW p \in Persons, LearnLid(p) PROVE LimitFor(j)'
  BY <1>7, LimitKept DEF LearnLid, Counted, Passed
<1>8. ASSUME NEW k \in Keys, RowAges(k) PROVE LimitFor(j)'
  <2>1. Counted(j)' \subseteq Counted(j)
    BY <1>8 DEF RowAges, Counted, TypeOK
  <2>. QED  BY <1>8, <2>1, LimitKept DEF RowAges, Passed
<1>9. CASE SlotAges \/ UNCHANGED vars
  BY <1>9, LimitKept DEF SlotAges, vars, Counted, Passed
<1>10. CASE ProcessDies
  <2>1. Passed(j)' \subseteq Passed(j)
    BY <1>10 DEF ProcessDies, Passed, TypeOK, Waiting, Holding, Undecided
  <2>. QED  BY <1>10, <2>1, LimitKept DEF ProcessDies, Counted
<1>. QED
  BY <1>1, <1>2, <1>3, <1>4, <1>5, <1>6, <1>7, <1>8, <1>9, <1>10 DEF Next, Step

\* The sends counted against a recipient and those still to be counted never
\* exceed its limit by as much as the most requests ever past its check at once.
THEOREM RecipientIsLimited == Spec => []RecipientLimited
<1> DEFINE LInv == HInv /\ \A j \in Jids : LimitFor(j)
<1>1. Init => LInv
  <2>1. Init => \A j \in Jids : LimitFor(j)
    BY DEF Init, LimitFor
  <2>. QED  BY <2>1, HInvInit
<1>2. LInv /\ [Next]_vars => LInv'
  <2>1. HInv /\ [Next]_vars => HInv'
    BY HInvStep
  <2>2. ASSUME HInv, \A j \in Jids : LimitFor(j), [Next]_vars
        PROVE  (\A j \in Jids : LimitFor(j))'
    <3>1. TypeOK /\ HoldersRow
      BY <2>2 DEF HInv
    <3>2. ASSUME NEW j \in Jids PROVE LimitFor(j)'
      BY <2>2, <3>1, <3>2, LimitStep
    <3>3. Jids' = Jids
      BY DEF Jids
    <3>. QED  BY <3>2, <3>3
  <2>. QED  BY <2>1, <2>2
<1>3. LInv => RecipientLimited
  BY DEF RecipientLimited, LimitFor
<1>. QED  BY <1>1, <1>2, <1>3, PTL DEF Spec
===============================================================================
