-------------------------------- MODULE Notify --------------------------------
(***************************************************************************)
(* POST /v1/notify (src/api/routes/notify.ts): many requests at once, each *)
(* a chain of awaits, against one table of notifications. A request looks  *)
(* its idempotency key up, takes a rate slot, resolves and checks its      *)
(* recipient, claims the key's row, sends, and records the outcome.        *)
(*                                                                         *)
(* A row is named by its idempotency key. A request without one is given a *)
(* key of its own: it neither finds nor meets a row of another request.    *)
(* All requests carry the API key of one app.                              *)
(***************************************************************************)
EXTENDS Integers, FiniteSets

CONSTANTS
  Requests,        \* the calls clients make, retries included
  Keys,            \* the idempotency keys
  Persons,         \* the recipients
  KeyOf,           \* the idempotency key a request carries
  PersonOf,        \* the person a request is for
  MinuteLimit,     \* rate_per_minute of the API key
  DayLimit,        \* rate_per_day of the API key
  RecipientLimit,  \* NOTIFY_PER_RECIPIENT_PER_HOUR
  MaxRestarts,     \* bound: how often the process may die and come back
  MaxFaults        \* bound: how many statements or sends may fail unseen

ASSUME ConstantsAssumption ==
  /\ IsFiniteSet(Requests) /\ IsFiniteSet(Keys)
  /\ KeyOf \in [Requests -> Keys] /\ PersonOf \in [Requests -> Persons]
  /\ MinuteLimit \in Nat \ {0} /\ DayLimit \in Nat \ {0} /\ RecipientLimit \in Nat \ {0}
  /\ MaxRestarts \in Nat /\ MaxFaults \in Nat

\* WhatsApp knows a person by phone number and, once it has told the bot, by LID.
Jids == Persons \X {"pn", "lid"}

VARIABLES
  \* wa.notifications and wa.lid_mappings
  status,    \* status[k]: status of the row of k
  toJid,     \* toJid[k]: its to_jid, <<>> before there is a row
  age,       \* age[k]: how old created_at is for the limits
  mapped,    \* persons whose LID is in wa.lid_mappings
  \* the process
  stage,     \* stage[r]: the await at which request r is, or its answer
  target,    \* target[r]: the JID it resolved
  slots,     \* timestamps of the last minute in recentByKey
  restarts, faults,
  \* history
  sends,     \* sends[k]: messages WhatsApp accepted for the key
  misjudged, \* misjudged[k]: sends that went out and were taken for failed
  widest     \* widest[j]: most requests ever past the check of j at once

row    == <<status, toJid, age>>
bounds == <<restarts, faults>>
record == <<sends, misjudged>>
vars   == <<status, toJid, age, mapped, stage, target, slots, restarts, faults, sends, misjudged,
            widest>>

Waiting   == {"counting", "resolving", "checking", "claiming"}
Undecided == {"sending", "recording"}
Holding   == Undecided \union {"failing"}
\* "rejected" stands for every error answer, "lost" for a client left without one.
Answers == {"sent", "deduplicated", "rejected", "lost"}
Ages    == {"none", "hour", "day", "old"}

TypeOK ==
  /\ status \in [Keys -> {"absent", "pending", "sent", "failed"}]
  /\ toJid \in [Keys -> Jids \union {<<>>}]
  /\ age \in [Keys -> Ages]
  /\ mapped \subseteq Persons
  /\ stage \in [Requests -> {"idle"} \union Waiting \union Holding \union Answers]
  /\ target \in [Requests -> Jids \union {<<>>}]
  /\ slots \in 0..MinuteLimit
  /\ restarts \in 0..MaxRestarts /\ faults \in 0..MaxFaults
  /\ sends \in [Keys -> Nat] /\ misjudged \in [Keys -> Nat]
  /\ widest \in [Jids -> Nat]

Init ==
  /\ status = [k \in Keys |-> "absent"]
  /\ toJid = [k \in Keys |-> <<>>]
  /\ age = [k \in Keys |-> "none"]
  /\ mapped = {}
  /\ stage = [r \in Requests |-> "idle"]
  /\ target = [r \in Requests |-> <<>>]
  /\ slots = 0
  /\ restarts = 0 /\ faults = 0
  /\ sends = [k \in Keys |-> 0] /\ misjudged = [k \in Keys |-> 0]
  /\ widest = [j \in Jids |-> 0]

-----------------------------------------------------------------------------
\* A statement or an answer that is lost, at most MaxFaults times.
Fault == faults < MaxFaults /\ faults' = faults + 1 /\ UNCHANGED restarts

Goto(r, at)     == stage' = [stage EXCEPT ![r] = at] /\ UNCHANGED target
Reply(r, answer) ==
  /\ stage' = [stage EXCEPT ![r] = answer]
  /\ target' = [target EXCEPT ![r] = <<>>]

Counted(j) == {k \in Keys : status[k] = "sent" /\ toJid[k] = j /\ age[k] = "hour"}
\* Requests that passed the recipient check for j and may yet count as sent.
Passed(j)  == {r \in Requests : target[r] = j /\ stage[r] \in {"claiming"} \union Undecided}
Bigger(a, b) == IF a >= b THEN a ELSE b

-----------------------------------------------------------------------------
(* One request, from one await to the next. Any of them may be answered with *)
(* an error before it has claimed its row: a statement fails, the socket is  *)
(* down, the recipient is unknown.                                           *)

\* The prior row of the key is replayed once it is sent. The request goes on when
\* there is none, or one that failed, and takeMinuteSlot() has a slot; a pending
\* row is a conflict.
LookUp(r) ==
  /\ stage[r] = "idle"
  /\ \/ /\ status[KeyOf[r]] = "sent"
        /\ Reply(r, "deduplicated")
        /\ UNCHANGED slots
     \/ Reply(r, "rejected") /\ UNCHANGED slots
     \/ /\ status[KeyOf[r]] \in {"absent", "failed"} /\ slots < MinuteLimit
        /\ Goto(r, "counting")
        /\ slots' = slots + 1
  /\ UNCHANGED <<row, mapped, bounds, record, widest>>

\* The rows of the last 24 hours are counted, and the socket must be open.
CountDay(r) ==
  /\ stage[r] = "counting"
  /\ \/ Reply(r, "rejected")
     \/ /\ Cardinality({k \in Keys : age[k] \in {"hour", "day"}}) < DayLimit
        /\ Goto(r, "resolving")
  /\ UNCHANGED <<row, mapped, slots, bounds, record, widest>>

\* The JIDs under which a person is found: onWhatsApp() answers a number, and a
\* username leads to either form, from the cache, wa.usernames or WhatsApp.
Found(p) == {p} \X {"pn", "lid"}

\* The recipient is looked up, and a phone number gives way to a known LID.
Resolve(r) ==
  /\ stage[r] = "resolving"
  /\ \/ Reply(r, "rejected")
     \/ \E jid \in Found(PersonOf[r]) :
          /\ stage' = [stage EXCEPT ![r] = "checking"]
          /\ target' = [target EXCEPT ![r] =
                           IF PersonOf[r] \in mapped THEN <<PersonOf[r], "lid">> ELSE jid]
  /\ UNCHANGED <<row, mapped, slots, bounds, record, widest>>

\* Request r goes on to its claim, past the check of its recipient.
PassCheck(r) ==
  /\ Goto(r, "claiming")
  /\ widest' = [widest EXCEPT ![target[r]] = Bigger(@, Cardinality(Passed(target[r])) + 1)]

\* Mutant: one more than the limit.
CheckOneMore(r) ==
  /\ stage[r] = "checking"
  /\ Cardinality(Counted(target[r])) <= RecipientLimit /\ PassCheck(r)
  /\ UNCHANGED <<row, mapped, slots, bounds, record>>

\* The messages sent to this JID in the last hour, by any app, are counted.
CheckRecipient(r) ==
  /\ stage[r] = "checking"
  /\ \/ Reply(r, "rejected") /\ UNCHANGED widest
     \/ Cardinality(Counted(target[r])) < RecipientLimit /\ PassCheck(r)
  /\ UNCHANGED <<row, mapped, slots, bounds, record>>

\* INSERT, or take over a row that failed.
TakeRow(r) ==
  /\ status[KeyOf[r]] \in {"absent", "failed"}
  /\ status' = [status EXCEPT ![KeyOf[r]] = "pending"]
  /\ toJid' = [toJid EXCEPT ![KeyOf[r]] = target[r]]
  /\ age' = [age EXCEPT ![KeyOf[r]] = "hour"]

\* Mutant: ON CONFLICT DO UPDATE without its WHERE.
ClaimAnyRow(r) ==
  /\ stage[r] = "claiming"
  /\ status' = [status EXCEPT ![KeyOf[r]] = "pending"]
  /\ toJid' = [toJid EXCEPT ![KeyOf[r]] = target[r]]
  /\ age' = [age EXCEPT ![KeyOf[r]] = "hour"]
  /\ Goto(r, "sending")
  /\ UNCHANGED <<mapped, slots, bounds, record, widest>>

\* The claim decides between concurrent duplicates. It is outside the try: an
\* answer that is lost leaves its row pending.
Claim(r) ==
  /\ stage[r] = "claiming"
  /\ \/ TakeRow(r) /\ Goto(r, "sending") /\ UNCHANGED bounds
     \/ Reply(r, "rejected") /\ UNCHANGED <<row, bounds>>
     \/ TakeRow(r) /\ Reply(r, "rejected") /\ Fault
  /\ UNCHANGED <<mapped, slots, record, widest>>

\* sendMessage(): accepted, refused, or accepted and reported as an error.
Send(r) ==
  /\ stage[r] = "sending"
  /\ \/ /\ Goto(r, "recording")
        /\ sends' = [sends EXCEPT ![KeyOf[r]] = @ + 1]
        /\ UNCHANGED <<misjudged, bounds>>
     \/ Goto(r, "failing") /\ UNCHANGED <<record, bounds>>
     \/ /\ Goto(r, "failing") /\ Fault
        /\ sends' = [sends EXCEPT ![KeyOf[r]] = @ + 1]
        /\ misjudged' = [misjudged EXCEPT ![KeyOf[r]] = @ + 1]
  /\ UNCHANGED <<row, mapped, slots, widest>>

\* waitForSeq() polls wa.messages, then UPDATE ... status = 'sent'. A poll or
\* an UPDATE that throws, even one that was committed, sends the request to
\* the catch, which takes the send itself for failed.
RecordSent(r) ==
  /\ stage[r] = "recording"
  /\ \/ /\ status' = [status EXCEPT ![KeyOf[r]] = "sent"]
        /\ Reply(r, "sent")
        /\ UNCHANGED <<misjudged, bounds>>
     \/ /\ status' \in {status, [status EXCEPT ![KeyOf[r]] = "sent"]}
        /\ Goto(r, "failing") /\ Fault
        /\ misjudged' = [misjudged EXCEPT ![KeyOf[r]] = @ + 1]
  /\ UNCHANGED <<toJid, age, mapped, slots, sends, widest>>

\* Mutant: the catch records the outcome of the try.
RecordFailedAsSent(r) ==
  /\ stage[r] = "failing"
  /\ Reply(r, "rejected")
  /\ status' = [status EXCEPT ![KeyOf[r]] = "sent"]
  /\ UNCHANGED <<toJid, age, mapped, slots, bounds, record, widest>>

\* The catch: UPDATE ... status = 'failed', whose own failure is swallowed.
RecordFailed(r) ==
  /\ stage[r] = "failing"
  /\ Reply(r, "rejected")
  /\ \/ status' = [status EXCEPT ![KeyOf[r]] = "failed"] /\ UNCHANGED bounds
     \/ Fault /\ UNCHANGED status
  /\ UNCHANGED <<toJid, age, mapped, slots, record, widest>>

Step(r) ==
  \/ LookUp(r) \/ CountDay(r) \/ Resolve(r) \/ CheckRecipient(r) \/ Claim(r)
  \/ Send(r) \/ RecordSent(r) \/ RecordFailed(r)

-----------------------------------------------------------------------------
(* The world around.                                                       *)

\* WhatsApp tells the bot the LID of a person (wa.lid_mappings).
LearnLid(p) ==
  /\ p \notin mapped
  /\ mapped' = mapped \union {p}
  /\ UNCHANGED <<row, stage, target, slots, bounds, record, widest>>

\* created_at leaves the hour of the recipient limit, then the day of the key's.
RowAges(k) ==
  /\ age[k] \in {"hour", "day"}
  /\ age' = [age EXCEPT ![k] = IF @ = "hour" THEN "day" ELSE "old"]
  /\ UNCHANGED <<status, toJid, mapped, stage, target, slots, bounds, record, widest>>

\* The oldest timestamp leaves the minute.
SlotAges ==
  /\ slots > 0
  /\ slots' = slots - 1
  /\ UNCHANGED <<row, mapped, stage, target, bounds, record, widest>>

\* The process dies and is restarted: requests under way are never answered.
ProcessDies ==
  /\ restarts < MaxRestarts
  /\ restarts' = restarts + 1
  /\ stage' = [r \in Requests |-> IF stage[r] \in Waiting \union Holding THEN "lost" ELSE stage[r]]
  /\ target' = [r \in Requests |-> <<>>]
  /\ slots' = 0
  /\ UNCHANGED <<row, mapped, faults, record, widest>>

Next ==
  \/ \E r \in Requests : Step(r)
  \/ \E p \in Persons : LearnLid(p)
  \/ \E k \in Keys : RowAges(k)
  \/ SlotAges \/ ProcessDies

Spec == Init /\ [][Next]_vars

-----------------------------------------------------------------------------
(* Properties.                                                             *)

\* Between its claim and its outcome a request has the row of its key to
\* itself: the ON CONFLICT of the claim lets one duplicate through.
OneHolder ==
  \A r, q \in Requests :
    /\ stage[r] \in Holding /\ stage[q] \in Holding /\ KeyOf[r] = KeyOf[q] => r = q
    /\ stage[r] \in Undecided => status[KeyOf[r]] = "pending"

\* However requests with one idempotency key overlap and are retried, WhatsApp
\* gets one message, and one more for each send that went out but was recorded
\* as failed because a later step threw.
SentOnce == \A k \in Keys : sends[k] <= 1 + misjudged[k]

\* A caller told that its message was sent, at once or as a duplicate, was told
\* the truth, and so does the row that says so.
SentIsTrue ==
  /\ \A r \in Requests : stage[r] \in {"sent", "deduplicated"} => sends[KeyOf[r]] > 0
  /\ \A k \in Keys : status[k] = "sent" => sends[k] > 0

\* The hourly limit of a recipient is checked long before the send it allows is
\* counted: it is exceeded, but never by more than the requests that were past
\* the check at once.
RecipientLimited ==
  \A j \in Jids :
    widest[j] > 0 => Cardinality(Counted(j)) + Cardinality(Passed(j)) < RecipientLimit + widest[j]

\* notify.ts: the same key never sends twice.
NeverTwice == \A k \in Keys : sends[k] <= 1
===============================================================================
