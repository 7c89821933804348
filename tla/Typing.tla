-------------------------------- MODULE Typing --------------------------------
(***************************************************************************)
(* The TypingManager (src/presence/typing.ts): one session per chat holds  *)
(* the "typing..." indicator up by pushing the chatstate again and again.  *)
(*                                                                         *)
(* Its methods are coroutines on one thread. Each runs alone up to its     *)
(* next send; while it awaits the answer, other calls and timers run. A    *)
(* session object outlives its place in the map: a coroutine or a timer    *)
(* may still hold it after another session was opened for its chat.        *)
(*                                                                         *)
(* Composing and recording are not told apart, nor are the jittered        *)
(* delays: an armed timer fires at any time.                               *)
(***************************************************************************)
EXTENDS Integers, Sequences, FiniteSets, SequencesExt

CONSTANTS
  Chats,       \* the chats a consumer may type in
  Sessions,    \* session objects, a bound on those in use at once
  ChatOf,      \* jid of each session object
  Callers,     \* API calls under way at once, a bound
  Cap,         \* maxConcurrentChats
  MaxFailures  \* MAX_CONSECUTIVE_FAILURES

None == "none"

ASSUME ConstantsAssumption ==
  /\ Cap \in Nat \ {0} /\ MaxFailures \in Nat \ {0}
  /\ Sessions \intersect Callers = {} /\ None \notin Sessions
  /\ ChatOf \in [Sessions -> Chats]

\* A session's timer runs its push in a coroutine of its own.
Tasks == Callers \union Sessions

VARIABLES
  markAvailable,    \* cfg.markAvailable
  order,            \* the sessions of the map, oldest first
  failures,         \* failures[s]: consecutive failures of its pushes
  lapsed,           \* lapsed[s]: deadline it is past, while it is in the map
  timers,           \* session objects whose timer is armed
  markedAvailable,
  task              \* task[t]: the send that coroutine t awaits

vars == <<markAvailable, order, failures, lapsed, timers, markedAvailable, task>>

Resting == [at |-> "resting", session |-> None]
Awaits  == [at : {"available", "chatstate"}, session : Sessions]
             \union [at : {"paused", "idle"}, session : {None}]

Open      == {order[i] : i \in DOMAIN order}
Typed     == {ChatOf[s] : s \in Open}
OpenOf(c) == {s \in Open : ChatOf[s] = c}

TypeOK ==
  /\ markAvailable \in BOOLEAN /\ markedAvailable \in BOOLEAN
  /\ order \in Seq(Sessions) /\ Len(order) = Cardinality(Open)
  /\ failures \in [Sessions -> 0..MaxFailures]
  /\ lapsed \in [Sessions -> {"live", "ttl", "hard"}]
  /\ timers \subseteq Sessions
  /\ task \in [Tasks -> Awaits \union {Resting}]

Init ==
  /\ markAvailable \in BOOLEAN
  /\ order = <<>>
  /\ failures = [s \in Sessions |-> 0]
  /\ lapsed = [s \in Sessions |-> "live"]
  /\ timers = {}
  /\ markedAvailable = FALSE
  /\ task = [t \in Tasks |-> Resting]

-----------------------------------------------------------------------------
(* What a coroutine does between two sends.                                *)

\* sendPresenceUpdate(): whether it went out is known at its answer.
Send(t, what, session) == task' = [task EXCEPT ![t] = [at |-> what, session |-> session]]

Return(t) == task' = [task EXCEPT ![t] = Resting]

\* The map keeps kept. The objects that go have their timers cleared; armed are
\* the timers that ran so far.
Keep(kept, armed) ==
  LET stay == {kept[i] : i \in DOMAIN kept} IN
  /\ order' = kept
  /\ timers' = armed \ (Open \ stay)
  /\ lapsed' = [s \in Sessions |-> IF s \in Open \intersect stay THEN lapsed[s] ELSE "live"]

\* clear(jid): the entry of the chat leaves the map, if it has one.
Clear(c, armed) ==
  \/ \E i \in DOMAIN order : ChatOf[order[i]] = c /\ Keep(RemoveAt(order, i), armed)
  \/ OpenOf(c) = {} /\ Keep(order, armed)

\* Failures are counted by the objects that the map or a coroutine holds.
CountFailures(count) ==
  failures' = [s \in Sessions |->
                 IF s \in Open' \/ \E t \in Tasks : task'[t].session = s THEN count[s] ELSE 0]

\* releasePresence(), after the sessions that are left.
ReleasePresence(t, left) ==
  IF markedAvailable /\ left = <<>>
    THEN markedAvailable' = FALSE /\ Send(t, "idle", None)
    ELSE Return(t) /\ UNCHANGED markedAvailable

\* stop(jid) up to its await.
StopSession(t, c, armed) ==
  /\ Clear(c, armed)
  /\ Send(t, "paused", None)
  /\ UNCHANGED markedAvailable

\* Mutant: the account goes online for every first push.
SendStateAlwaysOnline(t, s) ==
  Send(t, IF ~markedAvailable THEN "available" ELSE "chatstate", s)

\* The sends of push(): the presence first, when it is configured and not held.
SendState(t, s) ==
  Send(t, IF markAvailable /\ ~markedAvailable THEN "available" ELSE "chatstate", s)

\* push(jid) up to its first await, for the open session s of chat c.
Push(t, s, c, armed) ==
  \/ lapsed[s] # "live" /\ StopSession(t, c, armed)
  \/ /\ lapsed[s] = "live"
     /\ SendState(t, s)
     /\ timers' = armed
     /\ UNCHANGED <<order, lapsed, markedAvailable>>

-----------------------------------------------------------------------------
(* start()                                                                 *)

\* Mutant: asking again moves the hard deadline too.
ExtendForGood(t, c) ==
  \E s \in OpenOf(c) :
    /\ lapsed' = [lapsed EXCEPT ![s] = "live"]
    /\ SendState(t, s)
    /\ UNCHANGED <<order, failures, timers, markedAvailable>>

\* An open session is extended, up to its hard deadline, and pushed.
Extend(t, c) ==
  /\ \E s \in OpenOf(c) :
       \/ lapsed[s] = "hard" /\ StopSession(t, c, timers)
       \/ /\ lapsed[s] # "hard"
          /\ lapsed' = [lapsed EXCEPT ![s] = "live"]
          /\ SendState(t, s)
          /\ UNCHANGED <<order, timers, markedAvailable>>
  /\ CountFailures(failures)

\* Mutant: evictOverflow() makes no room for the session to come.
SurvivorsOfOverflow == IF Len(order) <= Cap THEN order ELSE Tail(order)

\* evictOverflow(): the oldest go while there are Cap or more.
Survivors == IF Len(order) < Cap THEN order ELSE SubSeq(order, Len(order) - Cap + 2, Len(order))

\* A new session evicts the oldest ones over the cap, without a 'paused'.
OpenSession(t, c) ==
  /\ OpenOf(c) = {}
  /\ \E s \in Sessions \ (timers \union {task[u].session : u \in Tasks}) :
       /\ ChatOf[s] = c
       /\ Keep(Append(Survivors, s), timers)
       /\ SendState(t, s)
       /\ CountFailures([failures EXCEPT ![s] = 0])
  /\ UNCHANGED markedAvailable

Start(t, c) ==
  /\ task[t] = Resting
  /\ Extend(t, c) \/ OpenSession(t, c)
  /\ UNCHANGED markAvailable

-----------------------------------------------------------------------------
(* stop(), noteOutboundMessage() and the timers                            *)

\* DELETE .../typing, and each call of stopAll().
Stop(t, c) ==
  /\ task[t] = Resting /\ OpenOf(c) # {}
  /\ StopSession(t, c, timers)
  /\ CountFailures(failures)
  /\ UNCHANGED markAvailable

\* A message went out to the chat, which takes its indicator down.
NoteOutboundMessage(t, c) ==
  /\ task[t] = Resting /\ OpenOf(c) # {}
  /\ Clear(c, timers)
  /\ ReleasePresence(t, order')
  /\ CountFailures(failures)
  /\ UNCHANGED markAvailable

\* The timer of a session object pushes whatever session its chat has now.
TimerFires(s) ==
  /\ s \in timers /\ task[s] = Resting
  /\ \/ \E o \in OpenOf(ChatOf[s]) : Push(s, o, ChatOf[s], timers \ {s})
     \/ /\ OpenOf(ChatOf[s]) = {}
        /\ timers' = timers \ {s}
        /\ UNCHANGED <<order, lapsed, markedAvailable, task>>
  /\ CountFailures(failures)
  /\ UNCHANGED markAvailable

-----------------------------------------------------------------------------
(* The answers coroutines await                                            *)

AvailableSent(t) ==
  /\ task[t].at = "available"
  /\ markedAvailable' \in {markedAvailable, TRUE}
  /\ Send(t, "chatstate", task[t].session)
  /\ UNCHANGED <<markAvailable, order, failures, lapsed, timers>>

\* Mutant: only a push that succeeded is scheduled again.
ArmOnSuccess(s, count) ==
  timers' = IF count = 0 /\ OpenOf(ChatOf[s]) # {} THEN timers \union {s} ELSE timers

\* The end of push(): its own session object is armed if the chat has one.
Arm(s, count) ==
  timers' = IF OpenOf(ChatOf[s]) # {} THEN timers \union {s} ELSE timers

\* Mutant: a success forgives one failure.
CountsDown(s) == {failures[s] - 1, failures[s] + 1}

\* session.failures after a success and after a failure.
Counts(s) == {0, failures[s] + 1}

\* The answer to a chatstate, with the failures of its object by now. The third
\* in a row closes whatever session the chat has.
StateSent(t) ==
  LET s == task[t].session IN
  /\ task[t].at = "chatstate"
  /\ \E count \in Counts(s) :
       /\ \/ /\ count >= MaxFailures
             /\ Clear(ChatOf[s], timers)
             /\ ReleasePresence(t, order')
          \/ /\ count < MaxFailures
             /\ Arm(s, count) /\ Return(t)
             /\ UNCHANGED <<order, lapsed, markedAvailable>>
       /\ CountFailures([failures EXCEPT ![s] = IF count < MaxFailures THEN count ELSE MaxFailures])
  /\ UNCHANGED markAvailable

PausedSent(t) ==
  /\ task[t].at = "paused"
  /\ ReleasePresence(t, order)
  /\ UNCHANGED <<markAvailable, order, failures, lapsed, timers>>

IdleSent(t) ==
  /\ task[t].at = "idle"
  /\ Return(t)
  /\ UNCHANGED <<markAvailable, order, failures, lapsed, timers, markedAvailable>>

Answer(t) == AvailableSent(t) \/ StateSent(t) \/ PausedSent(t) \/ IdleSent(t)

-----------------------------------------------------------------------------
(* The socket and the clock                                                *)

\* Bot.onConnectionUpdate 'close'.
Reset ==
  /\ Keep(<<>>, timers)
  /\ markedAvailable' = FALSE
  /\ UNCHANGED <<markAvailable, task>>
  /\ CountFailures(failures)

\* expiresAt passes, then hardDeadline.
TtlLapses(s) ==
  /\ s \in Open /\ lapsed[s] = "live"
  /\ lapsed' = [lapsed EXCEPT ![s] = "ttl"]
  /\ UNCHANGED <<markAvailable, order, failures, timers, markedAvailable, task>>

HardDeadlinePasses(s) ==
  /\ s \in Open /\ lapsed[s] # "hard"
  /\ lapsed' = [lapsed EXCEPT ![s] = "hard"]
  /\ UNCHANGED <<markAvailable, order, failures, timers, markedAvailable, task>>

Next ==
  \/ \E t \in Callers, c \in Chats : Start(t, c) \/ Stop(t, c) \/ NoteOutboundMessage(t, c)
  \/ \E t \in Tasks : Answer(t)
  \/ \E s \in Sessions : TimerFires(s) \/ TtlLapses(s) \/ HardDeadlinePasses(s)
  \/ Reset

Spec == Init /\ [][Next]_vars

\* Sends are answered, timers fire and time passes.
FairSpec ==
  /\ Spec
  /\ \A t \in Tasks : WF_vars(Answer(t))
  /\ \A s \in Sessions : WF_vars(TimerFires(s)) /\ WF_vars(HardDeadlinePasses(s))

-----------------------------------------------------------------------------
(* Properties.                                                             *)

\* A chat has one session, and at most maxConcurrentChats have one.
CapRespected ==
  /\ Len(order) <= Cap
  /\ \A s, o \in Open : ChatOf[s] = ChatOf[o] => s = o

\* Every open session is watched: its own timer is armed, or a coroutine that
\* pushes its object is under way. No clear of another session's timer, no
\* failure and no late answer leaves a session that nobody would end.
SessionsWatched ==
  \A s \in Open : s \in timers \/ \E t \in Tasks : task[t].session = s

\* Unless the account is made available for typing, a chatstate is only sent for
\* a chat that has a session at that moment: no push that was under way when its
\* session ended puts the indicator up again.
NoGhostTyping ==
  [][\A t \in Tasks : task'[t].at = "chatstate" /\ task'[t] # task[t] =>
       markAvailable \/ ChatOf[task'[t].session] \in Typed']_vars

\* However often it is extended and whatever its pushes do, a session ends
\* (its hard deadline, typing.ts hardDeadline).
SessionsEnd == \A s \in Sessions : s \in Open ~> s \notin Open
===============================================================================
