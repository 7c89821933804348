----------------------------- MODULE Typing_proofs -----------------------------
(***************************************************************************)
(* Theorems about Typing, for every set of chats, session objects and      *)
(* callers, every cap on concurrent chats and every number of failures     *)
(* after which a session is given up.                                      *)
(***************************************************************************)
EXTENDS Typing, SequenceTheorems, FiniteSetTheorems, TLAPS

(***************************************************************************)
(* The map of open sessions, a sequence in the order of insertion.         *)
(***************************************************************************)

\* No two entries of the map have the same key.
OnePerChat(q) == \A i, k \in DOMAIN q : ChatOf[q[i]] = ChatOf[q[k]] => i = k
Elements(q)   == {q[i] : i \in DOMAIN q}

\* A sequence without its i-th element.
LEMMA RemoveAtProperties ==
  ASSUME NEW S, NEW q \in Seq(S), NEW i \in DOMAIN q
  PROVE  /\ RemoveAt(q, i) \in Seq(S)
         /\ Len(RemoveAt(q, i)) = Len(q) - 1
         /\ \A n \in 1 .. Len(q) - 1 : RemoveAt(q, i)[n] = IF n < i THEN q[n] ELSE q[n + 1]
<1> DEFINE front == SubSeq(q, 1, i - 1)
           back  == SubSeq(q, i + 1, Len(q))
<1>1. /\ Len(q) \in Nat /\ DOMAIN q = 1 .. Len(q) /\ i \in 1 .. Len(q)
      /\ \A n \in 1 .. Len(q) : q[n] \in S
  BY LenProperties
<1>2. /\ front \in Seq(S) /\ Len(front) = i - 1
      /\ \A n \in 1 .. i - 1 : front[n] = q[n]
  <2>1. 1 \in Int /\ i - 1 \in Int /\ \A n \in 1 .. i - 1 : q[n] \in S
    BY <1>1
  <2>2. /\ front \in Seq(S) /\ Len(front) = IF 1 <= i - 1 THEN i - 1 - 1 + 1 ELSE 0
        /\ \A n \in 1 .. i - 1 - 1 + 1 : front[n] = q[1 + n - 1]
    BY <2>1, SubSeqProperties
  <2> HIDE DEF front
  <2>3. i \in Int /\ i - 1 - 1 + 1 = i - 1 /\ \A n \in Int : 1 + n - 1 = n
    BY <1>1
  <2>4. Len(front) = i - 1
    BY <1>1, <2>2, <2>3
  <2>5. ASSUME NEW n \in 1 .. i - 1 PROVE front[n] = q[n]
    <3>1. 1 + n - 1 = n
      BY <2>3
    <3>. QED  BY <2>2, <2>3, <3>1
  <2>. QED  BY <2>2, <2>4, <2>5
<1>3. /\ back \in Seq(S) /\ Len(back) = Len(q) - i
      /\ \A n \in 1 .. Len(q) - i : back[n] = q[i + n]
  <2>1. i + 1 \in Int /\ Len(q) \in Int /\ \A n \in i + 1 .. Len(q) : q[n] \in S
    BY <1>1
  <2>2. /\ back \in Seq(S) /\ Len(back) = IF i + 1 <= Len(q) THEN Len(q) - (i + 1) + 1 ELSE 0
        /\ \A n \in 1 .. Len(q) - (i + 1) + 1 : back[n] = q[i + 1 + n - 1]
    BY <2>1, SubSeqProperties
  <2> HIDE DEF back
  <2>3. i \in Int /\ Len(q) - (i + 1) + 1 = Len(q) - i
    BY <1>1
  <2>4. Len(back) = Len(q) - i
    BY <1>1, <2>2, <2>3
  <2>5. ASSUME NEW n \in 1 .. Len(q) - i PROVE back[n] = q[i + n]
    <3>1. i + 1 + n - 1 = i + n
      BY <2>3
    <3>. QED  BY <2>2, <2>3, <3>1
  <2>. QED  BY <2>2, <2>4, <2>5
<1>4. RemoveAt(q, i) = front \o back
  BY DEF RemoveAt
<1> HIDE DEF front, back
<1>5. /\ front \o back \in Seq(S) /\ Len(front \o back) = Len(front) + Len(back)
      /\ \A n \in 1 .. Len(front) + Len(back) :
           (front \o back)[n] = IF n <= Len(front) THEN front[n] ELSE back[n - Len(front)]
  BY <1>2, <1>3, ConcatProperties
<1>6. ASSUME NEW n \in 1 .. Len(q) - 1
      PROVE  (front \o back)[n] = IF n < i THEN q[n] ELSE q[n + 1]
  <2>1. CASE n < i
    <3>1. n \in 1 .. i - 1 /\ n \in 1 .. Len(front) + Len(back) /\ n <= Len(front)
      BY <1>1, <1>2, <1>3, <2>1
    <3>2. (front \o back)[n] = front[n]
      BY <1>5, <3>1
    <3>. QED  BY <1>2, <2>1, <3>1, <3>2
  <2>2. CASE ~(n < i)
    <3>1. n - (i - 1) \in 1 .. Len(q) - i /\ i + (n - (i - 1)) = n + 1
      BY <1>1, <2>2
    <3>2. (front \o back)[n] = back[n - (i - 1)]
      <4>1. n \in 1 .. Len(front) + Len(back) /\ ~(n <= Len(front)) /\ Len(front) = i - 1
        BY <1>1, <1>2, <1>3, <2>2
      <4>. QED  BY <1>5, <4>1
    <3>3. back[n - (i - 1)] = q[i + (n - (i - 1))]
      BY <1>3, <3>1
    <3>. QED  BY <2>2, <3>1, <3>2, <3>3
  <2>. QED  BY <2>1, <2>2
<1>. QED  BY <1>1, <1>2, <1>3, <1>4, <1>5, <1>6

\* clear(jid) takes the one entry of the chat out of the map.
LEMMA RemoveEntry ==
  ASSUME NEW q \in Seq(Sessions), OnePerChat(q), NEW i \in DOMAIN q
  PROVE  /\ OnePerChat(RemoveAt(q, i))
         /\ Elements(RemoveAt(q, i)) = {s \in Elements(q) : ChatOf[s] # ChatOf[q[i]]}
<1> DEFINE r == RemoveAt(q, i)
<1>1. /\ r \in Seq(Sessions) /\ Len(r) = Len(q) - 1
      /\ \A n \in 1 .. Len(q) - 1 : r[n] = IF n < i THEN q[n] ELSE q[n + 1]
  BY RemoveAtProperties
<1> HIDE DEF r
<1>2. /\ Len(q) \in Nat /\ DOMAIN q = 1 .. Len(q) /\ i \in 1 .. Len(q)
      /\ DOMAIN r = 1 .. Len(q) - 1
  BY <1>1, LenProperties
<1>3. OnePerChat(r)
  <2> SUFFICES ASSUME NEW m \in DOMAIN r, NEW n \in DOMAIN r, ChatOf[r[m]] = ChatOf[r[n]]
               PROVE  m = n
    BY DEF OnePerChat
  <2> DEFINE at(k) == IF k < i THEN k ELSE k + 1
  <2>1. \A k \in DOMAIN r : at(k) \in DOMAIN q /\ r[k] = q[at(k)]
    BY <1>1, <1>2
  <2>2. at(m) = at(n)
    BY <2>1 DEF OnePerChat
  <2>. QED  BY <1>2, <2>2
<1>4. ASSUME NEW s \in Elements(r)
      PROVE  s \in Elements(q) /\ ChatOf[s] # ChatOf[q[i]]
  <2>1. PICK n \in DOMAIN r : s = r[n]
    BY DEF Elements
  <2>2. \E k \in DOMAIN q : s = q[k] /\ k # i
    <3>1. CASE n < i
      BY <1>1, <1>2, <2>1, <3>1
    <3>2. CASE ~(n < i)
      <4>1. n + 1 \in DOMAIN q /\ n + 1 # i /\ s = q[n + 1]
        BY <1>1, <1>2, <2>1, <3>2
      <4>. QED  BY <4>1
    <3>. QED  BY <3>1, <3>2
  <2>. QED  BY <2>2 DEF Elements, OnePerChat
<1>5. ASSUME NEW s \in Elements(q), ChatOf[s] # ChatOf[q[i]]
      PROVE  s \in Elements(r)
  <2>1. PICK k \in DOMAIN q : s = q[k]
    BY DEF Elements
  <2>2. k # i
    BY <1>5, <2>1
  <2>3. CASE k < i
    <3>1. k \in DOMAIN r /\ s = r[k]
      BY <1>1, <1>2, <2>1, <2>3
    <3>. QED  BY <3>1 DEF Elements
  <2>4. CASE k > i
    <3>1. k - 1 \in DOMAIN r /\ s = r[k - 1]
      BY <1>1, <1>2, <2>1, <2>4
    <3>. QED  BY <3>1 DEF Elements
  <2>. QED  BY <1>2, <2>2, <2>3, <2>4
<1>. QED  BY <1>3, <1>4, <1>5 DEF r

\* evictOverflow() leaves the youngest entries, and room for one more.
LEMMA SurvivorsProperties ==
  ASSUME order \in Seq(Sessions), OnePerChat(order)
  PROVE  /\ Survivors \in Seq(Sessions) /\ OnePerChat(Survivors)
         /\ Len(Survivors) < Cap
         /\ Elements(Survivors) \subseteq Elements(order)
<1>1. /\ Len(order) \in Nat /\ DOMAIN order = 1 .. Len(order)
      /\ \A n \in 1 .. Len(order) : order[n] \in Sessions
      /\ Cap \in Nat /\ Cap > 0
  BY LenProperties, ConstantsAssumption
<1>2. CASE Len(order) < Cap
  BY <1>2 DEF Survivors
<1>3. CASE ~(Len(order) < Cap)
  <2> DEFINE first == Len(order) - Cap + 2
             r == SubSeq(order, first, Len(order))
  <2>1. /\ first \in Int /\ Len(order) \in Int /\ first > 1
        /\ \A n \in first .. Len(order) : order[n] \in Sessions
    BY <1>1, <1>3
  <2>2. /\ r \in Seq(Sessions)
        /\ Len(r) = IF first <= Len(order) THEN Len(order) - first + 1 ELSE 0
        /\ \A n \in 1 .. Len(order) - first + 1 : r[n] = order[first + n - 1]
    BY <2>1, SubSeqProperties
  <2>3. Survivors = r
    BY <1>3 DEF Survivors
  <2> HIDE DEF r
  <2>4. Len(r) = Cap - 1 /\ DOMAIN r = 1 .. Cap - 1
    <3>1. Len(r) = Cap - 1
      BY <1>1, <1>3, <2>2
    <3>2. DOMAIN r = 1 .. Len(r)
      BY <2>2, LenProperties
    <3>. QED  BY <3>1, <3>2
  <2>5. \A n \in DOMAIN r : first + n - 1 \in DOMAIN order /\ r[n] = order[first + n - 1]
    <3>1. Len(order) - first + 1 = Cap - 1
      BY <1>1
    <3>2. ASSUME NEW n \in DOMAIN r
          PROVE  n \in 1 .. Len(order) - first + 1 /\ first + n - 1 \in DOMAIN order
      BY <1>1, <1>3, <2>1, <2>4, <3>1
    <3>. QED  BY <2>2, <3>2
  <2>6. OnePerChat(r)
    <3> SUFFICES ASSUME NEW m \in DOMAIN r, NEW n \in DOMAIN r, ChatOf[r[m]] = ChatOf[r[n]]
                 PROVE  m = n
      BY DEF OnePerChat
    <3>1. first + m - 1 = first + n - 1
      BY <2>5 DEF OnePerChat
    <3> HIDE DEF first
    <3>. QED  BY <2>1, <2>4, <3>1
  <2>7. Elements(r) \subseteq Elements(order)
    BY <2>5 DEF Elements
  <2>. QED  BY <1>1, <2>2, <2>3, <2>4, <2>6, <2>7
<1>. QED  BY <1>2, <1>3

LEMMA AppendEntry ==
  ASSUME NEW q \in Seq(Sessions), OnePerChat(q), NEW s \in Sessions,
         \A o \in Elements(q) : ChatOf[o] # ChatOf[s]
  PROVE  /\ Append(q, s) \in Seq(Sessions) /\ OnePerChat(Append(q, s))
         /\ Len(Append(q, s)) = Len(q) + 1
         /\ Elements(Append(q, s)) = Elements(q) \union {s}
<1> DEFINE r == Append(q, s)
<1>1. /\ r \in Seq(Sessions) /\ Len(r) = Len(q) + 1
      /\ \A n \in 1 .. Len(q) : r[n] = q[n]
      /\ r[Len(q) + 1] = s
  BY AppendProperties
<1> HIDE DEF r
<1>2. Len(q) \in Nat /\ DOMAIN q = 1 .. Len(q) /\ DOMAIN r = 1 .. Len(q) + 1
  BY <1>1, LenProperties
<1>3. \A n \in DOMAIN r : (n \in DOMAIN q /\ r[n] = q[n]) \/ (n = Len(q) + 1 /\ r[n] = s)
  BY <1>1, <1>2
<1>4. OnePerChat(r)
  BY <1>3 DEF OnePerChat, Elements
<1>5. Elements(r) = Elements(q) \union {s}
  <2>1. Elements(r) \subseteq Elements(q) \union {s}
    BY <1>3 DEF Elements
  <2>2. s \in Elements(r) /\ Elements(q) \subseteq Elements(r)
    BY <1>1, <1>2 DEF Elements
  <2>. QED  BY <2>1, <2>2
<1>. QED  BY <1>1, <1>4, <1>5 DEF r

\* The map has as many entries as sessions.
LEMMA EntriesAreSessions ==
  ASSUME order \in Seq(Sessions), OnePerChat(order)
  PROVE  Len(order) = Cardinality(Open)
<1>1. /\ Len(order) \in Nat /\ DOMAIN order = 1 .. Len(order)
  BY LenProperties
<1>2. IsFiniteSet(1 .. Len(order)) /\ Cardinality(1 .. Len(order)) = Len(order)
  BY <1>1, FS_Interval
<1>3. ExistsBijection(1 .. Len(order), Open)
  <2> DEFINE f == [i \in 1 .. Len(order) |-> order[i]]
  <2>1. f \in Bijection(1 .. Len(order), Open)
    BY <1>1 DEF Bijection, Injection, Surjection, IsInjective, Open, OnePerChat
  <2>. QED  BY <2>1 DEF ExistsBijection
<1>. QED  BY <1>2, <1>3, FS_Bijection

(***************************************************************************)
(* Coroutines and timers.                                                  *)
(***************************************************************************)

Fields ==
  /\ markAvailable \in BOOLEAN /\ markedAvailable \in BOOLEAN
  /\ failures \in [Sessions -> 0..MaxFailures]
  /\ lapsed \in [Sessions -> {"live", "ttl", "hard"}]
  /\ timers \subseteq Sessions
  /\ task \in [Tasks -> Awaits \union {Resting}]

\* The map never holds more than the cap, nor two sessions of one chat.
Map == order \in Seq(Sessions) /\ OnePerChat(order) /\ Len(order) <= Cap

\* The account is made available only where that is configured.
AvailableIfAsked == \A t \in Tasks : task[t].at = "available" => markAvailable

Inv == Fields /\ Map /\ SessionsWatched /\ AvailableIfAsked

\* What NoGhostTyping says of one step.
NoGhost ==
  \A t \in Tasks : task'[t].at = "chatstate" /\ task'[t] # task[t] =>
    markAvailable \/ ChatOf[task'[t].session] \in Typed'

LEMMA OpenIsElements == Open = Elements(order)
BY DEF Open, Elements

LEMMA OpenFacts ==
  ASSUME Map
  PROVE  /\ Open \subseteq Sessions
         /\ \A s, o \in Open : ChatOf[s] = ChatOf[o] => s = o
<1>1. DOMAIN order = 1 .. Len(order) /\ \A i \in 1 .. Len(order) : order[i] \in Sessions
  BY LenProperties DEF Map
<1>. QED  BY <1>1 DEF Map, Open, OnePerChat

LEMMA TaskFacts ==
  ASSUME Fields, NEW t \in Tasks
  PROVE  /\ task[t].at \in {"available", "chatstate"} => task[t].session \in Sessions
         /\ task[t].at \notin {"available", "chatstate"} => task[t].session = None
         /\ task[t] = Resting => task[t].session = None
BY DEF Fields, Awaits, Resting

\* Coroutine t goes on to hold session object s, or none.
Moves(t, x) == x \in Awaits \union {Resting} /\ task' = [task EXCEPT ![t] = x]

LEMMA SendMoves ==
  ASSUME NEW t, NEW what, NEW s, Send(t, what, s),
         \/ what \in {"available", "chatstate"} /\ s \in Sessions
         \/ what \in {"paused", "idle"} /\ s = None
  PROVE  Moves(t, [at |-> what, session |-> s])
BY DEF Send, Moves, Awaits

LEMMA ReleaseMoves ==
  ASSUME NEW t, NEW left, ReleasePresence(t, left), markedAvailable \in BOOLEAN
  PROVE  /\ markedAvailable' \in BOOLEAN
         /\ \E x : Moves(t, x) /\ x.session = None /\ x.at \notin {"available", "chatstate"}
<1>1. CASE Send(t, "idle", None) /\ markedAvailable' = FALSE
  <2> DEFINE x == [at |-> "idle", session |-> None]
  <2>1. Moves(t, x) /\ x.session = None /\ x.at \notin {"available", "chatstate"}
    BY <1>1, SendMoves
  <2>. QED  BY <1>1, <2>1
<1>2. CASE Return(t) /\ markedAvailable' = markedAvailable
  <2>1. Moves(t, Resting) /\ Resting.session = None /\ Resting.at \notin {"available", "chatstate"}
    BY <1>2 DEF Return, Moves, Resting
  <2>. QED  BY <1>2, <2>1
<1>. QED  BY <1>1, <1>2 DEF ReleasePresence

LEMMA SendStateMoves ==
  ASSUME NEW t, NEW s \in Sessions, SendState(t, s)
  PROVE  \E x : /\ Moves(t, x) /\ x.session = s /\ x.at \in {"available", "chatstate"}
                /\ x.at = "available" => markAvailable
<1>1. PICK what \in {"available", "chatstate"} :
        Send(t, what, s) /\ (what = "available" => markAvailable)
  BY DEF SendState
<1> DEFINE x == [at |-> what, session |-> s]
<1>2. Moves(t, x) /\ x.session = s /\ x.at = what
  BY <1>1, SendMoves
<1>. QED  BY <1>1, <1>2

LEMMA CountType ==
  ASSUME NEW count \in [Sessions -> 0..MaxFailures], CountFailures(count)
  PROVE  failures' \in [Sessions -> 0..MaxFailures]
<1>1. 0 \in 0..MaxFailures
  BY ConstantsAssumption
<1>. QED  BY <1>1 DEF CountFailures

\* clear(jid): the chat's session is gone, the others keep their timers.
LEMMA ClearFacts ==
  ASSUME Map, NEW c, NEW armed, Clear(c, armed)
  PROVE  /\ Map'
         /\ Open' = {s \in Open : ChatOf[s] # c}
         /\ timers' = armed \ {s \in Open : ChatOf[s] = c}
         /\ Fields => lapsed' \in [Sessions -> {"live", "ttl", "hard"}]
<1>0. Len(order) \in Nat /\ DOMAIN order = 1 .. Len(order) /\ Cap \in Nat
  BY LenProperties, ConstantsAssumption DEF Map
<1>1. ASSUME NEW kept, Keep(kept, armed)
      PROVE  /\ order' = kept /\ timers' = armed \ (Open \ Elements(kept))
             /\ Fields => lapsed' \in [Sessions -> {"live", "ttl", "hard"}]
  BY <1>1 DEF Keep, Elements, Fields
<1>2. ASSUME NEW i \in DOMAIN order, ChatOf[order[i]] = c, Keep(RemoveAt(order, i), armed)
      PROVE  /\ Map'
             /\ Open' = {s \in Open : ChatOf[s] # c}
             /\ timers' = armed \ {s \in Open : ChatOf[s] = c}
  <2>1. /\ RemoveAt(order, i) \in Seq(Sessions) /\ OnePerChat(RemoveAt(order, i))
        /\ Len(RemoveAt(order, i)) = Len(order) - 1
        /\ Elements(RemoveAt(order, i)) = {s \in Open : ChatOf[s] # c}
    BY <1>2, RemoveAtProperties, RemoveEntry, OpenIsElements DEF Map
  <2>2. order' = RemoveAt(order, i)
    BY <1>1, <1>2
  <2>3. Open' = Elements(order')
    BY DEF Open, Elements
  <2>4. Map'
    BY <1>0, <2>1, <2>2 DEF Map, OnePerChat
  <2>. QED  BY <1>1, <1>2, <2>1, <2>2, <2>3, <2>4
<1>3. CASE OpenOf(c) = {} /\ Keep(order, armed)
  <2>1. order' = order /\ Elements(order) = Open /\ \A s \in Open : ChatOf[s] # c
    BY <1>1, <1>3, OpenIsElements DEF OpenOf
  <2>. QED  BY <1>1, <1>3, <2>1 DEF Map, OnePerChat, Open
<1>. QED  BY <1>1, <1>2, <1>3 DEF Clear

(***************************************************************************)
(* The kinds of steps.                                                     *)
(***************************************************************************)

\* Coroutine t ends the session of chat c, or what is left of it, and holds no
\* session object any more. The other sessions keep their timers.
LEMMA Closing ==
  ASSUME Inv, NEW t \in Tasks, NEW c, NEW armed \in SUBSET Sessions, Clear(c, armed),
         \A s \in Open \intersect timers : ChatOf[s] # c => s \in armed,
         \A s \in Open : task[t].session = s => ChatOf[s] = c,
         NEW x, Moves(t, x), x.session = None, x.at \notin {"available", "chatstate"},
         markAvailable' = markAvailable, markedAvailable' \in BOOLEAN,
         NEW count \in [Sessions -> 0..MaxFailures], CountFailures(count)
  PROVE  Inv' /\ NoGhost
<1>0. task \in [Tasks -> Awaits \union {Resting}]
  BY DEF Inv, Fields
<1>1. /\ Map' /\ Open' = {s \in Open : ChatOf[s] # c}
      /\ timers' = armed \ {s \in Open : ChatOf[s] = c}
      /\ lapsed' \in [Sessions -> {"live", "ttl", "hard"}]
  BY ClearFacts DEF Inv
<1>2. task'[t] = x /\ \A u \in Tasks \ {t} : task'[u] = task[u]
  BY <1>0 DEF Moves
<1>3. Fields'
  BY <1>0, <1>1, CountType DEF Inv, Fields, Moves
<1>4. SessionsWatched'
  <2> SUFFICES ASSUME NEW s \in Open, ChatOf[s] # c
               PROVE  s \in timers' \/ \E u \in Tasks : task'[u].session = s
    BY <1>1 DEF SessionsWatched
  <2>1. CASE s \in timers
    BY <1>1, <2>1
  <2>2. CASE \E u \in Tasks : task[u].session = s
    BY <1>2, <2>2
  <2>. QED  BY <2>1, <2>2 DEF Inv, SessionsWatched
<1>5. AvailableIfAsked' /\ NoGhost
  BY <1>2 DEF Inv, AvailableIfAsked, NoGhost
<1>. QED  BY <1>1, <1>3, <1>4, <1>5 DEF Inv

\* Coroutine t starts a push of the open session s, with the timers armed.
LEMMA Pushing ==
  ASSUME Inv, NEW t \in Tasks, NEW s \in Open, SendState(t, s),
         order' = order, timers' \subseteq Sessions,
         \A o \in Open \intersect timers : o # s => o \in timers',
         task[t].session # s => task[t].session \notin Open,
         lapsed' \in [Sessions -> {"live", "ttl", "hard"}],
         markAvailable' = markAvailable, markedAvailable' = markedAvailable,
         CountFailures(failures)
  PROVE  Inv' /\ NoGhost
<1>0. task \in [Tasks -> Awaits \union {Resting}] /\ failures \in [Sessions -> 0..MaxFailures]
  BY DEF Inv, Fields
<1>1. s \in Sessions /\ Open' = Open /\ Typed' = Typed /\ ChatOf[s] \in Typed
  BY OpenFacts DEF Inv, Open, Typed
<1>2. PICK x : /\ Moves(t, x) /\ x.session = s /\ x.at \in {"available", "chatstate"}
               /\ x.at = "available" => markAvailable
  BY <1>1, SendStateMoves
<1>3. task'[t] = x /\ \A u \in Tasks \ {t} : task'[u] = task[u]
  BY <1>0, <1>2 DEF Moves
<1>4. Fields'
  BY <1>0, <1>2, CountType DEF Inv, Fields, Moves
<1>5. SessionsWatched'
  <2> SUFFICES ASSUME NEW o \in Open
               PROVE  o \in timers' \/ \E u \in Tasks : task'[u].session = o
    BY <1>1 DEF SessionsWatched
  <2>1. CASE o = s
    BY <1>2, <1>3, <2>1
  <2>2. CASE o # s /\ o \in timers
    BY <2>2
  <2>3. CASE o # s /\ \E u \in Tasks : task[u].session = o
    BY <1>3, <2>3
  <2>. QED  BY <2>1, <2>2, <2>3 DEF Inv, SessionsWatched
<1>6. AvailableIfAsked' /\ NoGhost
  BY <1>1, <1>2, <1>3 DEF Inv, AvailableIfAsked, NoGhost
<1>7. Map'
  BY DEF Inv, Map, OnePerChat
<1>. QED  BY <1>4, <1>5, <1>6, <1>7 DEF Inv

LEMMA Stopping ==
  ASSUME Inv, NEW t \in Tasks, NEW c, NEW armed \in SUBSET Sessions, StopSession(t, c, armed),
         \A s \in Open \intersect timers : ChatOf[s] # c => s \in armed,
         task[t] = Resting, markAvailable' = markAvailable, CountFailures(failures)
  PROVE  Inv' /\ NoGhost
<1> DEFINE x == [at |-> "paused", session |-> None]
<1>1. Moves(t, x) /\ x.session = None /\ x.at \notin {"available", "chatstate"}
  BY SendMoves DEF StopSession
<1>2. \A s \in Open : task[t].session # s
  BY OpenFacts, TaskFacts, ConstantsAssumption DEF Inv
<1>3. failures \in [Sessions -> 0..MaxFailures] /\ markedAvailable' \in BOOLEAN
  BY DEF Inv, Fields, StopSession
<1> HIDE DEF x
<1>. QED  BY <1>1, <1>2, <1>3, Closing DEF StopSession

LEMMA StartStep ==
  ASSUME Inv, NEW t \in Callers, NEW c \in Chats, Start(t, c)
  PROVE  Inv' /\ NoGhost
<1>0. /\ t \in Tasks /\ task[t] = Resting /\ markAvailable' = markAvailable
      /\ task[t].session \notin Open /\ timers \in SUBSET Sessions
  BY OpenFacts, TaskFacts, ConstantsAssumption DEF Inv, Fields, Start, Tasks
<1>1. ASSUME NEW s \in OpenOf(c), StopSession(t, c, timers), CountFailures(failures)
      PROVE  Inv' /\ NoGhost
  BY <1>0, <1>1, Stopping
<1>2. ASSUME NEW s \in OpenOf(c), lapsed' = [lapsed EXCEPT ![s] = "live"], SendState(t, s),
             UNCHANGED <<order, timers, markedAvailable>>, CountFailures(failures)
      PROVE  Inv' /\ NoGhost
  <2>1. s \in Open /\ lapsed' \in [Sessions -> {"live", "ttl", "hard"}]
    BY <1>2 DEF OpenOf, Inv, Fields
  <2>. QED  BY <1>0, <1>2, <2>1, Pushing
<1>3. CASE OpenSession(t, c)
  <2>1. PICK s \in Sessions :
          /\ ChatOf[s] = c
          /\ Keep(Append(Survivors, s), timers)
          /\ SendState(t, s)
          /\ CountFailures([failures EXCEPT ![s] = 0])
    BY <1>3 DEF OpenSession
  <2>2. markedAvailable' = markedAvailable /\ \A o \in Open : ChatOf[o] # ChatOf[s]
    BY <1>3, <2>1 DEF OpenSession, OpenOf
  <2>3. /\ Survivors \in Seq(Sessions) /\ OnePerChat(Survivors) /\ Len(Survivors) < Cap
        /\ Elements(Survivors) \subseteq Open
    BY SurvivorsProperties, OpenIsElements DEF Inv, Map
  <2>4. /\ Append(Survivors, s) \in Seq(Sessions) /\ OnePerChat(Append(Survivors, s))
        /\ Len(Append(Survivors, s)) = Len(Survivors) + 1
        /\ Elements(Append(Survivors, s)) = Elements(Survivors) \union {s}
    BY <2>2, <2>3, AppendEntry
  <2>5. /\ order' = Append(Survivors, s)
        /\ timers' = timers \ (Open \ Elements(Append(Survivors, s)))
        /\ lapsed' \in [Sessions -> {"live", "ttl", "hard"}]
    BY <2>1 DEF Keep, Elements, Inv, Fields
  <2>6. Map'
    <3>1. Len(Survivors) \in Nat /\ Cap \in Nat
      BY <2>3, LenProperties, ConstantsAssumption
    <3>. QED  BY <2>3, <2>4, <2>5, <3>1 DEF Map, OnePerChat
  <2>7. Open' = Elements(Survivors) \union {s}
    BY <2>4, <2>5 DEF Open, Elements
  <2>8. PICK x : /\ Moves(t, x) /\ x.session = s /\ x.at \in {"available", "chatstate"}
                 /\ x.at = "available" => markAvailable
    BY <2>1, SendStateMoves
  <2>9. task'[t] = x /\ \A u \in Tasks \ {t} : task'[u] = task[u]
    BY <1>0, <2>8 DEF Moves, Inv, Fields
  <2>10. Fields'
    <3>1. [failures EXCEPT ![s] = 0] \in [Sessions -> 0..MaxFailures]
      BY ConstantsAssumption DEF Inv, Fields
    <3>2. failures' \in [Sessions -> 0..MaxFailures]
      BY <2>1, <3>1, CountType
    <3>. QED  BY <1>0, <2>2, <2>5, <2>8, <3>2 DEF Inv, Fields, Moves
  <2>11. SessionsWatched'
    <3> SUFFICES ASSUME NEW o \in Open' PROVE o \in timers' \/ \E u \in Tasks : task'[u].session = o
      BY DEF SessionsWatched
    <3>1. CASE o = s
      BY <1>0, <2>8, <2>9, <3>1
    <3>2. CASE o # s
      <4>1. o \in Open /\ (o \in timers => o \in timers')
        BY <2>3, <2>4, <2>5, <2>7, <3>2
      <4>2. \A u \in Tasks : task[u].session = o => task'[u].session = o
        BY <1>0, <2>9, <4>1
      <4>. QED  BY <4>1, <4>2 DEF Inv, SessionsWatched
    <3>. QED  BY <3>1, <3>2
  <2>12. AvailableIfAsked' /\ NoGhost
    <3>1. ChatOf[s] \in Typed'
      BY <2>7 DEF Typed
    <3>. QED  BY <1>0, <2>8, <2>9, <3>1 DEF Inv, AvailableIfAsked, NoGhost
  <2>. QED  BY <2>6, <2>10, <2>11, <2>12 DEF Inv
<1>. QED  BY <1>1, <1>2, <1>3 DEF Start, Extend

LEMMA StopStep ==
  ASSUME Inv, NEW t \in Callers, NEW c \in Chats, Stop(t, c) \/ NoteOutboundMessage(t, c)
  PROVE  Inv' /\ NoGhost
<1>0. /\ t \in Tasks /\ task[t] = Resting /\ markAvailable' = markAvailable
      /\ task[t].session \notin Open /\ timers \in SUBSET Sessions
      /\ markedAvailable \in BOOLEAN /\ failures \in [Sessions -> 0..MaxFailures]
  BY OpenFacts, TaskFacts, ConstantsAssumption DEF Inv, Fields, Stop, NoteOutboundMessage, Tasks
<1>1. CASE Stop(t, c)
  BY <1>0, <1>1, Stopping DEF Stop
<1>2. CASE NoteOutboundMessage(t, c)
  <2>1. Clear(c, timers) /\ ReleasePresence(t, order') /\ CountFailures(failures)
    BY <1>2 DEF NoteOutboundMessage
  <2>2. /\ markedAvailable' \in BOOLEAN
        /\ \E x : Moves(t, x) /\ x.session = None /\ x.at \notin {"available", "chatstate"}
    BY <1>0, <2>1, ReleaseMoves
  <2>. QED  BY <1>0, <2>1, <2>2, Closing
<1>. QED  BY <1>1, <1>2

LEMMA TimerStep ==
  ASSUME Inv, NEW s \in Sessions, TimerFires(s)
  PROVE  Inv' /\ NoGhost
<1>0. /\ s \in Tasks /\ task[s] = Resting /\ markAvailable' = markAvailable
      /\ task[s].session \notin Open /\ CountFailures(failures)
      /\ timers \subseteq Sessions /\ timers \ {s} \in SUBSET Sessions
      /\ lapsed \in [Sessions -> {"live", "ttl", "hard"}]
      /\ failures \in [Sessions -> 0..MaxFailures]
  BY OpenFacts, TaskFacts, ConstantsAssumption DEF Inv, Fields, TimerFires, Tasks
<1>1. ASSUME NEW o \in OpenOf(ChatOf[s]), Push(s, o, ChatOf[s], timers \ {s})
      PROVE  Inv' /\ NoGhost
  <2>1. o \in Open /\ (s \in Open => s = o)
    BY OpenFacts DEF OpenOf, Inv
  <2>2. CASE StopSession(s, ChatOf[s], timers \ {s})
    BY <1>0, <2>2, Stopping
  <2>3. CASE SendState(s, o) /\ timers' = timers \ {s} /\ UNCHANGED <<order, lapsed, markedAvailable>>
    <3>1. \A x \in Open \intersect timers : x # o => x \in timers'
      BY <2>1, <2>3
    <3>. QED  BY <1>0, <2>1, <2>3, <3>1, Pushing
  <2>. QED  BY <1>1, <2>2, <2>3 DEF Push
<1>2. CASE /\ OpenOf(ChatOf[s]) = {}
           /\ timers' = timers \ {s}
           /\ UNCHANGED <<order, lapsed, markedAvailable, task>>
  <2>1. s \notin Open /\ Open' = Open
    BY <1>2 DEF OpenOf, Open
  <2>2. Fields'
    BY <1>0, <1>2, CountType DEF Inv, Fields
  <2>3. Map' /\ SessionsWatched' /\ AvailableIfAsked' /\ NoGhost
    BY <1>0, <1>2, <2>1 DEF Inv, Map, OnePerChat, SessionsWatched, AvailableIfAsked, NoGhost
  <2>. QED  BY <2>2, <2>3 DEF Inv
<1>. QED  BY <1>1, <1>2 DEF TimerFires

LEMMA AvailableStep ==
  ASSUME Inv, NEW t \in Tasks, AvailableSent(t)
  PROVE  Inv' /\ NoGhost
<1> DEFINE x == [at |-> "chatstate", session |-> task[t].session]
<1>0. task[t].session \in Sessions /\ task[t].at = "available" /\ markAvailable
  BY TaskFacts DEF AvailableSent, Inv, AvailableIfAsked
<1>1. Moves(t, x) /\ x.session = task[t].session /\ x.at = "chatstate"
  BY <1>0, SendMoves DEF AvailableSent
<1> HIDE DEF x
<1>2. task'[t] = x /\ \A u \in Tasks \ {t} : task'[u] = task[u]
  BY <1>1 DEF Moves, Inv, Fields
<1>3. UNCHANGED <<markAvailable, order, failures, lapsed, timers>> /\ markedAvailable' \in BOOLEAN
  BY DEF AvailableSent, Inv, Fields
<1>4. Fields' /\ Map'
  BY <1>1, <1>3 DEF Inv, Fields, Map, OnePerChat, Moves
<1>5. Open' = Open
  BY <1>3 DEF Open
<1>6. \A u \in Tasks : task'[u].session = task[u].session
  BY <1>1, <1>2
<1>7. SessionsWatched'
  BY <1>3, <1>5, <1>6 DEF Inv, SessionsWatched
<1>8. AvailableIfAsked' /\ NoGhost
  BY <1>0, <1>3 DEF AvailableIfAsked, NoGhost
<1>. QED  BY <1>4, <1>7, <1>8 DEF Inv

LEMMA StateStep ==
  ASSUME Inv, NEW t \in Tasks, StateSent(t)
  PROVE  Inv' /\ NoGhost
<1> DEFINE s == task[t].session
<1>0. /\ s \in Sessions /\ task[t].at = "chatstate" /\ markAvailable' = markAvailable
      /\ timers \in SUBSET Sessions /\ markedAvailable \in BOOLEAN
      /\ failures \in [Sessions -> 0..MaxFailures]
      /\ MaxFailures \in Nat
  BY TaskFacts, ConstantsAssumption DEF StateSent, Inv, Fields
<1>1. PICK count \in Counts(s) :
        /\ \/ /\ count >= MaxFailures
              /\ Clear(ChatOf[s], timers)
              /\ ReleasePresence(t, order')
           \/ /\ count < MaxFailures
              /\ Arm(s, count) /\ Return(t)
              /\ UNCHANGED <<order, lapsed, markedAvailable>>
        /\ CountFailures([failures EXCEPT ![s] = IF count < MaxFailures THEN count ELSE MaxFailures])
  BY DEF StateSent
<1> HIDE DEF s
<1> DEFINE counted == [failures EXCEPT ![s] = IF count < MaxFailures THEN count ELSE MaxFailures]
<1>2. counted \in [Sessions -> 0..MaxFailures]
  BY <1>0, <1>1 DEF Counts
<1> HIDE DEF counted
<1>3. CASE Clear(ChatOf[s], timers) /\ ReleasePresence(t, order')
  <2>1. /\ markedAvailable' \in BOOLEAN
        /\ \E x : Moves(t, x) /\ x.session = None /\ x.at \notin {"available", "chatstate"}
    BY <1>0, <1>3, ReleaseMoves
  <2>2. \A o \in Open : task[t].session = o => ChatOf[o] = ChatOf[s]
    BY DEF s
  <2>3. CountFailures(counted)
    BY <1>1 DEF counted
  <2>. QED  BY <1>0, <1>2, <1>3, <2>1, <2>2, <2>3, Closing
<1>4. CASE Arm(s, count) /\ Return(t) /\ UNCHANGED <<order, lapsed, markedAvailable>>
  <2>1. /\ Open' = Open /\ timers \subseteq timers' /\ timers' \subseteq Sessions
        /\ s \in Open => s \in timers'
    BY <1>0, <1>4 DEF Open, Arm, OpenOf
  <2>2. task'[t] = Resting /\ \A u \in Tasks \ {t} : task'[u] = task[u]
    BY <1>4 DEF Return, Inv, Fields
  <2>3. failures' \in [Sessions -> 0..MaxFailures]
    BY <1>1, <1>2, CountType DEF counted
  <2>4. task' \in [Tasks -> Awaits \union {Resting}]
    BY <1>4 DEF Return, Inv, Fields
  <2>5. Fields' /\ Map'
    BY <1>0, <1>4, <2>1, <2>3, <2>4 DEF Inv, Fields, Map, OnePerChat
  <2>6. SessionsWatched'
    <3> SUFFICES ASSUME NEW o \in Open PROVE o \in timers' \/ \E u \in Tasks : task'[u].session = o
      BY <2>1 DEF SessionsWatched
    <3>1. CASE o = s
      BY <2>1, <3>1
    <3>2. CASE o # s
      BY <2>1, <2>2, <3>2 DEF s, Inv, SessionsWatched
    <3>. QED  BY <3>1, <3>2
  <2>7. AvailableIfAsked' /\ NoGhost
    <3>1. Resting.at = "resting"
      BY DEF Resting
    <3>. QED  BY <1>0, <2>2, <3>1 DEF Inv, AvailableIfAsked, NoGhost
  <2>. QED  BY <2>5, <2>6, <2>7 DEF Inv
<1>. QED  BY <1>1, <1>3, <1>4

\* The answers that end a coroutine without a session object.
LEMMA IdleStep ==
  ASSUME Inv, NEW t \in Tasks, PausedSent(t) \/ IdleSent(t)
  PROVE  Inv' /\ NoGhost
<1>0. /\ UNCHANGED <<markAvailable, order, failures, lapsed, timers>>
      /\ markedAvailable \in BOOLEAN
      /\ task[t].session = None
  BY TaskFacts DEF PausedSent, IdleSent, Inv, Fields
<1>1. /\ markedAvailable' \in BOOLEAN
      /\ \E x : Moves(t, x) /\ x.session = None /\ x.at \notin {"available", "chatstate"}
  <2>1. CASE PausedSent(t)
    BY <1>0, <2>1, ReleaseMoves DEF PausedSent
  <2>2. CASE IdleSent(t)
    <3>1. Moves(t, Resting) /\ Resting.session = None /\ Resting.at = "resting"
      BY <2>2 DEF IdleSent, Return, Moves, Resting
    <3>. QED  BY <1>0, <2>2, <3>1 DEF IdleSent
  <2>. QED  BY <2>1, <2>2
<1>2. PICK x : Moves(t, x) /\ x.session = None /\ x.at \notin {"available", "chatstate"}
  BY <1>1
<1>3. task'[t] = x /\ \A u \in Tasks \ {t} : task'[u] = task[u]
  BY <1>2 DEF Moves, Inv, Fields
<1>4. Fields' /\ Map' /\ Open' = Open
  BY <1>0, <1>1, <1>2 DEF Inv, Fields, Map, OnePerChat, Moves, Open
<1>5. \A u \in Tasks : task'[u].session = task[u].session
  BY <1>0, <1>2, <1>3
<1>6. SessionsWatched'
  BY <1>0, <1>4, <1>5 DEF Inv, SessionsWatched
<1>7. AvailableIfAsked' /\ NoGhost
  BY <1>0, <1>2, <1>3 DEF Inv, AvailableIfAsked, NoGhost
<1>. QED  BY <1>4, <1>6, <1>7 DEF Inv

LEMMA ResetStep ==
  ASSUME Inv, Reset
  PROVE  Inv' /\ NoGhost
<1>1. order' = <<>> /\ timers' \subseteq Sessions /\ lapsed' \in [Sessions -> {"live", "ttl", "hard"}]
  BY DEF Reset, Keep, Inv, Fields
<1>2. Open' = {}
  BY <1>1 DEF Open
<1>3. Map'
  BY <1>1, ConstantsAssumption DEF Map, OnePerChat
<1>4. Fields'
  BY <1>1, CountType DEF Reset, Inv, Fields
<1>5. SessionsWatched' /\ AvailableIfAsked' /\ NoGhost
  BY <1>2 DEF Reset, Inv, SessionsWatched, AvailableIfAsked, NoGhost
<1>. QED  BY <1>3, <1>4, <1>5 DEF Inv

LEMMA ClockStep ==
  ASSUME Inv, (\E s \in Sessions : TtlLapses(s) \/ HardDeadlinePasses(s)) \/ UNCHANGED vars
  PROVE  Inv' /\ NoGhost
<1>1. /\ UNCHANGED <<markAvailable, order, failures, timers, markedAvailable, task>>
      /\ lapsed' \in [Sessions -> {"live", "ttl", "hard"}]
  BY DEF TtlLapses, HardDeadlinePasses, vars, Inv, Fields
<1>2. Open' = Open
  BY <1>1 DEF Open
<1>. QED
  BY <1>1, <1>2 DEF Inv, Fields, Map, OnePerChat, SessionsWatched, AvailableIfAsked, NoGhost

LEMMA InvStep ==
  ASSUME Inv, [Next]_vars
  PROVE  Inv' /\ NoGhost
BY StartStep, StopStep, TimerStep, AvailableStep, StateStep, IdleStep, ResetStep, ClockStep
   DEF Next, Answer

LEMMA InvAlways == Spec => []Inv
<1>1. Init => Inv
  <2> SUFFICES ASSUME Init PROVE Inv
    OBVIOUS
  <2>1. Open = {}
    BY DEF Init, Open
  <2>2. Map
    BY ConstantsAssumption DEF Init, Map, OnePerChat
  <2>3. Fields
    <3>1. failures \in [Sessions -> 0..MaxFailures]
      BY ConstantsAssumption DEF Init
    <3>2. lapsed \in [Sessions -> {"live", "ttl", "hard"}]
      BY DEF Init
    <3>3. task \in [Tasks -> Awaits \union {Resting}]
      BY DEF Init
    <3>4. order \in Seq(Sessions) /\ timers \subseteq Sessions
      BY DEF Init
    <3>5. markAvailable \in BOOLEAN /\ markedAvailable \in BOOLEAN
      BY DEF Init
    <3>. QED  BY <3>1, <3>2, <3>3, <3>4, <3>5 DEF Fields
  <2>4. SessionsWatched /\ AvailableIfAsked
    BY <2>1 DEF Init, SessionsWatched, AvailableIfAsked, Resting
  <2>. QED  BY <2>2, <2>3, <2>4 DEF Inv
<1>2. ASSUME Inv, [Next]_vars PROVE Inv'
  BY <1>2, InvStep
<1>. QED  BY <1>1, <1>2, PTL DEF Spec

\* Every variable keeps its type, and the map has no two entries for one session.
THEOREM TypeCorrect == Spec => []TypeOK
<1>1. Inv => TypeOK
  BY EntriesAreSessions DEF Inv, Fields, Map, TypeOK
<1>. QED  BY InvAlways, <1>1, PTL

\* A chat has one session, and no more chats than TYPING_MAX_CONCURRENT_CHATS have
\* one: evictOverflow() makes room before each insertion.
THEOREM CapIsRespected == Spec => []CapRespected
<1>1. Inv => CapRespected
  BY OpenFacts DEF Inv, Map, CapRespected
<1>. QED  BY InvAlways, <1>1, PTL

\* Every open session has its timer armed or a push of its object under way,
\* whatever sends, failures, evictions and resets overlap: none is left that
\* nobody would end.
THEOREM SessionsAreWatched == Spec => []SessionsWatched
<1>1. Inv => SessionsWatched
  BY DEF Inv
<1>. QED  BY InvAlways, <1>1, PTL

\* Without TYPING_MARK_AVAILABLE no step sends a chatstate to a chat that has no
\* session at that moment.
THEOREM NoGhosts == Spec => NoGhostTyping
<1>1. Inv /\ [Next]_vars => [NoGhost]_vars
  BY InvStep
<1>. QED  BY InvAlways, <1>1, PTL DEF Spec, NoGhostTyping, NoGhost
===============================================================================
