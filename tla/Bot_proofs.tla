------------------------------- MODULE Bot_proofs ------------------------------
(*****************************************************************************)
(* Theorems about the parts of the Bot, each for its own specification, and  *)
(* about the Bot, which implements its three parts and so keeps what they    *)
(* promise.                                                                  *)
(*****************************************************************************)
EXTENDS Bot, TLAPS

(*****************************************************************************)
(* Connection: type correctness, and that at most one socket is live. Both   *)
(* follow from OneThread: what start() and the close handlers do is one      *)
(* thread of control, for a handler that goes on has no other beside it, and *)
(* start() runs before there are handlers.                                   *)
(*****************************************************************************)

OneThread ==
  /\ \A s, t \in Sockets : at[s] # "unused" /\ at[t] # "unused" => s = t
  /\ starter # "done" => \A s \in Sockets : at[s] = "unused"

ConnInv == ConnTypeOK /\ OneThread /\ OneLiveSocket

-----------------------------------------------------------------------------
\* The fields of a new Bot satisfy the invariant.
LEMMA ConnStarts == ConnInit => ConnInv
<1> SUFFICES ASSUME ConnInit PROVE ConnInv
  OBVIOUS
<1> USE ConnectionAssumption DEF ConnectionAssumption
<1>1. ConnTypeOK
  <2>1. at \in [Sockets -> {"unused", "login", "open", "backoff", "connecting"} \union Wiping]
    BY DEF ConnInit, Idle
  <2>2. starter \in Starting /\ attempt \in 0..ExitAfter
    BY DEF ConnInit, Starting
  <2>3. deaths \in 0..MaxDeaths /\ throws \in 0..MaxThrows
    BY DEF ConnInit
  <2> QED
    BY <2>1, <2>2, <2>3 DEF ConnInit, ConnTypeOK
<1>2. OneThread /\ OneLiveSocket
  BY DEF ConnInit, OneThread, OneLiveSocket, Live, Idle
<1> QED
  BY <1>1, <1>2 DEF ConnInv

\* So does a process that is gone.
LEMMA ExitKeeps ==
  ASSUME Exit, deaths' \in 0..MaxDeaths, throws' \in 0..MaxThrows
  PROVE  ConnInv'
<1> USE ConnectionAssumption DEF ConnectionAssumption, Exit
<1>1. ConnTypeOK'
  <2>1. at' \in [Sockets -> {"unused", "login", "open", "backoff", "connecting"} \union Wiping]
    BY DEF Idle
  <2>2. attempt' \in 0..ExitAfter
    OBVIOUS
  <2> QED
    BY <2>1, <2>2 DEF ConnTypeOK
<1>2. OneThread' /\ OneLiveSocket'
  BY DEF OneThread, OneLiveSocket, Live, Idle
<1> QED
  BY <1>1, <1>2 DEF ConnInv

\* A step that leaves the sockets and their handlers alone.
LEMMA ElsewhereKeeps ==
  ASSUME ConnInv, UNCHANGED <<at, sock, connectionOpen>>,
         starter' \in Starting \union {"down", "done", "failed"},
         starter = "done" => starter' = "done",
         attempt' \in 0..ExitAfter, outage' \in {"none", "short", "long"},
         stopping' \in {"no", "api", "presence", "workers"},
         deaths' \in 0..MaxDeaths, throws' \in 0..MaxThrows
  PROVE  ConnInv'
<1>1. ConnTypeOK'
  BY DEF ConnInv, ConnTypeOK, Starting, Wiping
<1>2. OneThread' /\ OneLiveSocket'
  BY DEF ConnInv, OneThread, OneLiveSocket, Live
<1> QED
  BY <1>1, <1>2 DEF ConnInv

\* The new socket of a connect() is alone if whoever called connect() is.
LEMMA AttachKeeps ==
  ASSUME ConnInv, NEW t \in Sockets, NEW rest \in [Sockets -> {"unused"}],
         starter' = "done", connectionOpen = FALSE, Attach(t, rest)
  PROVE  ConnInv'
<1> USE ConnectionAssumption DEF ConnectionAssumption, Attach, connBounds
<1>1. ConnTypeOK'
  BY DEF ConnInv, ConnTypeOK
<1>2. at' = [s \in Sockets |-> IF s = t THEN "login" ELSE "unused"]
  OBVIOUS
<1>3. OneThread' /\ OneLiveSocket'
  BY <1>2 DEF OneThread, OneLiveSocket, Live
<1> QED
  BY <1>1, <1>3 DEF ConnInv

\* A socket, or the handler of its close, moves on in its own thread.
LEMMA MoveKeeps ==
  ASSUME ConnInv, NEW s \in Sockets, at[s] # "unused",
         NEW next \in {"unused", "open", "backoff", "connecting"} \union Wiping,
         at' = [at EXCEPT ![s] = next],
         connectionOpen' \in BOOLEAN, connectionOpen' <=> next = "open",
         next = "open" => at[s] = "login",
         attempt' \in 0..ExitAfter, outage' \in {"none", "short", "long"},
         stopping' \in {"no", "api", "presence", "workers"},
         UNCHANGED <<starter, sock>>, deaths' \in 0..MaxDeaths, throws' \in 0..MaxThrows
  PROVE  ConnInv'
<1> USE ConnectionAssumption DEF ConnectionAssumption
<1>1. at' \in [Sockets -> {"unused", "login", "open", "backoff", "connecting"} \union Wiping]
  BY DEF ConnInv, ConnTypeOK
<1>2. ConnTypeOK'
  BY <1>1 DEF ConnInv, ConnTypeOK
<1>3. at'[s] = next /\ \A t \in Sockets \ {s} : at'[t] = at[t] /\ at[t] = "unused"
  BY DEF ConnInv, ConnTypeOK, OneThread
<1>4. OneThread'
  BY <1>3 DEF ConnInv, OneThread
<1>5. next = "open" => s = sock
  BY DEF ConnInv, OneLiveSocket, Live
<1>6. (sock' # "none" /\ at'[sock'] = "open") <=> next = "open"
  BY <1>3, <1>5, ConnectionAssumption DEF ConnInv, ConnTypeOK, ConnectionAssumption
<1>7. \A t \in Live' : t = s /\ next = "open"
  BY <1>3 DEF Live, Wiping
<1>8. OneLiveSocket'
  BY <1>5, <1>6, <1>7 DEF OneLiveSocket
<1> QED
  BY <1>2, <1>4, <1>8 DEF ConnInv

-----------------------------------------------------------------------------
(* Every step keeps the invariant.                                         *)

LEMMA StartKeeps ==
  ASSUME ConnInv, OpenStore \/ LoadAuth \/ Serve \/ FirstSocket \/ StartThrows
  PROVE  ConnInv'
<1> USE DEF connBounds
<1>1. CASE OpenStore \/ LoadAuth \/ Serve
  BY <1>1, ElsewhereKeeps DEF OpenStore, LoadAuth, Serve, Starter, Starting, ConnInv, ConnTypeOK
<1>2. CASE FirstSocket
  <2>1. at \in [Sockets -> {"unused"}] /\ connectionOpen = FALSE
    BY <1>2 DEF FirstSocket, ConnInv, ConnTypeOK, OneThread, OneLiveSocket
  <2> QED
    BY <1>2, <2>1, AttachKeeps DEF FirstSocket
<1>3. CASE StartThrows
  <2>1. deaths' \in 0..MaxDeaths /\ throws' \in 0..MaxThrows
    BY <1>3, ConnectionAssumption DEF StartThrows, Throw, ConnInv, ConnTypeOK, ConnectionAssumption
  <2> QED
    BY <1>3, <2>1, ExitKeeps, ElsewhereKeeps DEF StartThrows, ConnInv, ConnTypeOK
<1> QED
  BY <1>1, <1>2, <1>3

LEMMA ReconnectKeeps ==
  ASSUME ConnInv, NEW s \in Sockets, Reconnect(s)
  PROVE  ConnInv'
<1> USE DEF connBounds
<1>1. CASE BackoffOver(s)
  <2>1. connectionOpen = FALSE
    BY <1>1 DEF BackoffOver, ConnInv, ConnTypeOK, OneThread, OneLiveSocket
  <2>2. \E next \in {"unused", "connecting"} : at' = [at EXCEPT ![s] = next]
    BY <1>1 DEF BackoffOver
  <2> QED
    BY <1>1, <2>1, <2>2, MoveKeeps DEF BackoffOver, ConnInv, ConnTypeOK
<1>2. CASE NextSocket(s)
  <2>1. [at EXCEPT ![s] = "unused"] \in [Sockets -> {"unused"}]
    BY <1>2 DEF NextSocket, ConnInv, ConnTypeOK, OneThread
  <2>2. connectionOpen = FALSE /\ starter = "done"
    BY <1>2 DEF NextSocket, ConnInv, ConnTypeOK, OneThread, OneLiveSocket
  <2> QED
    BY <1>2, <2>1, <2>2, AttachKeeps DEF NextSocket
<1>3. CASE ConnectThrows(s)
  <2>1. connectionOpen = FALSE
    BY <1>3 DEF ConnectThrows, ConnInv, ConnTypeOK, OneThread, OneLiveSocket
  <2>2. deaths' \in 0..MaxDeaths /\ throws' \in 0..MaxThrows
    BY <1>3, ConnectionAssumption
       DEF ConnectThrows, Throw, ConnInv, ConnTypeOK, ConnectionAssumption
  <2>3. at[s] # "unused" /\ at' = [at EXCEPT ![s] = "unused"]
    BY <1>3 DEF ConnectThrows
  <2>4. /\ attempt' \in 0..ExitAfter /\ outage' \in {"none", "short", "long"}
        /\ stopping' \in {"no", "api", "presence", "workers"}
        /\ UNCHANGED <<starter, sock, connectionOpen>>
    BY <1>3 DEF ConnectThrows, ConnInv, ConnTypeOK
  <2>5. connectionOpen' \in BOOLEAN /\ connectionOpen' = FALSE
    BY <2>1, <2>4
  <2> QED
    BY <2>2, <2>3, <2>4, <2>5, MoveKeeps
<1> QED
  BY <1>1, <1>2, <1>3 DEF Reconnect

LEMMA ClosedKeeps ==
  ASSUME ConnInv, NEW s \in Sockets, NEW loggedOut \in BOOLEAN, Closed(s, loggedOut)
  PROVE  ConnInv'
<1> USE DEF connBounds
<1>1. deaths' \in 0..MaxDeaths /\ throws' \in 0..MaxThrows /\ at[s] # "unused"
  BY DEF Closed, ConnInv, ConnTypeOK, Live
<1>2. CASE Exit
  BY <1>1, <1>2, ExitKeeps
<1>3. CASE \E next \in {"unused", "backoff", "wiping keys"} :
             Handler(s, next) /\ attempt' \in 0..ExitAfter
  BY <1>1, <1>3, MoveKeeps DEF Handler, NoteClose, Wiping, ConnInv, ConnTypeOK
<1>4. Counted(attempt) \in 0..ExitAfter
  BY ConnectionAssumption DEF Counted, ConnInv, ConnTypeOK, ConnectionAssumption
<1> QED
  BY <1>2, <1>3, <1>4 DEF Closed, ConnInv, ConnTypeOK

LEMMA SocketKeeps ==
  ASSUME ConnInv, NEW s \in Sockets, Opened(s) \/ LogoutStep(s)
  PROVE  ConnInv'
<1> USE DEF connBounds
<1>1. CASE Opened(s)
  <2>1. connectionOpen' \in BOOLEAN /\ connectionOpen' /\ attempt' \in 0..ExitAfter
    BY <1>1, ConnectionAssumption DEF Opened, ConnectionAssumption
  <2> QED
    BY <1>1, <2>1, MoveKeeps DEF Opened, ConnInv, ConnTypeOK
<1>2. ASSUME NEW from \in Wiping, NEW to \in Wiping, Wipe(s, from, to)
      PROVE  ConnInv'
  <2>1. connectionOpen = FALSE
    BY <1>2 DEF Wipe, Wiping, ConnInv, ConnTypeOK, OneThread, OneLiveSocket
  <2> QED
    BY <1>2, <2>1, MoveKeeps DEF Wipe, Wiping, ConnInv, ConnTypeOK
<1>3. CASE MarkLoggedOut(s)
  BY <1>3, ExitKeeps DEF MarkLoggedOut, ConnInv, ConnTypeOK
<1> QED
  BY <1>1, <1>2, <1>3 DEF LogoutStep, Wiping

LEMMA StopKeeps ==
  ASSUME ConnInv, StopApi \/ EndSocket \/ ShutdownOver
  PROVE  ConnInv'
<1> USE DEF connBounds
<1>1. CASE StopApi
  BY <1>1, ElsewhereKeeps DEF StopApi, ConnInv, ConnTypeOK
<1>2. CASE EndSocket
  <2>1. CASE sock \in Live
    BY <1>2, <2>1, MoveKeeps DEF EndSocket, NoteClose, Live, ConnInv, ConnTypeOK
  <2>2. CASE sock \notin Live
    BY <1>2, <2>2, ElsewhereKeeps DEF EndSocket, ConnInv, ConnTypeOK
  <2> QED
    BY <2>1, <2>2
<1>3. CASE ShutdownOver
  BY <1>3, ExitKeeps DEF ShutdownOver, ConnInv, ConnTypeOK
<1> QED
  BY <1>1, <1>2, <1>3

LEMMA OutsideKeeps ==
  ASSUME ConnInv, OutageLasts \/ Signal \/ ProcessDies \/ Boot
  PROVE  ConnInv'
<1> USE ConnectionAssumption DEF connBounds, ConnectionAssumption
<1>1. CASE OutageLasts
  BY <1>1, ElsewhereKeeps DEF OutageLasts, ConnInv, ConnTypeOK
<1>2. CASE Boot
  BY <1>2, ElsewhereKeeps DEF Boot, Starter, Starting, ConnInv, ConnTypeOK
<1>3. Death => deaths' \in 0..MaxDeaths /\ throws' \in 0..MaxThrows
  BY DEF Death, ConnInv, ConnTypeOK
<1>4. CASE Signal
  BY <1>3, <1>4, ElsewhereKeeps DEF Signal, ConnInv, ConnTypeOK
<1>5. CASE ProcessDies
  BY <1>3, <1>5, ExitKeeps DEF ProcessDies
<1> QED
  BY <1>1, <1>2, <1>4, <1>5

\* A step of Connection, and one that is none.
LEMMA ConnStep ==
  ASSUME ConnInv, [ConnNext]_connVars
  PROVE  ConnInv'
<1>1. CASE UNCHANGED connVars
  BY <1>1 DEF connVars, ConnInv, ConnTypeOK, OneThread, OneLiveSocket, Live, Starting, Wiping
<1>2. CASE ConnNext
  BY <1>2, StartKeeps, ReconnectKeeps, ClosedKeeps, SocketKeeps, StopKeeps, OutsideKeeps
     DEF ConnNext
<1> QED
  BY <1>1, <1>2

-----------------------------------------------------------------------------
\* The fields of the Bot and of its process keep their types, whatever the number of
\* sockets, attempts, throws and restarts.
THEOREM ConnTypeCorrect == ConnSpec => []ConnTypeOK
<1>1. ConnInv => ConnTypeOK
  BY DEF ConnInv
<1> QED
  BY ConnStarts, ConnStep, <1>1, PTL DEF ConnSpec

\* At most one socket is live, it is this.sock, and getSock() hands it out exactly
\* while it is open: the close handlers and start() never make a second one, in any
\* interleaving of closes, delays, throws, signals and restarts.
THEOREM OneSocketLives == ConnSpec => []OneLiveSocket
<1>1. ConnInv => OneLiveSocket
  BY DEF ConnInv
<1> QED
  BY ConnStarts, ConnStep, <1>1, PTL DEF ConnSpec

(*****************************************************************************)
(* ReadReceipts, for every set of messages, batch size and size of the LRU.  *)
(*****************************************************************************)

\* A key is in the LRU or queued, not both, and a receipt was sent only for keys in it.
SentIsAcked ==
  /\ pending \intersect acked = {}
  /\ \A m \in Messages : sent[m] <= 1 /\ (sent[m] = 1 => m \in acked)

\* A timer finds the worker idle, running and with something to send, so flush() is
\* neither entered twice nor entered for nothing.
TimerIsDue == timer => flush = "idle" /\ ~stopped /\ pending # {}

\* offer() and the loop of flush() add nothing after stop().
StoppedIsEmpty == stopped => pending = {}

ReceiptsInv ==
  ReceiptsTypeOK /\ SentIsAcked /\ TimerIsDue /\ StoppedIsEmpty /\ NothingForgotten

-----------------------------------------------------------------------------
\* A new worker has nothing to send.
LEMMA ReceiptsStart == ReceiptsInit => ReceiptsInv
<1> SUFFICES ASSUME ReceiptsInit PROVE ReceiptsInv
  OBVIOUS
<1> USE DEF ReceiptsInit
<1>1. ReceiptsTypeOK
  BY DEF ReceiptsTypeOK
<1>2. SentIsAcked /\ TimerIsDue /\ StoppedIsEmpty /\ NothingForgotten
  BY DEF SentIsAcked, TimerIsDue, StoppedIsEmpty, NothingForgotten
<1> QED
  BY <1>1, <1>2 DEF ReceiptsInv

LEMMA OfferKeeps ==
  ASSUME ReceiptsInv, NEW m \in Messages, Offer(m)
  PROVE  ReceiptsInv'
<1> USE DEF ReceiptsInv, Offer, Queueable
<1>1. ReceiptsTypeOK'
  BY DEF ReceiptsTypeOK, Scheduled
<1>2. SentIsAcked' /\ StoppedIsEmpty'
  BY DEF SentIsAcked, StoppedIsEmpty
<1>3. TimerIsDue' /\ NothingForgotten'
  BY DEF TimerIsDue, NothingForgotten, Scheduled, ReceiptsTypeOK
<1> QED
  BY <1>1, <1>2, <1>3

\* One round of flush(), from a timer or from the loop.
LEMMA SendBatchKeeps ==
  ASSUME ReceiptsInv, SendBatch, timer' = FALSE
  PROVE  ReceiptsInv'
<1> PICK b \in Batches : \E k \in Remembered(b) :
      /\ pending' = pending \ b
      /\ acked' = k
      /\ sent' = [m \in Messages |-> IF m \in b THEN sent[m] + 1
                                     ELSE IF m \in k THEN sent[m] ELSE 0]
      /\ flush' = "sending"
      /\ UNCHANGED <<enabled, stopped>>
  BY DEF SendBatch
<1> PICK k \in Remembered(b) :
      /\ pending' = pending \ b
      /\ acked' = k
      /\ sent' = [m \in Messages |-> IF m \in b THEN sent[m] + 1
                                     ELSE IF m \in k THEN sent[m] ELSE 0]
      /\ flush' = "sending"
      /\ UNCHANGED <<enabled, stopped>>
  OBVIOUS
<1>1. b \subseteq pending /\ b \subseteq k /\ k \subseteq acked \union b
  BY DEF Batches, Remembered
<1>2. ReceiptsTypeOK'
  <2>1. sent' \in [Messages -> Nat]
    BY DEF ReceiptsInv, ReceiptsTypeOK
  <2>2. pending' \subseteq Receiptable /\ acked' \subseteq Receiptable
    BY <1>1 DEF ReceiptsInv, ReceiptsTypeOK
  <2> QED
    BY <2>1, <2>2 DEF ReceiptsInv, ReceiptsTypeOK
<1>3. SentIsAcked'
  <2>1. pending' \intersect acked' = {}
    BY <1>1 DEF ReceiptsInv, SentIsAcked
  <2>2. ASSUME NEW m \in Messages
        PROVE  sent'[m] <= 1 /\ (sent'[m] = 1 => m \in acked')
    <3>1. m \in b => sent[m] = 0
      BY <1>1 DEF ReceiptsInv, SentIsAcked, ReceiptsTypeOK
    <3> QED
      BY <1>1, <3>1 DEF ReceiptsInv, SentIsAcked, ReceiptsTypeOK
  <2> QED
    BY <2>1, <2>2 DEF SentIsAcked
<1>4. TimerIsDue' /\ StoppedIsEmpty' /\ NothingForgotten'
  BY DEF ReceiptsInv, TimerIsDue, StoppedIsEmpty, NothingForgotten
<1> QED
  BY <1>2, <1>3, <1>4 DEF ReceiptsInv

LEMMA EndFlushKeeps ==
  ASSUME ReceiptsInv, EndFlush
  PROVE  ReceiptsInv'
BY DEF EndFlush, ReceiptsInv, ReceiptsTypeOK, SentIsAcked, TimerIsDue, StoppedIsEmpty,
       NothingForgotten

LEMMA FlushStepKeeps ==
  ASSUME ReceiptsInv, FlushStep
  PROVE  ReceiptsInv'
<1>1. CASE TimerFires
  BY <1>1, SendBatchKeeps DEF TimerFires
<1>2. CASE EndFlush
  BY <1>2, EndFlushKeeps
<1>3. CASE SendEnds /\ pending # {}
  BY <1>3 DEF SendEnds, ReceiptsInv, ReceiptsTypeOK, SentIsAcked, TimerIsDue, StoppedIsEmpty,
              NothingForgotten
<1>4. CASE CoolingEnds /\ pending # {} /\ ~stopped
  <2>1. SendBatch /\ timer' = FALSE
    BY <1>4 DEF CoolingEnds, ReceiptsInv, ReceiptsTypeOK, TimerIsDue
  <2> QED
    BY <2>1, SendBatchKeeps
<1> QED
  BY <1>1, <1>2, <1>3, <1>4 DEF FlushStep, SendEnds, CoolingEnds

\* stop() and the end of the process.
LEMMA EndKeeps ==
  ASSUME ReceiptsInv, StopReceipts \/ ForgetReceipts
  PROVE  ReceiptsInv'
<1> USE DEF StopReceipts, ForgetReceipts, ReceiptsInv, ReceiptsTypeOK
<1>1. ReceiptsTypeOK'
  <2>1. sent' \in [Messages -> Nat]
    OBVIOUS
  <2>2. pending' \subseteq Receiptable /\ acked' \subseteq Receiptable
    OBVIOUS
  <2>3. enabled' \in BOOLEAN /\ stopped' \in BOOLEAN /\ timer' \in BOOLEAN
    OBVIOUS
  <2>4. flush' \in {"idle", "sending", "cooling"}
    OBVIOUS
  <2> QED
    BY <2>1, <2>2, <2>3, <2>4
<1>2. SentIsAcked'
  BY DEF SentIsAcked
<1>3. TimerIsDue' /\ StoppedIsEmpty' /\ NothingForgotten'
  BY DEF TimerIsDue, StoppedIsEmpty, NothingForgotten
<1> QED
  BY <1>1, <1>2, <1>3

\* A step of ReadReceipts, and one that is none.
LEMMA ReceiptsStep ==
  ASSUME ReceiptsInv, [ReceiptsNext]_receiptVars
  PROVE  ReceiptsInv'
<1>1. CASE UNCHANGED receiptVars
  BY <1>1 DEF receiptVars, ReceiptsInv, ReceiptsTypeOK, SentIsAcked, TimerIsDue,
              StoppedIsEmpty, NothingForgotten
<1>2. CASE ReceiptsNext
  BY <1>2, OfferKeeps, FlushStepKeeps, EndKeeps DEF ReceiptsNext
<1> QED
  BY <1>1, <1>2

-----------------------------------------------------------------------------
\* Whatever offer() has queued is taken by a timer or by the flush under way, in any
\* interleaving of offers, flushes and stop().
THEOREM ReceiptsAreNotForgotten == ReceiptsSpec => []NothingForgotten
<1>1. ReceiptsInv => NothingForgotten
  BY DEF ReceiptsInv
<1> QED
  BY ReceiptsStart, ReceiptsStep, <1>1, PTL DEF ReceiptsSpec

\* One receipt goes out for a message as long as the LRU remembers its key, however
\* often the message is delivered: a key that left the queue is in the LRU.
THEOREM ReceiptsAreSentOnce == ReceiptsSpec => []AckedOnce
<1>1. ReceiptsInv => AckedOnce
  BY DEF ReceiptsInv, SentIsAcked, AckedOnce
<1> QED
  BY ReceiptsStart, ReceiptsStep, <1>1, PTL DEF ReceiptsSpec

\* A timer that fires finds no flush under way and something to send: the early
\* return of flush() for this.flushing is never taken.
THEOREM TimersAreDue == ReceiptsSpec => []TimerIsDue
<1>1. ReceiptsInv => TimerIsDue
  BY DEF ReceiptsInv
<1> QED
  BY ReceiptsStart, ReceiptsStep, <1>1, PTL DEF ReceiptsSpec

(*****************************************************************************)
(* AuthState, for every number of pairings and of failed statements.         *)
(*****************************************************************************)

\* Writes in flight are of one pairing, and the row is free for it or has it already;
\* a load waits for them, and so finds nothing in flight.
OnePairing ==
  /\ creds # 0 => loading = "loaded"
  /\ loading \notin {"no", "loaded"} => saves = {}
  /\ loading = "loaded" => saves \subseteq {creds} /\ credsRow \in {0, creds}
  /\ \A p, q \in saves : p = q /\ credsRow \in {0, p}
  /\ loading = "importing creds" => credsRow = 0

\* The import is a sequence: behind its INSERT the credentials are there and nobody
\* else writes, and the keys that its loop has been through are there as well.
ImportInOrder ==
  /\ loading \in {"reading keys", "importing keys"} => credsRow = 1
  /\ loading = "importing keys" => inserted \subseteq keyRows

AuthInv == AuthTypeOK /\ OnePairing /\ ImportInOrder

-----------------------------------------------------------------------------
\* All that is used of the numbers.
LEMMA PairingNumbers ==
  /\ 1 \in Pairings /\ 0 \notin Pairings
  /\ \A n \in Pairings \union {0} :
       /\ n < LastPairing => n + 1 \in Pairings
       /\ ~(n < LastPairing) => n \in Pairings
       /\ 1..n \subseteq Pairings
BY AuthAssumption DEF Pairings, AuthAssumption

\* A statement that fails is counted.
LEMMA FaultType ==
  ASSUME faults \in 0..MaxFaults, Fault \/ UNCHANGED faults
  PROVE  faults' \in 0..MaxFaults
BY AuthAssumption DEF Fault, AuthAssumption

\* A first start, an upgrade and a paired bot satisfy the invariant.
LEMMA AuthStarts == AuthInit => AuthInv
<1> SUFFICES ASSUME AuthInit PROVE AuthInv
  OBVIOUS
<1>1. faults \in 0..MaxFaults
  BY AuthAssumption DEF AuthInit, AuthAssumption
<1>2. AuthTypeOK
  BY <1>1, PairingNumbers DEF AuthInit, AuthTypeOK
<1>3. OnePairing /\ ImportInOrder
  BY DEF AuthInit, OnePairing, ImportInOrder
<1> QED
  BY <1>2, <1>3 DEF AuthInv

-----------------------------------------------------------------------------
(* The types, action by action.                                            *)

LEMMA LoadType ==
  ASSUME AuthTypeOK, BeginLoad \/ Load
  PROVE  AuthTypeOK'
<1> USE DEF AuthTypeOK, LoadStep, authDb, authWA, importer
<1>1. CASE BeginLoad
  BY <1>1 DEF BeginLoad
<1>2. CASE CheckFolder
  BY <1>2 DEF CheckFolder
<1>3. CASE ImportCreds
  BY <1>3, PairingNumbers DEF ImportCreds
<1>4. CASE ReadKeyFiles
  BY <1>4 DEF ReadKeyFiles
<1>5. CASE InsertSlice
  <2>1. PICK b \in Slices : keyRows' = keyRows \union b /\ inserted' = inserted \union b
    BY <1>5 DEF InsertSlice
  <2>2. b \subseteq parsed
    BY <2>1 DEF Slices
  <2>3. keyRows' \subseteq Pairings \union KeyFiles /\ inserted' \subseteq parsed
    BY <2>1, <2>2
  <2> QED
    BY <1>5, <2>3 DEF InsertSlice
<1>6. CASE ArchiveFolder
  BY <1>6 DEF ArchiveFolder
<1>7. CASE SelectCreds
  BY <1>7 DEF SelectCreds
<1> QED
  BY <1>1, <1>2, <1>3, <1>4, <1>5, <1>6, <1>7 DEF Load, Import

LEMMA WriteType ==
  ASSUME AuthTypeOK, Pair \/ SaveCreds \/ SetKeys \/ WriteEnds
  PROVE  AuthTypeOK'
<1> USE DEF AuthTypeOK, Written, authDb, authWA, importer
<1>1. CASE Pair
  <2>1. creds' \in Pairings /\ registered' \in Pairings
    BY <1>1, PairingNumbers DEF Pair
  <2> QED
    BY <1>1, <2>1 DEF Pair
<1>2. CASE SaveCreds \/ SetKeys
  BY <1>2 DEF SaveCreds, SetKeys
<1>3. ASSUME NEW p \in Pairings, SaveEnds(p)
      PROVE  AuthTypeOK'
  <2>1. faults' \in 0..MaxFaults
    BY <1>3, FaultType DEF SaveEnds
  <2> QED
    BY <1>3, <2>1 DEF SaveEnds
<1>4. ASSUME NEW p \in Pairings, KeyWriteEnds(p)
      PROVE  AuthTypeOK'
  <2>1. faults' \in 0..MaxFaults
    BY <1>4, FaultType DEF KeyWriteEnds
  <2> QED
    BY <1>4, <2>1 DEF KeyWriteEnds
<1> QED
  BY <1>1, <1>2, <1>3, <1>4 DEF WriteEnds

LEMMA EndType ==
  ASSUME AuthTypeOK, ClearKeys \/ ClearCreds \/ ClearFails \/ Unlink \/ ForgetAuth
  PROVE  AuthTypeOK'
<1> USE DEF AuthTypeOK, AroundClear, authDb, authWA, importer
<1>1. CASE ClearKeys
  BY <1>1 DEF ClearKeys
<1>2. CASE ClearCreds
  BY <1>2 DEF ClearCreds
<1>3. CASE ClearFails
  BY <1>3, FaultType DEF ClearFails
<1>4. CASE Unlink
  BY <1>4, PairingNumbers DEF Unlink
<1>5. CASE ForgetAuth
  BY <1>5 DEF ForgetAuth
<1> QED
  BY <1>1, <1>2, <1>3, <1>4, <1>5

-----------------------------------------------------------------------------
(* One pairing in flight, and the order of the import.                     *)

LEMMA OnePairingStep ==
  ASSUME AuthTypeOK, OnePairing, AuthNext
  PROVE  OnePairing'
<1> USE DEF OnePairing, authDb, authWA
<1>1. CASE BeginLoad \/ Load
  <2>1. BeginLoad \/ CheckFolder => OnePairing'
    BY DEF BeginLoad, CheckFolder, ShouldImport, LoadStep
  <2>2. Import => OnePairing'
    BY DEF Import, ImportCreds, ReadKeyFiles, InsertSlice, ArchiveFolder, LoadStep
  <2>3. SelectCreds => OnePairing'
    BY DEF SelectCreds, LoadStep
  <2> QED
    BY <1>1, <2>1, <2>2, <2>3 DEF Load
<1>2. CASE Pair
  <2>1. saves = {} /\ credsRow = 0
    BY <1>2, PairingNumbers DEF Pair, Written, AuthTypeOK
  <2> QED
    BY <1>2, <2>1 DEF Pair, Written
<1>3. CASE SaveCreds \/ SetKeys
  BY <1>3 DEF SaveCreds, SetKeys, Written
<1>4. ASSUME NEW p \in Pairings, SaveEnds(p)
      PROVE  OnePairing'
  <2>1. saves' = {} /\ credsRow' \in {0, p}
    BY <1>4 DEF SaveEnds
  <2>2. loading = "loaded" => creds = p
    BY <1>4 DEF SaveEnds
  <2> QED
    BY <1>4, <2>1, <2>2 DEF SaveEnds
<1>5. CASE \E p \in Pairings : KeyWriteEnds(p)
  BY <1>5 DEF KeyWriteEnds
<1>6. CASE ClearKeys \/ ClearCreds \/ ClearFails
  BY <1>6 DEF ClearKeys, ClearCreds, ClearFails, AroundClear
<1>7. CASE Unlink \/ ForgetAuth
  BY <1>7 DEF Unlink, ForgetAuth
<1> QED
  BY <1>1, <1>2, <1>3, <1>4, <1>5, <1>6, <1>7 DEF AuthNext, WriteEnds

LEMMA ImportStep ==
  ASSUME AuthTypeOK, OnePairing, ImportInOrder, AuthNext
  PROVE  ImportInOrder'
<1> USE DEF ImportInOrder, authDb, authWA, importer
<1>1. CASE BeginLoad \/ CheckFolder \/ SelectCreds
  BY <1>1 DEF BeginLoad, CheckFolder, SelectCreds, LoadStep
<1>2. CASE ImportCreds \/ ReadKeyFiles \/ ArchiveFolder
  BY <1>2 DEF ImportCreds, ReadKeyFiles, ArchiveFolder, LoadStep
<1>3. CASE InsertSlice
  BY <1>3 DEF InsertSlice, LoadStep
<1>4. CASE Pair \/ SaveCreds \/ SetKeys
  BY <1>4 DEF Pair, SaveCreds, SetKeys, Written
<1>5. ASSUME NEW p \in Pairings, SaveEnds(p)
      PROVE  ImportInOrder'
  <2>1. loading \in {"no", "loaded"}
    BY <1>5 DEF SaveEnds, OnePairing
  <2> QED
    BY <1>5, <2>1 DEF SaveEnds
<1>6. CASE \E p \in Pairings : KeyWriteEnds(p)
  BY <1>6 DEF KeyWriteEnds
<1>7. CASE creds \in revoked /\ (ClearKeys \/ ClearCreds \/ ClearFails)
  <2>1. loading = "loaded"
    BY <1>7, PairingNumbers DEF AuthTypeOK, OnePairing
  <2> QED
    BY <1>7, <2>1 DEF ClearKeys, ClearCreds, ClearFails, AroundClear
<1>8. CASE Unlink \/ ForgetAuth
  BY <1>8 DEF Unlink, ForgetAuth
<1> QED
  BY <1>1, <1>2, <1>3, <1>4, <1>5, <1>6, <1>7, <1>8 DEF AuthNext, Load, Import, WriteEnds

\* A step of AuthState, and one that is none.
LEMMA AuthStep ==
  ASSUME AuthInv, [AuthNext]_authVars
  PROVE  AuthInv'
<1>1. CASE UNCHANGED authVars
  BY <1>1 DEF authVars, authDb, authWA, importer, AuthInv, AuthTypeOK, OnePairing,
              ImportInOrder
<1>2. CASE AuthNext
  <2>1. AuthTypeOK'
    BY <1>2, LoadType, WriteType, EndType DEF AuthNext, AuthInv
  <2> QED
    BY <1>2, <2>1, OnePairingStep, ImportStep DEF AuthInv
<1> QED
  BY <1>1, <1>2

-----------------------------------------------------------------------------
\* The row is written by the import, by a save that lands and by the wipe.
LEMMA KeepsPairing ==
  ASSUME AuthInv, AuthNext, credsRow # 0, credsRow \notin revoked
  PROVE  credsRow' = credsRow
<1>1. ~ ImportCreds
  BY DEF ImportCreds, LoadStep, AuthInv, OnePairing
<1>2. ASSUME NEW p \in Pairings, SaveEnds(p) PROVE credsRow' = credsRow
  BY <1>2 DEF SaveEnds, AuthInv, OnePairing
<1>3. creds \in revoked => credsRow \in {0, creds}
  BY PairingNumbers DEF AuthInv, AuthTypeOK, OnePairing
<1> QED
  BY <1>1, <1>2, <1>3
     DEF AuthNext, BeginLoad, Load, CheckFolder, Import, ReadKeyFiles, InsertSlice,
         ArchiveFolder, SelectCreds, Pair, SaveCreds, SetKeys, Written, WriteEnds, KeyWriteEnds, ClearKeys,
         ClearFails, AroundClear, Unlink, ForgetAuth, authDb, LoadStep

\* Credentials that work are never replaced: a late write is of the same pairing, the
\* import finds the table empty, and the wipe removes what WhatsApp has revoked.
THEOREM PairingIsKept == AuthSpec => PairingKept
<1>1. AuthInv /\ [AuthNext]_authVars
      => [credsRow # 0 /\ credsRow \notin revoked => credsRow' = credsRow]_authVars
  BY KeepsPairing
<1> QED
  BY AuthStarts, AuthStep, <1>1, PTL DEF AuthSpec, PairingKept

\* The directory is renamed by the import alone, after its loop: what it could read is
\* in the database then, in any number of slices and after any crashes of earlier
\* imports.
THEOREM ImportBeforeRename == AuthSpec => RenamedIsImported
<1>1. ASSUME AuthInv, AuthNext, folder' # folder
      PROVE  credsRow = 1 /\ parsed \subseteq keyRows
  <2>1. ArchiveFolder
    BY <1>1
       DEF AuthNext, BeginLoad, Load, CheckFolder, Import, ImportCreds, ReadKeyFiles,
           InsertSlice, SelectCreds, Pair, SaveCreds, SetKeys, Written, WriteEnds, SaveEnds,
           KeyWriteEnds, ClearKeys, ClearCreds, ClearFails, AroundClear, Unlink, ForgetAuth,
           authDb, LoadStep
  <2> QED
    BY <1>1, <2>1 DEF ArchiveFolder, LoadStep, AuthInv, ImportInOrder
<1>2. AuthInv /\ [AuthNext]_authVars
      => [folder' # folder => credsRow = 1 /\ parsed \subseteq keyRows]_authVars
  BY <1>1
<1> QED
  BY AuthStarts, AuthStep, <1>2, PTL DEF AuthSpec, RenamedIsImported

\* The variables of AuthState keep their types.
THEOREM AuthTypeCorrect == AuthSpec => []AuthTypeOK
<1>1. AuthInv => AuthTypeOK
  BY DEF AuthInv
<1> QED
  BY AuthStarts, AuthStep, <1>1, PTL DEF AuthSpec

(*****************************************************************************)
(* The Bot. Each part sees a step of its own or none, which for AuthState    *)
(* needs an invariant of the whole: the credentials that are wiped are       *)
(* revoked.                                                                  *)
(*****************************************************************************)

\* The handler of a refusal runs with the credentials that were refused.
WipesRevoked ==
  \A s \in Sockets : at[s] \in {"wiping keys", "wiping creds"} => creds \in revoked

BotInv == ConnInv /\ ReceiptsInv /\ AuthInv /\ WipesRevoked

-----------------------------------------------------------------------------
(* What the parts see of a step.                                           *)

LEMMA ConnSeesStep ==
  ASSUME BotNext
  PROVE  ConnNext \/ UNCHANGED connVars
<1>1. CASE StartStep
  BY <1>1 DEF StartStep, Alone, ConnNext
<1>2. ASSUME NEW s \in Sockets, Online(s) \/ Dropped(s) \/ Refused(s)
      PROVE  ConnNext
  BY <1>2 DEF Online, Dropped, Refused, Alone, MayEnd, ConnNext
<1>3. ASSUME NEW s \in Sockets, Alone(Reconnect(s)) \/ Logout(s)
      PROVE  ConnNext
  BY <1>3 DEF Alone, Logout, MayEnd, LogoutStep, ConnNext
<1>4. CASE \E s \in Sockets : AuthWrite(s) \/ \E m \in Messages : Upsert(s, m)
  BY <1>4 DEF AuthWrite, Upsert
<1>5. CASE StopStep
  BY <1>5 DEF StopStep, Alone, MayEnd, ConnNext
<1>6. CASE Outside
  BY <1>6 DEF Outside, Alone, MayEnd, ConnNext
<1> QED
  BY <1>1, <1>2, <1>3, <1>4, <1>5, <1>6 DEF BotNext

LEMMA ReceiptsSeeStep ==
  ASSUME BotNext
  PROVE  ReceiptsNext \/ UNCHANGED receiptVars
<1>1. CASE StartStep
  BY <1>1 DEF StartStep, Alone
<1>2. ASSUME NEW s \in Sockets, Online(s) \/ Dropped(s) \/ Refused(s)
      PROVE  ForgetReceipts \/ UNCHANGED receiptVars
  BY <1>2 DEF Online, Dropped, Refused, Alone, MayEnd
<1>3. ASSUME NEW s \in Sockets, Alone(Reconnect(s)) \/ Logout(s)
      PROVE  ForgetReceipts \/ UNCHANGED receiptVars
  BY <1>3 DEF Alone, Logout, MayEnd
<1>4. ASSUME NEW s \in Sockets, AuthWrite(s) \/ \E m \in Messages : Upsert(s, m)
      PROVE  ReceiptsNext \/ UNCHANGED receiptVars
  BY <1>4 DEF AuthWrite, Upsert, ReceiptsNext
<1>5. CASE StopStep
  BY <1>5 DEF StopStep, Alone, MayEnd, ReceiptsNext
<1>6. CASE Outside
  BY <1>6 DEF Outside, Alone, MayEnd, ReceiptsNext
<1> QED
  BY <1>1, <1>2, <1>3, <1>4, <1>5, <1>6 DEF BotNext, ReceiptsNext

LEMMA AuthSeesStep ==
  ASSUME WipesRevoked, BotNext
  PROVE  AuthNext \/ UNCHANGED authVars
<1>1. CASE StartStep
  BY <1>1 DEF StartStep, Alone, AuthNext
<1>2. ASSUME NEW s \in Sockets, Online(s) \/ Dropped(s) \/ Refused(s)
      PROVE  AuthNext \/ UNCHANGED authVars
  BY <1>2 DEF Online, Dropped, Refused, Alone, MayEnd, AuthNext
<1>3. ASSUME NEW s \in Sockets, Alone(Reconnect(s))
      PROVE  UNCHANGED authVars
  BY <1>3 DEF Alone
<1>4. ASSUME NEW s \in Sockets, Logout(s)
      PROVE  AuthNext \/ UNCHANGED authVars
  <2>1. CASE MayEnd(MarkLoggedOut(s))
    BY <2>1 DEF MayEnd, AuthNext
  <2>2. CASE at[s] \in {"wiping keys", "wiping creds"} /\ (ClearKeys \/ ClearCreds \/ ClearFails)
    BY <2>2 DEF WipesRevoked, AuthNext
  <2> QED
    BY <1>4, <2>1, <2>2 DEF Logout, Wipe
<1>5. ASSUME NEW s \in Sockets, AuthWrite(s) \/ \E m \in Messages : Upsert(s, m)
      PROVE  AuthNext \/ UNCHANGED authVars
  BY <1>5 DEF AuthWrite, Upsert, AuthNext
<1>6. CASE StopStep
  BY <1>6 DEF StopStep, Alone, MayEnd, AuthNext
<1>7. CASE Outside
  BY <1>7 DEF Outside, Alone, MayEnd, AuthNext
<1>8. CASE FlushStep /\ UNCHANGED <<connVars, authVars>>
  BY <1>8
<1> QED
  BY <1>1, <1>2, <1>3, <1>4, <1>5, <1>6, <1>7, <1>8 DEF BotNext

-----------------------------------------------------------------------------
(* The credentials that are wiped are revoked.                             *)

\* While a handler wipes, start() is over and no socket is live.
LEMMA WipingIsAlone ==
  ASSUME ConnInv, NEW s \in Sockets, at[s] \in {"wiping keys", "wiping creds"}
  PROVE  /\ starter = "done"
         /\ \A t \in Sockets : at[t] \notin {"login", "open"}
BY DEF ConnInv, OneThread

LEMMA WipesKept ==
  ASSUME BotInv, [BotNext]_botVars
  PROVE  WipesRevoked'
<1> DEFINE Wiped == {"wiping keys", "wiping creds"}
<1> SUFFICES ASSUME NEW s \in Sockets, at'[s] \in Wiped
             PROVE  creds' \in revoked'
  BY DEF WipesRevoked
<1>a. ~Exit
  BY DEF Exit, Idle
<1>b. at \in [Sockets -> {"unused", "login", "open", "backoff", "connecting"} \union Wiping]
  BY DEF BotInv, ConnInv, ConnTypeOK
<1>c. at[s] \in Wiped => /\ creds \in revoked /\ starter = "done"
                        /\ \A t \in Sockets : at[t] \notin {"login", "open"}
  BY WipingIsAlone DEF BotInv, WipesRevoked
<1>d. SUFFICES \/ at[s] \in Wiped /\ UNCHANGED authVars
               \/ creds \in revoked /\ creds' = creds /\ revoked \subseteq revoked'
  BY <1>c DEF authVars, authWA
<1> HIDE DEF Wiped
<1>1. CASE UNCHANGED connVars /\ UNCHANGED authVars
  BY <1>1 DEF connVars
<1>2. CASE StartStep
  <2>1. at[s] \in Wiped /\ starter # "done"
    BY <1>2, <1>b DEF StartStep, Alone, OpenStore, LoadAuth, Serve, Starter, FirstSocket, Attach,
                      connVars, Wiped
  <2> QED
    BY <1>c, <2>1
<1>3. ASSUME NEW t \in Sockets, Online(t)
      PROVE  at[s] \in Wiped /\ UNCHANGED authVars
  BY <1>3, <1>b DEF Online, Alone, Opened, Wiped
<1>4. ASSUME NEW t \in Sockets, Dropped(t)
      PROVE  at[s] \in Wiped /\ UNCHANGED authVars
  BY <1>4, <1>a, <1>b DEF Dropped, MayEnd, Closed, Handler, Wiped
<1>5. ASSUME NEW t \in Sockets, Refused(t)
      PROVE  creds \in revoked /\ UNCHANGED authVars
  BY <1>5 DEF Refused, Alone
<1>6. ASSUME NEW t \in Sockets, Alone(Reconnect(t))
      PROVE  at[s] \in Wiped /\ UNCHANGED authVars
  BY <1>6, <1>b DEF Alone, Reconnect, BackoffOver, NextSocket, Attach, ConnectThrows, Wiped
<1>7. ASSUME NEW t \in Sockets, Logout(t)
      PROVE  creds \in revoked /\ creds' = creds /\ revoked' = revoked
  BY <1>7, <1>a DEF Logout, MayEnd, MarkLoggedOut, Wipe, ClearKeys, ClearCreds, ClearFails,
                    AroundClear, authWA, BotInv, WipesRevoked
<1>8. ASSUME NEW t \in Sockets, AuthWrite(t)
      PROVE  FALSE
  BY <1>8, <1>c DEF AuthWrite, connVars
<1>9. CASE \/ \E t \in Sockets, m \in Messages : Upsert(t, m)
           \/ FlushStep /\ UNCHANGED <<connVars, authVars>>
  BY <1>1, <1>9 DEF Upsert
<1>10. CASE StopStep
  BY <1>10, <1>a, <1>b DEF StopStep, StopApi, Alone, EndSocket, Live, MayEnd, ShutdownOver, Wiped
<1>11. CASE Outside
  <2>1. at[s] \in Wiped
    BY <1>11, <1>a DEF Outside, Alone, Signal, OutageLasts, Boot, Starter, MayEnd, StartThrows,
                       ProcessDies, connVars
  <2>2. CASE WriteEnds \/ Unlink
    BY <1>c, <2>1, <2>2 DEF WriteEnds, SaveEnds, KeyWriteEnds, Unlink, authWA
  <2> QED
    BY <1>11, <1>a, <2>1, <2>2 DEF Outside, Alone, MayEnd, StartThrows, ProcessDies
<1> QED
  BY <1>1, <1>2, <1>3, <1>4, <1>5, <1>6, <1>7, <1>8, <1>9, <1>10, <1>11
     DEF BotNext, botVars, authVars, authWA

-----------------------------------------------------------------------------
LEMMA BotStarts == BotInit => BotInv
<1> SUFFICES ASSUME BotInit PROVE BotInv
  OBVIOUS
<1>1. ConnInv /\ ReceiptsInv /\ AuthInv
  BY ConnStarts, ReceiptsStart, AuthStarts DEF BotInit
<1>2. WipesRevoked
  BY DEF BotInit, ConnInit, Idle, WipesRevoked
<1> QED
  BY <1>1, <1>2 DEF BotInv

\* Each part takes a step of its own or none.
LEMMA PartsStep ==
  ASSUME BotInv, [BotNext]_botVars
  PROVE  [ConnNext]_connVars /\ [ReceiptsNext]_receiptVars /\ [AuthNext]_authVars
<1>1. CASE UNCHANGED botVars
  BY <1>1 DEF botVars
<1>2. CASE BotNext
  BY <1>2, ConnSeesStep, ReceiptsSeeStep, AuthSeesStep DEF BotInv
<1> QED
  BY <1>1, <1>2

LEMMA BotStep ==
  ASSUME BotInv, [BotNext]_botVars
  PROVE  BotInv'
BY PartsStep, ConnStep, ReceiptsStep, AuthStep, WipesKept DEF BotInv

LEMMA BotInvariant == BotSpec => []BotInv
BY BotStarts, BotStep, PTL DEF BotSpec

-----------------------------------------------------------------------------
\* The life of the socket in the Bot is one that Connection describes.
THEOREM BotConnects == BotSpec => ConnSpec
<1>1. BotInit => ConnInit
  BY DEF BotInit
<1> QED
  BY BotInvariant, PartsStep, <1>1, PTL DEF BotSpec, ConnSpec

\* The receipts of the Bot are sent as ReadReceipts describes.
THEOREM BotSendsReceipts == BotSpec => ReceiptsSpec
<1>1. BotInit => ReceiptsInit
  BY DEF BotInit
<1> QED
  BY BotInvariant, PartsStep, <1>1, PTL DEF BotSpec, ReceiptsSpec

\* The Bot loads, saves and clears its credentials as AuthState describes: clear() is
\* only called for those WhatsApp has revoked, whatever became of them meanwhile.
THEOREM BotAuthenticates == BotSpec => AuthSpec
<1>1. BotInit => AuthInit
  BY DEF BotInit
<1> QED
  BY BotInvariant, PartsStep, <1>1, PTL DEF BotSpec, AuthSpec

\* What run bot checks on small instances, for every value of the constants.
THEOREM BotTypeCorrect == BotSpec => []BotTypeOK
<1>1. BotInv => BotTypeOK
  BY DEF BotInv, ConnInv, ReceiptsInv, AuthInv, BotTypeOK
<1> QED
  BY BotInvariant, <1>1, PTL

\* One socket at a time, and the receipts of ReadReceipts: the invariants of the parts
\* hold in the whole.
THEOREM BotIsSafe == BotSpec => [](OneLiveSocket /\ NothingForgotten /\ AckedOnce)
BY BotConnects, BotSendsReceipts, OneSocketLives, ReceiptsAreNotForgotten,
   ReceiptsAreSentOnce, PTL

\* The import keeps its order when start() throws, the process is killed and the next
\* one imports again.
THEOREM BotImportsBeforeRename == BotSpec => RenamedIsImported
BY BotAuthenticates, ImportBeforeRename

\* Credentials that work outlive logouts of others, restarts and lost statements.
THEOREM BotKeepsPairing == BotSpec => PairingKept
BY BotAuthenticates, PairingIsKept
===============================================================================
