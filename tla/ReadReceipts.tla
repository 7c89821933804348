----------------------------- MODULE ReadReceipts -----------------------------
(***************************************************************************)
(* ReadReceiptWorker of src/presence/read-receipts.ts: messages offered by *)
(* the socket are queued, and one flush at a time sends receipts in        *)
(* batches until the queue is empty.                                       *)
(*                                                                         *)
(* A message stands for its dedup key. A batch of messages is offered      *)
(* message by message: nothing awaits in between. The queue and the LRU    *)
(* are sets, so any order of sending and of forgetting is covered. Delays  *)
(* (think time, cool-down) are timers that fire at any time. Whether       *)
(* readMessages() succeeds makes no difference to the worker, and its      *)
(* branch for a missing socket is unreachable: this.sock is set before the *)
(* first message and never cleared.                                        *)
(***************************************************************************)
EXTENDS Naturals, FiniteSets

CONSTANTS
  Messages,     \* dedup keys of realtime messages
  Receiptable,  \* those receiptKeyFor() builds a key for: no status, reaction, own message
  BatchSize,    \* cfg.batchSize
  AckedMax      \* size of the LRU of acknowledged keys

ASSUME ReceiptsAssumption ==
  /\ IsFiniteSet(Messages) /\ Receiptable \subseteq Messages
  /\ BatchSize \in Nat \ {0} /\ AckedMax \in Nat /\ AckedMax >= BatchSize

VARIABLES
  enabled,  \* cfg.enabled
  pending,  \* this.pending
  acked,    \* this.acked
  timer,    \* a flush is scheduled: this.flushTimer
  flush,    \* where flush() is suspended; "idle" while this.flushing is false
  stopped,  \* this.stopped
  sent      \* history: receipts sent for a message since the LRU last forgot it

receiptVars == <<enabled, pending, acked, timer, flush, stopped, sent>>

ReceiptsTypeOK ==
  /\ enabled \in BOOLEAN /\ stopped \in BOOLEAN /\ timer \in BOOLEAN
  /\ pending \subseteq Receiptable /\ acked \subseteq Receiptable
  /\ flush \in {"idle", "sending", "cooling"}
  /\ sent \in [Messages -> Nat]

\* The fields of a new ReadReceiptWorker.
ReceiptsInit ==
  /\ enabled \in BOOLEAN
  /\ pending = {} /\ acked = {} /\ timer = FALSE /\ flush = "idle" /\ stopped = FALSE
  /\ sent = [m \in Messages |-> 0]

\* scheduleFlush(): neither beside a timer nor during a flush.
Scheduled == timer \/ flush = "idle"

\* Mutant: every message is given a receipt.
QueueableAll == Messages \ (acked \union pending)

Queueable == Receiptable \ (acked \union pending)

Offer(m) ==
  /\ enabled /\ ~stopped
  /\ m \in Queueable
  /\ pending' = pending \union {m}
  /\ timer' = Scheduled
  /\ UNCHANGED <<enabled, acked, flush, stopped, sent>>

Batches ==
  {b \in SUBSET pending : Cardinality(b) = BatchSize
                          \/ (b = pending /\ Cardinality(b) < BatchSize)}

\* What the LRU may hold once a batch has been added.
Remembered(b) ==
  {k \in SUBSET (acked \union b) :
     /\ b \subseteq k
     /\ Cardinality(k) <= AckedMax
     /\ Cardinality(acked \union b) <= AckedMax => k = acked \union b}

\* Mutant: the keys of a batch are not put into the LRU.
SendBatchFirst ==
  \E b \in Batches :
    /\ pending' = pending \ b
    /\ sent' = [m \in Messages |-> IF m \in b THEN sent[m] + 1 ELSE sent[m]]
    /\ flush' = "sending"
    /\ UNCHANGED <<enabled, stopped, acked>>

\* One round of flush(), up to readMessages().
SendBatch ==
  \E b \in Batches : \E k \in Remembered(b) :
    /\ pending' = pending \ b
    /\ acked' = k
    /\ sent' = [m \in Messages |-> IF m \in b THEN sent[m] + 1
                                   ELSE IF m \in k THEN sent[m] ELSE 0]
    /\ flush' = "sending"
    /\ UNCHANGED <<enabled, stopped>>

TimerFires ==
  /\ timer /\ timer' = FALSE
  /\ SendBatch

\* The finally of flush().
EndFlush ==
  /\ flush' = "idle" /\ timer' = (pending # {})
  /\ UNCHANGED <<enabled, pending, acked, stopped, sent>>

\* Mutant: one batch for each timer, and no look at what came during the flush.
SendEndsForGood ==
  /\ flush = "sending" /\ flush' = "idle"
  /\ UNCHANGED <<enabled, pending, acked, timer, stopped, sent>>

\* readMessages() has answered or thrown.
SendEnds ==
  /\ flush = "sending"
  /\ \/ pending # {} /\ flush' = "cooling"
        /\ UNCHANGED <<enabled, pending, acked, timer, stopped, sent>>
     \/ pending = {} /\ EndFlush

CoolingEnds ==
  /\ flush = "cooling"
  /\ \/ pending # {} /\ ~stopped /\ SendBatch /\ UNCHANGED timer
     \/ (pending = {} \/ stopped) /\ EndFlush

StopReceipts ==
  /\ stopped' = TRUE /\ pending' = {} /\ timer' = FALSE
  /\ UNCHANGED <<enabled, acked, flush, sent>>

\* The process ends, the next one starts with a new worker.
ForgetReceipts ==
  /\ pending' = {} /\ acked' = {} /\ timer' = FALSE /\ flush' = "idle" /\ stopped' = FALSE
  /\ sent' = [m \in Messages |-> 0]
  /\ UNCHANGED enabled

FlushStep == TimerFires \/ SendEnds \/ CoolingEnds

ReceiptsNext ==
  \/ \E m \in Messages : Offer(m)
  \/ FlushStep \/ StopReceipts \/ ForgetReceipts

ReceiptsSpec == ReceiptsInit /\ [][ReceiptsNext]_receiptVars

-----------------------------------------------------------------------------
(* Properties.                                                             *)

\* offer() schedules nothing during a flush and counts on the flush to come back:
\* whatever is queued has a timer or a flush under way that will take it.
NothingForgotten == pending # {} => timer \/ flush # "idle"

\* "Message keys already acknowledged, so retries don't re-receipt": however often a
\* message is delivered again, before, during or after its flush, one receipt goes
\* out for it as long as the LRU remembers it.
AckedOnce == \A m \in Messages : sent[m] <= 1
===============================================================================
