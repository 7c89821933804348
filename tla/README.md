# Verification of scandi-wa-bot

TLA+ models of the bot's concurrent core, TLC runs over small instances of
them, and TLAPS proofs of what matters most for every value of the constants.
The bot is one Node.js process: it keeps a WhatsApp socket open, mirrors what
the socket reports into Postgres (schema `wa`), downloads and transcribes media,
fans events out to webhooks and serves an HTTP API. All its code runs on one
thread, and everything that can go wrong between two of its parts goes wrong at
an `await`: a coroutine is suspended, others run, and what it read is old when
it goes on. The models therefore take one action per stretch of code between two
awaits, and one action per SQL statement.

Paths below are those of the repository. `PROJECT.json` maps every definition to
its lines.

## 1. The system

| Part | Code | State it keeps | Operations | Modelled in |
|---|---|---|---|---|
| Media download queue | `src/store/media/worker.ts`, `downloader.ts`, `storage.ts` | `wa.media`, the bucket; the loop, `wakePending`, `inFlight`, `lastReapAt` | insert, notify, reap, claim, download, put, record, retry, hand over, stop, boot | `MediaQueue` |
| AI processing queue | `src/store/processing/worker.ts`, `enqueue.ts` | `wa.media_processing`; the same loop | insert, `enqueued`, reap, claim, call, record, announce, retry, stop, boot | `ProcessingQueue` |
| Webhook queue | `src/webhooks/*.ts`, `src/api/routes/webhooks.ts`, `src/store/bus.ts` | `wa.webhook_subscriptions`, `wa.webhook_deliveries`; the listener, the loop and its batch | subscribe, switch, delete, test, fan out, reap, claim, post, record, detach, stop, boot | `WebhookQueue` |
| Notify endpoint | `src/api/routes/notify.ts`, `send.ts` (`waitForSeq`) | `wa.notifications`, `recentByKey` | one request: look up, three limits, resolve, claim, send, record | `Notify` |
| Typing indicators | `src/presence/typing.ts`, `src/api/routes/presence.ts` | the session map, timers, `markedAvailable` | start, extend, evict, stop, push, outbound message, reset | `Typing` |
| Message store | `src/store/index.ts`, `handlers/messages.ts`, `reactions.ts`, `history.ts`, `extract.ts` | `wa.messages`, `wa.message_edits`, `wa.reactions` | upsert, history, edit, revoke, delete, clear, react | `MessageStore` (partly) |
| Bot lifecycle | `src/bot.ts`, `src/index.ts` | the socket, `connectionOpen`, `reconnectAttempt`, `disconnectedSince`, `shuttingDown`; the suspended `start()`, `stop()` and close handlers | start, connect, open, close, back off, reconnect, give up, log out, stop, restart | `Connection`, `Bot`; the end of the workers in the queue modules |
| Read receipts | `src/presence/read-receipts.ts` | `pending`, `acked`, the flush timer | offer, flush, stop | `ReadReceipts`, `Bot` |
| Auth state | `src/auth.ts` | `wa.auth_creds`, `wa.auth_keys`, the directory, the credentials in memory | import, load, saveCreds, set, clear | `AuthState`, `Bot` (partly) |
| Chats, contacts, groups, usernames, labels, settings, receipts | `src/store/handlers/*.ts` | a table each | upserts by primary key | no |
| API server and keys, payloads, read routes | `src/api/*` | the key cache, the username cache | validation, authentication, reads | no |
| AI processors | `src/store/processing/processors/*` | none | calls to outside services | as answers of `ProcessingQueue` |
| Database client, recon, render, CLI, scripts, configuration | the rest | none that others rely on | | no |

How they interact:

    socket ──events──> ChatStore ──rows──> wa.messages, wa.media
                          │ notify()            │ claim
                          │                 MediaWorker ──put──> bucket
                          │                     │ INSERT, 'enqueued'
                          │                 ProcessingWorker
                          │ message.* events    │ message.processed
                          └──────> MessageBus <─┘
                                       │ listener
                                webhook enqueuer ──rows──> WebhookWorker ──POST──> consumers
    consumers ──HTTP──> API: notify, send, typing, webhooks ──> socket, tables

    Bot ──start()──> ChatStore, auth state, workers, API ──connect()──> socket
     ↑ connection.update: open, close, logged out            │ creds.update, keys
     └── back-off, connect() │ clear(), exit │ exit          ↓
                                                  wa.auth_creds, wa.auth_keys
    socket ──messages.upsert──> ReadReceiptWorker ──readMessages──> socket

What is hard, part by part, and what makes each part correct:

- **Queues.** Rows are leased. A job whose lease lapses goes on beside its
  successor, and every UPDATE names its row by id alone; a statement may be
  committed and its answer lost; the process may die anywhere. A row must have
  one owner, settle in the end, stay settled, and be tried a bounded number of
  times; a worker must not sleep through a `notify()`.
- **Webhooks.** Subscriptions change while their deliveries are selected,
  inserted, claimed and posted. Deliveries go with their subscription, outcomes
  are final, `delivered` means received.
- **Notify.** Retries overlap with the request they repeat. One idempotency key
  must not send twice, answers must be true, limits must hold although they are
  checked long before what they count exists.
- **Typing.** A push that comes back may find its session stopped, evicted or
  replaced. No session may be left without a timer, and no indicator may be put
  up again by a late push.
- **Messages.** Handlers are started and not awaited (`src/store/index.ts:158`),
  so an edit, a delete and a replay of one message interleave statement by
  statement. Edit history must have no gap, deletions must win in any order, and
  what is announced on the bus must be readable.
- **Lifecycle.** A close handler goes on as a coroutine through a delay and a
  `connect()`, while `stop()`, signals and crashes come at any await. There must
  be one socket at most, `getSock()` must not hand out one that is not open, and
  an outage must end.
- **Auth state.** Credentials and keys are written by statements that nobody
  awaits, wiped by two more, and imported from a directory in a sequence that a
  crash may cut anywhere. A pairing that works must not be lost, and one that was
  revoked must make way for a new one.
- **Read receipts.** Messages are offered while a flush runs and are delivered
  more than once. None may be forgotten, none acknowledged twice.

## 2. Modules

| Module | What it is |
|---|---|
| `JobBoard` | The promise the three queues share: a job is posted once, held only while it waits, given back or settled, and never moves again |
| `MediaQueue`, `ProcessingQueue`, `WebhookQueue` | The queues, each refining `JobBoard` (`Board`, `BoardSpec`) |
| `Notify`, `Typing`, `MessageStore` | Components of their own |
| `Connection`, `AuthState`, `ReadReceipts` | The three parts of the Bot, each with a specification of its own |
| `Bot` | Their composition: which step of one goes with which step of another |
| `MC*` | Values of function constants for TLC, and the instances that share a run |
| `Counting` | Lemmas on cardinalities |
| `*_proofs` | The theorems of a component; `Bot_proofs` has those of the Bot and of its three parts |

### How state and actions correspond to the code

**Queues.** `status`, `attempts` are columns. Time is only what SQL compares
with `NOW()`: `elapsed[x]` says that `next_attempt_at` (a pending row) or
`lease_until` (a row in progress) has passed. `loop` is the await at which
`loop()` is suspended: `reaping` and `claiming` before the statement runs in the
database, `claimed` between its commit and its answer. `inFlight` holds jobs
with the attempt they claimed, which is what `processRow` compares with the cap.
`ClaimBatch` has three outcomes: it works, it fails, or it is committed and its
answer is lost. A job of `MediaQueue` runs `Store`, `RecordDone`,
`EnqueueProcessing`, or ends early in `GiveUpAtOnce`, `Retry` or `LoseOutcome`.
`Notify` and `SleepUntilWake` are the two halves of `wakePending`; the webhook
worker has no such note (`WebhookQueue!Notify`). `ProcessDies` is a crash, a kill
or the exit after `stop()`; `Boot` is `start()` in the next process.
`WebhookQueue` follows a listener call through `building`, `selecting`,
`inserting`, `inserted`, and a delivery through `queued`, `posting` or
`disabling`, `accepted` or `refused`.

`Orderly` (in `ProcessingQueue` a variable that never changes, so that one run
checks both kinds) names the rows whose jobs end within their lease and whose UPDATEs are
answered. What a lapsed lease breaks is real and is shown by leaving rows out of
it: the ownership properties hold for orderly rows, the bounds and liveness for
all. The webhook queue needs no such set: its worker awaits the whole batch
before it reaps again, so a lapsed lease harms nothing there (`BatchOwned`).

**Notify.** `stage[r]` is the await at which request `r` is, or its answer. A row
is named by its idempotency key; a request without one has a key of its own.
Every stage before the claim may end in an error answer, as any statement may.
`RecordSent` covers `noteOutboundMessage`, `waitForSeq` and the UPDATE, all
inside the `try` whose `catch` is `RecordFailed`. A person has two JIDs, and
`mapped` (`wa.lid_mappings`) decides which is used. `misjudged` counts sends that
went out and were then taken for failed; `widest` records how many requests were
past the recipient check at once. The pruning of `wa.notifications` does not
exist in the code and has no action.

**Typing.** A session object is distinct from its place in the map (`order`):
coroutines and timers hold objects, the map holds the newest for its chat. `task`
is the send each coroutine awaits. `lapsed` replaces the clock: `ttl` once
`expiresAt` has passed, `hard` once `hardDeadline` has. `PUT /v1/presence` talks
to the socket without the manager and is left out.

**MessageStore.** One chat and a set of deliveries by the socket, each with its
items. A body is a number in the order its author wrote them, and an inline reaction may
have an actor that cannot be resolved, which its handler skips. WhatsApp delivers
the edits of one message in order (a guard of `Arrive`), anything else in any
order. `InsertMessages` picks which of two copies in a batch wins. The unique
keys of `wa.message_edits` and the foreign key of `wa.reactions` are guards that
end a handler in `failed`. `Carries` says which items an event of a kind has: an
event of the library may carry more, which the handler skips and the model leaves
out, and one that carries nothing for its handler is no event (`Looping`).

**Connection.** `starter` is the await at which `start()` is suspended, `down`
without a process. `at[s]` follows a socket object (`login`, `open`) and, once it
has closed, the coroutine of its close handler (`backoff`, `connecting`, the
statements of a logout), which may end in a new socket (`NextSocket`). `sock` and
`connectionOpen` are the fields of the same names. `attempt` stops counting at
`RECONNECT_EXIT_AFTER_ATTEMPTS`, beyond which only the delay differs, and `outage` is
what `disconnectedSince` tells the code: none, short, or long enough to give up.
`stopping` is the await at which `stop()` is suspended. A step of `start()` that
throws ends the process if no worker keeps it up, since `uncaughtException` is only
logged; a `connect()` that throws in a close handler is logged and leaves no socket.

**AuthState.** Credentials and keys stand for the pairing they belong to, a number
in the order of pairing. `saves` and `keyWrites` are statements in flight; each lands
or fails at any time, also after a wipe and after the death of its process, but
before the next process has connected to the database. The import reads the key files
(`parsed`), any of which may be skipped as unreadable, unparseable or no key's, and
inserts the rest in slices (`inserted`), between which it may throw or be cut; then it
renames the directory, with the files it skipped. Which pairings WhatsApp has revoked is known
only to it (`revoked`), and the bot learns of it when a login is refused.

**ReadReceipts.** A message stands for its dedup key; `Receiptable` are those for
which `receiptKeyFor()` builds one. `pending`, `acked`, `stopped` are the fields,
`timer` and `flush` what `flushTimer` and `flushing` say together with the await of
`flush()`. The LRU forgets any key beyond its size (`Remembered`), `sent` counts the
receipts for a key since then.

**Bot.** The three parts in one process. `start()` opens the store, runs the load
and goes on when it is loaded; a login succeeds with credentials that are not
revoked and is refused with those that are, once WhatsApp says so; `creds.update`
and the keys write under an open socket and during a login that succeeds; `messages.upsert` offers messages; a logout
runs `clear()` statement by statement; `stop()` ends the receipts before the socket;
and what ends the process makes all three forget (`MayEnd`).

## 3. Runs

| Run | Bounds | Distinct states | What it shows |
|---|---|---|---|
| `media_owned` | 2 rows, 2 slots, batch 1, 2 attempts, both storage kinds, all rows orderly, 1 death, 1 fault | 622 k | `SoleOwner`, `NoLostWake`, refinement of `JobBoard` |
| `media_settles` | 1 row, 2 slots, batch 2, 2 attempts, not orderly, 2 deaths, 1 fault | 305 k | `ConcurrencyRespected`, `AttemptsBounded`, `DoneMeansStored`, `EventuallyTerminal` |
| `processing` | 2 slots, batch 2, 2 attempts, 1 fault; 2 orderly rows, one of an unknown processor, and 1 death, or 1 row that is not orderly and 2 deaths | 549 k | `TypeOK`, `SoleOwner`, `AnnouncedOnce`, `NoLostWake`, `AnnouncedWithResult`, refinement, `EventuallyTerminal` |
| `processing_unannounced` | 1 row, 1 death, no faults | violation | `ResultIsAnnounced` |
| `webhook` | an event and a test, 1 subscription, 1 slot, batch 2, 2 attempts, 2 deaths, 1 fault | 284 k | `TypeOK`, `BatchOwned`, refinement, `EventuallySettled` |
| `webhook_fan_out` | 1 event, 2 subscriptions, no deaths or faults | violation | `FansOutToAll` |
| `notify` | 3 requests, 2 of them with one key, 1 person, 2 JIDs, limits 2 / 2 / 1, 1 death, 1 fault | 1.47 M | `OneHolder`, `SentOnce`, `SentIsTrue`, `RecipientLimited` |
| `notify_twice` | the same | violation | `NeverTwice` |
| `typing` | 2 chats, 3 session objects, cap 1, 1 caller, 2 failures | 309 k | `TypeOK`, `CapRespected`, `SessionsWatched`, `NoGhostTyping`, `SessionsEnd` |
| `message_store` | 2 messages, 8 deliveries, 1 fault | 513 k | `TypeOK`, `EditsAreHistory`, `HandledIsStored`, `AnnouncedIsStored`, `ReactionsInOrder` |
| `message_edit_lost` | 2 edits of one message | violation | `LiveRowIsLatest` |
| `bot` | 2 socket names, 2 attempts before giving up, 1 kill or stop, 1 throw, 2 pairings, 1 failed statement, 3 messages, batch 1, LRU of 1, 2 key files, slices of 1 | 445 k | `BotTypeOK`, `OneLiveSocket`, `NothingForgotten`, `AckedOnce`, `RenamedIsImported`, `PairingKept`, `ComesBack`, `PairsAfresh` |

Why the bounds are enough:

- *Two rows and a batch of one* make the claim choose (by `Rank`), the limit
  shrink while jobs run, and one row be reaped while another runs. *One row that
  is not orderly and two slots* let two jobs of one row be in flight, the
  smallest setting in which a stale job acts on its successor's row. *Two
  attempts* have a first, a retried and a last one. *Two deaths* leave two
  leases behind; every fault in the code is local to a statement, and one already
  meets every other step before and after it.
- *A batch of two behind one webhook slot* has a delivery wait while its lease
  runs out. One subscription that appears, is switched off and on and is deleted
  at any time meets every stage of the fan-out; the two that the fan-out needs are
  in `webhook_fan_out`.
- *Two requests with one key* overlap, and the second is also the retry after the
  first; the third shares the recipient. With a limit of one, the last request
  counted is the first one too many.
- *Two session objects for one chat* are the smallest case in which a late
  coroutine finds another session than its own; the second chat makes the cap of
  one evict.
- The deliveries of `message_store` contain each kind of handler and each pair
  that touches the same row: two edits, an edit and a deletion, a message and its
  replay, a revocation in one batch with a reaction.
- *Two socket names* suffice because at most one socket or close handler is alive
  at a time, which `OneThread` of `Bot_proofs` shows for any number, and a
  `connect()` needs a second name beside the handler that calls it. *Two attempts* are
  the first and the last before giving up. *Two pairings* are a revoked one and its
  successor; the directory holds the first. *Two key files in slices of one* have a crash
  between two slices. *Two messages behind a batch of one* keep
  a queue through a flush, an LRU of one forgets, and the third message deserves no
  receipt.
- `MCBot` keeps apart what does not meet: where receipts are enabled (`Apart`), the
  bot has its last pairing from the start, because receipts do not depend on the
  credentials. `MCProcessingQueue` does the same with its two kinds of rows
  (`Scenario`).

`MaxRestarts`, `MaxDeaths`, `MaxFaults`, `MaxThrows`, `LastPairing`, `Callers`,
`Sessions` and `Sockets` are the only bounds that the code does not have; the last
number of a pairing stands for all later ones, which are never unlinked; histories (`sends`, `reaps`, `announced`, `versions`) are
bounded through them. Deadlock is checked except in `notify`, whose clients may
stop asking, in `message_store`, where all deliveries may have been handled, and in
`bot`, which stands still once a failed `connect()` has left it without a socket.

### Fairness

Only the runs that check liveness use it, and `ProcessingUnannounced`, so that its
counterexample is not one of a process that simply stops. It is weak fairness of:

- the loop and the jobs: the event loop resumes what is runnable, a download, an
  AI call and a POST end one way or another. The POST has an AbortController and
  the wait for a Gemini file a deadline of five minutes; downloads and the other
  calls rely on the timeouts of their HTTP clients, which this repository does not
  set. A call that never ended would hold its slot for good, and with all slots so
  held a worker starves: liveness is shown under the assumption that this does
  not happen;
- timers and the database clock (`ReapIntervalPasses`, `BackoffPasses`,
  `LeaseLapses`, `DeadlinePasses`, `TimerFires`, `HardDeadlinePasses`);
- `Boot`, and the exit of a stopped process: systemd restarts the bot;
- `Stop` once `Bot.stop()` has begun, whose steps run one after the other;
- in `bot`: the steps of `start()`, of the close handlers and of `stop()`; that a
  socket which logs in or is open comes to something; that writes in flight end; and
  `Boot`. The unit of `docs/DEPLOYMENT.md` gives up after ten starts in five minutes
  (`StartLimitBurst`), which no run models.

Strong fairness is used once, in `BotFairness`: a client whose credentials are revoked
is told so in the end, however often its login fails for another reason first.
Weak fairness would not do, since between two logins no socket is there to refuse.

Nothing is assumed of producers, clients, consumers, crashes, or of the wish to
stop.

## 4. Proofs

Every safety property that a run checks is a theorem too, and so are the
refinements. The `*_proofs` modules prove, for any sets of rows, requests, sessions,
deliveries, sockets and messages (finite where they are counted), any limits, and any
number of deaths, throws and faults:

| Module | Theorem | States |
|---|---|---|
| `MediaQueue_proofs` | `TypeCorrect` | `[]TypeOK` |
| | `AttemptsStayBounded` | `[]AttemptsBounded` |
| | `ConcurrencyIsRespected` | `[]ConcurrencyRespected` |
| | `DoneIsStored` | `[]DoneMeansStored` |
| | `WakesAreKept` | `[]NoLostWake` |
| | `JobsOwnTheirRows` | `[]SoleOwner` |
| | `TerminalStaysFinal` | `TerminalIsFinal` |
| | `ImplementsBoard` | `BoardSpec`: every step is a move of the job board or a stutter |
| `ProcessingQueue_proofs` | `TypeCorrect`, `WakesAreKept`, `JobsOwnTheirRows`, `ImplementsBoard` | `[]TypeOK`, `[]NoLostWake`, `[]SoleOwner`, `BoardSpec` |
| | `ConcurrencyIsRespected` | no more calls than `PROCESSING_CONCURRENCY` |
| | `OrderlyRowsAreToldOnce` | `[]AnnouncedOnce` |
| | `AnnouncementsArePaidFor` | `[]AnnouncedWithResult`, for orderly rows and others |
| `WebhookQueue_proofs` | `TypeCorrect`, `BatchIsOwned`, `ImplementsBoard` | `[]TypeOK`, `[]BatchOwned`, `BoardSpec` |
| `Notify_proofs` | `TypeCorrect` | `[]TypeOK` |
| | `HolderIsUnique` | `[]OneHolder` |
| | `SendsAreAccounted` | `[]SentOnce` |
| | `SentIsNeverFalse` | `[]SentIsTrue` |
| | `RecipientIsLimited` | `[]RecipientLimited` |
| `Typing_proofs` | `TypeCorrect`, `CapIsRespected`, `SessionsAreWatched` | `[]TypeOK`, `[]CapRespected`, `[]SessionsWatched` |
| | `NoGhosts` | `NoGhostTyping`, an action property |
| `MessageStore_proofs` | `TypeCorrect`, `HistoryIsKept`, `HandledStays`, `AnnouncedStored`, `ReactionsKeepOrder` | `[]TypeOK`, `[]EditsAreHistory`, `[]HandledIsStored`, `[]AnnouncedIsStored`, `ReactionsInOrder` |
| | `NothingIsTakenBack` | no step removes a row, a body, a tombstone or a reaction, or lowers `edit_count` |
| `Bot_proofs` | `ConnTypeCorrect`, `OneSocketLives` | `[]ConnTypeOK`, `[]OneLiveSocket` |
| | `ReceiptsAreNotForgotten`, `ReceiptsAreSentOnce`, `TimersAreDue` | `[]NothingForgotten`, `[]AckedOnce`, and that `flush()` is never entered twice nor for nothing |
| | `PairingIsKept`, `ImportBeforeRename`, `AuthTypeCorrect` | `PairingKept`, `RenamedIsImported`, `[]AuthTypeOK` |
| | `BotConnects`, `BotSendsReceipts`, `BotAuthenticates` | `BotSpec => ConnSpec`, `ReceiptsSpec`, `AuthSpec`: the whole implements its parts |
| | `BotTypeCorrect`, `BotIsSafe`, `BotImportsBeforeRename`, `BotKeepsPairing` | all safety properties of run `bot`, for `BotSpec` |

The only assumptions are those the modules name: `ConstantsAssumption`,
`ConnectionAssumption`, `ReceiptsAssumption` and `AuthAssumption`. They type the
constants and ask for limits of at least one where the configuration does; that of
`Typing` keeps session objects, callers and "no session" apart, that of `MessageStore`
says what an event carries. The type invariants of `MediaQueue` and `Notify` are
proved and no longer checked by a run.

**Attempts.** `attempts[m] <= MaxAttempts + reaps[m]` is not inductive: a stale
job may put a row back that another job has just used its last attempt on. The
invariant `Budget(m)` counts what can still be spent: the attempts so far, one
claim if the row waits, one if it is on its way to the loop, one for each job in
flight that may still give it back (`Spendable`), and the attempts at which a
future job could (`Unclaimed`). Their sum grows only when the reaper takes a
lease back.

**Concurrency.** The limit of a claim is computed from the free slots, and used
after two awaits. `SlotsKept` says that the slots are still free then, because
only the loop starts jobs (`HandedOver`, `StartJobs`). The proof is the same for
both queues that run jobs side by side.

**Wake-ups.** `NoLostWake` is about a sleeping loop, but what may go wrong happens
while it is awake: `Woken` follows the duty to look again from `notify()` through the
note, the reaper and the claim. It holds at the full pool only because each job
notifies when it ends, and that it really frees a slot needs `OneJobPerAttempt`: two
jobs of one row, one of them stale, never are the same element of `inFlight`.

**Stored.** `JobsStored` ties each job past its upload to the bucket; nothing
takes an object out of it.

**Ownership.** For both queues `Owned` adds to `SoleOwner` that the deadline of a claimed orderly
row has not passed, so that the reaper leaves it alone. From it follow the moves
of one step (`StepIsBoardMove`), and from these both `TerminalStaysFinal` and
`ImplementsBoard`.

**Announcements.** For an orderly row `Told` says that what was announced is done and
has no job left that could announce it again; ownership does the rest. For other rows
two jobs may both reach `announcing`, so `Budget(m)` counts: what was announced, one
for each job in flight, one for the claim on its way to the loop and one for the claim
the row waits for come to one more than the leases taken back. `ToldStored` says that
the result is written before the job gets to announce it.

**Webhooks.** Nothing but the loop gives a delivery back, and it awaits its batch
first; so `BatchOwned` is nearly inductive as it stands. What it lacks is `Fresh`: an
event has no rows until its listener runs the INSERT, which therefore never meets a
row that is claimed or settled. The refinement follows with a step of the board for
each delivery that a statement touches, the cascade of a deleted subscription being
a removal.

**Notify.** `HInv` strengthens `OneHolder` and `SentOnce` with the state of a
holder's row (`HoldersRow`: pending, or sent when only the answer of the UPDATE
was lost), with `Accounted` (a row that may be taken again has no send that was
not judged failed) and with `Witnessed`. The recipient limit is proved for one
JID at a time from the same `Moves`: sending a request on never adds to what is
counted or past the check without `PassCheck`, which takes note in `widest`.

**One socket.** `OneLiveSocket` is not inductive: a second handler in its back-off
would open a second socket later. `OneThread` says that no two sockets or handlers
are in use at once and that there is none before `start()` has made the first; then
every `connect()` is called by the only coroutine there is.

**Receipts.** `AckedOnce` needs `SentIsAcked`: a key in the LRU is not queued, and
what was sent is in the LRU. `NothingForgotten` needs nothing more, but that a timer
finds no flush under way does (`TimerIsDue`, `StoppedIsEmpty`).

**Pairings.** `OnePairing` says that writes in flight are of one pairing, the one in
memory while there is one, and that the row is empty or of that pairing; the load
waits for them. So a write that lands changes nothing that works, the import
finds an empty table at its INSERT, not only at its SELECT, and the wipe, which runs
with revoked credentials in memory, removes no others. `ImportInOrder` says that behind
their INSERT the credentials stay, since nobody else writes during a load, and that what
the loop over the slices has been through is in the table; at the rename that is all
that was read.

**The whole.** Each step of `BotNext` is a step of a part or leaves its variables
alone (`PartsStep`). For `AuthState` this needs that the credentials in memory during
a wipe are the ones that were refused (`WipesRevoked`), which follows from
`OneThread`: no load, pairing or other socket runs beside the wipe.

**Typing.** `CapRespected` and `SessionsWatched` are inductive once the map is known
to hold one session per chat at each of its steps: removal, eviction and insertion act
on a sequence, and what they keep of it is stated in lemmas about `RemoveAt`,
`SubSeq` and `Append` (`RemoveAtProperties` and those after it). The case that decides
is a late answer: the object it belongs to may have lost its place to another one of
its chat; it then arms a timer of its own and takes none from the other, or, at its
last failure, removes the other with its timer. `NoGhostTyping` needs `AvailableIfAsked`, since the coroutine
that waits for its presence to be announced is the one that no longer looks at the map.

**Edit history.** `EditsAreHistory` says nothing of the handlers, and the step that
could break it is the second half of one. `EditOf(e)` ties the row a handler has read
to the row as it is: its count is not ahead, and equal counts mean equal bodies. The
versions up to the row's count are taken (`Snapshots`), so the unique index refuses
every snapshot but that of the row as it is (`SnapshotIsOfThisRow`), and `OneWriter`
follows: between snapshot and UPDATE a message has one handler. A handler that dies
there leaves its version taken, which keeps all others out for good; the history stays
whole and later edits are lost, as `message_edit_lost` and the hazards say.

**What was handled and announced.** `Stored` says of a handler at any item that the
bodies of its batch and the deletions behind it are in the tables, and `Grows` (itself
the theorem `NothingIsTakenBack`) that no statement of another handler undoes them.
For this the items between two positions must be bodies, which `AdvanceFacts` has from
`Follows`: a relation, because that a first item exists would need induction.
`ReactionsInOrder` needs only that the item of a handler is one of its batch.

**Only model-checked.** All liveness (`EventuallyTerminal`, `EventuallySettled`,
`SessionsEnd`, `ComesBack`, `PairsAfresh`), which the prover does not reach, as it does
not reach ENABLED; and the four violations of section 5, each of which is a behaviour
and not a theorem. No recursive operator is used, and nothing here needs induction
over data.

## 5. Where the code and its texts disagree

Four runs show a disagreement (`findings` in `PROJECT.json`):

1. `processing_unannounced`: `docs/API.md:213` announces `message.processed` when
   the result is ready. `Bot.stop()` detaches the enqueuer first and lets the
   processing worker drain, so results of the drain are stored and never
   announced.
2. `webhook_fan_out`: an event is to reach all matching subscriptions
   (`src/webhooks/enqueue.ts:91`). A subscription deleted between SELECT and
   INSERT makes the foreign key refuse the rows of all.
3. `notify_twice`: "the same key never sends twice" (`src/api/routes/notify.ts:23`).
   A send followed by a failing poll or UPDATE is recorded as failed and repeated.
4. `message_edit_lost`: "the live row always reflects the latest version"
   (`docs/INGESTION.md:134`). Two edits that read the same `edit_count` collide on
   the version, and the later text is lost.

Others were met while modelling, are in the models, and show in how a property is
stated rather than in a run of their own:

- `docs/SCHEMA.md:281` draws `done`, `failed` and `skipped` as terminal. A job that
  outlives its lease may move a finished row (`TerminalIsFinal` is over orderly rows).
- `MEDIA_MAX_ATTEMPTS` is called a hard cap (`docs/OPERATIONS.md:72`); a reaped
  lease is not counted against it (`AttemptsBounded` has `reaps`).
- A processing job is created when a row becomes `done` (`docs/SCHEMA.md:337`); a
  crash or a failed INSERT in between leaves the row without one for good.
- The webhook worker "also wakes when a new delivery is enqueued"
  (`src/config.ts:130`), unless it is between its claim and its sleep.
- "Receipts for messages that arrive while the socket is down are dropped rather than
  replayed late" (`docs/OPERATIONS.md:374`; `read-receipts.ts:171`). `flush()` drops its
  queue only without a socket object, and `this.sock` is never cleared: what was queued
  before a close goes to the closed socket or out late on the next one.
- "Stop the WhatsApp socket — no new events from this point" (`bot.ts:194`). A
  `connect()` that awaits the version of WhatsApp Web when `stop()` runs opens a socket
  afterwards, which lives until the process exits.
- "reconnect failed; will retry on next close" (`bot.ts:398`): without a socket there is
  no next close (`Stranded`).
- "On transient drops the bot reconnects internally and never exits"
  (`docs/DEPLOYMENT.md:326`, `docs/OPERATIONS.md:176`): it exits after
  `RECONNECT_EXIT_AFTER_ATTEMPTS` and `_MS` (`GiveUp`).
- `auth.clear()` is to lead to a fresh pairing (`docs/ARCHITECTURE.md:240`). Where the
  imported directory could not be renamed, which is only logged (`auth.ts:307`), every
  start after a logout imports the revoked credentials again (`PairsAfresh` asks for
  `archivable`). Key rows written late may also survive the wipe, into the next pairing.
- "import it once" (`auth.ts:223`): after a crash between credentials and keys, or between
  two slices of keys, the next start finds credentials and skips the rest. Key files that
  cannot be read are skipped, and the directory is renamed all the same
  (`RenamedIsImported` is about the files that could be read).
- The import reverses the file names of the library by `-` to `:` (`auth.ts:274`), which
  also rewrites a `-` that was part of the id. Names of keys are not modelled.
- A 409 of notify is retriable "after a second" (`docs/NOTIFY.md:117`); a row left
  pending by a death or a lost claim answers 409 for good.

## 6. Not modelled, and why

- **Data**: SQL text, the projection of a message on its columns, payloads, bytes,
  JID syntax. No property here depends on them.
- **Delays**: intervals, back-off lengths, jitter. A timer fires at any time, so the
  properties hold for all settings.
- **Tables with one upsert per event** (contacts, groups, labels, settings,
  receipts): there is no control to check beyond the order of statements.
- **`POST /v1/send` and `/v1/messages/:seq/*`**: one call to the socket each.
- **Outside services**: WhatsApp, the bucket, the AI services and consumers appear
  as choices of their answers.
- **The cache of group metadata** of `src/bot.ts`, which is only handed to the library,
  and the delay of a reconnect, which is a timer like any other.
- **Single keys** of `wa.auth_keys`: the imported ones are told apart by their file; which
  of them are read, replaced or deleted afterwards is up to the library. Two writes of the credentials of one pairing are not told apart.
- **Writes outside an open socket and an accepted login**: a write that the library issues
  just after a close is covered by one in flight at the close, which may land as late.
  A login that WhatsApp is about to refuse is taken to write nothing new.
- **The key cache and rate limits of the API server**: a cached answer for a minute and
  a library.
- **Delivery statuses**: planned.

## 7. Plan

Done, in this order: `MediaQueue` with `JobBoard`, its proofs, `ProcessingQueue`,
`WebhookQueue`, `Notify` and its proofs, `Typing`, `MessageStore`.

`Connection`, `ReadReceipts`, `AuthState`, their composition `Bot`, and the proofs of
all four. Then the proofs of `ProcessingQueue`, `WebhookQueue`, `Typing` and
`MessageStore`, and of the wake-ups of `MediaQueue`.

Next:

1. Delivery statuses in `MessageStore`, and their races with the INSERT; the invariant
   of `MessageStore_proofs` is about other columns and should carry over.
2. `Pipeline`, which composes the media and processing queues and the enqueuer over one
   process and one `Bot.stop()`: what is ingested is announced.

## 8. Running

    tlc -config MediaOwned.cfg MCMediaQueue
    tlapm MediaQueue_proofs.tla

Each configuration belongs to the `MC` module of its component. Every run ends
within a few minutes on two workers. A definition whose comment begins with
"Mutant:" is not part of a model: it is a plausible bug, put in place of a
definition to see that a property notices.
