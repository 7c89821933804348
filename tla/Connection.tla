------------------------------ MODULE Connection ------------------------------
(***************************************************************************)
(* The life of the WhatsApp socket in src/bot.ts and src/index.ts: start() *)
(* and connect(), the reconnect chain of onConnectionUpdate(), its two     *)
(* exits, stop(), and the service manager that starts the process again.   *)
(*                                                                         *)
(* The handler of a close goes on as a coroutine that may end in a new     *)
(* socket; at[s] follows a socket and then that coroutine. A socket object *)
(* whose handler has returned is forgotten, and its name is used again.    *)
(***************************************************************************)
EXTENDS Naturals, FiniteSets

CONSTANTS
  Sockets,    \* names for socket objects
  ExitAfter,  \* RECONNECT_EXIT_AFTER_ATTEMPTS
  MaxDeaths,  \* bound: how often the process is killed or told to stop
  MaxThrows   \* bound: how often a step of start() or a connect() throws

ASSUME ConnectionAssumption ==
  /\ IsFiniteSet(Sockets) /\ "none" \notin Sockets
  /\ ExitAfter \in Nat \ {0}
  /\ MaxDeaths \in Nat /\ MaxThrows \in Nat

VARIABLES
  starter,         \* where start() is suspended; "down" without a process
  at,              \* at[s]: what becomes of socket s
  sock,            \* this.sock
  connectionOpen,  \* this.connectionOpen
  attempt,         \* this.reconnectAttempt; from ExitAfter on all counts are one
  outage,          \* this.disconnectedSince: null, or up to or over five minutes ago
  stopping,        \* where stop() is suspended; "no" while shuttingDown is false
  deaths, throws

connVars == <<starter, at, sock, connectionOpen, attempt, outage, stopping, deaths, throws>>
connBounds == <<deaths, throws>>

Starting == {"opening", "loading", "serving", "connecting"}
Wiping   == {"wiping keys", "wiping creds", "marking"}
Live     == {s \in Sockets : at[s] \in {"login", "open"}}
Idle     == [s \in Sockets |-> "unused"]

ConnTypeOK ==
  /\ starter \in Starting \union {"down", "done", "failed"}
  /\ at \in [Sockets -> {"unused", "login", "open", "backoff", "connecting"} \union Wiping]
  /\ sock \in Sockets \union {"none"}
  /\ connectionOpen \in BOOLEAN
  /\ attempt \in 0..ExitAfter
  /\ outage \in {"none", "short", "long"}
  /\ stopping \in {"no", "api", "presence", "workers"}
  /\ deaths \in 0..MaxDeaths /\ throws \in 0..MaxThrows

\* The fields of a Bot that has just been constructed.
ConnInit ==
  /\ starter = "opening"
  /\ at = Idle /\ sock = "none" /\ connectionOpen = FALSE
  /\ attempt = 0 /\ outage = "short" /\ stopping = "no"
  /\ deaths = 0 /\ throws = 0

-----------------------------------------------------------------------------
(* start() and connect()                                                   *)

Starter(from, to) ==
  /\ starter = from /\ starter' = to
  /\ UNCHANGED <<at, sock, connectionOpen, attempt, outage, stopping, connBounds>>

OpenStore == Starter("opening", "loading")
LoadAuth  == Starter("loading", "serving")
Serve     == Starter("serving", "connecting")

\* connect() after its only await, without another look at shuttingDown: the new
\* socket replaces this.sock and logs in, for start() or the close handler of s.
Attach(t, rest) ==
  /\ at[t] = "unused"
  /\ at' = [rest EXCEPT ![t] = "login"]
  /\ sock' = t
  /\ UNCHANGED <<connectionOpen, attempt, outage, stopping, connBounds>>

FirstSocket ==
  /\ starter = "connecting" /\ starter' = "done"
  /\ \E t \in Sockets : Attach(t, at)

NextSocket(s) ==
  /\ at[s] = "connecting"
  /\ \E t \in Sockets : Attach(t, [at EXCEPT ![s] = "unused"])
  /\ UNCHANGED starter

Throw == throws < MaxThrows /\ throws' = throws + 1 /\ UNCHANGED deaths

\* The process is gone, and with it all it had in memory.
Exit ==
  /\ starter' = "down"
  /\ at' = Idle /\ sock' = "none" /\ connectionOpen' = FALSE
  /\ attempt' = 0 /\ outage' = "short" /\ stopping' = "no"

\* A step of start() throws, and uncaughtException is only logged: before there
\* are workers nothing keeps the process up; afterwards they do.
StartThrows ==
  /\ Throw
  /\ \/ starter \in {"opening", "loading"} /\ Exit
     \/ /\ starter \in {"serving", "connecting"} /\ starter' = "failed"
        /\ UNCHANGED <<at, sock, connectionOpen, attempt, outage, stopping>>

\* connect() throws in the close handler, which logs it and returns.
ConnectThrows(s) ==
  /\ at[s] = "connecting" /\ Throw
  /\ at' = [at EXCEPT ![s] = "unused"]
  /\ UNCHANGED <<starter, sock, connectionOpen, attempt, outage, stopping>>

-----------------------------------------------------------------------------
(* onConnectionUpdate()                                                    *)

Opened(s) ==
  /\ at[s] = "login" /\ at' = [at EXCEPT ![s] = "open"]
  /\ connectionOpen' = TRUE /\ attempt' = 0 /\ outage' = "none"
  /\ UNCHANGED <<starter, sock, stopping, connBounds>>

\* Mutant: getSock() is not told.
NoteOutage ==
  /\ outage' = IF outage = "none" THEN "short" ELSE outage
  /\ UNCHANGED connectionOpen

\* What every close does first.
NoteClose ==
  /\ connectionOpen' = FALSE
  /\ outage' = IF outage = "none" THEN "short" ELSE outage

\* The handler of a close returns at once, or goes on in a coroutine.
Handler(s, next) ==
  /\ NoteClose
  /\ at' = [at EXCEPT ![s] = next]
  /\ UNCHANGED <<starter, sock, stopping>>

\* Mutant: the bot never exits by itself.
NeverGiveUp == FALSE

\* Too many attempts without an open connection, for too long.
GiveUp == attempt >= ExitAfter /\ outage = "long"

Counted(n) == IF n < ExitAfter THEN n + 1 ELSE n

Closed(s, loggedOut) ==
  /\ s \in Live
  /\ \/ stopping # "no" /\ Handler(s, "unused") /\ UNCHANGED attempt
     \/ stopping = "no" /\ loggedOut /\ Handler(s, "wiping keys") /\ UNCHANGED attempt
     \/ stopping = "no" /\ ~loggedOut /\ GiveUp /\ Exit
     \/ /\ stopping = "no" /\ ~loggedOut /\ ~GiveUp
        /\ Handler(s, "backoff") /\ attempt' = Counted(attempt)
  /\ UNCHANGED connBounds

\* The delay is over; stop() may have come in the meantime.
BackoffOver(s) ==
  /\ at[s] = "backoff"
  /\ at' = [at EXCEPT ![s] = IF stopping = "no" THEN "connecting" ELSE "unused"]
  /\ UNCHANGED <<starter, sock, connectionOpen, attempt, outage, stopping, connBounds>>

\* clear() and markLoggedOut(), statement by statement: a failure of the first
\* skips the second, and what fails is only logged.
Wipe(s, from, to) ==
  /\ at[s] = from /\ at' = [at EXCEPT ![s] = to]
  /\ UNCHANGED <<starter, sock, connectionOpen, attempt, outage, stopping, connBounds>>

MarkLoggedOut(s) ==
  /\ at[s] = "marking" /\ Exit /\ UNCHANGED connBounds

OutageLasts ==
  /\ outage = "short" /\ starter # "down" /\ outage' = "long"
  /\ UNCHANGED <<starter, at, sock, connectionOpen, attempt, stopping, connBounds>>

-----------------------------------------------------------------------------
(* stop(), the end of the process and the next one                         *)

Death == deaths < MaxDeaths /\ deaths' = deaths + 1 /\ UNCHANGED throws

Signal ==
  /\ starter # "down" /\ stopping = "no" /\ stopping' = "api" /\ Death
  /\ UNCHANGED <<starter, at, sock, connectionOpen, attempt, outage>>

StopApi ==
  /\ stopping = "api" /\ stopping' = "presence"
  /\ UNCHANGED <<starter, at, sock, connectionOpen, attempt, outage, connBounds>>

\* The indicators are closed, then sock.end(): a live socket closes under it.
EndSocket ==
  /\ stopping = "presence" /\ stopping' = "workers"
  /\ \/ sock \in Live /\ NoteClose /\ at' = [at EXCEPT ![sock] = "unused"]
     \/ sock \notin Live /\ UNCHANGED <<at, connectionOpen, outage>>
  /\ UNCHANGED <<starter, sock, attempt, connBounds>>

\* The workers are stopped, a second signal comes, or the 25 s of main() are over.
ShutdownOver == stopping # "no" /\ Exit /\ UNCHANGED connBounds

ProcessDies == starter # "down" /\ Death /\ Exit

\* Restart=always.
Boot == Starter("down", "opening")

-----------------------------------------------------------------------------
\* The steps of the handler of s and of the chain it starts.
Reconnect(s) ==
  \/ BackoffOver(s) \/ NextSocket(s) \/ ConnectThrows(s)

LogoutStep(s) ==
  \/ Wipe(s, "wiping keys", "wiping creds") \/ Wipe(s, "wiping keys", "marking")
  \/ Wipe(s, "wiping creds", "marking")
  \/ MarkLoggedOut(s)

ConnNext ==
  \/ OpenStore \/ LoadAuth \/ Serve \/ FirstSocket \/ StartThrows
  \/ \E s \in Sockets :
       \/ Opened(s) \/ Closed(s, TRUE) \/ Closed(s, FALSE)
       \/ Reconnect(s) \/ LogoutStep(s)
  \/ OutageLasts
  \/ Signal \/ StopApi \/ EndSocket \/ ShutdownOver \/ ProcessDies \/ Boot

ConnSpec == ConnInit /\ [][ConnNext]_connVars

-----------------------------------------------------------------------------
(* Properties.                                                             *)

\* However often connections close, whatever stop(), throws and crashes come in
\* between: at most one socket is live, it is this.sock, and getSock() hands it
\* out (connectionOpen) exactly while it is open. A second close handler, or one
\* that goes on beside start(), would break it.
OneLiveSocket ==
  /\ \A s \in Live : s = sock
  /\ connectionOpen <=> (sock # "none" /\ at[sock] = "open")

\* Nothing in the process will make another socket.
Stranded ==
  /\ starter \in {"done", "failed"} /\ stopping = "no"
  /\ \A s \in Sockets : at[s] = "unused"

\* An outage ends: the bot is open again, its process exits (after the logout,
\* the attempts of RECONNECT_EXIT_AFTER_*, or stop()), or a connect() threw,
\* after which there is "no next close" to retry on.
ComesBack ==
  ~connectionOpen ~> connectionOpen \/ starter = "down" \/ (Stranded /\ throws > 0)
===============================================================================
