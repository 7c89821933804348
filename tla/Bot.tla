---------------------------------- MODULE Bot ---------------------------------
(***************************************************************************)
(* The Bot of src/bot.ts: the life of its socket (Connection) with the     *)
(* credentials it logs in with (AuthState) and the read receipts that are  *)
(* sent over it (ReadReceipts). start() awaits the load, a socket opens    *)
(* only with credentials WhatsApp knows, its events write credentials and  *)
(* keys and offer messages, a logout runs clear(), stop() ends the         *)
(* receipts, and the end of the process ends what all of them had in       *)
(* memory.                                                                 *)
(***************************************************************************)
EXTENDS Connection, ReadReceipts, AuthState

botVars == <<connVars, receiptVars, authVars>>

BotInit == ConnInit /\ ReceiptsInit /\ AuthInit

Alone(A) == A /\ UNCHANGED <<receiptVars, authVars>>

\* Steps the process may not survive.
MayEnd(A) ==
  /\ A
  /\ IF starter # "down" /\ starter' = "down" THEN ForgetReceipts /\ ForgetAuth
     ELSE UNCHANGED <<receiptVars, authVars>>

StartStep ==
  \/ OpenStore /\ BeginLoad /\ UNCHANGED receiptVars
  \/ starter = "loading" /\ Load /\ UNCHANGED <<connVars, receiptVars>>
  \/ loading = "loaded" /\ Alone(LoadAuth)
  \/ Alone(Serve) \/ Alone(FirstSocket)

Online(s)  == creds # 0 /\ creds \notin revoked /\ Alone(Opened(s))
Dropped(s) == MayEnd(Closed(s, FALSE))
Refused(s) == creds \in revoked /\ Alone(Closed(s, TRUE))

\* The handler of a refusal: clear(), markLoggedOut(), process.exit(1).
Logout(s) ==
  \/ /\ UNCHANGED receiptVars
     /\ \/ Wipe(s, "wiping keys", "wiping creds") /\ ClearKeys
        \/ Wipe(s, "wiping keys", "marking") /\ ClearFails
        \/ Wipe(s, "wiping creds", "marking") /\ (ClearCreds \/ ClearFails)
  \/ MayEnd(MarkLoggedOut(s))

\* creds.update and the library's calls of keys.set: by an open socket, and by a login
\* that WhatsApp has accepted but whose 'open' has not arrived. A write issued just
\* after a close has the effect of one that was in flight when it came and lands late.
AuthWrite(s) ==
  /\ UNCHANGED <<connVars, receiptVars>>
  /\ \/ at[s] = "login" /\ creds \notin revoked /\ (Pair \/ SaveCreds \/ SetKeys)
     \/ at[s] = "open" /\ (SaveCreds \/ SetKeys)

\* messages.upsert
Upsert(s, m) ==
  /\ at[s] = "open" /\ Offer(m) /\ UNCHANGED <<connVars, authVars>>

StopStep ==
  \/ StopApi /\ StopReceipts /\ UNCHANGED authVars
  \/ Alone(EndSocket)
  \/ MayEnd(ShutdownOver)

Outside ==
  \/ (Unlink \/ WriteEnds) /\ UNCHANGED <<connVars, receiptVars>>
  \/ Alone(Signal) \/ Alone(OutageLasts) \/ Alone(Boot)
  \/ MayEnd(StartThrows) \/ MayEnd(ProcessDies)

BotNext ==
  \/ StartStep
  \/ \E s \in Sockets :
       \/ Online(s) \/ Dropped(s) \/ Refused(s)
       \/ Alone(Reconnect(s)) \/ Logout(s)
       \/ AuthWrite(s)
       \/ \E m \in Messages : Upsert(s, m)
  \/ FlushStep /\ UNCHANGED <<connVars, authVars>>
  \/ StopStep
  \/ Outside

BotSpec == BotInit /\ [][BotNext]_botVars

\* What runs goes on, timers fire, statements and logins end, systemd restarts the
\* process; and a client with revoked credentials is told so in the end, however
\* often its login fails for other reasons first.
BotFairness ==
  /\ WF_botVars(StartStep)
  /\ WF_botVars(\E s \in Sockets : Online(s) \/ Dropped(s) \/ Refused(s))
  /\ SF_botVars(\E s \in Sockets : Refused(s))
  /\ WF_botVars(\E s \in Sockets : Alone(BackoffOver(s)) \/ Alone(NextSocket(s)))
  /\ WF_botVars(\E s \in Sockets : Logout(s))
  /\ WF_botVars(Alone(OutageLasts))
  /\ WF_botVars(StopStep)
  /\ WF_botVars(Alone(Boot))
  /\ WF_botVars(WriteEnds /\ UNCHANGED <<connVars, receiptVars>>)

BotFairSpec == BotSpec /\ BotFairness

-----------------------------------------------------------------------------
(* Properties.                                                             *)

BotTypeOK == ConnTypeOK /\ ReceiptsTypeOK /\ AuthTypeOK

\* "called on permanent `loggedOut` so the next start triggers a fresh QR pair": a bot
\* whose pairing was unlinked comes to offer a new one, although a late write may put
\* the credentials back after the wipe, a statement of the wipe may fail, and an old
\* directory may bring revoked ones once more. Where the directory cannot be renamed,
\* which the code only logs, it brings them every time.
PairsAfresh ==
  archivable /\ creds \in revoked ~>
    \/ loading = "loaded" /\ creds \notin revoked
    \/ Stranded /\ throws > 0
===============================================================================
