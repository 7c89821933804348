----------------------------- MODULE MessageStore -----------------------------
(***************************************************************************)
(* The message handlers of the chat store (src/store/index.ts and          *)
(* src/store/handlers/): ChatStore.bind() starts one for each event of the *)
(* socket and awaits none, so that the statements of several handlers      *)
(* interleave in wa.messages, wa.message_edits and wa.reactions.           *)
(*                                                                         *)
(* One chat is modelled, with its row in wa.chats (ensureChatsExist).      *)
(* A body stands for raw_message and the columns projected from it, its    *)
(* number for the order in which WhatsApp's user wrote it. Rows that       *)
(* protocol and reaction messages leave for themselves are left out, and   *)
(* so are delivery statuses and receipts. One actor reacts to each message.*)
(***************************************************************************)
EXTENDS Integers, Sequences

CONSTANTS
  Messages,  \* ids of messages
  Events,    \* deliveries by the socket; a replay is a delivery of its own
  Kind,      \* Kind[e]: what e is delivered as, see Kinds
  Payload,   \* Payload[e]: its items in order, see Items
  MaxFaults  \* bound: how many handlers may fail, or die with the process

Kinds == {"messages.upsert", "messages.update", "messages.delete", "clear", "messages.reaction"}
Items == [what : {"body", "edit"}, msg : Messages, body : Nat]
           \union [what : {"revoke", "delete"}, msg : Messages]
           \union [what : {"reaction"}, msg : Messages, emoji : {"none", "heart"}, ts : Nat]

\* What an event of a kind is made of; what else it may carry is left out.
Carries(kind) ==
  CASE kind = "messages.upsert"   -> {"body", "revoke", "reaction"}
    [] kind = "messages.update"   -> {"edit"}
    [] kind = "messages.delete"   -> {"delete"}
    [] kind = "clear"             -> {}
    [] kind = "messages.reaction" -> {"reaction"}

Looping == {"messages.update", "messages.delete", "messages.reaction"}

ASSUME ConstantsAssumption ==
  /\ MaxFaults \in Nat
  /\ Kind \in [Events -> Kinds]
  /\ Payload \in [Events -> Seq(Items)]
  /\ \A e \in Events : \A n \in DOMAIN Payload[e] : Payload[e][n].what \in Carries(Kind[e])
  /\ \A e \in Events : Kind[e] \in Looping => Payload[e] # <<>>

NoBody == -1

VARIABLES
  \* the tables
  row,        \* row[m] of wa.messages: is it there, its body, edit_count, deleted_at
  edits,      \* edits[m]: the versions of m in wa.message_edits
  reaction,   \* reaction[m]: its row in wa.reactions
  \* the handlers
  stage,      \* stage[e]: the statement that the handler of e is at
  pos,        \* pos[e]: the item it is at
  read,       \* read[e]: the row it read
  faults,
  \* history
  announced,  \* events on the bus
  versions    \* versions[m]: the bodies the row has had

tables == <<row, edits, reaction>>
vars   == <<row, edits, reaction, stage, pos, read, faults, announced, versions>>

NoRow      == [there |-> FALSE, body |-> NoBody, editCount |-> 0, deleted |-> FALSE]
NoReaction == [emoji |-> "none", ts |-> -1]
Working    == {"inserting", "applying", "selecting", "snapshotting", "overwriting"}

Bodies == UNION {{i.body : i \in {i \in {Payload[e][n] : n \in DOMAIN Payload[e]} :
                                    i.what \in {"body", "edit"}}} : e \in Events}
Rows   == [there : BOOLEAN, body : Bodies \union {NoBody}, editCount : Nat, deleted : BOOLEAN]

TypeOK ==
  /\ row \in [Messages -> Rows]
  /\ edits \in [Messages -> SUBSET [version : Nat \ {0}, body : Bodies]]
  /\ reaction \in [Messages -> [emoji : {"none", "heart"}, ts : Nat \union {-1}]]
  /\ stage \in [Events -> {"due", "done", "failed"} \union Working]
  /\ pos \in [Events -> Nat \ {0}]
  /\ \A e \in Events : pos[e] <= Len(Payload[e]) + 1
  /\ read \in [Events -> Rows]
  /\ faults \in 0..MaxFaults
  /\ announced \subseteq {"received", "edited", "deleted", "reacted"} \X Messages
  /\ versions \in [Messages -> Seq(Bodies)]
  /\ \A m \in Messages : ~row[m].there => row[m] = NoRow

Init ==
  /\ row = [m \in Messages |-> NoRow]
  /\ edits = [m \in Messages |-> {}]
  /\ reaction = [m \in Messages |-> NoReaction]
  /\ stage = [e \in Events |-> "due"]
  /\ pos = [e \in Events |-> 1]
  /\ read = [e \in Events |-> NoRow]
  /\ faults = 0
  /\ announced = {}
  /\ versions = [m \in Messages |-> <<>>]

-----------------------------------------------------------------------------
(* The course of a handler.                                                *)

Item(e) == Payload[e][pos[e]]
Batch(e) == {Payload[e][n] : n \in DOMAIN Payload[e]}
FirstOf(kind) ==
  CASE kind = "messages.upsert" -> "inserting"
    [] kind = "messages.update" -> "selecting"
    [] OTHER                    -> "applying"

End(e) == Len(Payload[e]) + 1

\* After n, the first item with a statement of its own in this handler, or the
\* end, is k.
Follows(e, n, k) ==
  /\ k \in (n + 1)..End(e)
  /\ \A j \in (n + 1)..(k - 1) : Payload[e][j].what = "body"
  /\ k \in DOMAIN Payload[e] => Payload[e][k].what # "body"

\* On to what follows n.
Advance(e, n, next) ==
  \E k \in 1..End(e) :
    /\ Follows(e, n, k)
    /\ pos' = [pos EXCEPT ![e] = k]
    /\ stage' = [stage EXCEPT ![e] = IF k = End(e) THEN "done" ELSE next]

\* upsertMessages() publishes message.received last, after all its writes.
Received(e, n) ==
  IF Follows(e, n, End(e)) THEN {<<"received", i.msg>> : i \in {i \in Batch(e) : i.what = "body"}}
                           ELSE {}

Arrive(e) ==
  /\ stage[e] = "due"
  \* WhatsApp delivers the edits of a message in order.
  /\ \A d \in Events : \A i \in Batch(e), j \in Batch(d) :
       i.what = "edit" /\ j.what = "edit" /\ i.msg = j.msg /\ j.body < i.body => stage[d] # "due"
  /\ stage' = [stage EXCEPT ![e] = FirstOf(Kind[e])]
  /\ UNCHANGED <<tables, pos, read, faults, announced, versions>>

\* A statement fails, or the process dies: run() logs it, nothing is retried.
HandlerFails(e) ==
  /\ stage[e] \in Working
  /\ faults < MaxFaults /\ faults' = faults + 1
  /\ stage' = [stage EXCEPT ![e] = "failed"]
  /\ UNCHANGED <<tables, pos, read, announced, versions>>

-----------------------------------------------------------------------------
(* upsertMessages()                                                        *)

BodyOf(e, m) == {i.body : i \in {i \in Batch(e) : i.what = "body" /\ i.msg = m}}

\* Mutant: ON CONFLICT DO NOTHING.
KeepRow(old, body) == IF old.there THEN old ELSE [NoRow EXCEPT !.there = TRUE, !.body = body]

\* ON CONFLICT DO UPDATE: a body is only filled in where there was none.
Backfill(old, body) == [old EXCEPT !.there = TRUE, !.body = IF @ = NoBody THEN body ELSE @]

\* One INSERT for all the bodies of the batch, one for the media among them, and
\* then whatever else the batch asks for.
InsertMessages(e) ==
  /\ stage[e] = "inserting"
  /\ \E body \in [Messages -> Bodies \union {NoBody}] :
       /\ \A m \in Messages :
            IF BodyOf(e, m) = {} THEN body[m] = NoBody ELSE body[m] \in BodyOf(e, m)
       /\ row' = [m \in Messages |-> IF body[m] = NoBody THEN row[m] ELSE Backfill(row[m], body[m])]
       /\ versions' = [m \in Messages |-> IF row'[m].body = row[m].body
                                            THEN versions[m] ELSE Append(versions[m], row'[m].body)]
  /\ \/ /\ Advance(e, 0, "applying")
        /\ announced' = announced \union Received(e, 0)
        /\ UNCHANGED faults
     \/ /\ faults < MaxFaults /\ faults' = faults + 1   \* the INSERT of the media rows fails
        /\ stage' = [stage EXCEPT ![e] = "failed"]
        /\ UNCHANGED <<pos, announced>>
  /\ UNCHANGED <<edits, reaction, read>>

\* Mutant: only a message that is there is marked.
DeleteExisting(m) ==
  row' = IF row[m].there THEN [row EXCEPT ![m].deleted = TRUE] ELSE row

\* A tombstone, over whatever is there: applyRevoke(), handleMessageDeletes().
Delete(m) == row' = [row EXCEPT ![m].there = TRUE, ![m].deleted = TRUE]

ApplyRevoke(e) ==
  /\ stage[e] = "applying" /\ Kind[e] = "messages.upsert" /\ Item(e).what = "revoke"
  /\ Delete(Item(e).msg)
  /\ announced' = announced \union {<<"deleted", Item(e).msg>>} \union Received(e, pos[e])
  /\ Advance(e, pos[e], "applying")
  /\ UNCHANGED <<edits, reaction, read, faults, versions>>

\* Mutant: the reaction handled last.
HandledLast(old, new) == new

\* The newer of two reactions, by the sender's clock.
Newer(old, new) == IF new.ts >= old.ts THEN new ELSE old

Reaction(i) == [emoji |-> i.emoji, ts |-> i.ts]

\* recordInlineReaction(). A reaction to a message without a row breaks the
\* foreign key and with it the rest of the batch; one whose actor is not known (it
\* may be the bot, before its own JIDs are) is skipped.
RecordInlineReaction(e) ==
  /\ stage[e] = "applying" /\ Kind[e] = "messages.upsert" /\ Item(e).what = "reaction"
  /\ \/ /\ row[Item(e).msg].there
        /\ reaction' = [reaction EXCEPT ![Item(e).msg] = Newer(@, Reaction(Item(e)))]
        /\ announced' = announced \union {<<"reacted", Item(e).msg>>} \union Received(e, pos[e])
        /\ Advance(e, pos[e], "applying")
     \/ /\ announced' = announced \union Received(e, pos[e])
        /\ Advance(e, pos[e], "applying")
        /\ UNCHANGED reaction
     \/ /\ ~row[Item(e).msg].there
        /\ stage' = [stage EXCEPT ![e] = "failed"]
        /\ UNCHANGED <<reaction, announced, pos>>
  /\ UNCHANGED <<row, edits, read, faults, versions>>

-----------------------------------------------------------------------------
(* handleReactions(), handleMessageDeletes()                               *)

\* The older path writes over what is there.
HandleReaction(e) ==
  /\ stage[e] = "applying" /\ Kind[e] = "messages.reaction"
  /\ \/ /\ row[Item(e).msg].there
        /\ reaction' = [reaction EXCEPT ![Item(e).msg] = Reaction(Item(e))]
        /\ announced' = announced \union {<<"reacted", Item(e).msg>>}
        /\ Advance(e, pos[e], "applying")
     \/ /\ ~row[Item(e).msg].there
        /\ stage' = [stage EXCEPT ![e] = "failed"]
        /\ UNCHANGED <<reaction, announced, pos>>
  /\ UNCHANGED <<row, edits, read, faults, versions>>

DeleteKey(e) ==
  /\ stage[e] = "applying" /\ Kind[e] = "messages.delete"
  /\ Delete(Item(e).msg)
  /\ announced' = announced \union {<<"deleted", Item(e).msg>>}
  /\ Advance(e, pos[e], "applying")
  /\ UNCHANGED <<edits, reaction, read, faults, versions>>

\* { jid, all: true }: the rows there are, without events.
ClearChat(e) ==
  /\ stage[e] = "applying" /\ Kind[e] = "clear"
  /\ row' = [m \in Messages |-> IF row[m].there THEN [row[m] EXCEPT !.deleted = TRUE] ELSE row[m]]
  /\ stage' = [stage EXCEPT ![e] = "done"]
  /\ UNCHANGED <<edits, reaction, pos, read, faults, announced, versions>>

-----------------------------------------------------------------------------
(* handleMessageUpdates(): read, snapshot, overwrite.                      *)

\* Only a change of a body that is there is an edit.
SelectExisting(e) ==
  LET old == row[Item(e).msg] IN
  /\ stage[e] = "selecting"
  /\ read' = [read EXCEPT ![e] = old]
  /\ \/ /\ old.body \notin {NoBody, Item(e).body}
        /\ stage' = [stage EXCEPT ![e] = "snapshotting"]
        /\ UNCHANGED pos
     \/ /\ old.body \in {NoBody, Item(e).body}
        /\ Advance(e, pos[e], "selecting")
  /\ UNCHANGED <<tables, faults, announced, versions>>

\* Mutant: the version counts the edits before this one.
InsertEditOffByOne(e) ==
  LET m == Item(e).msg IN
  /\ stage[e] = "snapshotting"
  /\ edits' = [edits EXCEPT ![m] =
                 @ \union {[version |-> read[e].editCount, body |-> read[e].body]}]
  /\ stage' = [stage EXCEPT ![e] = "overwriting"]
  /\ UNCHANGED <<row, reaction, pos, read, faults, announced, versions>>

\* Mutant: a version that exists is kept and the edit goes on.
InsertEditIfNew(e) ==
  LET m == Item(e).msg
      version == read[e].editCount + 1
  IN
  /\ stage[e] = "snapshotting"
  /\ edits' = IF \E v \in edits[m] : v.version = version THEN edits
              ELSE [edits EXCEPT ![m] = @ \union {[version |-> version, body |-> read[e].body]}]
  /\ stage' = [stage EXCEPT ![e] = "overwriting"]
  /\ UNCHANGED <<row, reaction, pos, read, faults, announced, versions>>

\* The unique index on the version refuses the second of two edits that read
\* the same row: its handler fails.
InsertEdit(e) ==
  LET m == Item(e).msg
      version == read[e].editCount + 1
      taken == \E v \in edits[m] : v.version = version
  IN
  /\ stage[e] = "snapshotting"
  /\ edits' = IF taken THEN edits
              ELSE [edits EXCEPT ![m] = @ \union {[version |-> version, body |-> read[e].body]}]
  /\ stage' = [stage EXCEPT ![e] = IF taken THEN "failed" ELSE "overwriting"]
  /\ UNCHANGED <<row, reaction, pos, read, faults, announced, versions>>

Overwrite(e) ==
  LET m == Item(e).msg IN
  /\ stage[e] = "overwriting"
  /\ row' = [row EXCEPT ![m].body = Item(e).body, ![m].editCount = read[e].editCount + 1]
  /\ versions' = [versions EXCEPT ![m] = Append(@, Item(e).body)]
  /\ announced' = announced \union {<<"edited", m>>}
  /\ Advance(e, pos[e], "selecting")
  /\ UNCHANGED <<edits, reaction, read, faults>>

-----------------------------------------------------------------------------
Handle(e) ==
  \/ InsertMessages(e) \/ ApplyRevoke(e) \/ RecordInlineReaction(e)
  \/ HandleReaction(e) \/ DeleteKey(e) \/ ClearChat(e)
  \/ SelectExisting(e) \/ InsertEdit(e) \/ Overwrite(e)

Next == \E e \in Events : Arrive(e) \/ Handle(e) \/ HandlerFails(e)

Spec == Init /\ [][Next]_vars

-----------------------------------------------------------------------------
(* Properties.                                                             *)

\* However edits, replays and failures overlap, no version of a message is
\* lost: wa.message_edits holds the bodies the row had before, each under its
\* number, and at most one snapshot runs ahead of edit_count.
EditsAreHistory ==
  \A m \in Messages :
    /\ row[m].body # NoBody => Len(versions[m]) = row[m].editCount + 1
    /\ {v.version : v \in edits[m]} \in {1..row[m].editCount, 1..(row[m].editCount + 1)}
    /\ \A v, w \in edits[m] : v.version = w.version => v = w
    /\ \A v \in edits[m] : v.body = versions[m][v.version]

\* In whatever order a message, its replays, its edits and its deletion are
\* handled, a row has its body once a handler that carried it is done, and is
\* deleted once a handler that deleted it is (INGESTION.md, "tombstones first").
HandledIsStored ==
  \A e \in Events : stage[e] = "done" =>
    \A i \in Batch(e) :
      /\ i.what = "body" => row[i.msg].body # NoBody
      /\ i.what \in {"revoke", "delete"} => row[i.msg].deleted

\* A consumer that hears of a message and asks the API for it finds what it was
\* told of: the body, the edit, the deletion or a reaction.
AnnouncedIsStored ==
  \A a \in announced :
    CASE a[1] = "received" -> row[a[2]].body # NoBody
      [] a[1] = "edited"   -> row[a[2]].editCount > 0
      [] a[1] = "deleted"  -> row[a[2]].deleted
      [] a[1] = "reacted"  -> row[a[2]].there /\ reaction[a[2]] # NoReaction

\* In whatever order the reactions of a person are handled, what is stored is one
\* that was sent, its emoji with its time, and an older one replaces a newer one only
\* by the event of its own, whose handler does not compare ("newer events overwrite
\* older ones", reactions.ts:114, is said of the other path).
ReactionsInOrder ==
  [][\A m \in Messages : reaction'[m] # reaction[m] =>
       \E e \in Events : \E i \in Batch(e) :
         /\ i.what = "reaction" /\ i.msg = m /\ reaction'[m] = Reaction(i)
         /\ i.ts < reaction[m].ts => Kind[e] = "messages.reaction"]_vars

\* INGESTION.md: "the live row always reflects the latest version": once all is
\* handled, an edit that found its message is in the live row, or a later one.
LiveRowIsLatest ==
  (\A e \in Events : stage[e] \in {"done", "failed"}) /\ faults = 0 =>
    \A e \in Events : \A i \in Batch(e) :
      i.what = "edit" /\ read[e].body # NoBody => row[i.msg].body >= i.body
===============================================================================
