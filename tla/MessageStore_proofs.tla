-------------------------- MODULE MessageStore_proofs --------------------------
(***************************************************************************)
(* Proofs about MessageStore: the safety properties of its run, for every  *)
(* set of messages and of deliveries and every number of faults.           *)
(*                                                                         *)
(* The history of a message and the edits under way are tied together: a   *)
(* handler that read the row holds a count that the row has not fallen     *)
(* below, and the versions up to the row's count are taken, so the unique  *)
(* index lets only the handler through that read the row as it is.         *)
(***************************************************************************)
EXTENDS MessageStore, TLAPS

-----------------------------------------------------------------------------
(* The inductive invariant.                                                *)

\* A row without a body has no history, and one with a body has had as many
\* bodies as edits, and the first.
History ==
  \A m \in Messages :
    IF row[m].body = NoBody
      THEN versions[m] = <<>> /\ edits[m] = {} /\ row[m].editCount = 0
      ELSE /\ Len(versions[m]) = row[m].editCount + 1
           /\ versions[m][row[m].editCount + 1] = row[m].body

\* The snapshots of a message: all its past versions and at most the present one.
Snapshots ==
  \A m \in Messages :
    /\ \A v \in edits[m] : v.version \in 1..(row[m].editCount + 1) /\ v.body = versions[m][v.version]
    /\ \A k \in 1..row[m].editCount : \E v \in edits[m] : v.version = k
    /\ \A v, w \in edits[m] : v.version = w.version => v = w

\* Where the handler of e can be.
PlaceOf(e) ==
  /\ stage[e] = "inserting" => Kind[e] = "messages.upsert"
  /\ stage[e] \in {"selecting", "snapshotting", "overwriting"} =>
       Kind[e] = "messages.update" /\ pos[e] \in DOMAIN Payload[e]
  /\ stage[e] = "applying" =>
       /\ Kind[e] # "messages.update"
       /\ Kind[e] # "clear" => pos[e] \in DOMAIN Payload[e]
  /\ stage[e] = "done" /\ Kind[e] # "clear" => pos[e] = End(e)
  /\ stage[e] \in {"due", "inserting"} => pos[e] = 1

Places == \A e \in Events : PlaceOf(e)

\* A handler between its SELECT and its UPDATE: the row may have moved on since,
\* unless the handler has its snapshot.
EditOf(e) ==
  stage[e] \in {"snapshotting", "overwriting"} =>
    LET m == Item(e).msg IN
    /\ row[m].body # NoBody
    /\ read[e].editCount <= row[m].editCount
    /\ read[e].editCount = row[m].editCount => read[e].body = row[m].body
    /\ stage[e] = "overwriting" =>
         /\ read[e].editCount = row[m].editCount
         /\ \E v \in edits[m] : v.version = read[e].editCount + 1

EditsUnderWay == \A e \in Events : EditOf(e)

\* One handler at a time is past the snapshot of a message.
OneWriter ==
  \A e, d \in Events :
    stage[e] = "overwriting" /\ stage[d] = "overwriting" /\ Item(e).msg = Item(d).msg => e = d

\* The bodies of a batch are stored before the rest of it is looked at, and a
\* handler leaves no deletion behind it undone.
StoredOf(e) ==
  /\ Kind[e] = "messages.upsert" /\ stage[e] \in {"applying", "done"} =>
       \A n \in DOMAIN Payload[e] :
         Payload[e][n].what = "body" => row[Payload[e][n].msg].body # NoBody
  /\ \A n \in DOMAIN Payload[e] :
       n < pos[e] /\ Payload[e][n].what \in {"revoke", "delete"} => row[Payload[e][n].msg].deleted

Stored == \A e \in Events : StoredOf(e)

Inv == /\ TypeOK /\ History /\ Snapshots /\ Places /\ EditsUnderWay /\ OneWriter
       /\ Stored /\ AnnouncedIsStored

-----------------------------------------------------------------------------
(* What steps have in common.                                              *)

\* A row is never removed, loses neither its body nor its tombstone, and its
\* edit_count does not fall.
RowGrows(m) ==
  /\ row[m].there => row'[m].there
  /\ row[m].deleted => row'[m].deleted
  /\ row[m].body # NoBody => row'[m].body # NoBody
  /\ row[m].editCount <= row'[m].editCount

\* A reaction is replaced, never removed.
ReactionStays(m) == reaction[m] # NoReaction => reaction'[m] # NoReaction

Grows == \A m \in Messages : RowGrows(m) /\ ReactionStays(m)

\* The step leaves the handlers of the other events where they are.
Apart(e) ==
  \A d \in Events \ {e} : stage'[d] = stage[d] /\ pos'[d] = pos[d] /\ read'[d] = read[d]

\* The step changes no body that is there, and counts no edit.
Settled ==
  \A m \in Messages : /\ row'[m].editCount = row[m].editCount
                      /\ row[m].body # NoBody => row'[m].body = row[m].body

\* The step marks rows, at most.
Marks ==
  /\ row' \in [Messages -> Rows]
  /\ \A m \in Messages :
       /\ row'[m].body = row[m].body /\ row'[m].editCount = row[m].editCount
       /\ row[m].there => row'[m].there
       /\ row[m].deleted => row'[m].deleted
       /\ ~row'[m].there => row'[m] = NoRow

LEMMA ItemFacts ==
  ASSUME NEW e \in Events, NEW n \in DOMAIN Payload[e]
  PROVE  /\ Payload[e][n] \in Items /\ Payload[e][n].msg \in Messages
         /\ Payload[e][n].what \in Carries(Kind[e])
         /\ Payload[e][n] \in Batch(e)
         /\ Payload[e][n].what \in {"body", "edit"} =>
              Payload[e][n].body \in Bodies /\ Payload[e][n].body \in Nat
         /\ Payload[e][n].what = "reaction" =>
              Payload[e][n].emoji \in {"none", "heart"} /\ Payload[e][n].ts \in Nat
<1>1. Payload[e][n] \in Items /\ Payload[e][n].what \in Carries(Kind[e])
  BY ConstantsAssumption
<1>2. Payload[e][n].msg \in Messages
  BY <1>1 DEF Items
<1>3. Payload[e][n] \in Batch(e)
  BY DEF Batch
<1>4. Payload[e][n].what \in {"body", "edit"} =>
        Payload[e][n].body \in Bodies /\ Payload[e][n].body \in Nat
  <2>1. Payload[e][n].what \in {"body", "edit"} => Payload[e][n].body \in Nat
    BY <1>1 DEF Items
  <2>2. Payload[e][n].what \in {"body", "edit"} => Payload[e][n].body \in Bodies
    BY DEF Bodies
  <2>. QED  BY <2>1, <2>2
<1>5. Payload[e][n].what = "reaction" =>
        Payload[e][n].emoji \in {"none", "heart"} /\ Payload[e][n].ts \in Nat
  BY <1>1 DEF Items
<1>. QED  BY <1>1, <1>2, <1>3, <1>4, <1>5

LEMMA BodiesAreNumbers == Bodies \subseteq Nat
<1>. SUFFICES ASSUME NEW b \in Bodies PROVE b \in Nat
  OBVIOUS
<1>1. PICK e \in Events : \E n \in DOMAIN Payload[e] :
        Payload[e][n].what \in {"body", "edit"} /\ b = Payload[e][n].body
  BY DEF Bodies
<1>. QED  BY <1>1, ItemFacts

\* Advance() goes on by one item at least, past items that are bodies.
LEMMA AdvanceFacts ==
  ASSUME TypeOK, NEW e \in Events, NEW n \in Nat, NEW next \in Working,
         Advance(e, n, next)
  PROVE  /\ stage' \in [Events -> {"due", "done", "failed"} \union Working]
         /\ pos' \in [Events -> Nat \ {0}]
         /\ \A d \in Events : pos'[d] <= Len(Payload[d]) + 1
         /\ \A d \in Events \ {e} : stage'[d] = stage[d] /\ pos'[d] = pos[d]
         /\ pos'[e] \in (n + 1)..End(e)
         /\ \A j \in DOMAIN Payload[e] : n < j /\ j < pos'[e] => Payload[e][j].what = "body"
         /\ \/ stage'[e] = "done" /\ pos'[e] = End(e)
            \/ stage'[e] = next /\ pos'[e] \in DOMAIN Payload[e] /\ Payload[e][pos'[e]].what # "body"
<1>1. PICK k \in 1..End(e) :
        /\ Follows(e, n, k)
        /\ pos' = [pos EXCEPT ![e] = k]
        /\ stage' = [stage EXCEPT ![e] = IF k = End(e) THEN "done" ELSE next]
  BY DEF Advance
<1>2. Len(Payload[e]) \in Nat /\ DOMAIN Payload[e] = 1..Len(Payload[e])
  BY ConstantsAssumption
<1>3. k \in Nat \ {0} /\ k <= Len(Payload[e]) + 1
  BY <1>2 DEF End
<1>4. pos'[e] = k /\ stage'[e] = IF k = End(e) THEN "done" ELSE next
  BY <1>1 DEF TypeOK
<1>5. stage' \in [Events -> {"due", "done", "failed"} \union Working]
  BY <1>1 DEF TypeOK
<1>6. pos' \in [Events -> Nat \ {0}] /\ \A d \in Events : pos'[d] <= Len(Payload[d]) + 1
  BY <1>1, <1>3 DEF TypeOK
<1>7. \A d \in Events \ {e} : stage'[d] = stage[d] /\ pos'[d] = pos[d]
  BY <1>1 DEF TypeOK
<1>8. pos'[e] \in (n + 1)..End(e)
  BY <1>1, <1>4 DEF Follows
<1>9. \A j \in DOMAIN Payload[e] : n < j /\ j < pos'[e] => Payload[e][j].what = "body"
  BY <1>1, <1>2, <1>3, <1>4 DEF Follows
<1>10. k # End(e) => k \in DOMAIN Payload[e]
  BY <1>2, <1>3 DEF End
<1>. QED  BY <1>1, <1>4, <1>5, <1>6, <1>7, <1>8, <1>9, <1>10 DEF Follows

\* The handlers of other events are as before.
LEMMA OthersStay ==
  ASSUME Inv, Grows, NEW e \in Events, Apart(e), PlaceOf(e)', StoredOf(e)'
  PROVE  Places' /\ Stored'
<1>1. ASSUME NEW d \in Events, d # e PROVE PlaceOf(d)' /\ StoredOf(d)'
  <2>1. stage'[d] = stage[d] /\ pos'[d] = pos[d]
    BY <1>1 DEF Apart
  <2>2. PlaceOf(d) /\ StoredOf(d)
    BY DEF Inv, Places, Stored
  <2>3. PlaceOf(d)'
    BY <2>1, <2>2 DEF PlaceOf
  <2>4. ASSUME NEW n \in DOMAIN Payload[d] PROVE RowGrows(Payload[d][n].msg)
    BY ItemFacts DEF Grows
  <2>5. StoredOf(d)'
    BY <2>1, <2>2, <2>4 DEF StoredOf, RowGrows
  <2>. QED  BY <2>3, <2>5
<1>. QED  BY <1>1 DEF Places, Stored

\* The edits under way are not disturbed by what leaves bodies, counts and
\* snapshots alone.
LEMMA EditorsStay ==
  ASSUME Inv, Settled, edits' = edits, NEW e \in Events, Apart(e),
         stage'[e] \notin {"snapshotting", "overwriting"}
  PROVE  EditsUnderWay' /\ OneWriter'
<1>1. ASSUME NEW d \in Events, stage'[d] \in {"snapshotting", "overwriting"}
      PROVE  EditOf(d)'
  <2>1. stage'[d] = stage[d] /\ pos'[d] = pos[d] /\ read'[d] = read[d]
    BY <1>1 DEF Apart
  <2>2. EditOf(d) /\ PlaceOf(d)
    BY DEF Inv, EditsUnderWay, Places
  <2>3. Item(d).msg \in Messages /\ Item(d)' = Item(d)
    BY <1>1, <2>1, <2>2, ItemFacts DEF Item, PlaceOf
  <2>4. Item(d)'.msg = Item(d).msg
    BY <2>3
  <2>. QED  BY <1>1, <2>1, <2>2, <2>3, <2>4 DEF EditOf, Settled, NoBody
<1>2. EditsUnderWay'
  BY <1>1 DEF EditsUnderWay, EditOf
<1>3. ASSUME NEW d \in Events, NEW f \in Events,
             stage'[d] = "overwriting", stage'[f] = "overwriting", Item(d)'.msg = Item(f)'.msg
      PROVE  d = f
  <2>1. stage[d] = "overwriting" /\ stage[f] = "overwriting" /\ pos'[d] = pos[d] /\ pos'[f] = pos[f]
    BY <1>3 DEF Apart
  <2>2. Item(d).msg = Item(f).msg
    BY <1>3, <2>1 DEF Item
  <2>. QED  BY <2>1, <2>2 DEF Inv, OneWriter
<1>4. OneWriter'
  BY <1>3 DEF OneWriter
<1>. QED  BY <1>2, <1>4

LEMMA HistoryStays ==
  ASSUME Inv, Settled, \A m \in Messages : row'[m].body = row[m].body,
         edits' = edits, versions' = versions
  PROVE  History' /\ Snapshots'
BY DEF Inv, History, Snapshots, Settled

\* What was announced can still be read.
LEMMA AnnouncedStays ==
  ASSUME Inv, Grows, row' \in [Messages -> Rows],
         \A a \in announced' : a \in announced \/
           /\ a[2] \in Messages
           /\ \/ a[1] = "received" /\ row'[a[2]].body # NoBody
              \/ a[1] = "edited" /\ row'[a[2]].editCount > 0
              \/ a[1] = "deleted" /\ row'[a[2]].deleted
              \/ a[1] = "reacted" /\ row'[a[2]].there /\ reaction'[a[2]] # NoReaction
  PROVE  AnnouncedIsStored'
<1>. SUFFICES ASSUME NEW a \in announced'
     PROVE CASE a[1] = "received" -> row'[a[2]].body # NoBody
             [] a[1] = "edited"   -> row'[a[2]].editCount > 0
             [] a[1] = "deleted"  -> row'[a[2]].deleted
             [] a[1] = "reacted"  -> row'[a[2]].there /\ reaction'[a[2]] # NoReaction
  BY DEF AnnouncedIsStored, NoReaction, NoBody
<1>1. CASE a \in announced
  <2>1. a[2] \in Messages /\ a[1] \in {"received", "edited", "deleted", "reacted"}
    BY <1>1 DEF Inv, TypeOK
  <2>2. RowGrows(a[2]) /\ ReactionStays(a[2])
    BY <2>1 DEF Grows
  <2>3. row[a[2]].editCount \in Nat /\ row'[a[2]].editCount \in Nat
    BY <2>1 DEF Inv, TypeOK, Rows
  <2>4. CASE a[1] = "received"
    BY <1>1, <2>2, <2>4 DEF Inv, AnnouncedIsStored, RowGrows
  <2>5. CASE a[1] = "edited"
    <3>1. row[a[2]].editCount > 0
      BY <1>1, <2>5 DEF Inv, AnnouncedIsStored
    <3>2. row'[a[2]].editCount > 0
      BY <2>2, <2>3, <3>1 DEF RowGrows
    <3>. QED  BY <2>5, <3>2
  <2>6. CASE a[1] = "deleted"
    BY <1>1, <2>2, <2>6 DEF Inv, AnnouncedIsStored, RowGrows
  <2>7. CASE a[1] = "reacted"
    BY <1>1, <2>2, <2>7 DEF Inv, AnnouncedIsStored, RowGrows, ReactionStays
  <2>. QED  BY <2>1, <2>4, <2>5, <2>6, <2>7
<1>2. CASE a \notin announced
  BY <1>2
<1>. QED  BY <1>1, <1>2

\* A handler that goes on is at the end or at an item of its kind.
LEMMA AdvancePlaces ==
  ASSUME Inv, NEW e \in Events, NEW n \in Nat, NEW next \in {"applying", "selecting"},
         Advance(e, n, next), Kind[e] = "messages.update" <=> next = "selecting"
  PROVE  PlaceOf(e)'
<1>1. next \in Working
  BY DEF Working
<1>2. \/ stage'[e] = "done" /\ pos'[e] = End(e)
      \/ stage'[e] = next /\ pos'[e] \in DOMAIN Payload[e]
  BY <1>1, AdvanceFacts DEF Inv
<1>. QED  BY <1>2 DEF PlaceOf, End

\* A handler that goes on past a deletion has stored it.
LEMMA AdvanceStores ==
  ASSUME Inv, Grows, NEW e \in Events, NEW next \in Working,
         pos[e] \in DOMAIN Payload[e], Advance(e, pos[e], next),
         Item(e).what \in {"revoke", "delete"} => row'[Item(e).msg].deleted,
         stage[e] \notin {"due", "inserting"}, next # "inserting",
         Kind[e] # "messages.upsert" \/ stage[e] = "applying"
  PROVE  StoredOf(e)'
<1>1. pos'[e] \in (pos[e] + 1)..End(e)
      /\ \A j \in DOMAIN Payload[e] : pos[e] < j /\ j < pos'[e] => Payload[e][j].what = "body"
  BY AdvanceFacts DEF Inv, TypeOK
<1>2. StoredOf(e)
  BY DEF Inv, Stored
<1>3. DOMAIN Payload[e] = 1..Len(Payload[e]) /\ Len(Payload[e]) \in Nat
  BY ConstantsAssumption
<1>4. ASSUME NEW n \in DOMAIN Payload[e] PROVE RowGrows(Payload[e][n].msg)
  BY ItemFacts DEF Grows
<1>5. ASSUME NEW n \in DOMAIN Payload[e], n < pos'[e], Payload[e][n].what \in {"revoke", "delete"}
      PROVE  row'[Payload[e][n].msg].deleted
  <2>1. CASE n < pos[e]
    BY <1>2, <1>4, <1>5, <2>1 DEF StoredOf, RowGrows
  <2>2. CASE n = pos[e]
    BY <1>5, <2>2 DEF Item
  <2>3. CASE n > pos[e]
    BY <1>1, <1>5, <2>3
  <2>. QED  BY <1>1, <1>3, <2>1, <2>2, <2>3
<1>6. ASSUME Kind[e] = "messages.upsert", NEW n \in DOMAIN Payload[e], Payload[e][n].what = "body"
      PROVE  row'[Payload[e][n].msg].body # NoBody
  BY <1>2, <1>4, <1>6 DEF StoredOf, RowGrows
<1>. QED  BY <1>5, <1>6 DEF StoredOf

-----------------------------------------------------------------------------
(* The steps.                                                              *)

\* A step that leaves the tables alone.
LEMMA TablesStay ==
  ASSUME Inv, UNCHANGED <<tables, announced, versions>>
  PROVE  Grows /\ Settled /\ History' /\ Snapshots' /\ AnnouncedIsStored'
<1>1. row' = row /\ edits' = edits /\ reaction' = reaction
  BY DEF tables
<1>2. Grows
  BY <1>1 DEF Inv, TypeOK, Rows, Grows, RowGrows, ReactionStays
<1>3. Settled
  BY <1>1 DEF Settled
<1>4. History' /\ Snapshots'
  BY <1>1, <1>3, HistoryStays
<1>5. AnnouncedIsStored'
  BY <1>1 DEF Inv, AnnouncedIsStored
<1>. QED  BY <1>2, <1>3, <1>4, <1>5

LEMMA ArriveStep ==
  ASSUME Inv, NEW e \in Events, Arrive(e)
  PROVE  Inv' /\ Grows
<1>1. /\ stage[e] = "due" /\ UNCHANGED <<tables, pos, read, faults, announced, versions>>
      /\ stage' = [stage EXCEPT ![e] = FirstOf(Kind[e])]
  BY DEF Arrive
<1>2. Kind[e] \in Kinds /\ stage \in [Events -> {"due", "done", "failed"} \union Working]
  BY ConstantsAssumption DEF Inv, TypeOK
<1>3. /\ stage'[e] \in {"inserting", "selecting", "applying"}
      /\ stage'[e] = "inserting" <=> Kind[e] = "messages.upsert"
      /\ stage'[e] = "selecting" <=> Kind[e] = "messages.update"
  BY <1>1, <1>2 DEF FirstOf, Kinds
<1>4. Apart(e)
  BY <1>1, <1>2 DEF Apart
<1>5. pos[e] = 1
  BY <1>1 DEF Inv, Places, PlaceOf
<1>6. Kind[e] \in Looping => 1 \in DOMAIN Payload[e]
  BY ConstantsAssumption
<1>7. PlaceOf(e)'
  BY <1>1, <1>2, <1>3, <1>5, <1>6 DEF PlaceOf, Looping, Kinds
<1>8. DOMAIN Payload[e] \subseteq Nat \ {0}
  BY ConstantsAssumption
<1>9. StoredOf(e)'
  BY <1>1, <1>3, <1>5, <1>8 DEF StoredOf
<1>10. Grows /\ History' /\ Snapshots' /\ EditsUnderWay' /\ OneWriter'
       /\ AnnouncedIsStored'
  BY <1>1, <1>3, <1>4, TablesStay, EditorsStay DEF tables
<1>11. TypeOK'
  BY <1>1, <1>2, <1>3 DEF Inv, TypeOK, tables, Working
<1>. QED  BY <1>4, <1>7, <1>9, <1>10, <1>11, OthersStay DEF Inv

LEMMA FailStep ==
  ASSUME Inv, NEW e \in Events, HandlerFails(e)
  PROVE  Inv' /\ Grows
<1>1. /\ UNCHANGED <<tables, pos, read, announced, versions>>
      /\ stage' = [stage EXCEPT ![e] = "failed"]
      /\ faults' \in 0..MaxFaults
  BY ConstantsAssumption DEF Inv, TypeOK, HandlerFails
<1>2. stage' \in [Events -> {"due", "done", "failed"} \union Working] /\ stage'[e] = "failed"
  BY <1>1 DEF Inv, TypeOK
<1>3. Apart(e)
  BY <1>1 DEF Inv, TypeOK, Apart
<1>4. PlaceOf(e)'
  BY <1>2 DEF PlaceOf
<1>5. StoredOf(e)'
  BY <1>1, <1>2 DEF Inv, Stored, StoredOf, tables
<1>6. Grows /\ History' /\ Snapshots' /\ EditsUnderWay' /\ OneWriter'
       /\ AnnouncedIsStored'
  BY <1>1, <1>2, <1>3, TablesStay, EditorsStay DEF tables
<1>7. TypeOK'
  BY <1>1, <1>2 DEF Inv, TypeOK, tables
<1>. QED  BY <1>3, <1>4, <1>5, <1>6, <1>7, OthersStay DEF Inv

LEMMA SelectStep ==
  ASSUME Inv, NEW e \in Events, SelectExisting(e)
  PROVE  Inv' /\ Grows
<1>. DEFINE m == Item(e).msg
<1>1. /\ stage[e] = "selecting" /\ UNCHANGED <<tables, faults, announced, versions>>
      /\ read' = [read EXCEPT ![e] = row[m]]
  BY DEF SelectExisting
<1>2. PlaceOf(e) /\ StoredOf(e)
  BY DEF Inv, Places, Stored
<1>3. Kind[e] = "messages.update" /\ pos[e] \in DOMAIN Payload[e]
  BY <1>1, <1>2 DEF PlaceOf
<1>4. m \in Messages /\ Item(e).what = "edit"
  BY <1>3, ItemFacts DEF Item, Carries
<1>5. row[m] \in Rows /\ read' \in [Events -> Rows] /\ read'[e] = row[m]
  BY <1>1, <1>4 DEF Inv, TypeOK
<1>6. row' = row /\ edits' = edits /\ reaction' = reaction
  BY <1>1 DEF tables
<1>7. CASE /\ row[m].body \notin {NoBody, Item(e).body}
           /\ stage' = [stage EXCEPT ![e] = "snapshotting"] /\ pos' = pos
  <2>1. stage' \in [Events -> {"due", "done", "failed"} \union Working] /\ stage'[e] = "snapshotting"
    BY <1>7 DEF Inv, TypeOK, Working
  <2>2. Apart(e)
    BY <1>1, <1>7 DEF Inv, TypeOK, Apart
  <2>3. Grows /\ History' /\ Snapshots' /\ AnnouncedIsStored'
    BY <1>1, TablesStay
  <2>4. PlaceOf(e)' /\ StoredOf(e)'
    <3>1. PlaceOf(e)'
      BY <1>3, <1>7, <2>1 DEF PlaceOf
    <3>2. StoredOf(e)'
      BY <1>2, <1>3, <1>6, <1>7 DEF StoredOf
    <3>. QED  BY <3>1, <3>2
  <2>5. ASSUME NEW d \in Events PROVE EditOf(d)'
    <3>1. CASE d = e
      <4>1. Item(e)'.msg = m
        BY <1>7 DEF Item
      <4>. QED  BY <1>5, <1>6, <1>7, <2>1, <3>1, <4>1 DEF EditOf, Rows
    <3>2. CASE d # e
      <4>1. stage'[d] = stage[d] /\ pos'[d] = pos[d] /\ read'[d] = read[d]
        BY <2>2, <3>2 DEF Apart
      <4>. QED  BY <1>6, <4>1 DEF Inv, EditsUnderWay, EditOf, Item
    <3>. QED  BY <3>1, <3>2
  <2>6. OneWriter'
    <3>. SUFFICES ASSUME NEW d \in Events, NEW f \in Events, stage'[d] = "overwriting",
                         stage'[f] = "overwriting", Item(d)'.msg = Item(f)'.msg
         PROVE  d = f
      BY DEF OneWriter
    <3>1. stage[d] = "overwriting" /\ stage[f] = "overwriting"
      BY <2>1, <2>2 DEF Apart
    <3>2. Item(d).msg = Item(f).msg
      BY <1>7 DEF Item
    <3>. QED  BY <3>1, <3>2 DEF Inv, OneWriter
  <2>7. TypeOK'
    BY <1>1, <1>5, <1>6, <1>7, <2>1 DEF Inv, TypeOK
  <2>. QED  BY <2>2, <2>3, <2>4, <2>5, <2>6, <2>7, OthersStay DEF Inv, EditsUnderWay
<1>8. CASE Advance(e, pos[e], "selecting")
  <2>1. pos[e] \in Nat /\ "selecting" \in Working
    BY DEF Inv, TypeOK, Working
  <2>2. /\ stage' \in [Events -> {"due", "done", "failed"} \union Working]
        /\ pos' \in [Events -> Nat \ {0}]
        /\ \A d \in Events : pos'[d] <= Len(Payload[d]) + 1
        /\ \A d \in Events \ {e} : stage'[d] = stage[d] /\ pos'[d] = pos[d]
        /\ stage'[e] \in {"done", "selecting"}
    BY <1>8, <2>1, AdvanceFacts DEF Inv
  <2>3. Apart(e)
    BY <1>1, <2>2 DEF Inv, TypeOK, Apart
  <2>4. Grows /\ History' /\ Snapshots' /\ EditsUnderWay' /\ OneWriter'
        /\ AnnouncedIsStored'
    BY <1>1, <1>6, <2>2, <2>3, TablesStay, EditorsStay
  <2>5. PlaceOf(e)'
    BY <1>3, <1>8, <2>1, AdvancePlaces
  <2>6. StoredOf(e)'
    BY <1>1, <1>3, <1>4, <1>8, <2>1, <2>4, AdvanceStores
  <2>7. TypeOK'
    BY <1>1, <1>5, <1>6, <2>2 DEF Inv, TypeOK
  <2>. QED  BY <2>3, <2>4, <2>5, <2>6, <2>7, OthersStay DEF Inv
<1>. QED  BY <1>1, <1>7, <1>8 DEF SelectExisting

\* Marked rows keep their history.
LEMMA MarksKeep ==
  ASSUME Inv, Marks, edits' = edits, reaction' = reaction, versions' = versions
  PROVE  Grows /\ Settled /\ History' /\ Snapshots'
<1>1. ASSUME NEW m \in Messages PROVE row[m] \in Rows /\ row'[m] \in Rows
  BY DEF Inv, TypeOK, Marks
<1>2. Grows
  BY <1>1 DEF Marks, Grows, RowGrows, ReactionStays, Rows
<1>3. Settled
  BY DEF Marks, Settled
<1>4. History' /\ Snapshots'
  BY <1>3, HistoryStays DEF Marks
<1>. QED  BY <1>2, <1>3, <1>4

LEMMA DeleteMarks ==
  ASSUME Inv, NEW m \in Messages, Delete(m)
  PROVE  Marks /\ row'[m].deleted
<1>1. row' = [row EXCEPT ![m] = [row[m] EXCEPT !.there = TRUE, !.deleted = TRUE]]
  BY DEF Inv, TypeOK, Delete
<1>2. row \in [Messages -> Rows] /\ \A k \in Messages : ~row[k].there => row[k] = NoRow
  BY DEF Inv, TypeOK
<1>3. row[m] \in Rows /\ [row[m] EXCEPT !.there = TRUE, !.deleted = TRUE] \in Rows
  BY <1>2 DEF Rows
<1>4. row' \in [Messages -> Rows]
  BY <1>1, <1>2, <1>3
<1>5. ASSUME NEW k \in Messages
      PROVE /\ row'[k].body = row[k].body /\ row'[k].editCount = row[k].editCount
            /\ row[k].there => row'[k].there
            /\ row[k].deleted => row'[k].deleted
            /\ ~row'[k].there => row'[k] = NoRow
  <2>1. CASE k = m
    BY <1>1, <1>2, <1>3, <2>1 DEF Rows
  <2>2. CASE k # m
    BY <1>1, <1>2, <2>2
  <2>. QED  BY <2>1, <2>2
<1>6. row'[m].deleted
  BY <1>1, <1>2, <1>3 DEF Rows
<1>. QED  BY <1>4, <1>5, <1>6 DEF Marks

\* message.received is only told of what the batch has stored.
LEMMA ReceivedFacts ==
  ASSUME Inv, NEW e \in Events, NEW n \in Nat, NEW a \in Received(e, n)
  PROVE  /\ a \in {"received"} \X Messages /\ a[1] = "received" /\ a[2] \in Messages
         /\ \E j \in DOMAIN Payload[e] : Payload[e][j].what = "body" /\ Payload[e][j].msg = a[2]
<1>1. PICK j \in DOMAIN Payload[e] : Payload[e][j].what = "body" /\ a = <<"received", Payload[e][j].msg>>
  BY DEF Received, Batch
<1>. QED  BY <1>1, ItemFacts

\* One deletion of a handler: applyRevoke(), handleMessageDeletes().
LEMMA DeletionStep ==
  ASSUME Inv, NEW e \in Events, stage[e] = "applying", Kind[e] \in {"messages.upsert", "messages.delete"},
         Delete(Item(e).msg), Advance(e, pos[e], "applying"),
         NEW told \in SUBSET Received(e, pos[e]),
         Kind[e] = "messages.upsert" \/ told = {},
         announced' = announced \union {<<"deleted", Item(e).msg>>} \union told,
         UNCHANGED <<edits, reaction, read, faults, versions>>
  PROVE  Inv' /\ Grows
<1>. DEFINE m == Item(e).msg
<1>1. PlaceOf(e) /\ StoredOf(e) /\ pos[e] \in Nat /\ "applying" \in Working
  BY DEF Inv, Places, Stored, TypeOK, Working
<1>2. pos[e] \in DOMAIN Payload[e]
  BY <1>1 DEF PlaceOf
<1>3. m \in Messages
  BY <1>2, ItemFacts DEF Item
<1>4. Marks /\ row'[m].deleted
  BY <1>3, DeleteMarks
<1>5. Grows /\ Settled /\ History' /\ Snapshots'
  BY <1>4, MarksKeep
<1>6. /\ stage' \in [Events -> {"due", "done", "failed"} \union Working]
      /\ pos' \in [Events -> Nat \ {0}]
      /\ \A d \in Events : pos'[d] <= Len(Payload[d]) + 1
      /\ \A d \in Events \ {e} : stage'[d] = stage[d] /\ pos'[d] = pos[d]
      /\ stage'[e] \in {"done", "applying"}
  BY <1>1, AdvanceFacts DEF Inv
<1>7. Apart(e)
  BY <1>6 DEF Apart
<1>8. EditsUnderWay' /\ OneWriter'
  BY <1>5, <1>6, <1>7, EditorsStay
<1>9. PlaceOf(e)'
  BY <1>1, AdvancePlaces
<1>10. StoredOf(e)'
  BY <1>1, <1>2, <1>4, <1>5, AdvanceStores
<1>11. ASSUME NEW a \in told
       PROVE  a[1] = "received" /\ a[2] \in Messages /\ row'[a[2]].body # NoBody
              /\ a \in {"received"} \X Messages
  <2>1. PICK j \in DOMAIN Payload[e] : Payload[e][j].what = "body" /\ Payload[e][j].msg = a[2]
    BY <1>1, ReceivedFacts
  <2>2. a[1] = "received" /\ a[2] \in Messages /\ a \in {"received"} \X Messages
    BY <1>1, ReceivedFacts
  <2>3. Kind[e] = "messages.upsert"
    BY <1>11
  <2>4. row[a[2]].body # NoBody
    BY <1>1, <2>1, <2>3 DEF StoredOf
  <2>. QED  BY <1>4, <2>2, <2>4 DEF Marks
<1>12. AnnouncedIsStored'
  <2>1. ASSUME NEW a \in announced', a \notin announced
        PROVE  a[2] \in Messages /\ \/ a[1] = "received" /\ row'[a[2]].body # NoBody
                                    \/ a[1] = "deleted" /\ row'[a[2]].deleted
    BY <1>3, <1>4, <1>11, <2>1
  <2>. QED  BY <1>4, <1>5, <2>1, AnnouncedStays DEF Marks
<1>13. announced' \subseteq {"received", "edited", "deleted", "reacted"} \X Messages
  BY <1>3, <1>11 DEF Inv, TypeOK
<1>14. TypeOK'
  BY <1>4, <1>6, <1>13 DEF Inv, TypeOK, Marks
<1>. QED  BY <1>5, <1>7, <1>8, <1>9, <1>10, <1>12, <1>14, OthersStay DEF Inv

LEMMA RevokeStep ==
  ASSUME Inv, NEW e \in Events, ApplyRevoke(e)
  PROVE  Inv' /\ Grows
<1>1. Received(e, pos[e]) \in SUBSET Received(e, pos[e])
  OBVIOUS
<1>. QED  BY <1>1, DeletionStep DEF ApplyRevoke

LEMMA DeleteKeyStep ==
  ASSUME Inv, NEW e \in Events, DeleteKey(e)
  PROVE  Inv' /\ Grows
<1>1. {} \in SUBSET Received(e, pos[e])
  OBVIOUS
<1>2. announced' = announced \union {<<"deleted", Item(e).msg>>} \union {}
  BY DEF DeleteKey
<1>. QED  BY <1>1, <1>2, DeletionStep DEF DeleteKey

LEMMA ClearStep ==
  ASSUME Inv, NEW e \in Events, ClearChat(e)
  PROVE  Inv' /\ Grows
<1>1. /\ stage[e] = "applying" /\ Kind[e] = "clear"
      /\ row' = [m \in Messages |-> IF row[m].there THEN [row[m] EXCEPT !.deleted = TRUE] ELSE row[m]]
      /\ stage' = [stage EXCEPT ![e] = "done"]
      /\ UNCHANGED <<edits, reaction, pos, read, faults, announced, versions>>
  BY DEF ClearChat
<1>2. ASSUME NEW m \in Messages
      PROVE /\ row'[m] \in Rows
            /\ row'[m].body = row[m].body /\ row'[m].editCount = row[m].editCount
            /\ row[m].there => row'[m].there
            /\ row[m].deleted => row'[m].deleted
            /\ ~row'[m].there => row'[m] = NoRow
  <2>1. row[m] \in Rows /\ (~row[m].there => row[m] = NoRow)
    BY DEF Inv, TypeOK
  <2>2. CASE row[m].there
    BY <1>1, <2>1, <2>2 DEF Rows
  <2>3. CASE ~row[m].there
    BY <1>1, <2>1, <2>3
  <2>. QED  BY <2>2, <2>3
<1>3. Marks
  BY <1>1, <1>2 DEF Marks
<1>4. Grows /\ Settled /\ History' /\ Snapshots'
  BY <1>1, <1>3, MarksKeep
<1>5. stage' \in [Events -> {"due", "done", "failed"} \union Working] /\ stage'[e] = "done"
  BY <1>1 DEF Inv, TypeOK
<1>6. Apart(e)
  BY <1>1 DEF Inv, TypeOK, Apart
<1>7. EditsUnderWay' /\ OneWriter'
  BY <1>1, <1>4, <1>5, <1>6, EditorsStay
<1>8. PlaceOf(e)'
  BY <1>1, <1>5 DEF PlaceOf
<1>9. DOMAIN Payload[e] = {}
  BY <1>1, ItemFacts DEF Carries
<1>10. StoredOf(e)'
  BY <1>9 DEF StoredOf
<1>11. AnnouncedIsStored'
  BY <1>1, <1>3, <1>4, AnnouncedStays DEF Marks
<1>12. TypeOK'
  BY <1>1, <1>3, <1>5 DEF Inv, TypeOK, Marks
<1>. QED  BY <1>4, <1>6, <1>7, <1>8, <1>10, <1>11, <1>12, OthersStay DEF Inv

\* A reaction replaces the one that is there, by itself or not.
LEMMA ReactionsKeep ==
  ASSUME Inv, NEW e \in Events, pos[e] \in DOMAIN Payload[e], Item(e).what = "reaction",
         NEW r, r = Reaction(Item(e)) \/ (r = reaction[Item(e).msg] /\ r # NoReaction),
         reaction' = [reaction EXCEPT ![Item(e).msg] = r],
         row' = row, edits' = edits, versions' = versions
  PROVE  /\ Grows /\ Settled /\ History' /\ Snapshots'
         /\ reaction' \in [Messages -> [emoji : {"none", "heart"}, ts : Nat \union {-1}]]
         /\ reaction'[Item(e).msg] # NoReaction
<1>. DEFINE m == Item(e).msg
<1>1. /\ m \in Messages /\ Item(e) \in Batch(e)
      /\ Item(e).emoji \in {"none", "heart"} /\ Item(e).ts \in Nat
  BY ItemFacts DEF Item
<1>2. reaction \in [Messages -> [emoji : {"none", "heart"}, ts : Nat \union {-1}]]
  BY DEF Inv, TypeOK
<1>3. Reaction(Item(e)) # NoReaction /\ Reaction(Item(e)) \in [emoji : {"none", "heart"}, ts : Nat \union {-1}]
  BY <1>1 DEF Reaction, NoReaction
<1>4. r # NoReaction /\ r \in [emoji : {"none", "heart"}, ts : Nat \union {-1}]
  BY <1>1, <1>2, <1>3
<1>5. reaction' \in [Messages -> [emoji : {"none", "heart"}, ts : Nat \union {-1}]] /\ reaction'[m] = r
  BY <1>1, <1>2, <1>4
<1>6. \A k \in Messages : k # m => reaction'[k] = reaction[k]
  BY <1>1, <1>2
<1>7. Grows
  BY <1>4, <1>5, <1>6 DEF Inv, TypeOK, Rows, Grows, RowGrows, ReactionStays
<1>8. Settled /\ History' /\ Snapshots'
  BY HistoryStays DEF Settled
<1>. QED  BY <1>4, <1>5, <1>7, <1>8

\* A stored reaction of a handler: recordInlineReaction(), handleReactions().
LEMMA ReactionStep ==
  ASSUME Inv, NEW e \in Events, stage[e] = "applying",
         Kind[e] \in {"messages.upsert", "messages.reaction"}, Item(e).what = "reaction",
         row[Item(e).msg].there, Advance(e, pos[e], "applying"),
         NEW r, r = Reaction(Item(e)) \/ (r = reaction[Item(e).msg] /\ r # NoReaction),
         reaction' = [reaction EXCEPT ![Item(e).msg] = r],
         NEW told \in SUBSET Received(e, pos[e]),
         Kind[e] = "messages.upsert" \/ told = {},
         announced' = announced \union {<<"reacted", Item(e).msg>>} \union told,
         UNCHANGED <<row, edits, read, faults, versions>>
  PROVE  Inv' /\ Grows
<1>. DEFINE m == Item(e).msg
<1>1. PlaceOf(e) /\ StoredOf(e) /\ pos[e] \in Nat /\ "applying" \in Working
  BY DEF Inv, Places, Stored, TypeOK, Working
<1>2. pos[e] \in DOMAIN Payload[e]
  BY <1>1 DEF PlaceOf
<1>3. m \in Messages
  BY <1>2, ItemFacts DEF Item
<1>4. /\ Grows /\ Settled /\ History' /\ Snapshots'
      /\ reaction' \in [Messages -> [emoji : {"none", "heart"}, ts : Nat \union {-1}]]
      /\ reaction'[m] # NoReaction
  BY <1>2, ReactionsKeep
<1>5. /\ stage' \in [Events -> {"due", "done", "failed"} \union Working]
      /\ pos' \in [Events -> Nat \ {0}]
      /\ \A d \in Events : pos'[d] <= Len(Payload[d]) + 1
      /\ \A d \in Events \ {e} : stage'[d] = stage[d] /\ pos'[d] = pos[d]
      /\ stage'[e] \in {"done", "applying"}
  BY <1>1, AdvanceFacts DEF Inv
<1>6. Apart(e)
  BY <1>5 DEF Apart
<1>7. EditsUnderWay' /\ OneWriter'
  BY <1>4, <1>5, <1>6, EditorsStay
<1>8. PlaceOf(e)'
  BY <1>1, AdvancePlaces
<1>9. StoredOf(e)'
  BY <1>1, <1>2, <1>4, AdvanceStores
<1>10. ASSUME NEW a \in told
       PROVE  a[1] = "received" /\ a[2] \in Messages /\ row'[a[2]].body # NoBody
              /\ a \in {"received"} \X Messages
  <2>1. PICK j \in DOMAIN Payload[e] : Payload[e][j].what = "body" /\ Payload[e][j].msg = a[2]
    BY <1>1, ReceivedFacts
  <2>2. a[1] = "received" /\ a[2] \in Messages /\ a \in {"received"} \X Messages
    BY <1>1, ReceivedFacts
  <2>3. Kind[e] = "messages.upsert"
    BY <1>10
  <2>. QED  BY <1>1, <2>1, <2>2, <2>3 DEF StoredOf
<1>11. AnnouncedIsStored'
  <2>1. ASSUME NEW a \in announced', a \notin announced
        PROVE  a[2] \in Messages /\ \/ a[1] = "received" /\ row'[a[2]].body # NoBody
                                    \/ a[1] = "reacted" /\ row'[a[2]].there /\ reaction'[a[2]] # NoReaction
    BY <1>3, <1>4, <1>10, <2>1
  <2>2. row' \in [Messages -> Rows]
    BY DEF Inv, TypeOK
  <2>. QED  BY <1>4, <2>1, <2>2, AnnouncedStays
<1>12. announced' \subseteq {"received", "edited", "deleted", "reacted"} \X Messages
  BY <1>3, <1>10 DEF Inv, TypeOK
<1>13. TypeOK'
  BY <1>4, <1>5, <1>12 DEF Inv, TypeOK
<1>. QED  BY <1>4, <1>6, <1>7, <1>8, <1>9, <1>11, <1>13, OthersStay DEF Inv

\* A reaction whose actor is not known is passed over.
LEMMA UnresolvedStep ==
  ASSUME Inv, NEW e \in Events, stage[e] = "applying", Kind[e] = "messages.upsert",
         Item(e).what = "reaction", Advance(e, pos[e], "applying"),
         announced' = announced \union Received(e, pos[e]),
         UNCHANGED <<row, edits, reaction, read, faults, versions>>
  PROVE  Inv' /\ Grows
<1>1. PlaceOf(e) /\ StoredOf(e) /\ pos[e] \in Nat /\ "applying" \in Working
  BY DEF Inv, Places, Stored, TypeOK, Working
<1>2. pos[e] \in DOMAIN Payload[e]
  BY <1>1 DEF PlaceOf
<1>3. Marks
  BY DEF Inv, TypeOK, Marks
<1>4. Grows /\ Settled /\ History' /\ Snapshots'
  BY <1>3, MarksKeep
<1>5. /\ stage' \in [Events -> {"due", "done", "failed"} \union Working]
      /\ pos' \in [Events -> Nat \ {0}]
      /\ \A d \in Events : pos'[d] <= Len(Payload[d]) + 1
      /\ \A d \in Events \ {e} : stage'[d] = stage[d] /\ pos'[d] = pos[d]
      /\ stage'[e] \in {"done", "applying"}
  BY <1>1, AdvanceFacts DEF Inv
<1>6. Apart(e)
  BY <1>5 DEF Apart
<1>7. EditsUnderWay' /\ OneWriter'
  BY <1>4, <1>5, <1>6, EditorsStay
<1>8. PlaceOf(e)'
  BY <1>1, AdvancePlaces
<1>9. StoredOf(e)'
  BY <1>1, <1>2, <1>4, AdvanceStores
<1>10. ASSUME NEW a \in Received(e, pos[e])
       PROVE  a[1] = "received" /\ a[2] \in Messages /\ row'[a[2]].body # NoBody
              /\ a \in {"received"} \X Messages
  <2>1. PICK j \in DOMAIN Payload[e] : Payload[e][j].what = "body" /\ Payload[e][j].msg = a[2]
    BY <1>1, ReceivedFacts
  <2>2. a[1] = "received" /\ a[2] \in Messages /\ a \in {"received"} \X Messages
    BY <1>1, ReceivedFacts
  <2>. QED  BY <1>1, <2>1, <2>2 DEF StoredOf
<1>11. AnnouncedIsStored'
  <2>1. ASSUME NEW a \in announced', a \notin announced
        PROVE  a[2] \in Messages /\ a[1] = "received" /\ row'[a[2]].body # NoBody
    BY <1>10, <2>1
  <2>. QED  BY <1>3, <1>4, <2>1, AnnouncedStays DEF Marks
<1>12. announced' \subseteq {"received", "edited", "deleted", "reacted"} \X Messages
  BY <1>10 DEF Inv, TypeOK
<1>13. TypeOK'
  BY <1>5, <1>12 DEF Inv, TypeOK
<1>. QED  BY <1>4, <1>6, <1>7, <1>8, <1>9, <1>11, <1>13, OthersStay DEF Inv

\* A reaction to a message without a row ends its handler.
LEMMA RefusedStep ==
  ASSUME Inv, NEW e \in Events, stage' = [stage EXCEPT ![e] = "failed"],
         UNCHANGED <<tables, pos, read, faults, announced, versions>>
  PROVE  Inv' /\ Grows
<1>1. stage' \in [Events -> {"due", "done", "failed"} \union Working] /\ stage'[e] = "failed"
  BY DEF Inv, TypeOK
<1>2. Apart(e)
  BY DEF Inv, TypeOK, Apart
<1>3. PlaceOf(e)'
  BY <1>1 DEF PlaceOf
<1>4. StoredOf(e)'
  BY <1>1 DEF Inv, Stored, StoredOf, tables
<1>5. Grows /\ History' /\ Snapshots' /\ EditsUnderWay' /\ OneWriter'
      /\ AnnouncedIsStored'
  BY <1>1, <1>2, TablesStay, EditorsStay DEF tables
<1>6. TypeOK'
  BY <1>1 DEF Inv, TypeOK, tables
<1>. QED  BY <1>2, <1>3, <1>4, <1>5, <1>6, OthersStay DEF Inv

LEMMA InlineReactionStep ==
  ASSUME Inv, NEW e \in Events, RecordInlineReaction(e)
  PROVE  Inv' /\ Grows
<1>. DEFINE m == Item(e).msg
<1>1. /\ stage[e] = "applying" /\ Kind[e] = "messages.upsert" /\ Item(e).what = "reaction"
      /\ UNCHANGED <<row, edits, read, faults, versions>>
  BY DEF RecordInlineReaction
<1>2. CASE /\ row[m].there
           /\ reaction' = [reaction EXCEPT ![m] = Newer(@, Reaction(Item(e)))]
           /\ announced' = announced \union {<<"reacted", m>>} \union Received(e, pos[e])
           /\ Advance(e, pos[e], "applying")
  <2>. DEFINE r == Newer(reaction[m], Reaction(Item(e)))
  <2>1. pos[e] \in DOMAIN Payload[e]
    BY <1>1 DEF Inv, Places, PlaceOf
  <2>2. m \in Messages /\ Item(e).ts \in Nat
    BY <1>1, <2>1, ItemFacts DEF Item
  <2>3. reaction[m] \in [emoji : {"none", "heart"}, ts : Nat \union {-1}]
    BY <2>2 DEF Inv, TypeOK
  <2>4. r = Reaction(Item(e)) \/ (r = reaction[m] /\ r # NoReaction)
    BY <2>2, <2>3 DEF Newer, Reaction, NoReaction
  <2>5. reaction' = [reaction EXCEPT ![m] = r]
    BY <1>2
  <2>6. Received(e, pos[e]) \in SUBSET Received(e, pos[e])
    OBVIOUS
  <2>. HIDE DEF r
  <2>. QED  BY <1>1, <1>2, <2>4, <2>5, <2>6, ReactionStep
<1>3. CASE ~row[m].there /\ stage' = [stage EXCEPT ![e] = "failed"] /\ UNCHANGED <<reaction, announced, pos>>
  BY <1>1, <1>3, RefusedStep DEF tables
<1>4. CASE announced' = announced \union Received(e, pos[e]) /\ Advance(e, pos[e], "applying")
           /\ UNCHANGED reaction
  BY <1>1, <1>4, UnresolvedStep
<1>. QED  BY <1>2, <1>3, <1>4 DEF RecordInlineReaction

LEMMA HandleReactionStep ==
  ASSUME Inv, NEW e \in Events, HandleReaction(e)
  PROVE  Inv' /\ Grows
<1>. DEFINE m == Item(e).msg
<1>1. /\ stage[e] = "applying" /\ Kind[e] = "messages.reaction"
      /\ UNCHANGED <<row, edits, read, faults, versions>>
  BY DEF HandleReaction
<1>2. Item(e).what = "reaction"
  BY <1>1, ItemFacts DEF Inv, Places, PlaceOf, Item, Carries
<1>3. CASE /\ row[m].there
           /\ reaction' = [reaction EXCEPT ![m] = Reaction(Item(e))]
           /\ announced' = announced \union {<<"reacted", m>>}
           /\ Advance(e, pos[e], "applying")
  <2>1. {} \in SUBSET Received(e, pos[e]) /\ announced' = announced \union {<<"reacted", m>>} \union {}
    BY <1>3
  <2>. QED  BY <1>1, <1>2, <1>3, <2>1, ReactionStep
<1>4. CASE ~row[m].there /\ stage' = [stage EXCEPT ![e] = "failed"] /\ UNCHANGED <<reaction, announced, pos>>
  BY <1>1, <1>4, RefusedStep DEF tables
<1>. QED  BY <1>3, <1>4 DEF HandleReaction

\* What the INSERT of a batch does to the rows: only a missing body is filled in.
LEMMA InsertRows ==
  ASSUME Inv, NEW e \in Events, NEW body \in [Messages -> Bodies \union {NoBody}],
         \A m \in Messages :
           IF BodyOf(e, m) = {} THEN body[m] = NoBody ELSE body[m] \in BodyOf(e, m),
         row' = [m \in Messages |-> IF body[m] = NoBody THEN row[m] ELSE Backfill(row[m], body[m])],
         versions' = [m \in Messages |-> IF row'[m].body = row[m].body
                                           THEN versions[m] ELSE Append(versions[m], row'[m].body)],
         UNCHANGED <<edits, reaction>>
  PROVE  /\ Grows /\ Settled /\ History' /\ Snapshots'
         /\ row' \in [Messages -> Rows] /\ \A m \in Messages : ~row'[m].there => row'[m] = NoRow
         /\ versions' \in [Messages -> Seq(Bodies)]
         /\ \A n \in DOMAIN Payload[e] :
              Payload[e][n].what = "body" => row'[Payload[e][n].msg].body # NoBody
<1>1. ASSUME NEW m \in Messages
      PROVE  /\ row[m] \in Rows /\ row'[m] \in Rows
             /\ row'[m].editCount = row[m].editCount /\ row'[m].deleted = row[m].deleted
             /\ row[m].there => row'[m].there
             /\ ~row'[m].there => row'[m] = NoRow
             /\ row'[m].body = IF row[m].body = NoBody THEN body[m] ELSE row[m].body
  <2>1. row[m] \in Rows /\ (~row[m].there => row[m] = NoRow) /\ body[m] \in Bodies \union {NoBody}
    BY DEF Inv, TypeOK
  <2>2. CASE body[m] = NoBody
    BY <2>1, <2>2 DEF Rows
  <2>3. CASE body[m] # NoBody
    BY <2>1, <2>3 DEF Rows, Backfill
  <2>. QED  BY <2>2, <2>3
<1>2. Grows /\ Settled
  BY <1>1 DEF Grows, RowGrows, ReactionStays, Settled, Rows
<1>3. row' \in [Messages -> Rows] /\ \A m \in Messages : ~row'[m].there => row'[m] = NoRow
  BY <1>1
<1>4. ASSUME NEW m \in Messages
      PROVE  /\ versions'[m] \in Seq(Bodies)
             /\ row'[m].body = row[m].body => versions'[m] = versions[m]
             /\ row'[m].body # row[m].body =>
                  /\ row[m].body = NoBody /\ row'[m].body # NoBody
                  /\ versions[m] = <<>> /\ edits[m] = {} /\ row[m].editCount = 0
                  /\ Len(versions'[m]) = 1 /\ versions'[m][1] = row'[m].body
  <2>1. versions[m] \in Seq(Bodies) /\ body[m] \in Bodies \union {NoBody}
    BY DEF Inv, TypeOK
  <2>2. CASE row'[m].body = row[m].body
    BY <2>1, <2>2
  <2>3. CASE row'[m].body # row[m].body
    <3>1. row[m].body = NoBody /\ row'[m].body = body[m] /\ body[m] \in Bodies
      BY <1>1, <2>1, <2>3
    <3>2. versions[m] = <<>> /\ edits[m] = {} /\ row[m].editCount = 0
      BY <3>1 DEF Inv, History
    <3>3. row'[m].body # NoBody
      BY <3>1, BodiesAreNumbers DEF NoBody
    <3>4. versions'[m] = Append(versions[m], row'[m].body)
      BY <2>3
    <3>5. /\ versions'[m] \in Seq(Bodies)
          /\ Len(versions'[m]) = Len(versions[m]) + 1
          /\ versions'[m][Len(versions[m]) + 1] = row'[m].body
      BY <2>1, <3>1, <3>4
    <3>6. Len(versions[m]) = 0
      BY <3>2
    <3>7. Len(versions'[m]) = 1 /\ versions'[m][1] = row'[m].body
      BY <3>5, <3>6
    <3>. QED  BY <2>3, <3>1, <3>2, <3>3, <3>5, <3>7
  <2>. QED  BY <2>2, <2>3
<1>5. versions' \in [Messages -> Seq(Bodies)]
  BY <1>4
<1>6. ASSUME NEW m \in Messages, row'[m].body = NoBody
      PROVE  versions'[m] = <<>> /\ edits'[m] = {} /\ row'[m].editCount = 0
  BY <1>1, <1>4, <1>6 DEF Inv, History
<1>7. ASSUME NEW m \in Messages, row'[m].body # NoBody
      PROVE  /\ Len(versions'[m]) = row'[m].editCount + 1
             /\ versions'[m][row'[m].editCount + 1] = row'[m].body
  <2>1. CASE row'[m].body = row[m].body
    BY <1>1, <1>4, <1>7, <2>1 DEF Inv, History
  <2>2. CASE row'[m].body # row[m].body
    BY <1>1, <1>4, <2>2
  <2>. QED  BY <2>1, <2>2
<1>8. History'
  BY <1>6, <1>7 DEF History, NoBody
<1>9. ASSUME NEW m \in Messages
      PROVE /\ \A v \in edits[m] : v.version \in 1..(row'[m].editCount + 1) /\ v.body = versions'[m][v.version]
            /\ \A k \in 1..row'[m].editCount : \E v \in edits[m] : v.version = k
            /\ \A v, w \in edits[m] : v.version = w.version => v = w
  <2>1. CASE row'[m].body = row[m].body
    BY <1>1, <1>4, <2>1 DEF Inv, Snapshots
  <2>2. CASE row'[m].body # row[m].body
    BY <1>1, <1>4, <2>2
  <2>. QED  BY <2>1, <2>2
<1>10. Snapshots'
  BY <1>9 DEF Snapshots
<1>11. ASSUME NEW n \in DOMAIN Payload[e], Payload[e][n].what = "body"
       PROVE  row'[Payload[e][n].msg].body # NoBody
  <2>. DEFINE m == Payload[e][n].msg
  <2>1. m \in Messages /\ Payload[e][n].body \in BodyOf(e, m)
    BY <1>11, ItemFacts DEF BodyOf
  <2>2. BodyOf(e, m) \subseteq Nat
    BY ItemFacts DEF BodyOf, Batch
  <2>3. body[m] \in Nat
    BY <2>1, <2>2
  <2>4. body[m] # NoBody
    BY <2>3 DEF NoBody
  <2>. QED  BY <1>1, <2>1, <2>4
<1>. QED  BY <1>2, <1>3, <1>5, <1>8, <1>10, <1>11

LEMMA InsertStep ==
  ASSUME Inv, NEW e \in Events, InsertMessages(e)
  PROVE  Inv' /\ Grows
<1>1. stage[e] = "inserting" /\ UNCHANGED <<edits, reaction, read>>
  BY DEF InsertMessages
<1>2. /\ Grows /\ Settled /\ History' /\ Snapshots'
      /\ row' \in [Messages -> Rows] /\ \A m \in Messages : ~row'[m].there => row'[m] = NoRow
      /\ versions' \in [Messages -> Seq(Bodies)]
      /\ \A n \in DOMAIN Payload[e] :
           Payload[e][n].what = "body" => row'[Payload[e][n].msg].body # NoBody
  <2>1. PICK body \in [Messages -> Bodies \union {NoBody}] :
          /\ \A m \in Messages :
               IF BodyOf(e, m) = {} THEN body[m] = NoBody ELSE body[m] \in BodyOf(e, m)
          /\ row' = [m \in Messages |-> IF body[m] = NoBody THEN row[m] ELSE Backfill(row[m], body[m])]
          /\ versions' = [m \in Messages |-> IF row'[m].body = row[m].body
                                               THEN versions[m] ELSE Append(versions[m], row'[m].body)]
    BY DEF InsertMessages
  <2>. QED  BY <1>1, <2>1, InsertRows
<1>3. Kind[e] = "messages.upsert" /\ pos[e] = 1
  BY <1>1 DEF Inv, Places, PlaceOf
<1>5. DOMAIN Payload[e] \subseteq Nat \ {0}
  BY ConstantsAssumption
<1>6. CASE /\ Advance(e, 0, "applying")
           /\ announced' = announced \union Received(e, 0)
           /\ UNCHANGED faults
  <2>1. /\ stage' \in [Events -> {"due", "done", "failed"} \union Working]
        /\ pos' \in [Events -> Nat \ {0}]
        /\ \A d \in Events : pos'[d] <= Len(Payload[d]) + 1
        /\ \A d \in Events \ {e} : stage'[d] = stage[d] /\ pos'[d] = pos[d]
        /\ \A j \in DOMAIN Payload[e] : 0 < j /\ j < pos'[e] => Payload[e][j].what = "body"
        /\ stage'[e] \in {"done", "applying"}
    BY <1>6, AdvanceFacts DEF Inv, Working
  <2>2. Apart(e)
    BY <1>1, <2>1 DEF Apart
  <2>3. EditsUnderWay' /\ OneWriter'
    BY <1>1, <1>2, <2>1, <2>2, EditorsStay
  <2>4. PlaceOf(e)'
    BY <1>3, <1>6, AdvancePlaces
  <2>5. StoredOf(e)'
    BY <1>2, <1>5, <2>1 DEF StoredOf
  <2>6. ASSUME NEW a \in Received(e, 0)
        PROVE  a[1] = "received" /\ a[2] \in Messages /\ row'[a[2]].body # NoBody
               /\ a \in {"received"} \X Messages
    BY <1>2, ReceivedFacts
  <2>7. AnnouncedIsStored'
    BY <1>2, <1>6, <2>6, AnnouncedStays
  <2>8. announced' \subseteq {"received", "edited", "deleted", "reacted"} \X Messages
    BY <1>6, <2>6 DEF Inv, TypeOK
  <2>9. TypeOK'
    BY <1>1, <1>2, <1>6, <2>1, <2>8 DEF Inv, TypeOK
  <2>. QED  BY <1>2, <2>2, <2>3, <2>4, <2>5, <2>7, <2>9, OthersStay DEF Inv
<1>7. CASE /\ faults < MaxFaults /\ faults' = faults + 1
           /\ stage' = [stage EXCEPT ![e] = "failed"]
           /\ UNCHANGED <<pos, announced>>
  <2>1. stage' \in [Events -> {"due", "done", "failed"} \union Working] /\ stage'[e] = "failed"
    BY <1>7 DEF Inv, TypeOK
  <2>2. Apart(e)
    BY <1>1, <1>7 DEF Inv, TypeOK, Apart
  <2>3. EditsUnderWay' /\ OneWriter'
    BY <1>1, <1>2, <2>1, <2>2, EditorsStay
  <2>4. PlaceOf(e)'
    BY <2>1 DEF PlaceOf
  <2>5. StoredOf(e)'
    BY <1>3, <1>5, <1>7, <2>1 DEF StoredOf
  <2>6. AnnouncedIsStored'
    BY <1>2, <1>7, AnnouncedStays
  <2>7. faults' \in 0..MaxFaults
    BY <1>7, ConstantsAssumption DEF Inv, TypeOK
  <2>8. TypeOK'
    BY <1>1, <1>2, <1>7, <2>1, <2>7 DEF Inv, TypeOK
  <2>. QED  BY <1>2, <2>2, <2>3, <2>4, <2>5, <2>6, <2>8, OthersStay DEF Inv
<1>. QED  BY <1>6, <1>7 DEF InsertMessages

\* What an edit under way knows of its message.
LEMMA EditFacts ==
  ASSUME Inv, NEW e \in Events, stage[e] \in {"snapshotting", "overwriting"}
  PROVE  /\ Kind[e] = "messages.update" /\ pos[e] \in DOMAIN Payload[e]
         /\ Item(e).msg \in Messages /\ Item(e).what = "edit"
         /\ Item(e).body \in Bodies /\ Item(e).body # NoBody
         /\ EditOf(e) /\ PlaceOf(e) /\ StoredOf(e)
         /\ row[Item(e).msg] \in Rows /\ read[e] \in Rows /\ row[Item(e).msg].there
         /\ row[Item(e).msg].editCount \in Nat /\ read[e].editCount \in Nat
<1>1. EditOf(e) /\ PlaceOf(e) /\ StoredOf(e)
  BY DEF Inv, EditsUnderWay, Places, Stored
<1>2. Kind[e] = "messages.update" /\ pos[e] \in DOMAIN Payload[e]
  BY <1>1 DEF PlaceOf
<1>3. Item(e).msg \in Messages /\ Item(e).what = "edit"
  BY <1>2, ItemFacts DEF Item, Carries
<1>4. Item(e).body \in Bodies /\ Item(e).body # NoBody
  BY <1>2, <1>3, ItemFacts DEF Item, NoBody
<1>5. row[Item(e).msg] \in Rows /\ read[e] \in Rows
  BY <1>3 DEF Inv, TypeOK
<1>6. row[Item(e).msg].there
  BY <1>1, <1>3 DEF Inv, TypeOK, EditOf, NoRow
<1>. QED  BY <1>1, <1>2, <1>3, <1>4, <1>5, <1>6 DEF Rows

\* The unique index lets only the handler through that read the row as it is:
\* the versions up to the row's count are taken.
LEMMA SnapshotIsOfThisRow ==
  ASSUME Inv, NEW e \in Events, stage[e] = "snapshotting",
         \A v \in edits[Item(e).msg] : v.version # read[e].editCount + 1
  PROVE  /\ read[e].editCount = row[Item(e).msg].editCount
         /\ read[e].body = row[Item(e).msg].body
<1>. DEFINE m == Item(e).msg
<1>1. /\ m \in Messages /\ row[m].editCount \in Nat /\ read[e].editCount \in Nat
      /\ read[e].editCount <= row[m].editCount
      /\ read[e].editCount = row[m].editCount => read[e].body = row[m].body
  BY EditFacts DEF EditOf
<1>2. \A k \in 1..row[m].editCount : \E v \in edits[m] : v.version = k
  BY <1>1 DEF Inv, Snapshots
<1>3. read[e].editCount + 1 \notin 1..row[m].editCount
  BY <1>2
<1>. QED  BY <1>1, <1>3

LEMMA SnapshotStep ==
  ASSUME Inv, NEW e \in Events, InsertEdit(e)
  PROVE  Inv' /\ Grows
<1>. DEFINE m == Item(e).msg
            version == read[e].editCount + 1
            snapshot == [version |-> version, body |-> read[e].body]
            taken == \E v \in edits[m] : v.version = version
<1>1. /\ stage[e] = "snapshotting" /\ UNCHANGED <<row, reaction, pos, read, faults, announced, versions>>
      /\ edits' = IF taken THEN edits ELSE [edits EXCEPT ![m] = @ \union {snapshot}]
      /\ stage' = [stage EXCEPT ![e] = IF taken THEN "failed" ELSE "overwriting"]
  BY DEF InsertEdit
<1>2. CASE taken
  BY <1>1, <1>2, RefusedStep DEF tables
<1>3. CASE ~taken
  <2>1. /\ m \in Messages /\ EditOf(e) /\ PlaceOf(e) /\ StoredOf(e)
        /\ row[m] \in Rows /\ row[m].editCount \in Nat /\ row[m].body # NoBody
        /\ Kind[e] = "messages.update"
    BY <1>1, EditFacts DEF EditOf
  <2>2. read[e].editCount = row[m].editCount /\ read[e].body = row[m].body
    BY <1>1, <1>3, SnapshotIsOfThisRow
  <2>3. version = row[m].editCount + 1 /\ snapshot \in [version : Nat \ {0}, body : Bodies]
    BY <2>1, <2>2 DEF Rows
  <2>4. snapshot.version = row[m].editCount + 1 /\ snapshot.body = row[m].body
    BY <2>2
  <2>5. edits \in [Messages -> SUBSET [version : Nat \ {0}, body : Bodies]]
    BY DEF Inv, TypeOK
  <2>. HIDE DEF snapshot
  <2>6. /\ edits' \in [Messages -> SUBSET [version : Nat \ {0}, body : Bodies]]
        /\ edits'[m] = edits[m] \union {snapshot}
        /\ \A k \in Messages : k # m => edits'[k] = edits[k]
    BY <1>1, <1>3, <2>1, <2>3, <2>5
  <2>7. stage' \in [Events -> {"due", "done", "failed"} \union Working] /\ stage'[e] = "overwriting"
    BY <1>1, <1>3 DEF Inv, TypeOK, Working
  <2>8. Apart(e)
    BY <1>1 DEF Inv, TypeOK, Apart
  <2>9. Grows
    BY <1>1 DEF Inv, TypeOK, Rows, Grows, RowGrows, ReactionStays
  <2>10. History'
    BY <1>1, <2>1, <2>6 DEF Inv, History
  <2>11. Snapshots'
    <3>. SUFFICES ASSUME NEW k \in Messages
         PROVE /\ \A v \in edits'[k] : v.version \in 1..(row[k].editCount + 1) /\ v.body = versions[k][v.version]
               /\ \A n \in 1..row[k].editCount : \E v \in edits'[k] : v.version = n
               /\ \A v, w \in edits'[k] : v.version = w.version => v = w
      BY <1>1 DEF Snapshots
    <3>1. /\ \A v \in edits[k] : v.version \in 1..(row[k].editCount + 1) /\ v.body = versions[k][v.version]
          /\ \A n \in 1..row[k].editCount : \E v \in edits[k] : v.version = n
          /\ \A v, w \in edits[k] : v.version = w.version => v = w
      BY DEF Inv, Snapshots
    <3>2. CASE k # m
      BY <2>6, <3>1, <3>2
    <3>3. CASE k = m
      <4>1. versions[m][row[m].editCount + 1] = row[m].body
        BY <2>1 DEF Inv, History
      <4>2. \A v \in edits'[m] : v.version \in 1..(row[m].editCount + 1) /\ v.body = versions[m][v.version]
        BY <2>1, <2>4, <2>6, <3>1, <3>3, <4>1
      <4>3. \A n \in 1..row[m].editCount : \E v \in edits'[m] : v.version = n
        BY <2>6, <3>1, <3>3
      <4>4. \A v, w \in edits'[m] : v.version = w.version => v = w
        BY <1>3, <2>3, <2>4, <2>6, <3>1, <3>3
      <4>. QED  BY <3>3, <4>2, <4>3, <4>4
    <3>. QED  BY <3>2, <3>3
  <2>12. PlaceOf(e)' /\ StoredOf(e)'
    <3>1. PlaceOf(e)'
      BY <1>1, <2>1, <2>7 DEF PlaceOf
    <3>2. StoredOf(e)'
      BY <1>1, <2>1 DEF StoredOf
    <3>. QED  BY <3>1, <3>2
  <2>13. ASSUME NEW d \in Events, stage'[d] \in {"snapshotting", "overwriting"} PROVE EditOf(d)'
    <3>1. CASE d = e
      <4>1. Item(e)'.msg = m
        BY <1>1 DEF Item
      <4>. QED  BY <1>1, <2>1, <2>2, <2>4, <2>6, <3>1, <4>1 DEF EditOf
    <3>2. CASE d # e
      <4>1. stage[d] \in {"snapshotting", "overwriting"} /\ stage'[d] = stage[d] /\ pos'[d] = pos[d]
        BY <2>8, <2>13, <3>2 DEF Apart
      <4>2. EditOf(d) /\ Item(d).msg \in Messages
        BY <4>1, EditFacts
      <4>3. edits[Item(d).msg] \subseteq edits'[Item(d).msg]
        BY <2>6, <4>2
      <4>4. Item(d)'.msg = Item(d).msg
        BY <1>1 DEF Item
      <4>. QED  BY <1>1, <4>1, <4>2, <4>3, <4>4 DEF EditOf
    <3>. QED  BY <3>1, <3>2
  <2>14. EditsUnderWay'
    BY <2>13 DEF EditsUnderWay, EditOf
  <2>15. ASSUME NEW d \in Events, d # e, stage[d] = "overwriting", Item(d).msg = m PROVE FALSE
    <3>1. EditOf(d)
      BY <2>15, EditFacts
    <3>2. \E v \in edits[m] : v.version = row[m].editCount + 1
      BY <2>15, <3>1 DEF EditOf
    <3>. QED  BY <1>3, <2>3, <3>2
  <2>16. OneWriter'
    <3>. SUFFICES ASSUME NEW d \in Events, NEW f \in Events, stage'[d] = "overwriting",
                         stage'[f] = "overwriting", Item(d)'.msg = Item(f)'.msg
         PROVE  d = f
      BY DEF OneWriter
    <3>1. Item(d).msg = Item(f).msg
      BY <1>1 DEF Item
    <3>2. CASE d # e /\ f # e
      BY <2>8, <3>1, <3>2 DEF Inv, OneWriter, Apart
    <3>3. CASE d = e \/ f = e
      BY <2>8, <2>15, <3>1, <3>3 DEF Apart
    <3>. QED  BY <3>2, <3>3
  <2>17. AnnouncedIsStored'
    BY <1>1 DEF Inv, AnnouncedIsStored
  <2>18. TypeOK'
    BY <1>1, <2>6, <2>7 DEF Inv, TypeOK
  <2>. QED  BY <2>8, <2>9, <2>10, <2>11, <2>12, <2>14, <2>16, <2>17, <2>18, OthersStay DEF Inv
<1>. QED  BY <1>2, <1>3

LEMMA OverwriteStep ==
  ASSUME Inv, NEW e \in Events, Overwrite(e)
  PROVE  Inv' /\ Grows
<1>. DEFINE m == Item(e).msg
            c == row[m].editCount
            new == [row[m] EXCEPT !.body = Item(e).body, !.editCount = read[e].editCount + 1]
<1>1. /\ stage[e] = "overwriting" /\ UNCHANGED <<edits, reaction, read, faults>>
      /\ row' = [row EXCEPT ![m].body = Item(e).body, ![m].editCount = read[e].editCount + 1]
      /\ versions' = [versions EXCEPT ![m] = Append(@, Item(e).body)]
      /\ announced' = announced \union {<<"edited", m>>}
      /\ Advance(e, pos[e], "selecting")
  BY DEF Overwrite
<1>2. /\ m \in Messages /\ EditOf(e) /\ StoredOf(e) /\ row[m] \in Rows /\ c \in Nat
      /\ Kind[e] = "messages.update" /\ pos[e] \in DOMAIN Payload[e] /\ Item(e).what = "edit"
      /\ Item(e).body \in Bodies /\ Item(e).body # NoBody /\ row[m].there
  BY <1>1, EditFacts
<1>3. row[m].body # NoBody /\ read[e].editCount = c /\ \E v \in edits[m] : v.version = c + 1
  BY <1>1, <1>2 DEF EditOf
<1>4. new \in Rows /\ new.body = Item(e).body /\ new.editCount = c + 1
      /\ new.there = row[m].there /\ new.deleted = row[m].deleted
  <2>1. read[e].editCount + 1 = c + 1 /\ c + 1 \in Nat
    BY <1>2, <1>3
  <2>2. new = [row[m] EXCEPT !.body = Item(e).body, !.editCount = c + 1]
    BY <2>1
  <2>. HIDE DEF new
  <2>. QED  BY <1>2, <2>1, <2>2 DEF Rows
<1>5. row' = [row EXCEPT ![m] = new]
  BY <1>1, <1>2 DEF Inv, TypeOK
<1>. HIDE DEF new
<1>6. row' \in [Messages -> Rows] /\ row'[m] = new /\ \A k \in Messages : k # m => row'[k] = row[k]
  BY <1>2, <1>4, <1>5 DEF Inv, TypeOK
<1>7. versions \in [Messages -> Seq(Bodies)]
  BY DEF Inv, TypeOK
<1>8. /\ versions' \in [Messages -> Seq(Bodies)]
      /\ versions'[m] = Append(versions[m], Item(e).body)
      /\ \A k \in Messages : k # m => versions'[k] = versions[k]
  <2>1. Append(versions[m], Item(e).body) \in Seq(Bodies)
    BY <1>2, <1>7
  <2>. QED  BY <1>1, <1>2, <1>7, <2>1
<1>9. Len(versions[m]) = c + 1
  BY <1>2, <1>3 DEF Inv, History
<1>10. /\ Len(versions'[m]) = c + 2 /\ versions'[m][c + 2] = Item(e).body
       /\ \A i \in 1..(c + 1) : versions'[m][i] = versions[m][i]
  BY <1>2, <1>7, <1>8, <1>9
<1>11. Grows
  <2>1. ASSUME NEW k \in Messages PROVE RowGrows(k) /\ ReactionStays(k)
    <3>1. row[k] \in Rows
      BY DEF Inv, TypeOK
    <3>2. CASE k = m
      <4>1. row'[m].there = row[m].there /\ row'[m].deleted = row[m].deleted
            /\ row'[m].body # NoBody /\ row'[m].editCount = c + 1
        BY <1>2, <1>4, <1>6
      <4>2. c <= row'[m].editCount
        BY <1>2, <4>1
      <4>. QED  BY <1>1, <3>2, <4>1, <4>2 DEF RowGrows, ReactionStays
    <3>3. CASE k # m
      BY <1>1, <1>6, <3>1, <3>3 DEF RowGrows, ReactionStays, Rows
    <3>. QED  BY <3>2, <3>3
  <2>. QED  BY <2>1 DEF Grows
<1>12. History'
  <2>1. ASSUME NEW k \in Messages
        PROVE IF row'[k].body = NoBody
                THEN versions'[k] = <<>> /\ edits[k] = {} /\ row'[k].editCount = 0
                ELSE /\ Len(versions'[k]) = row'[k].editCount + 1
                     /\ versions'[k][row'[k].editCount + 1] = row'[k].body
    <3>1. CASE k = m
      <4>1. row'[m].body = Item(e).body /\ row'[m].editCount = c + 1
        BY <1>4, <1>6
      <4>2. row'[m].editCount + 1 = c + 2
        BY <1>2, <4>1
      <4>. QED  BY <1>2, <1>10, <3>1, <4>1, <4>2
    <3>2. CASE k # m
      BY <1>6, <1>8, <3>2 DEF Inv, History
    <3>. QED  BY <3>1, <3>2
  <2>. QED  BY <1>1, <2>1 DEF History, NoBody
<1>13. Snapshots'
  <2>. SUFFICES ASSUME NEW k \in Messages
       PROVE /\ \A v \in edits[k] : v.version \in 1..(row'[k].editCount + 1) /\ v.body = versions'[k][v.version]
             /\ \A n \in 1..row'[k].editCount : \E v \in edits[k] : v.version = n
             /\ \A v, w \in edits[k] : v.version = w.version => v = w
    BY <1>1 DEF Snapshots
  <2>1. /\ \A v \in edits[k] : v.version \in 1..(row[k].editCount + 1) /\ v.body = versions[k][v.version]
        /\ \A n \in 1..row[k].editCount : \E v \in edits[k] : v.version = n
        /\ \A v, w \in edits[k] : v.version = w.version => v = w
    BY DEF Inv, Snapshots
  <2>2. CASE k # m
    BY <1>6, <1>8, <2>1, <2>2
  <2>3. CASE k = m
    <3>1. \A v \in edits[m] : v.version \in 1..(c + 2) /\ v.body = versions'[m][v.version]
      BY <1>2, <1>10, <2>1, <2>3
    <3>2. \A n \in 1..(c + 1) : \E v \in edits[m] : v.version = n
      <4>. SUFFICES ASSUME NEW n \in 1..(c + 1) PROVE \E v \in edits[m] : v.version = n
        OBVIOUS
      <4>1. CASE n = c + 1
        BY <1>3, <4>1
      <4>2. CASE n # c + 1
        <5>1. n \in 1..c
          BY <1>2, <4>2
        <5>. QED  BY <2>1, <2>3, <5>1
      <4>. QED  BY <4>1, <4>2
    <3>. QED  BY <1>2, <1>4, <1>6, <2>1, <2>3, <3>1, <3>2
  <2>. QED  BY <2>2, <2>3
<1>14. pos[e] \in Nat /\ "selecting" \in Working
  BY DEF Inv, TypeOK, Working
<1>15. /\ stage' \in [Events -> {"due", "done", "failed"} \union Working]
       /\ pos' \in [Events -> Nat \ {0}]
       /\ \A d \in Events : pos'[d] <= Len(Payload[d]) + 1
       /\ \A d \in Events \ {e} : stage'[d] = stage[d] /\ pos'[d] = pos[d]
       /\ stage'[e] \in {"done", "selecting"}
  BY <1>1, <1>14, AdvanceFacts DEF Inv
<1>16. Apart(e)
  BY <1>1, <1>15 DEF Apart
<1>17. PlaceOf(e)'
  BY <1>1, <1>2, <1>14, AdvancePlaces
<1>18. StoredOf(e)'
  BY <1>1, <1>2, <1>11, <1>14, AdvanceStores
<1>19. ASSUME NEW d \in Events, stage'[d] \in {"snapshotting", "overwriting"} PROVE EditOf(d)'
  <2>1. d # e /\ stage[d] = stage'[d] /\ pos'[d] = pos[d]
    BY <1>15, <1>19
  <2>2. EditOf(d) /\ Item(d).msg \in Messages /\ read[d].editCount \in Nat
    BY <1>19, <2>1, EditFacts
  <2>3. Item(d)'.msg = Item(d).msg
    BY <2>1 DEF Item
  <2>4. CASE Item(d).msg # m
    BY <1>1, <1>6, <1>19, <2>1, <2>2, <2>3, <2>4 DEF EditOf
  <2>5. CASE Item(d).msg = m
    <3>1. stage[d] = "snapshotting"
      BY <1>1, <1>19, <2>1, <2>5 DEF Inv, OneWriter
    <3>2. read[d].editCount <= c
      BY <2>2, <2>5, <3>1 DEF EditOf
    <3>3. read'[d].editCount < row'[m].editCount /\ row'[m].body # NoBody
      <4>1. row'[m].body # NoBody /\ row'[m].editCount = c + 1 /\ read'[d].editCount = read[d].editCount
        BY <1>1, <1>2, <1>4, <1>6
      <4>. QED  BY <1>2, <2>2, <3>2, <4>1
    <3>. QED  BY <1>2, <1>4, <1>6, <1>1, <2>1, <2>2, <2>3, <2>5, <3>1, <3>3 DEF EditOf
  <2>. QED  BY <2>4, <2>5
<1>20. EditsUnderWay'
  BY <1>19 DEF EditsUnderWay, EditOf
<1>21. OneWriter'
  <2>. SUFFICES ASSUME NEW d \in Events, NEW f \in Events, stage'[d] = "overwriting",
                       stage'[f] = "overwriting", Item(d)'.msg = Item(f)'.msg
       PROVE  d = f
    BY DEF OneWriter
  <2>1. d # e /\ f # e
    BY <1>15
  <2>2. stage[d] = "overwriting" /\ stage[f] = "overwriting" /\ Item(d).msg = Item(f).msg
    BY <1>15, <2>1 DEF Item
  <2>. QED  BY <2>2 DEF Inv, OneWriter
<1>22. AnnouncedIsStored'
  <2>1. row'[m].editCount > 0
    BY <1>2, <1>4, <1>6
  <2>2. ASSUME NEW a \in announced', a \notin announced
        PROVE  a[2] \in Messages /\ a[1] = "edited" /\ row'[a[2]].editCount > 0
    <3>1. a = <<"edited", m>>
      BY <1>1, <2>2
    <3>. QED  BY <1>2, <2>1, <3>1
  <2>. QED  BY <1>6, <1>11, <2>2, AnnouncedStays
<1>24. announced' \subseteq {"received", "edited", "deleted", "reacted"} \X Messages
  BY <1>1, <1>2 DEF Inv, TypeOK
<1>25. \A k \in Messages : ~row'[k].there => row'[k] = NoRow
  BY <1>2, <1>4, <1>6 DEF Inv, TypeOK
<1>26. TypeOK'
  BY <1>1, <1>6, <1>8, <1>15, <1>24, <1>25 DEF Inv, TypeOK
<1>. QED  BY <1>11, <1>12, <1>13, <1>16, <1>17, <1>18, <1>20, <1>21, <1>22, <1>26, OthersStay
          DEF Inv

LEMMA InvStep ==
  ASSUME Inv, [Next]_vars
  PROVE  Inv' /\ Grows
<1>1. CASE Next
  BY <1>1, ArriveStep, FailStep, InsertStep, RevokeStep, InlineReactionStep, HandleReactionStep,
     DeleteKeyStep, ClearStep, SelectStep, SnapshotStep, OverwriteStep DEF Next, Handle
<1>2. CASE UNCHANGED vars
  <2>1. /\ UNCHANGED <<tables, announced, versions>>
        /\ UNCHANGED <<stage, pos, read, faults>>
    BY <1>2 DEF vars, tables
  <2>2. Grows /\ History' /\ Snapshots' /\ AnnouncedIsStored'
    BY <2>1, TablesStay
  <2>3. TypeOK'
    BY <2>1 DEF Inv, TypeOK, tables
  <2>4. Places' /\ Stored'
    BY <2>1 DEF Inv, Places, PlaceOf, Stored, StoredOf, tables
  <2>5. EditsUnderWay' /\ OneWriter'
    BY <2>1 DEF Inv, EditsUnderWay, EditOf, OneWriter, Item, tables
  <2>. QED  BY <2>2, <2>3, <2>4, <2>5 DEF Inv
<1>. QED  BY <1>1, <1>2

LEMMA InvInit == Init => Inv
<1>. SUFFICES ASSUME Init PROVE Inv
  OBVIOUS
<1>1. NoRow \in Rows /\ NoRow.body = NoBody /\ NoRow.editCount = 0
  BY DEF NoRow, Rows
<1>2. NoReaction \in [emoji : {"none", "heart"}, ts : Nat \union {-1}]
  BY DEF NoReaction
<1>3. row \in [Messages -> Rows] /\ read \in [Events -> Rows]
  BY <1>1 DEF Init
<1>4. reaction \in [Messages -> [emoji : {"none", "heart"}, ts : Nat \union {-1}]]
  BY <1>2 DEF Init
<1>5. edits \in [Messages -> SUBSET [version : Nat \ {0}, body : Bodies]]
  BY DEF Init
<1>6. versions \in [Messages -> Seq(Bodies)]
  BY DEF Init
<1>7. \A e \in Events : Len(Payload[e]) \in Nat
  BY ConstantsAssumption
<1>8. TypeOK
  BY ConstantsAssumption, <1>3, <1>4, <1>5, <1>6, <1>7 DEF Init, TypeOK
<1>9. History /\ Snapshots
  BY <1>1 DEF Init, History, Snapshots
<1>10. Places /\ EditsUnderWay /\ OneWriter
  BY DEF Init, Places, PlaceOf, EditsUnderWay, EditOf, OneWriter
<1>11. \A e \in Events : DOMAIN Payload[e] \subseteq Nat \ {0}
  BY ConstantsAssumption
<1>12. Stored
  BY <1>11 DEF Init, Stored, StoredOf
<1>13. AnnouncedIsStored
  BY DEF Init, AnnouncedIsStored
<1>. QED  BY <1>8, <1>9, <1>10, <1>12, <1>13 DEF Inv

LEMMA InvAlways == Spec => []Inv
<1>1. Inv /\ [Next]_vars => Inv'
  BY InvStep
<1>. QED  BY InvInit, <1>1, PTL DEF Spec

-----------------------------------------------------------------------------
(* The theorems.                                                           *)

\* Every variable keeps its type, and a row that is not there holds nothing.
THEOREM TypeCorrect == Spec => []TypeOK
<1>1. Inv => TypeOK
  BY DEF Inv
<1>. QED  BY InvAlways, <1>1, PTL

\* However edits, replays and failures overlap, wa.message_edits holds the bodies
\* that the row had before, each once under its number: the unique index on the
\* version refuses the snapshot of a row that has moved on since it was read.
THEOREM HistoryIsKept == Spec => []EditsAreHistory
<1>1. Inv => EditsAreHistory
  <2>. SUFFICES ASSUME Inv, NEW m \in Messages
       PROVE /\ row[m].body # NoBody => Len(versions[m]) = row[m].editCount + 1
             /\ {v.version : v \in edits[m]} \in {1..row[m].editCount, 1..(row[m].editCount + 1)}
             /\ \A v, w \in edits[m] : v.version = w.version => v = w
             /\ \A v \in edits[m] : v.body = versions[m][v.version]
    BY DEF EditsAreHistory
  <2>. DEFINE c == row[m].editCount
  <2>1. /\ \A v \in edits[m] : v.version \in 1..(c + 1) /\ v.body = versions[m][v.version]
        /\ \A k \in 1..c : \E v \in edits[m] : v.version = k
        /\ \A v, w \in edits[m] : v.version = w.version => v = w
    BY DEF Inv, Snapshots
  <2>2. row[m].body # NoBody => Len(versions[m]) = c + 1
    BY DEF Inv, History
  <2>3. c \in Nat
    BY DEF Inv, TypeOK, Rows
  <2>4. CASE \E v \in edits[m] : v.version = c + 1
    <3>1. {v.version : v \in edits[m]} = 1..(c + 1)
      BY <2>1, <2>3, <2>4
    <3>. QED  BY <2>1, <2>2, <3>1
  <2>5. CASE ~\E v \in edits[m] : v.version = c + 1
    <3>1. {v.version : v \in edits[m]} = 1..c
      BY <2>1, <2>3, <2>5
    <3>. QED  BY <2>1, <2>2, <3>1
  <2>. QED  BY <2>4, <2>5
<1>. QED  BY InvAlways, <1>1, PTL

\* In whatever order a message, its replays, its edits and its deletion are
\* handled, what a finished handler carried is stored: no later statement of
\* another handler takes it back.
THEOREM HandledStays == Spec => []HandledIsStored
<1>1. Inv => HandledIsStored
  <2>. SUFFICES ASSUME Inv, NEW e \in Events, stage[e] = "done", NEW n \in DOMAIN Payload[e]
       PROVE /\ Payload[e][n].what = "body" => row[Payload[e][n].msg].body # NoBody
             /\ Payload[e][n].what \in {"revoke", "delete"} => row[Payload[e][n].msg].deleted
    BY DEF HandledIsStored, Batch
  <2>1. PlaceOf(e) /\ StoredOf(e) /\ Payload[e][n].what \in Carries(Kind[e])
    BY ItemFacts DEF Inv, Places, Stored
  <2>2. Kind[e] \in Kinds /\ n < End(e)
    BY ConstantsAssumption DEF End
  <2>3. Kind[e] # "clear" /\ (Payload[e][n].what = "body" => Kind[e] = "messages.upsert")
    BY <2>1, <2>2 DEF Carries, Kinds
  <2>. QED  BY <2>1, <2>2, <2>3 DEF PlaceOf, StoredOf
<1>. QED  BY InvAlways, <1>1, PTL

\* An event on the bus tells of something that the tables hold by then and keep.
THEOREM AnnouncedStored == Spec => []AnnouncedIsStored
<1>1. Inv => AnnouncedIsStored
  BY DEF Inv
<1>. QED  BY InvAlways, <1>1, PTL

\* What a reaction is replaced by was sent as it is stored, and is older only where
\* the event of its own brought it.
THEOREM ReactionsKeepOrder == Spec => ReactionsInOrder
<1>1. ASSUME Inv, Next, NEW m \in Messages, reaction'[m] # reaction[m]
      PROVE  \E e \in Events : \E i \in Batch(e) :
               /\ i.what = "reaction" /\ i.msg = m /\ reaction'[m] = Reaction(i)
               /\ i.ts < reaction[m].ts => Kind[e] = "messages.reaction"
  <2>1. PICK e \in Events : RecordInlineReaction(e) \/ HandleReaction(e)
    BY <1>1 DEF Next, Handle, tables, Arrive, HandlerFails, InsertMessages, ApplyRevoke,
                DeleteKey, ClearChat, SelectExisting, InsertEdit, Overwrite
  <2>2. pos[e] \in DOMAIN Payload[e] /\ stage[e] = "applying"
    BY <1>1, <2>1 DEF Inv, Places, PlaceOf, RecordInlineReaction, HandleReaction
  <2>3. Item(e).what = "reaction"
    BY <2>1, <2>2, ItemFacts DEF Item, Carries, RecordInlineReaction, HandleReaction
  <2>4. Item(e) \in Batch(e) /\ Item(e).msg \in Messages /\ Item(e).ts \in Nat
    BY <2>2, <2>3, ItemFacts DEF Item
  <2>5. reaction \in [Messages -> [emoji : {"none", "heart"}, ts : Nat \union {-1}]]
    BY <1>1 DEF Inv, TypeOK
  <2>6. reaction[m].ts \in Nat \union {-1}
    BY <2>5
  <2>7. CASE HandleReaction(e)
    <3>1. Item(e).msg = m /\ reaction'[m] = Reaction(Item(e)) /\ Kind[e] = "messages.reaction"
      BY <1>1, <2>4, <2>5, <2>7 DEF HandleReaction
    <3>. QED  BY <2>3, <2>4, <3>1
  <2>8. CASE RecordInlineReaction(e)
    <3>1. Item(e).msg = m /\ reaction'[m] = Newer(reaction[m], Reaction(Item(e)))
      BY <1>1, <2>4, <2>5, <2>8 DEF RecordInlineReaction
    <3>2. reaction'[m] = Reaction(Item(e)) /\ ~(Item(e).ts < reaction[m].ts)
      BY <1>1, <2>4, <2>6, <3>1 DEF Newer, Reaction
    <3>. QED  BY <2>3, <2>4, <3>1, <3>2
  <2>. QED  BY <2>1, <2>7, <2>8
<1>2. Inv /\ [Next]_vars =>
        [\A m \in Messages : reaction'[m] # reaction[m] =>
           \E e \in Events : \E i \in Batch(e) :
             /\ i.what = "reaction" /\ i.msg = m /\ reaction'[m] = Reaction(i)
             /\ i.ts < reaction[m].ts => Kind[e] = "messages.reaction"]_vars
  BY <1>1
<1>. QED  BY InvAlways, <1>2, PTL DEF Spec, ReactionsInOrder

\* No step of any handler removes a row, a body, a tombstone or a reaction, or
\* counts an edit back.
THEOREM NothingIsTakenBack == Spec => [][Grows]_vars
<1>1. Inv /\ [Next]_vars => [Grows]_vars
  BY InvStep
<1>. QED  BY InvAlways, <1>1, PTL DEF Spec
===============================================================================
