--------------------------- MODULE InputFeedProofs ---------------------------
(***************************************************************************)
(* What a viewer of the shared page can rely on, for a ring of any size,   *)
(* any number of attempts, reports and restarts of the relay.              *)
(*                                                                         *)
(* That a missed change has an explanation follows from the viewer's own   *)
(* steps, whatever the page holds.  The rest is about the pages to come:   *)
(* the page as it will be after each of the stores that are on their way,  *)
(* taken in program order.  From the one on that has every overtaken store *)
(* - the settled page - each of them is sound, each follows from the ones  *)
(* before, and the last is the one the relay's variables describe.  A load *)
(* of a place that is not behind is a load from the settled page, and that *)
(* one moves as if the stores became visible in program order.             *)
(***************************************************************************)
EXTENDS InputFeed, SequenceTheorems, TLAPS

-----------------------------------------------------------------------------
(* The page.                                                               *)

Numbers == {Magic0, Seq0, Link0, Head0}
Places == {Magic0, Seq0, Body0, Link0, Head0} \cup Slots
Bodies == [no : Nat, changes : Nat]
Entries == [run : Nat, no : Int]

\* The stores of the relay: every place has its type.
Writes ==
    [place : Numbers, value : Nat] \cup [place : {Body0}, value : Bodies]
        \cup [place : Slots, value : Entries]

\* The places are different ones.
LEMMA PlaceFacts ==
  /\ Magic0 # Seq0 /\ Magic0 # Body0 /\ Magic0 # Link0 /\ Magic0 # Head0
  /\ Seq0 # Body0 /\ Seq0 # Link0 /\ Seq0 # Head0
  /\ Body0 # Link0 /\ Body0 # Head0 /\ Link0 # Head0
  /\ Magic0 \notin Slots /\ Seq0 \notin Slots /\ Body0 \notin Slots
  /\ Link0 \notin Slots /\ Head0 \notin Slots
<1>1. \A k : Slot(k)[1] = "slot"
  BY DEF Slot
<1>2. \A s \in Slots : s[1] = "slot"
  BY <1>1 DEF Slots
<1>3. /\ Magic0[1] = "magic" /\ Seq0[1] = "seq" /\ Body0[1] = "body" /\ Link0[1] = "link"
      /\ Head0[1] = "head"
  BY DEF Magic0, Seq0, Body0, Link0, Head0
<1> QED BY <1>2, <1>3

\* Every event has a slot.
LEMMA SlotIsPlace == ASSUME NEW k \in Nat PROVE Slot(k) \in Slots
<1>1. k % Events \in 0..Events - 1
  BY EventsAssumption
<1>2. (k % Events) % Events = k % Events
  BY <1>1, EventsAssumption
<1>3. Slot(k) = Slot(k % Events)
  BY <1>2 DEF Slot
<1> QED BY <1>1, <1>3 DEF Slots

\* The slot comes round.
LEMMA SlotAgain == ASSUME NEW k \in Nat PROVE Slot(k + Events) = Slot(k)
<1> DEFINE a == k \div Events
           b == (k + Events) \div Events
           x == k % Events
           y == (k + Events) % Events
<1>1. /\ a \in Int /\ b \in Int /\ x \in 0..Events - 1 /\ y \in 0..Events - 1
      /\ k = Events * a + x /\ k + Events = Events * b + y
  BY EventsAssumption
<1> HIDE DEF a, b, x, y
<1>2. Events * (b - (a + 1)) = x - y
  BY <1>1, EventsAssumption
<1>3. CASE b - (a + 1) >= 1
  <2>1. Events * (b - (a + 1)) >= Events
    BY <1>1, <1>3, EventsAssumption
  <2> QED BY <1>1, <1>2, <2>1, EventsAssumption
<1>4. CASE b - (a + 1) <= 0 - 1
  <2>1. Events * (b - (a + 1)) <= 0 - Events
    BY <1>1, <1>4, EventsAssumption
  <2> QED BY <1>1, <1>2, <2>1, EventsAssumption
<1>5. CASE b - (a + 1) = 0
  <2>1. x = y
    BY <1>1, <1>2, <1>5, EventsAssumption
  <2> QED BY <2>1 DEF x, y, Slot
<1> QED BY <1>1, <1>3, <1>4, <1>5

-----------------------------------------------------------------------------
(* Types.                                                                  *)

PageOK ==
    /\ DOMAIN page = Places
    /\ \A p \in Numbers : page[p] \in Nat
    /\ page[Body0] \in Bodies

RelayOK ==
    /\ stores \in Seq(Writes)
    /\ late \in Nat /\ late <= Len(stores)
    /\ run \in Nat /\ reports \in Nat /\ last \in Nat /\ seq \in Nat
    /\ head \in Nat /\ up \in BOOLEAN

ViewOK ==
    /\ at \in {"open", "top", "seq", "body", "link", "recheck", "drain", "events"}
    /\ attached \in BOOLEAN /\ held \in BOOLEAN
    /\ snap \in [before : Nat, body : Bodies, link : Nat, after : Nat]
    /\ cursor \in Nat /\ upTo \in Nat

HistOK ==
    /\ base \in Nat /\ begun \in Nat
    /\ blurred \in BOOLEAN /\ kept \in BOOLEAN /\ half \in BOOLEAN

\* The types the arguments need; the bounds are TLC's.
Typed == PageOK /\ RelayOK /\ ViewOK /\ HistOK

\* What the relay stores has the type of the place it goes to.
LEMMA WriteTypes ==
  /\ \A p \in Numbers, v \in Nat : Store(p, v) \in Writes
  /\ \A v \in Bodies : Store(Body0, v) \in Writes
  /\ \A s \in Slots, v \in Entries : Store(s, v) \in Writes
BY DEF Store, Writes

\* ... and comes out with it.
LEMMA WriteFacts ==
  ASSUME NEW w \in Writes
  PROVE  /\ w.place \in Places
         /\ w.place \in Numbers => w.value \in Nat
         /\ w.place = Body0 => w.value \in Bodies
<1>1. Numbers \subseteq Places /\ Body0 \in Places /\ Slots \subseteq Places
  BY DEF Numbers, Places
<1>2. Body0 \notin Numbers /\ Numbers \cap Slots = {} /\ Body0 \notin Slots
  BY PlaceFacts DEF Numbers
<1>3. CASE w \in [place : Numbers, value : Nat]
  BY <1>1, <1>2, <1>3
<1>4. CASE w \in [place : {Body0}, value : Bodies]
  BY <1>1, <1>2, <1>4
<1>5. CASE w \in [place : Slots, value : Entries]
  BY <1>1, <1>2, <1>5
<1> QED BY <1>3, <1>4, <1>5 DEF Writes

LEMMA EmptyTypes ==
  /\ NoBody \in Bodies /\ NoEvent \in Entries
  /\ NoSnap \in [before : Nat, body : Bodies, link : Nat, after : Nat]
BY DEF NoBody, NoEvent, NoSnap, Bodies, Entries

\* The stores of Writer::open(), one by one.
LEMMA OpenShape ==
  ASSUME run \in Nat
  PROVE  /\ OpenStores \in Seq(Writes)
         /\ Len(OpenStores) = Events + 6
         /\ OpenStores[1] = Store(Magic0, 0) /\ OpenStores[2] = Store(Seq0, 0)
         /\ OpenStores[3] = Store(Body0, NoBody) /\ OpenStores[4] = Store(Link0, 0)
         /\ OpenStores[5] = Store(Head0, 0)
         /\ \A i \in 6..Events + 5 : OpenStores[i] = Store(Slot(i - 6), NoEvent)
         /\ OpenStores[Events + 6] = Store(Magic0, run + 1)
<1> DEFINE a == << Store(Magic0, 0), Store(Seq0, 0), Store(Body0, NoBody), Store(Link0, 0),
                   Store(Head0, 0) >>
           b == [i \in 1..Events |-> Store(Slot(i - 1), NoEvent)]
           c == << Store(Magic0, run + 1) >>
<1>1. OpenStores = (a \o b) \o c
  BY DEF OpenStores
<1>2. Magic0 \in Numbers /\ Seq0 \in Numbers /\ Link0 \in Numbers /\ Head0 \in Numbers
  BY DEF Numbers
<1>3. /\ Store(Magic0, 0) \in Writes /\ Store(Seq0, 0) \in Writes
      /\ Store(Body0, NoBody) \in Writes /\ Store(Link0, 0) \in Writes
      /\ Store(Head0, 0) \in Writes /\ Store(Magic0, run + 1) \in Writes
  BY <1>2, WriteTypes, EmptyTypes
<1>4. a \in Seq(Writes) /\ Len(a) = 5
  BY <1>3
<1>5. \A i \in 1..Events : b[i] = Store(Slot(i - 1), NoEvent) /\ b[i] \in Writes
  <2> TAKE i \in 1..Events
  <2>1. i - 1 \in Nat
    BY EventsAssumption
  <2>2. Slot(i - 1) \in Slots
    BY <2>1, SlotIsPlace
  <2> QED BY <2>2, WriteTypes, EmptyTypes
<1>6. b \in Seq(Writes) /\ Len(b) = Events
  BY <1>5, EventsAssumption
<1>7. c \in Seq(Writes) /\ Len(c) = 1 /\ c[1] = Store(Magic0, run + 1)
  BY <1>3
<1>8. /\ a[1] = Store(Magic0, 0) /\ a[2] = Store(Seq0, 0) /\ a[3] = Store(Body0, NoBody)
      /\ a[4] = Store(Link0, 0) /\ a[5] = Store(Head0, 0)
  OBVIOUS
<1> HIDE DEF a, b, c
<1>9. /\ a \o b \in Seq(Writes) /\ Len(a \o b) = Events + 5
      /\ \A i \in 1..Events + 5 : (a \o b)[i] = IF i <= 5 THEN a[i] ELSE b[i - 5]
  <2>1. /\ a \o b \in Seq(Writes) /\ Len(a \o b) = Len(a) + Len(b)
        /\ \A i \in 1..Len(a) + Len(b) :
              (a \o b)[i] = IF i <= Len(a) THEN a[i] ELSE b[i - Len(a)]
    BY <1>4, <1>6, ConcatProperties, Zenon
  <2>2. Len(a) + Len(b) = Events + 5
    BY <1>4, <1>6, EventsAssumption
  <2> QED BY <1>4, <2>1, <2>2
<1>10. /\ (a \o b) \o c \in Seq(Writes) /\ Len((a \o b) \o c) = Events + 6
       /\ \A i \in 1..Events + 6 :
             ((a \o b) \o c)[i] = IF i <= Events + 5 THEN (a \o b)[i] ELSE c[i - (Events + 5)]
  <2> DEFINE d == a \o b
  <2>1. d \in Seq(Writes) /\ Len(d) = Events + 5
    BY <1>9
  <2> HIDE DEF d
  <2>2. /\ d \o c \in Seq(Writes) /\ Len(d \o c) = Len(d) + Len(c)
        /\ \A i \in 1..Len(d) + Len(c) :
              (d \o c)[i] = IF i <= Len(d) THEN d[i] ELSE c[i - Len(d)]
    BY <1>7, <2>1, ConcatProperties, Zenon
  <2>3. Len(d) + Len(c) = Events + 6
    BY <1>7, <2>1, EventsAssumption
  <2>4. \A i \in 1..Events + 6 : (d \o c)[i] = IF i <= Events + 5 THEN d[i] ELSE c[i - (Events + 5)]
    BY <2>1, <2>2, <2>3
  <2> QED BY <2>2, <2>3, <2>4 DEF d
<1>11. \A i \in 1..5 : OpenStores[i] = a[i]
  BY <1>1, <1>9, <1>10, EventsAssumption
<1>12. \A i \in 6..Events + 5 : OpenStores[i] = b[i - 5]
  BY <1>1, <1>9, <1>10, EventsAssumption
<1>13. OpenStores[Events + 6] = c[1]
  BY <1>1, <1>10, EventsAssumption
<1>14. \A i \in 6..Events + 5 : b[i - 5] = Store(Slot(i - 6), NoEvent)
  <2> TAKE i \in 6..Events + 5
  <2>1. i - 5 \in 1..Events /\ (i - 5) - 1 = i - 6
    BY EventsAssumption
  <2> QED BY <2>1, <1>5
<1>15. OpenStores \in Seq(Writes) /\ Len(OpenStores) = Events + 6
  BY <1>1, <1>10, Zenon
<1>16. 1 \in 1..5 /\ 2 \in 1..5 /\ 3 \in 1..5 /\ 4 \in 1..5 /\ 5 \in 1..5
  OBVIOUS
<1> QED BY <1>7, <1>8, <1>11, <1>12, <1>13, <1>14, <1>15, <1>16, Zenon

-----------------------------------------------------------------------------
(* The relay's steps keep the types, and leave the viewer alone.           *)

Relay == Open \/ Die \/ (\E changed \in BOOLEAN : Publish(changed)) \/ PublishLink \/ BecomesVisible

LEMMA RelayLeavesView == Relay => UNCHANGED <<viewVars, histVars>>
BY DEF Relay, Open, Die, Publish, PublishLink, BecomesVisible, Visible

\* What publish() and publish_link() store.
LEMMA StoreTypes ==
  ASSUME RelayOK, NEW n \in Nat, NEW changes \in Nat, NEW k \in Nat
  PROVE  /\ StateStores(n, changes) \in Seq(Writes)
         /\ EventStores(k) \in Seq(Writes)
         /\ << Store(Seq0, seq + 1), Store(Link0, last), Store(Seq0, seq + 2) >> \in Seq(Writes)
<1>1. Seq0 \in Numbers /\ Link0 \in Numbers /\ Head0 \in Numbers
  BY DEF Numbers
<1>2. seq + 1 \in Nat /\ seq + 2 \in Nat /\ last \in Nat /\ k + 1 \in Nat
  BY DEF RelayOK
<1>3. [no |-> n, changes |-> changes] \in Bodies /\ Event(k) \in Entries
  BY DEF Bodies, Entries, Event, RelayOK
<1>4. /\ Store(Seq0, seq + 1) \in Writes /\ Store(Seq0, seq + 2) \in Writes
      /\ Store(Body0, [no |-> n, changes |-> changes]) \in Writes
      /\ Store(Link0, n) \in Writes /\ Store(Link0, last) \in Writes
      /\ Store(Slot(k), Event(k)) \in Writes /\ Store(Head0, k + 1) \in Writes
  BY <1>1, <1>2, <1>3, WriteTypes, SlotIsPlace
<1> QED BY <1>4 DEF StateStores, EventStores

LEMMA VisibleTyped == ASSUME PageOK, RelayOK, NEW i, Visible(i) PROVE PageOK' /\ RelayOK'
<1>1. stores \in Seq(Writes) /\ i \in 1..Len(stores)
  BY DEF RelayOK, Visible
<1>2. stores[i] \in Writes
  BY <1>1
<1>3. PageOK'
  <2>1. stores[i].place \in Places
    BY <1>2, WriteFacts
  <2>2. Numbers \subseteq Places /\ Body0 \in Places
    BY DEF Numbers, Places
  <2>3. DOMAIN page' = Places
    BY DEF Visible, PageOK
  <2>4. \A p \in Places : page'[p] = IF p = stores[i].place THEN stores[i].value ELSE page[p]
    BY DEF Visible, PageOK
  <2>5. \A p \in Numbers : page'[p] \in Nat
    BY <1>2, <2>2, <2>4, WriteFacts DEF PageOK
  <2>6. page'[Body0] \in Bodies
    BY <1>2, <2>2, <2>4, WriteFacts DEF PageOK
  <2> QED BY <2>3, <2>5, <2>6 DEF PageOK
<1>4. stores' \in Seq(Writes)
  <2>1. stores' = [j \in 1..Len(stores) - 1 |-> IF j < i THEN stores[j] ELSE stores[j + 1]]
    BY DEF Visible
  <2>2. \A j \in 1..Len(stores) - 1 : (IF j < i THEN stores[j] ELSE stores[j + 1]) \in Writes
    BY <1>1
  <2>3. Len(stores) - 1 \in Nat
    BY <1>1
  <2> QED BY <2>1, <2>2, <2>3
<1>5. late' \in Nat /\ late' <= Len(stores')
  <2>1. Len(stores') = Len(stores) - 1
    BY <1>1 DEF Visible
  <2>2. late' = (IF i > late THEN i ELSE late) - 1 /\ late \in Nat /\ late <= Len(stores)
    BY DEF Visible, RelayOK
  <2> QED BY <1>1, <2>1, <2>2
<1> QED BY <1>3, <1>4, <1>5 DEF Visible, RelayOK

LEMMA RelayTyped == ASSUME PageOK, RelayOK, Relay PROVE PageOK' /\ RelayOK'
<1>1. CASE Open
  <2>1. stores' \in Seq(Writes)
    BY <1>1, OpenShape DEF Open, RelayOK
  <2>2. late' = 0
    BY <1>1 DEF Open, RelayOK
  <2> QED BY <1>1, <2>1, <2>2 DEF Open, PageOK, RelayOK
<1>2. CASE Die
  <2>1. /\ stores' \in Seq(Writes) /\ Len(stores') = late
        /\ stores' = SubSeq(stores, 1, late) /\ late' = late
    BY <1>2 DEF Die, RelayOK
  <2>2. /\ late' \in Nat /\ late' <= Len(stores') /\ up' = FALSE
        /\ UNCHANGED <<page, run, reports, last, seq, head>>
    BY <1>2, <2>1 DEF Die, RelayOK
  <2>3. PageOK'
    BY <2>2 DEF PageOK
  <2>4. RelayOK'
    BY <2>1, <2>2 DEF RelayOK
  <2> QED BY <2>3, <2>4
<1>3. ASSUME NEW changed \in BOOLEAN, Publish(changed) PROVE PageOK' /\ RelayOK'
  <2>1. head' \in Nat /\ reports + 1 \in Nat /\ head \in Nat
    BY <1>3 DEF Publish, RelayOK
  <2>2. StateStores(reports + 1, head') \in Seq(Writes) /\ EventStores(head) \in Seq(Writes)
    BY <2>1, StoreTypes
  <2>3. (IF changed THEN EventStores(head) ELSE <<>>) \in Seq(Writes)
    BY <2>2
  <2> DEFINE s == StateStores(reports + 1, head')
             e == IF changed THEN EventStores(head) ELSE <<>>
  <2>4. stores' = (stores \o s) \o e
    BY <1>3 DEF Publish
  <2>5. stores \in Seq(Writes) /\ s \in Seq(Writes) /\ e \in Seq(Writes)
    BY <2>2, <2>3 DEF RelayOK
  <2> HIDE DEF s, e
  <2>6. stores' \in Seq(Writes) /\ Len(stores) <= Len(stores')
    BY <2>4, <2>5
  <2>7. /\ UNCHANGED <<page, late, run, up>> /\ reports' = reports + 1 /\ last' = reports + 1
        /\ seq' = seq + 2
    BY <1>3 DEF Publish
  <2>8. PageOK'
    BY <2>7 DEF PageOK
  <2>9. late' \in Nat /\ late' <= Len(stores') /\ seq' \in Nat /\ last' \in Nat /\ reports' \in Nat
    BY <2>5, <2>6, <2>7 DEF RelayOK
  <2>10. RelayOK'
    BY <2>1, <2>6, <2>7, <2>9 DEF RelayOK
  <2> QED BY <2>8, <2>10
<1>4. CASE PublishLink
  <2>1. stores' \in Seq(Writes) /\ Len(stores) <= Len(stores')
    <3> DEFINE s == << Store(Seq0, seq + 1), Store(Link0, last), Store(Seq0, seq + 2) >>
    <3>1. s \in Seq(Writes) /\ stores \in Seq(Writes)
      BY StoreTypes DEF RelayOK
    <3>2. stores' = stores \o s
      BY <1>4 DEF PublishLink
    <3> HIDE DEF s
    <3> QED BY <3>1, <3>2
  <2> QED BY <1>4, <2>1 DEF PublishLink, PageOK, RelayOK
<1>5. ASSUME NEW i \in 1..MaxLate + 1, Visible(i) PROVE PageOK' /\ RelayOK'
  BY <1>5, VisibleTyped
<1> QED BY <1>1, <1>2, <1>3, <1>4, <1>5 DEF Relay, BecomesVisible

-----------------------------------------------------------------------------
(* The viewer on its own: whatever it finds on the page.                   *)

\* Only a viewer that has looked at what is held gets on to drain().
LooksFirst == ~attached => at \in {"open", "seq", "body", "link", "recheck"}

\* What the viewer takes to be held goes with its cursor, or something has happened
\* since it last did.
HeldRight == attached => why # {} \/ held = Down(cursor)

\* The invariant of the viewer's own steps.
ViewInv == Typed /\ LooksFirst /\ HeldRight /\ MissesExplained

LEMMA ViewInit == Init => ViewInv
<1> SUFFICES ASSUME Init PROVE ViewInv
  OBVIOUS
<1>1. PageOK
  <2>1. DOMAIN page = Places
    BY DEF Init, Places
  <2>2. \A p \in Numbers : p \in Places /\ p # Body0 /\ p \notin Slots
    BY PlaceFacts DEF Numbers, Places
  <2>3. \A p \in Numbers : page[p] = 0
    BY <2>2 DEF Init, Places
  <2>4. page[Body0] = NoBody
    BY PlaceFacts DEF Init
  <2> QED BY <2>1, <2>3, <2>4, EmptyTypes DEF PageOK
<1>2. RelayOK
  <2>1. <<>> \in Seq(Writes) /\ Len(<<>>) = 0
    OBVIOUS
  <2>2. /\ stores = <<>> /\ late = 0 /\ run = 0 /\ reports = 0 /\ last = 0 /\ seq = 0 /\ head = 0
        /\ up = FALSE
    BY DEF Init
  <2>3. late <= Len(stores)
    BY <2>1, <2>2
  <2> QED BY <2>1, <2>2, <2>3 DEF RelayOK
<1>3. ViewOK /\ HistOK
  BY EmptyTypes DEF Init, ViewOK, HistOK
<1>4. LooksFirst /\ HeldRight /\ MissesExplained
  BY DEF Init, LooksFirst, HeldRight, MissesExplained
<1> QED BY <1>1, <1>2, <1>3, <1>4 DEF ViewInv, Typed

\* The numbers on a page.
LEMMA NumberTypes ==
  ASSUME PageOK
  PROVE  /\ page[Magic0] \in Nat /\ page[Seq0] \in Nat /\ page[Link0] \in Nat /\ page[Head0] \in Nat
         /\ EventHead \in Nat
BY DEF PageOK, Numbers, EventHead

\* The changes of a button come in turns.
LEMMA Turns == \A k \in Nat : Down(k) # Down(k + 1)
BY DEF Down

LEMMA AttachInv ==
  ASSUME ViewInv, Attach
  PROVE  ViewOK' /\ HistOK' /\ LooksFirst' /\ HeldRight' /\ MissesExplained'
<1> USE DEF ViewInv, Typed
<1>1. ViewOK' /\ HistOK'
  BY NumberTypes DEF Attach, SetCursor, ViewOK, HistOK
<1>2. LooksFirst' /\ HeldRight'
  BY DEF Attach, LooksFirst, HeldRight
<1>3. MissesExplained'
  BY DEF Attach, MissesExplained
<1> QED BY <1>1, <1>2, <1>3

\* The end of latest(), with or without a snapshot.
LEMMA LatestInv ==
  ASSUME ViewInv, NEW found \in BOOLEAN, Latest(found), UNCHANGED <<cursor, upTo, base, kept, half, missed>>
  PROVE  ViewOK' /\ HistOK' /\ LooksFirst' /\ HeldRight' /\ MissesExplained'
<1> USE DEF ViewInv, Typed
<1>1. ViewOK' /\ HistOK'
  <2>1. held' \in BOOLEAN
    BY DEF Latest, Down, ViewOK
  <2> QED BY <2>1, EmptyTypes DEF Latest, ViewOK, HistOK
<1>2. LooksFirst'
  BY DEF Latest, LooksFirst
<1>3. HeldRight'
  <2>1. CASE attached
    BY <2>1 DEF Latest, Since, HeldRight
  <2>2. CASE ~attached /\ found /\ snap.body.changes = cursor
    BY <2>2 DEF Latest, HeldRight
  <2>3. CASE ~attached /\ ~(found /\ snap.body.changes = cursor)
    <3>1. why' = {"raced"}
      BY <2>3 DEF Latest, Since
    <3> QED BY <3>1 DEF HeldRight
  <2> QED BY <2>1, <2>2, <2>3 DEF ViewOK
<1>4. MissesExplained'
  BY DEF MissesExplained
<1> QED BY <1>1, <1>2, <1>3, <1>4

LEMMA NextTryInv ==
  ASSUME ViewInv, NextTry, UNCHANGED <<cursor, upTo, base, kept, half, missed>>
  PROVE  ViewOK' /\ HistOK' /\ LooksFirst' /\ HeldRight' /\ MissesExplained'
<1> USE DEF ViewInv, Typed
<1>1. CASE tries = 1
  BY <1>1, LatestInv DEF NextTry
<1>2. CASE tries # 1
  <2>1. /\ at' = "seq" /\ snap' = NoSnap /\ begun' = 0 /\ blurred' = FALSE
        /\ UNCHANGED <<attached, held, why>>
    BY <1>2 DEF NextTry
  <2>2. ViewOK'
    BY <2>1, EmptyTypes DEF ViewOK
  <2>3. HistOK'
    BY <2>1 DEF HistOK
  <2>4. LooksFirst' /\ HeldRight' /\ MissesExplained'
    BY <2>1 DEF LooksFirst, HeldRight, MissesExplained
  <2> QED BY <2>2, <2>3, <2>4
<1> QED BY <1>1, <1>2

\* The steps of latest().
LEMMA LatestStepsInv ==
  ASSUME ViewInv, LoadSeq \/ CopyBody \/ CopyLink \/ Recheck
  PROVE  ViewOK' /\ HistOK' /\ LooksFirst' /\ HeldRight' /\ MissesExplained'
<1> USE DEF ViewInv, Typed
<1>1. CASE LoadSeq
  <2>0. UNCHANGED <<cursor, upTo, base, kept, half, missed>>
    BY <1>1 DEF LoadSeq
  <2>1. \/ Latest(FALSE) \/ NextTry
        \/ /\ at' = "body" /\ begun' = page[Magic0] /\ blurred' \in BOOLEAN
           /\ snap' = [snap EXCEPT !.before = page[Seq0]]
           /\ UNCHANGED <<attached, held, why>>
    BY <1>1 DEF LoadSeq
  <2>2. CASE /\ at' = "body" /\ begun' = page[Magic0] /\ blurred' \in BOOLEAN
             /\ snap' = [snap EXCEPT !.before = page[Seq0]]
             /\ UNCHANGED <<attached, held, why>>
    <3>1. ViewOK' /\ HistOK'
      BY <2>0, <2>2, NumberTypes DEF ViewOK, HistOK
    <3>2. LooksFirst' /\ HeldRight' /\ MissesExplained'
      BY <2>0, <2>2 DEF LooksFirst, HeldRight, MissesExplained
    <3> QED BY <3>1, <3>2
  <2> QED BY <2>0, <2>1, <2>2, LatestInv, NextTryInv
<1>2. CASE CopyBody \/ CopyLink
  <2>1. /\ UNCHANGED <<attached, cursor, upTo, held, base, begun, why, kept, half, missed>>
        /\ at \in {"body", "link"} /\ at' \in {"link", "recheck"} /\ blurred' \in BOOLEAN
        /\ snap' \in {[snap EXCEPT !.body = Load("body", Body0)],
                      [snap EXCEPT !.link = Load("link", Link0)]}
    BY <1>2 DEF CopyBody, CopyLink
  <2>2. Load("body", Body0) \in Bodies /\ Load("link", Link0) \in Nat
    BY NumberTypes DEF Load, ViewOK, PageOK
  <2>3. ViewOK' /\ HistOK'
    BY <2>1, <2>2 DEF ViewOK, HistOK
  <2>4. LooksFirst' /\ HeldRight' /\ MissesExplained'
    BY <2>1 DEF LooksFirst, HeldRight, MissesExplained
  <2> QED BY <2>3, <2>4
<1>3. CASE Recheck
  <2>1. UNCHANGED <<cursor, upTo, base, kept, half, missed>>
    BY <1>3 DEF Recheck
  <2>2. Latest(TRUE) \/ NextTry
    BY <1>3 DEF Recheck
  <2> QED BY <2>1, <2>2, LatestInv, NextTryInv
<1> QED BY <1>1, <1>2, <1>3

\* A load of latest() ahead of its turn.
LEMMA LoadEarlyInv ==
  ASSUME ViewInv, NEW field \in {"body", "link", "after"}, LoadEarly(field)
  PROVE  ViewOK' /\ HistOK' /\ LooksFirst' /\ HeldRight' /\ MissesExplained'
<1> USE DEF ViewInv, Typed
<1>1. /\ UNCHANGED <<at, attached, cursor, upTo, held, base, begun, why, kept, half, missed>>
      /\ blurred' = TRUE
      /\ snap' \in {[snap EXCEPT !.body = page[Body0]], [snap EXCEPT !.link = page[Link0]],
                    [snap EXCEPT !.after = page[Seq0]]}
  <2>1. CASE field = "body"
    BY <2>1 DEF LoadEarly
  <2>2. CASE field = "link"
    BY <2>2 DEF LoadEarly
  <2>3. CASE field = "after"
    BY <2>3 DEF LoadEarly
  <2> QED BY <2>1, <2>2, <2>3
<1>2. ViewOK' /\ HistOK'
  BY <1>1, NumberTypes DEF ViewOK, HistOK, PageOK
<1>3. LooksFirst' /\ HeldRight' /\ MissesExplained'
  BY <1>1 DEF LooksFirst, HeldRight, MissesExplained
<1> QED BY <1>2, <1>3

LEMMA DrainStartInv ==
  ASSUME ViewInv, DrainStart
  PROVE  ViewOK' /\ HistOK' /\ LooksFirst' /\ HeldRight' /\ MissesExplained'
<1> USE DEF ViewInv, Typed
<1> DEFINE from == IF Restarted(EventHead) THEN 0 ELSE cursor
           skip == Skipped(EventHead, from)
<1>1. EventHead \in Nat /\ page[Magic0] \in Nat
  BY NumberTypes
<1>2. from \in Nat /\ skip \in Nat /\ attached
  BY <1>1, EventsAssumption DEF Skipped, ViewOK, LooksFirst, DrainStart
<1> HIDE DEF skip
<1>3. /\ at' = "events" /\ begun' = page[Magic0] /\ upTo' = EventHead /\ blurred' \in BOOLEAN
      /\ cursor' = from + skip
      /\ base' = IF from = 0 THEN page[Magic0] ELSE base
      /\ why' = (IF Restarted(EventHead) THEN {c \in {"restarted"} : held} ELSE why)
                   \cup {c \in {"lost"} : skip > 0}
      /\ kept' \in BOOLEAN
      /\ UNCHANGED <<attached, snap, held, half, missed>>
  <2>1. /\ at' = "events" /\ begun' = page[Magic0] /\ upTo' = EventHead
        /\ blurred' = Behind({Magic0, Head0})
        /\ UNCHANGED <<attached, snap, held, half, missed>>
    BY DEF DrainStart
  <2>2. blurred' \in BOOLEAN
    BY <2>1 DEF Behind
  <2>3. /\ cursor' = from + skip
        /\ base' = IF from = 0 THEN page[Magic0] ELSE base
        /\ why' = (IF Restarted(EventHead) THEN {c \in {"restarted"} : held} ELSE why)
                     \cup {c \in {"lost"} : skip > 0}
    BY DEF DrainStart, skip
  <2>4. kept' \in BOOLEAN
    BY DEF DrainStart
  <2> QED BY <2>1, <2>2, <2>3, <2>4
<1>4. ViewOK' /\ HistOK'
  BY <1>1, <1>2, <1>3 DEF ViewOK, HistOK
<1>5. LooksFirst' /\ MissesExplained'
  BY <1>2, <1>3 DEF LooksFirst, MissesExplained
<1>6. HeldRight'
  <2>1. CASE skip > 0
    <3>1. "lost" \in why'
      BY <1>3, <2>1
    <3> QED BY <3>1 DEF HeldRight
  <2>2. CASE skip = 0 /\ Restarted(EventHead)
    <3>1. cursor' = 0 /\ held' = held
      BY <1>3, <2>2
    <3>2. CASE held
      <4>1. "restarted" \in why'
        BY <1>3, <2>2, <3>2
      <4> QED BY <4>1 DEF HeldRight
    <3>3. CASE held = FALSE
      <4>1. Down(0) = FALSE
        BY DEF Down
      <4>2. held' = Down(cursor')
        BY <3>1, <3>3, <4>1, Zenon
      <4> QED BY <4>2 DEF HeldRight
    <3> QED BY <3>2, <3>3 DEF ViewOK
  <2>3. CASE skip = 0 /\ ~Restarted(EventHead)
    <3>1. cursor' = cursor /\ held' = held
      BY <1>3, <2>3 DEF ViewOK
    <3>2. why \subseteq why'
      BY <1>3, <2>3
    <3> QED BY <1>2, <3>1, <3>2 DEF HeldRight
  <2> QED BY <1>2, <2>1, <2>2, <2>3
<1> QED BY <1>4, <1>5, <1>6

LEMMA DrainEventInv ==
  ASSUME ViewInv, DrainEvent
  PROVE  ViewOK' /\ HistOK' /\ LooksFirst' /\ HeldRight' /\ MissesExplained'
<1> USE DEF ViewInv, Typed
<1> DEFINE e == page[Slot(cursor)]
           due == [run |-> base, no |-> cursor]
<1>1. /\ missed' = {c \in {why} : e = due /\ held = Down(e.no + 1)}
      /\ why' = IF e = due THEN {} ELSE why \cup {"lapped"}
      /\ held' = Down(e.no + 1)
      /\ half' \in BOOLEAN
      /\ cursor' = cursor + 1
      /\ UNCHANGED <<at, attached, snap, upTo, base, begun, blurred, kept>>
  BY DEF DrainEvent, HistOK
<1>2. e = due => e.no = cursor
  OBVIOUS
<1> HIDE DEF e
<1>3. ViewOK' /\ HistOK'
  BY <1>1 DEF ViewOK, HistOK, Down
<1>4. LooksFirst'
  BY <1>1 DEF LooksFirst
<1>5. HeldRight'
  <2>1. CASE e # due
    <3>1. "lapped" \in why'
      BY <1>1, <2>1
    <3> QED BY <3>1 DEF HeldRight
  <2>2. CASE e = due
    BY <1>1, <1>2, <2>2 DEF HeldRight
  <2> QED BY <2>1, <2>2
<1>6. MissesExplained'
  <2> SUFFICES ASSUME why = {}, e = due, held = Down(e.no + 1) PROVE FALSE
    BY <1>1 DEF MissesExplained
  <2>1. attached
    BY DEF LooksFirst, DrainEvent
  <2>2. held # Down(cursor)
    BY <1>2, Turns DEF ViewOK
  <2> QED BY <2>1, <2>2 DEF HeldRight
<1> QED BY <1>3, <1>4, <1>5, <1>6

LEMMA PlainStepsInv ==
  ASSUME ViewInv, OpenFails \/ Top \/ DrainEnd
  PROVE  ViewOK' /\ HistOK' /\ LooksFirst' /\ HeldRight' /\ MissesExplained'
<1> USE DEF ViewInv, Typed
<1>1. /\ UNCHANGED <<attached, snap, cursor, held, base, why, kept, half>>
      /\ at' \in {"top", "drain", "open", "seq"} /\ upTo' \in {upTo, 0} /\ begun' \in {begun, 0}
      /\ missed' \in {missed, {}} /\ blurred' \in {blurred, FALSE}
  BY DEF OpenFails, Top, DrainEnd, histVars
<1>2. attached
  BY DEF OpenFails, Top, DrainEnd, LooksFirst
<1>3. ViewOK' /\ HistOK'
  <2>1. ViewOK'
    BY <1>1 DEF ViewOK
  <2>2. begun' \in Nat
    BY <1>1 DEF HistOK
  <2>3. blurred' \in BOOLEAN
    BY <1>1, Zenon DEF HistOK
  <2> QED BY <1>1, <2>1, <2>2, <2>3 DEF HistOK
<1>4. LooksFirst' /\ HeldRight' /\ MissesExplained'
  BY <1>1, <1>2 DEF LooksFirst, HeldRight, MissesExplained
<1> QED BY <1>3, <1>4

LEMMA NextIsRelayOrView == Next <=> Relay \/ View
BY DEF Next, Relay

LEMMA ViewLeavesRelay == View => UNCHANGED relayVars
BY DEF View, Attach, OpenFails, Top, LoadEarly, LoadSeq, CopyBody, CopyLink, Recheck, DrainStart,
       DrainEvent, DrainEnd

\* Every step keeps the viewer's invariant.
LEMMA ViewStep == ViewInv /\ [Next]_vars => ViewInv'
<1> SUFFICES ASSUME ViewInv, [Next]_vars PROVE ViewInv'
  OBVIOUS
<1>1. CASE Relay
  <2>1. PageOK' /\ RelayOK'
    BY <1>1, RelayTyped DEF ViewInv, Typed
  <2>2. UNCHANGED <<viewVars, histVars>>
    BY <1>1, RelayLeavesView
  <2>3. ViewOK' /\ HistOK'
    BY <2>2 DEF ViewInv, Typed, ViewOK, HistOK, viewVars, histVars
  <2>4. LooksFirst' /\ HeldRight' /\ MissesExplained'
    BY <2>2 DEF ViewInv, LooksFirst, HeldRight, MissesExplained, viewVars, histVars
  <2> QED BY <2>1, <2>3, <2>4 DEF ViewInv, Typed
<1>2. CASE View
  <2>1. UNCHANGED relayVars
    BY <1>2, ViewLeavesRelay
  <2>2. PageOK' /\ RelayOK'
    BY <2>1 DEF ViewInv, Typed, PageOK, RelayOK, relayVars
  <2>3. ViewOK' /\ HistOK' /\ LooksFirst' /\ HeldRight' /\ MissesExplained'
    BY <1>2, AttachInv, LatestStepsInv, LoadEarlyInv, DrainStartInv, DrainEventInv, PlainStepsInv
       DEF View
  <2> QED BY <2>2, <2>3 DEF ViewInv, Typed
<1>3. CASE UNCHANGED vars
  <2>1. PageOK' /\ RelayOK' /\ ViewOK' /\ HistOK'
    BY <1>3 DEF ViewInv, Typed, PageOK, RelayOK, ViewOK, HistOK, vars, relayVars, viewVars, histVars
  <2>2. LooksFirst' /\ HeldRight' /\ MissesExplained'
    BY <1>3 DEF ViewInv, LooksFirst, HeldRight, MissesExplained, vars, relayVars, viewVars, histVars
  <2> QED BY <2>1, <2>2 DEF ViewInv, Typed
<1> QED BY <1>1, <1>2, <1>3, NextIsRelayOrView

\* A change of the buttons that the log misses was lapped, said to be lost, or
\* fell into an attach or a restart - also when the stores are reordered.
THEOREM MissesAlwaysExplained == Spec => []MissesExplained
<1>1. ViewInv => MissesExplained
  BY DEF ViewInv
<1> QED BY <1>1, ViewInit, ViewStep, PTL DEF Spec

-----------------------------------------------------------------------------
(* The pages to come.                                                      *)

\* A page of run r, or of an earlier one, that may be looked at: while seq is
\* even body and link belong together, and the slot of every event before the
\* head has it, or a younger one of the run.
Sound(pg, r) ==
    /\ pg[Magic0] \in 0..r /\ pg[Seq0] \in Nat /\ pg[Head0] \in Nat
    /\ pg[Magic0] > 0 =>
          /\ pg[Seq0] % 2 = 0 => pg[Link0] = pg[Body0].no
          /\ \A k \in Nat : k < pg[Head0] =>
                /\ pg[Slot(k)].run = pg[Magic0]
                /\ pg[Slot(k)].no \in Int /\ pg[Slot(k)].no >= k

\* What stores of run r make of a page: within a run, seq and head only grow, and
\* as long as an even seq stands neither body nor link changes; a page changes
\* hands only by way of no run at all.
Follows(a, b, r) ==
    /\ b[Magic0] # a[Magic0] => b[Magic0] \in {0, r}
    /\ a[Magic0] = r => b[Magic0] = r
    /\ (a[Magic0] > 0 /\ b[Magic0] = a[Magic0]) =>
          /\ a[Seq0] <= b[Seq0] /\ a[Head0] <= b[Head0]
          /\ (a[Seq0] = b[Seq0] /\ a[Seq0] % 2 = 0)
                => (a[Body0] = b[Body0] /\ a[Link0] = b[Link0])

\* The page after store s.
After(pg, s) == [p \in Places |-> IF p = s.place THEN s.value ELSE pg[p]]

\* The pages ps change only where the stores st go.
Untouched(st, ps) ==
    \A a, b \in 1..Len(st) + 1 : a <= b =>
        \A p \in Places : (\A j \in a..b - 1 : st[j].place # p) => ps[b][p] = ps[a][p]

\* ps are the pages that the stores st make of page pg, one after the other.  The
\* first n stores have been overtaken; from the page on that has them all, each
\* page is sound and follows from those before.
Path(pg, r, st, n, ps) ==
    /\ \A p \in Places : ps[1][p] = pg[p]
    /\ \A i \in 1..Len(st) : \A p \in Places :
          ps[i + 1][p] = IF p = st[i].place THEN st[i].value ELSE ps[i][p]
    /\ Untouched(st, ps)
    /\ \A i \in n + 1..Len(st) + 1 : Sound(ps[i], r)
    /\ \A i, j \in n + 1..Len(st) + 1 : i <= j => Follows(ps[i], ps[j], r)

\* The stores st make page z of page pg, by way of the settled page s.
Reaches(pg, r, st, n, s, z) ==
    \E ps : Path(pg, r, st, n, ps) /\ ps[n + 1] = s /\ ps[Len(st) + 1] = z

\* What the page will be when every store has become visible.
Final(pg, r, sq, l, h) ==
    /\ pg[Magic0] = r /\ pg[Seq0] = sq /\ sq % 2 = 0
    /\ pg[Link0] = l /\ pg[Body0].no = l
    /\ pg[Head0] = h

\* s is the settled page.
Settled(s) ==
    \E z : /\ Reaches(page, run, stores, late, s, z)
           /\ up => run > 0 /\ Final(z, run, seq, last, head)

\* A process that is gone has nothing on its way but what was overtaken.
DownIsQuiet == ~up => late = Len(stores)

\* A load done ahead of its turn is taken note of.
EarlyBlurs == early # {} => blurred /\ at \in {"seq", "body", "link", "recheck"}

\* The viewer knows no run before its page is there.
NotYetKnown(s) ==
    ~blurred => /\ begun <= run
                /\ (up /\ s[Magic0] # run) => begun < run

\* The settled page is still of the run that latest() or drain() began with.
SameRun(s) == s[Magic0] > 0 /\ begun = s[Magic0]

\* latest() holds what is on the settled page, if that is still the same run's and
\* seq has not moved.
CopyGood(s) ==
    at \in {"body", "link", "recheck"} /\ ~blurred =>
        /\ snap.before % 2 = 0
        /\ SameRun(s) =>
              /\ snap.before <= s[Seq0]
              /\ s[Seq0] = snap.before =>
                    /\ at \in {"link", "recheck"} => snap.body = s[Body0]
                    /\ at = "recheck" => snap.link = s[Link0]

\* drain() works up to a head the settled page has reached.
DrainGood(s) == at = "events" /\ ~blurred /\ SameRun(s) => upTo <= s[Head0]

\* What the viewer knows of the settled page.
Knows(s) == NotYetKnown(s) /\ CopyGood(s) /\ DrainGood(s)

\* The invariant of both sides together.
FeedInv ==
    /\ ViewInv /\ DownIsQuiet /\ EarlyBlurs
    /\ \E s : Settled(s) /\ Knows(s)
    /\ SnapshotsWhole /\ NeverHalfWritten /\ LostAreGone

-----------------------------------------------------------------------------
(* One store.                                                              *)

LEMMA PlacesIn ==
  /\ Magic0 \in Places /\ Seq0 \in Places /\ Body0 \in Places /\ Link0 \in Places
  /\ Head0 \in Places
  /\ \A k \in Nat : Slot(k) \in Places /\ Slot(k) \in Slots
BY SlotIsPlace DEF Places

\* What follows from a page that follows, follows.
LEMMA FollowsOn ==
  ASSUME NEW r \in Nat, NEW a, NEW b, NEW c, Sound(a, r), Sound(b, r), Sound(c, r),
         Follows(a, b, r), Follows(b, c, r)
  PROVE  Follows(a, c, r)
<1>1. /\ a[Magic0] \in Nat /\ b[Magic0] \in Nat /\ c[Magic0] \in Nat
      /\ a[Seq0] \in Nat /\ b[Seq0] \in Nat /\ c[Seq0] \in Nat
      /\ a[Head0] \in Nat /\ b[Head0] \in Nat /\ c[Head0] \in Nat
  BY DEF Sound
<1>2. c[Magic0] # a[Magic0] => c[Magic0] \in {0, r}
  BY DEF Follows
<1>3. a[Magic0] = r => c[Magic0] = r
  BY DEF Follows
<1>4. ASSUME a[Magic0] > 0, c[Magic0] = a[Magic0]
      PROVE  /\ a[Seq0] <= c[Seq0] /\ a[Head0] <= c[Head0]
             /\ (a[Seq0] = c[Seq0] /\ a[Seq0] % 2 = 0)
                   => (a[Body0] = c[Body0] /\ a[Link0] = c[Link0])
  <2>1. b[Magic0] = a[Magic0]
    BY <1>1, <1>4 DEF Follows
  <2>2. /\ a[Seq0] <= b[Seq0] /\ a[Head0] <= b[Head0]
        /\ (a[Seq0] = b[Seq0] /\ a[Seq0] % 2 = 0)
              => (a[Body0] = b[Body0] /\ a[Link0] = b[Link0])
    BY <1>4, <2>1 DEF Follows
  <2>3. /\ b[Seq0] <= c[Seq0] /\ b[Head0] <= c[Head0]
        /\ (b[Seq0] = c[Seq0] /\ b[Seq0] % 2 = 0)
              => (b[Body0] = c[Body0] /\ b[Link0] = c[Link0])
    BY <1>4, <2>1 DEF Follows
  <2>4. a[Seq0] <= c[Seq0] /\ a[Head0] <= c[Head0]
    BY <1>1, <2>2, <2>3
  <2>5. a[Seq0] = c[Seq0] => a[Seq0] = b[Seq0] /\ b[Seq0] = c[Seq0]
    BY <1>1, <2>2, <2>3
  <2> QED BY <2>2, <2>3, <2>4, <2>5
<1> QED BY <1>2, <1>3, <1>4 DEF Follows

LEMMA FollowsItself == ASSUME NEW r \in Nat, NEW a, Sound(a, r) PROVE Follows(a, a, r)
BY DEF Sound, Follows

\* The pages at both ends are sound.
LEMMA ReachedIsSound ==
  ASSUME NEW pg, NEW r \in Nat, NEW st \in Seq(Writes), NEW n \in Nat, n <= Len(st),
         NEW s, NEW z, Reaches(pg, r, st, n, s, z)
  PROVE  Sound(s, r) /\ Sound(z, r)
<1>1. PICK ps : Path(pg, r, st, n, ps) /\ ps[n + 1] = s /\ ps[Len(st) + 1] = z
  BY DEF Reaches
<1>2. n + 1 \in n + 1..Len(st) + 1 /\ Len(st) + 1 \in n + 1..Len(st) + 1
  OBVIOUS
<1> QED BY <1>1, <1>2 DEF Path

\* A store at the end of a path.
LEMMA Extend ==
  ASSUME NEW pg, NEW r \in Nat, NEW st \in Seq(Writes), NEW m \in Nat, m <= Len(st),
         NEW x, NEW z, Reaches(pg, r, st, m, x, z),
         NEW s \in Writes, NEW q, q = After(z, s), Sound(q, r), Follows(z, q, r)
  PROVE  Reaches(pg, r, Append(st, s), m, x, q)
<1>0. PICK ps : Path(pg, r, st, m, ps) /\ ps[m + 1] = x /\ ps[Len(st) + 1] = z
  BY DEF Reaches
<1> DEFINE n == Len(st)
           pt == [i \in 1..n + 2 |-> IF i <= n + 1 THEN ps[i] ELSE q]
           su == Append(st, s)
<1>1. n \in Nat /\ Len(su) = n + 1 /\ m <= n
  OBVIOUS
<1>2. \A i \in 1..n + 1 : su[i] = IF i <= n THEN st[i] ELSE s
  OBVIOUS
<1>3. \A p \in Places : q[p] = IF p = s.place THEN s.value ELSE ps[n + 1][p]
  BY <1>0 DEF After
<1>4. Sound(q, r) /\ Follows(ps[n + 1], q, r)
  BY <1>0
<1>5. /\ \A i \in 1..n + 1 : pt[i] = ps[i]
      /\ pt[n + 2] = q
  BY <1>1
<1> HIDE DEF n, pt, su
<1>6. /\ \A p \in Places : ps[1][p] = pg[p]
      /\ \A i \in 1..n : \A p \in Places :
            ps[i + 1][p] = IF p = st[i].place THEN st[i].value ELSE ps[i][p]
      /\ \A i \in m + 1..n + 1 : Sound(ps[i], r)
      /\ \A i, j \in m + 1..n + 1 : i <= j => Follows(ps[i], ps[j], r)
      /\ ps[m + 1] = x
  BY <1>0 DEF Path, n
<1>6a. ASSUME NEW a \in 1..n + 1, NEW b \in 1..n + 1, a <= b, NEW p \in Places,
              \A j \in a..b - 1 : st[j].place # p
       PROVE  ps[b][p] = ps[a][p]
  BY <1>0, <1>6a DEF Path, Untouched, n
<1>7. \A p \in Places : pt[1][p] = pg[p]
  BY <1>1, <1>5, <1>6
<1>8. \A i \in 1..n + 1 : \A p \in Places :
         pt[i + 1][p] = IF p = su[i].place THEN su[i].value ELSE pt[i][p]
  <2> TAKE i \in 1..n + 1
  <2>1. CASE i <= n
    <3>1. i \in 1..n /\ i \in 1..n + 1 /\ i + 1 \in 1..n + 1 /\ su[i] = st[i]
      BY <1>1, <1>2, <2>1
    <3> QED BY <1>5, <1>6, <3>1
  <2>2. CASE i = n + 1
    <3>1. su[i] = s /\ pt[i] = ps[n + 1] /\ pt[i + 1] = q
      BY <1>1, <1>2, <1>5, <2>2
    <3> QED BY <1>3, <3>1
  <2> QED BY <1>1, <2>1, <2>2
<1>9. \A i \in m + 1..n + 2 : Sound(pt[i], r)
  <2> TAKE i \in m + 1..n + 2
  <2>1. CASE i <= n + 1
    <3>1. i \in 1..n + 1 /\ i \in m + 1..n + 1
      BY <1>1, <2>1
    <3> QED BY <1>5, <1>6, <3>1
  <2>2. CASE i = n + 2
    BY <1>4, <1>5, <2>2
  <2> QED BY <1>1, <2>1, <2>2
<1>10. \A i, j \in m + 1..n + 2 : i <= j => Follows(pt[i], pt[j], r)
  <2> SUFFICES ASSUME NEW i \in m + 1..n + 2, NEW j \in m + 1..n + 2, i <= j
               PROVE  Follows(pt[i], pt[j], r)
    OBVIOUS
  <2>1. CASE j <= n + 1
    <3>1. i \in 1..n + 1 /\ j \in 1..n + 1 /\ i \in m + 1..n + 1 /\ j \in m + 1..n + 1
      BY <1>1, <2>1
    <3>2. pt[i] = ps[i] /\ pt[j] = ps[j]
      BY <1>5, <3>1
    <3> QED BY <1>6, <3>1, <3>2
  <2>2. CASE j = n + 2 /\ i <= n + 1
    <3>1. i \in 1..n + 1 /\ i \in m + 1..n + 1 /\ n + 1 \in m + 1..n + 1 /\ i <= n + 1
      BY <1>1, <2>2
    <3>2. Follows(ps[i], ps[n + 1], r) /\ Sound(ps[i], r) /\ Sound(ps[n + 1], r)
      BY <1>6, <3>1
    <3>3. pt[i] = ps[i] /\ pt[j] = q
      BY <1>5, <2>2, <3>1
    <3>4. Follows(ps[i], q, r)
      BY <1>4, <3>2, FollowsOn
    <3> QED BY <3>3, <3>4
  <2>3. CASE i = n + 2
    <3>1. j = n + 2
      BY <1>1, <2>3
    <3>2. Follows(q, q, r)
      BY <1>4, FollowsItself
    <3> QED BY <1>5, <2>3, <3>1, <3>2
  <2> QED BY <1>1, <2>1, <2>2, <2>3
<1>11. ASSUME NEW a \in 1..n + 2, NEW b \in 1..n + 2, a <= b, NEW p \in Places,
              \A j \in a..b - 1 : su[j].place # p
       PROVE  pt[b][p] = pt[a][p]
  <2>1. CASE b <= n + 1
    <3>1. a \in 1..n + 1 /\ b \in 1..n + 1 /\ \A j \in a..b - 1 : j \in 1..n + 1 /\ j <= n
      BY <1>1, <1>11, <2>1
    <3>2. \A j \in a..b - 1 : st[j].place # p
      BY <1>2, <1>11, <3>1
    <3>3. ps[b][p] = ps[a][p]
      BY <1>6a, <1>11, <3>1, <3>2
    <3> QED BY <1>5, <3>1, <3>3
  <2>2. CASE b = n + 2 /\ a <= n + 1
    <3>1. /\ a \in 1..n + 1 /\ n + 1 \in 1..n + 1 /\ n + 1 \in a..b - 1
          /\ \A j \in a..(n + 1) - 1 : j \in a..b - 1 /\ j \in 1..n + 1 /\ j <= n
      BY <1>1, <1>11, <2>2
    <3>2. \A j \in a..(n + 1) - 1 : st[j].place # p
      BY <1>2, <1>11, <3>1
    <3>3. ps[n + 1][p] = ps[a][p]
      BY <1>6a, <3>1, <3>2, <2>2
    <3>4. su[n + 1] = s
      BY <1>1, <1>2, <3>1
    <3>5. s.place # p
      BY <1>11, <3>1, <3>4
    <3> QED BY <1>3, <1>5, <2>2, <3>1, <3>3, <3>5
  <2>3. CASE a = n + 2
    <3>1. a = b
      BY <1>1, <1>11, <2>3
    <3> QED BY <3>1
  <2> QED BY <1>1, <2>1, <2>2, <2>3
<1>12. Len(su) + 1 = n + 2
  BY <1>1
<1>13. Untouched(su, pt)
  BY <1>11, <1>12 DEF Untouched
<1>14. Path(pg, r, su, m, pt)
  BY <1>1, <1>7, <1>8, <1>9, <1>10, <1>12, <1>13 DEF Path
<1>15. pt[Len(su) + 1] = q /\ pt[m + 1] = x
  <2>1. m + 1 \in 1..n + 1
    BY <1>1
  <2> QED BY <1>5, <1>6, <1>12, <2>1
<1> QED BY <1>14, <1>15 DEF su, Reaches

\* seq goes odd: nothing else of the page changes.
LEMMA SeqGoesOdd ==
  ASSUME NEW r \in Nat \ {0}, NEW z, Sound(z, r), z[Magic0] = r, NEW sq \in Nat,
         z[Seq0] = sq, sq % 2 = 0
  PROVE  /\ Sound(After(z, Store(Seq0, sq + 1)), r)
         /\ Follows(z, After(z, Store(Seq0, sq + 1)), r)
<1> DEFINE q == After(z, Store(Seq0, sq + 1))
<1>1. \A p \in Places : q[p] = IF p = Seq0 THEN sq + 1 ELSE z[p]
  BY DEF After, Store
<1>2. /\ q[Magic0] = z[Magic0] /\ q[Head0] = z[Head0] /\ q[Seq0] = sq + 1
      /\ \A k \in Nat : q[Slot(k)] = z[Slot(k)]
  BY <1>1, PlaceFacts, PlacesIn
<1>3. (sq + 1) % 2 # 0
  OBVIOUS
<1> HIDE DEF q
<1>4. Sound(q, r)
  BY <1>2, <1>3 DEF Sound
<1>5. Follows(z, q, r)
  BY <1>2 DEF Follows, Sound
<1> QED BY <1>4, <1>5 DEF q

\* Body and link change while it is odd.
LEMMA CopyWhileOdd ==
  ASSUME NEW r \in Nat \ {0}, NEW z, Sound(z, r), z[Magic0] = r, z[Seq0] % 2 # 0,
         NEW place \in {Body0, Link0}, NEW value
  PROVE  /\ Sound(After(z, Store(place, value)), r)
         /\ Follows(z, After(z, Store(place, value)), r)
<1> DEFINE q == After(z, Store(place, value))
<1>1. \A p \in Places : q[p] = IF p = place THEN value ELSE z[p]
  BY DEF After, Store
<1>2. /\ q[Magic0] = z[Magic0] /\ q[Head0] = z[Head0] /\ q[Seq0] = z[Seq0]
      /\ \A k \in Nat : q[Slot(k)] = z[Slot(k)]
  BY <1>1, PlaceFacts, PlacesIn
<1> HIDE DEF q
<1>3. Sound(q, r)
  BY <1>2 DEF Sound
<1>4. Follows(z, q, r)
  BY <1>2 DEF Follows, Sound
<1> QED BY <1>3, <1>4 DEF q

\* seq goes even again, over a body and its link.
LEMMA SeqGoesEven ==
  ASSUME NEW r \in Nat \ {0}, NEW z, Sound(z, r), z[Magic0] = r, NEW sq \in Nat,
         z[Seq0] = sq + 1, z[Link0] = z[Body0].no
  PROVE  /\ Sound(After(z, Store(Seq0, sq + 2)), r)
         /\ Follows(z, After(z, Store(Seq0, sq + 2)), r)
<1> DEFINE q == After(z, Store(Seq0, sq + 2))
<1>1. \A p \in Places : q[p] = IF p = Seq0 THEN sq + 2 ELSE z[p]
  BY DEF After, Store
<1>2. /\ q[Magic0] = z[Magic0] /\ q[Head0] = z[Head0] /\ q[Seq0] = sq + 2
      /\ q[Link0] = z[Link0] /\ q[Body0] = z[Body0]
      /\ \A k \in Nat : q[Slot(k)] = z[Slot(k)]
  BY <1>1, PlaceFacts, PlacesIn
<1> HIDE DEF q
<1>3. Sound(q, r)
  BY <1>2 DEF Sound
<1>4. Follows(z, q, r)
  BY <1>2 DEF Follows, Sound
<1> QED BY <1>3, <1>4 DEF q

\* A slot is filled, with the event at the head.
LEMMA SlotFills ==
  ASSUME NEW r \in Nat \ {0}, NEW z, Sound(z, r), z[Magic0] = r, NEW h \in Nat, z[Head0] = h
  PROVE  /\ Sound(After(z, Store(Slot(h), [run |-> r, no |-> h])), r)
         /\ Follows(z, After(z, Store(Slot(h), [run |-> r, no |-> h])), r)
<1> DEFINE q == After(z, Store(Slot(h), [run |-> r, no |-> h]))
<1>1. \A p \in Places : q[p] = IF p = Slot(h) THEN [run |-> r, no |-> h] ELSE z[p]
  BY DEF After, Store
<1>2. /\ q[Magic0] = z[Magic0] /\ q[Head0] = z[Head0] /\ q[Seq0] = z[Seq0]
      /\ q[Link0] = z[Link0] /\ q[Body0] = z[Body0]
  BY <1>1, PlaceFacts, PlacesIn
<1>3. ASSUME NEW k \in Nat, k < h
      PROVE  q[Slot(k)].run = r /\ q[Slot(k)].no \in Int /\ q[Slot(k)].no >= k
  <2>1. CASE Slot(k) = Slot(h)
    <3>1. q[Slot(k)] = [run |-> r, no |-> h]
      BY <1>1, <2>1, PlacesIn
    <3> HIDE DEF q
    <3> QED BY <1>3, <3>1
  <2>2. CASE Slot(k) # Slot(h)
    <3>1. q[Slot(k)] = z[Slot(k)]
      BY <1>1, <2>2, PlacesIn
    <3> HIDE DEF q
    <3> QED BY <1>3, <3>1 DEF Sound
  <2> QED BY <2>1, <2>2
<1> HIDE DEF q
<1>4. Sound(q, r)
  BY <1>2, <1>3 DEF Sound
<1>5. Follows(z, q, r)
  BY <1>2 DEF Follows, Sound
<1> QED BY <1>4, <1>5 DEF q

\* The head moves past the slot that was filled.
LEMMA HeadMoves ==
  ASSUME NEW r \in Nat \ {0}, NEW z, Sound(z, r), z[Magic0] = r, NEW h \in Nat, z[Head0] = h,
         z[Slot(h)] = [run |-> r, no |-> h]
  PROVE  /\ Sound(After(z, Store(Head0, h + 1)), r)
         /\ Follows(z, After(z, Store(Head0, h + 1)), r)
<1> DEFINE q == After(z, Store(Head0, h + 1))
<1>1. \A p \in Places : q[p] = IF p = Head0 THEN h + 1 ELSE z[p]
  BY DEF After, Store
<1>2. /\ q[Magic0] = z[Magic0] /\ q[Head0] = h + 1 /\ q[Seq0] = z[Seq0]
      /\ q[Link0] = z[Link0] /\ q[Body0] = z[Body0]
      /\ \A k \in Nat : q[Slot(k)] = z[Slot(k)]
  BY <1>1, PlaceFacts, PlacesIn
<1>3. ASSUME NEW k \in Nat, k < h + 1
      PROVE  z[Slot(k)].run = r /\ z[Slot(k)].no \in Int /\ z[Slot(k)].no >= k
  <2>1. CASE k = h
    BY <2>1
  <2>2. CASE k < h
    BY <2>2 DEF Sound
  <2> QED BY <1>3, <2>1, <2>2
<1> HIDE DEF q
<1>4. Sound(q, r)
  BY <1>2, <1>3 DEF Sound
<1>5. Follows(z, q, r)
  BY <1>2 DEF Follows, Sound
<1> QED BY <1>4, <1>5 DEF q

-----------------------------------------------------------------------------
(* What publish() and publish_link() put at the end of the path.           *)

LEMMA AppendTwo ==
  ASSUME NEW s \in Seq(Writes), NEW a \in Writes, NEW b \in Writes
  PROVE  s \o <<a, b>> = Append(Append(s, a), b)
<1>1. s \o <<a, b>> \in Seq(Writes) /\ Append(Append(s, a), b) \in Seq(Writes)
  OBVIOUS
<1>2. Len(s \o <<a, b>>) = Len(s) + 2 /\ Len(Append(Append(s, a), b)) = Len(s) + 2
  OBVIOUS
<1>3. \A i \in 1..Len(s) + 2 : (s \o <<a, b>>)[i] = Append(Append(s, a), b)[i]
  OBVIOUS
<1> QED BY <1>1, <1>2, <1>3, SeqEqual

LEMMA AppendThree ==
  ASSUME NEW s \in Seq(Writes), NEW a \in Writes, NEW b \in Writes, NEW c \in Writes
  PROVE  s \o <<a, b, c>> = Append(Append(Append(s, a), b), c)
<1>1. s \o <<a, b, c>> \in Seq(Writes) /\ Append(Append(Append(s, a), b), c) \in Seq(Writes)
  OBVIOUS
<1>2. Len(s \o <<a, b, c>>) = Len(s) + 3 /\ Len(Append(Append(Append(s, a), b), c)) = Len(s) + 3
  OBVIOUS
<1>3. \A i \in 1..Len(s) + 3 : (s \o <<a, b, c>>)[i] = Append(Append(Append(s, a), b), c)[i]
  OBVIOUS
<1> QED BY <1>1, <1>2, <1>3, SeqEqual

LEMMA AppendFour ==
  ASSUME NEW s \in Seq(Writes), NEW a \in Writes, NEW b \in Writes, NEW c \in Writes,
         NEW d \in Writes
  PROVE  s \o <<a, b, c, d>> = Append(Append(Append(Append(s, a), b), c), d)
<1> DEFINE t == Append(Append(Append(Append(s, a), b), c), d)
<1>1. s \o <<a, b, c, d>> \in Seq(Writes) /\ t \in Seq(Writes)
  OBVIOUS
<1>2. Len(s \o <<a, b, c, d>>) = Len(s) + 4 /\ Len(t) = Len(s) + 4
  OBVIOUS
<1>3. \A i \in 1..Len(s) + 4 : (s \o <<a, b, c, d>>)[i] = t[i]
  OBVIOUS
<1> QED BY <1>1, <1>2, <1>3, SeqEqual

\* A state report: seq odd, body, link, seq even.
LEMMA PathState ==
  ASSUME NEW pg, NEW r \in Nat \ {0}, NEW st \in Seq(Writes), NEW m \in Nat, m <= Len(st),
         NEW x, NEW z0, Reaches(pg, r, st, m, x, z0),
         NEW sq \in Nat, NEW l, NEW h \in Nat, Final(z0, r, sq, l, h),
         NEW n \in Nat, NEW changes \in Nat
  PROVE  LET su == st \o << Store(Seq0, sq + 1), Store(Body0, [no |-> n, changes |-> changes]),
                            Store(Link0, n), Store(Seq0, sq + 2) >>
         IN  \E z : Reaches(pg, r, su, m, x, z) /\ Final(z, r, sq + 2, n, h)
<1> r \in Nat
  OBVIOUS
<1> DEFINE a == Store(Seq0, sq + 1)
           b == Store(Body0, [no |-> n, changes |-> changes])
           c == Store(Link0, n)
           d == Store(Seq0, sq + 2)
           s1 == Append(st, a)
           s2 == Append(s1, b)
           s3 == Append(s2, c)
           s4 == Append(s3, d)
           z1 == After(z0, a)
           z2 == After(z1, b)
           z3 == After(z2, c)
           z4 == After(z3, d)
<1>1. a \in Writes /\ b \in Writes /\ c \in Writes /\ d \in Writes
  <2>1. [no |-> n, changes |-> changes] \in Bodies /\ Seq0 \in Numbers /\ Link0 \in Numbers
    BY DEF Bodies, Numbers
  <2>2. sq + 1 \in Nat /\ sq + 2 \in Nat
    OBVIOUS
  <2> QED BY <2>1, <2>2, WriteTypes, Zenon
<1>2. /\ s1 \in Seq(Writes) /\ s2 \in Seq(Writes) /\ s3 \in Seq(Writes)
      /\ m <= Len(s1) /\ m <= Len(s2) /\ m <= Len(s3)
  <2> HIDE DEF a, b, c
  <2> QED BY <1>1
<1>3. st \o <<a, b, c, d>> = s4
  <2> HIDE DEF a, b, c, d
  <2> QED BY <1>1, AppendFour
<1>5. Sound(z0, r)
  BY ReachedIsSound
<1>6. /\ \A p \in Places : z1[p] = IF p = Seq0 THEN sq + 1 ELSE z0[p]
      /\ \A p \in Places : z2[p] = IF p = Body0 THEN [no |-> n, changes |-> changes] ELSE z1[p]
      /\ \A p \in Places : z3[p] = IF p = Link0 THEN n ELSE z2[p]
      /\ \A p \in Places : z4[p] = IF p = Seq0 THEN sq + 2 ELSE z3[p]
  BY DEF After, Store
<1>7. z0[Magic0] = r /\ z0[Seq0] = sq /\ sq % 2 = 0 /\ z0[Head0] = h
  BY DEF Final
<1>8. /\ z1[Magic0] = r /\ z1[Seq0] = sq + 1 /\ z1[Head0] = h
      /\ z2[Magic0] = r /\ z2[Seq0] = sq + 1 /\ z2[Head0] = h
      /\ z3[Magic0] = r /\ z3[Seq0] = sq + 1 /\ z3[Head0] = h
      /\ z4[Magic0] = r /\ z4[Seq0] = sq + 2 /\ z4[Head0] = h
      /\ z3[Body0] = [no |-> n, changes |-> changes] /\ z3[Link0] = n
      /\ z4[Body0] = [no |-> n, changes |-> changes] /\ z4[Link0] = n
  BY <1>6, <1>7, PlaceFacts, PlacesIn
<1>9. (sq + 1) % 2 # 0 /\ (sq + 2) % 2 = 0
  BY <1>7
<1> HIDE DEF z1, z2, z3, z4, s1, s2, s3, s4
<1>10. Sound(z1, r) /\ Follows(z0, z1, r)
  BY <1>5, <1>7, SeqGoesOdd DEF z1
<1>11. Sound(z2, r) /\ Follows(z1, z2, r)
  BY <1>8, <1>9, <1>10, CopyWhileOdd DEF z2
<1>12. Sound(z3, r) /\ Follows(z2, z3, r)
  BY <1>8, <1>9, <1>11, CopyWhileOdd DEF z3
<1>13. Sound(z4, r) /\ Follows(z3, z4, r)
  <2>1. z3[Link0] = z3[Body0].no
    BY <1>8
  <2> QED BY <1>8, <1>12, <2>1, SeqGoesEven DEF z4
<1> HIDE DEF a, b, c, d
<1>14. Reaches(pg, r, s1, m, x, z1)
  BY <1>1, <1>2, <1>7, <1>8, <1>10, Extend DEF s1, z1
<1>15. Reaches(pg, r, s2, m, x, z2)
  BY <1>1, <1>2, <1>8, <1>11, <1>14, Extend DEF s2, z2
<1>16. Reaches(pg, r, s3, m, x, z3)
  BY <1>1, <1>2, <1>8, <1>12, <1>15, Extend DEF s3, z3
<1>17. Reaches(pg, r, s4, m, x, z4)
  BY <1>1, <1>2, <1>8, <1>13, <1>16, Extend DEF s4, z4
<1>18. Final(z4, r, sq + 2, n, h)
  BY <1>8, <1>9, <1>17 DEF Final
<1> QED BY <1>3, <1>17, <1>18 DEF a, b, c, d

\* A link block: seq odd, the link that goes with the body, seq even.
LEMMA PathLink ==
  ASSUME NEW pg, NEW r \in Nat \ {0}, NEW st \in Seq(Writes), NEW m \in Nat, m <= Len(st),
         NEW x, NEW z0, Reaches(pg, r, st, m, x, z0),
         NEW sq \in Nat, NEW l \in Nat, NEW h \in Nat, Final(z0, r, sq, l, h)
  PROVE  LET su == st \o << Store(Seq0, sq + 1), Store(Link0, l), Store(Seq0, sq + 2) >>
         IN  \E z : Reaches(pg, r, su, m, x, z) /\ Final(z, r, sq + 2, l, h)
<1> r \in Nat
  OBVIOUS
<1> DEFINE a == Store(Seq0, sq + 1)
           c == Store(Link0, l)
           d == Store(Seq0, sq + 2)
           s1 == Append(st, a)
           s3 == Append(s1, c)
           s4 == Append(s3, d)
           z1 == After(z0, a)
           z3 == After(z1, c)
           z4 == After(z3, d)
<1>1. a \in Writes /\ c \in Writes /\ d \in Writes
  <2>1. Seq0 \in Numbers /\ Link0 \in Numbers
    BY DEF Numbers
  <2> QED BY <2>1, WriteTypes
<1>2. s1 \in Seq(Writes) /\ s3 \in Seq(Writes) /\ m <= Len(s1) /\ m <= Len(s3)
  <2> HIDE DEF a, c
  <2> QED BY <1>1
<1>3. st \o <<a, c, d>> = s4
  BY <1>1, AppendThree, Zenon
<1>5. Sound(z0, r)
  BY ReachedIsSound
<1>6. /\ \A p \in Places : z1[p] = IF p = Seq0 THEN sq + 1 ELSE z0[p]
      /\ \A p \in Places : z3[p] = IF p = Link0 THEN l ELSE z1[p]
      /\ \A p \in Places : z4[p] = IF p = Seq0 THEN sq + 2 ELSE z3[p]
  BY DEF After, Store
<1>7. z0[Magic0] = r /\ z0[Seq0] = sq /\ sq % 2 = 0 /\ z0[Head0] = h /\ z0[Body0].no = l
  BY DEF Final
<1>8. /\ z1[Magic0] = r /\ z1[Seq0] = sq + 1 /\ z1[Head0] = h
      /\ z3[Magic0] = r /\ z3[Seq0] = sq + 1 /\ z3[Head0] = h
      /\ z4[Magic0] = r /\ z4[Seq0] = sq + 2 /\ z4[Head0] = h
      /\ z3[Body0] = z0[Body0] /\ z3[Link0] = l
      /\ z4[Body0] = z0[Body0] /\ z4[Link0] = l
  BY <1>6, <1>7, PlaceFacts, PlacesIn
<1>9. (sq + 1) % 2 # 0 /\ (sq + 2) % 2 = 0
  BY <1>7
<1> HIDE DEF z1, z3, z4, s1, s3, s4
<1>10. Sound(z1, r) /\ Follows(z0, z1, r)
  BY <1>5, <1>7, SeqGoesOdd DEF z1
<1>12. Sound(z3, r) /\ Follows(z1, z3, r)
  BY <1>8, <1>9, <1>10, CopyWhileOdd DEF z3
<1>13. Sound(z4, r) /\ Follows(z3, z4, r)
  <2>1. z3[Link0] = z3[Body0].no
    BY <1>7, <1>8
  <2> QED BY <1>8, <1>12, <2>1, SeqGoesEven DEF z4
<1> HIDE DEF a, c, d
<1>14. Reaches(pg, r, s1, m, x, z1)
  BY <1>1, <1>2, <1>7, <1>8, <1>10, Extend DEF s1, z1
<1>16. Reaches(pg, r, s3, m, x, z3)
  BY <1>1, <1>2, <1>8, <1>12, <1>14, Extend DEF s3, z3
<1>17. Reaches(pg, r, s4, m, x, z4)
  BY <1>1, <1>2, <1>8, <1>13, <1>16, Extend DEF s4, z4
<1>18. Final(z4, r, sq + 2, l, h)
  BY <1>7, <1>8, <1>9, <1>17 DEF Final
<1> QED BY <1>3, <1>17, <1>18 DEF a, c, d

\* An event: the slot, then the head.
LEMMA PathEvent ==
  ASSUME NEW pg, NEW r \in Nat \ {0}, NEW st \in Seq(Writes), NEW m \in Nat, m <= Len(st),
         NEW x, NEW z0, Reaches(pg, r, st, m, x, z0),
         NEW sq \in Nat, NEW l, NEW h \in Nat, Final(z0, r, sq, l, h)
  PROVE  LET su == st \o << Store(Slot(h), [run |-> r, no |-> h]), Store(Head0, h + 1) >>
         IN  \E z : Reaches(pg, r, su, m, x, z) /\ Final(z, r, sq, l, h + 1)
<1> r \in Nat
  OBVIOUS
<1> DEFINE a == Store(Slot(h), [run |-> r, no |-> h])
           b == Store(Head0, h + 1)
           s1 == Append(st, a)
           s2 == Append(s1, b)
           z1 == After(z0, a)
           z2 == After(z1, b)
<1>1. a \in Writes /\ b \in Writes
  <2>1. [run |-> r, no |-> h] \in Entries /\ Slot(h) \in Slots /\ Head0 \in Numbers
    BY SlotIsPlace DEF Entries, Numbers
  <2> QED BY <2>1, WriteTypes
<1>2. s1 \in Seq(Writes) /\ m <= Len(s1)
  <2> HIDE DEF a
  <2> QED BY <1>1
<1>3. st \o <<a, b>> = s2
  BY <1>1, AppendTwo, Zenon
<1>5. Sound(z0, r)
  BY ReachedIsSound
<1>6. /\ \A p \in Places : z1[p] = IF p = Slot(h) THEN [run |-> r, no |-> h] ELSE z0[p]
      /\ \A p \in Places : z2[p] = IF p = Head0 THEN h + 1 ELSE z1[p]
  BY DEF After, Store
<1>7. z0[Magic0] = r /\ z0[Seq0] = sq /\ sq % 2 = 0 /\ z0[Head0] = h /\ z0[Link0] = l /\ z0[Body0].no = l
  BY DEF Final
<1>8. /\ z1[Magic0] = r /\ z1[Head0] = h /\ z1[Slot(h)] = [run |-> r, no |-> h]
      /\ z2[Magic0] = r /\ z2[Head0] = h + 1 /\ z2[Seq0] = sq
      /\ z2[Link0] = l /\ z2[Body0] = z0[Body0]
  BY <1>6, <1>7, PlaceFacts, PlacesIn
<1> HIDE DEF z1, z2, s1, s2
<1>9. Sound(z1, r) /\ Follows(z0, z1, r)
  BY <1>5, <1>7, SlotFills DEF z1
<1>10. Sound(z2, r) /\ Follows(z1, z2, r)
  BY <1>8, <1>9, HeadMoves DEF z2
<1> HIDE DEF a, b
<1>11. Reaches(pg, r, s1, m, x, z1)
  BY <1>1, <1>2, <1>7, <1>8, <1>9, Extend DEF s1, z1
<1>12. Reaches(pg, r, s2, m, x, z2)
  BY <1>1, <1>2, <1>8, <1>10, <1>11, Extend DEF s2, z2
<1>13. Final(z2, r, sq, l, h + 1)
  BY <1>7, <1>8, <1>12 DEF Final
<1> QED BY <1>3, <1>12, <1>13 DEF a, b

-----------------------------------------------------------------------------
(* The pages to come, step by step.                                        *)

\* Two pages that hold the same.
Same(a, b) == \A p \in Places : b[p] = a[p]

LEMMA SamePlaces ==
  ASSUME NEW a, NEW b, Same(a, b)
  PROVE  /\ b[Magic0] = a[Magic0] /\ b[Seq0] = a[Seq0] /\ b[Head0] = a[Head0]
         /\ b[Link0] = a[Link0] /\ b[Body0] = a[Body0]
         /\ \A k \in Nat : b[Slot(k)] = a[Slot(k)]
BY PlacesIn DEF Same

LEMMA SameSound ==
  ASSUME NEW a, NEW b, NEW r \in Nat, NEW t \in Nat, r <= t, Same(a, b), Sound(a, r)
  PROVE  Sound(b, t)
<1>1. /\ b[Magic0] = a[Magic0] /\ b[Seq0] = a[Seq0] /\ b[Head0] = a[Head0]
      /\ b[Link0] = a[Link0] /\ b[Body0] = a[Body0]
      /\ \A k \in Nat : b[Slot(k)] = a[Slot(k)]
  BY SamePlaces
<1> QED BY <1>1 DEF Sound

\* A load of a place that is not behind is a load from the settled page.
LEMMA NotBehind ==
  ASSUME Typed, NEW s, Settled(s)
  PROVE  \A places : ~Behind(places) => \A p \in Places \cap places : page[p] = s[p]
<1> SUFFICES ASSUME NEW places, ~Behind(places), NEW p \in Places, p \in places
             PROVE  page[p] = s[p]
  OBVIOUS
<1>1. PICK ps : Path(page, run, stores, late, ps) /\ ps[late + 1] = s
  BY DEF Settled, Reaches
<1>2. 1 \in 1..Len(stores) + 1 /\ late + 1 \in 1..Len(stores) + 1 /\ 1 <= late + 1
      /\ (late + 1) - 1 = late
  BY DEF Typed, RelayOK
<1>3. \A j \in 1..late : stores[j].place # p
  BY DEF Behind
<1>4. ps[late + 1][p] = ps[1][p]
  BY <1>1, <1>2, <1>3 DEF Path, Untouched
<1> QED BY <1>1, <1>4 DEF Path

\* The settled page is sound.
LEMMA SettledIsSound == ASSUME Typed, NEW s, Settled(s) PROVE Sound(s, run)
<1>1. run \in Nat /\ stores \in Seq(Writes) /\ late \in Nat /\ late <= Len(stores)
  BY DEF Typed, RelayOK
<1>2. PICK z : Reaches(page, run, stores, late, s, z)
  BY DEF Settled
<1> QED BY <1>1, <1>2, ReachedIsSound

\* A sound page with nothing on its way.
LEMMA NothingOnItsWay ==
  ASSUME NEW pg, NEW r \in Nat, Sound(pg, r)
  PROVE  Reaches(pg, r, <<>>, 0, pg, pg)
<1> DEFINE ps == [i \in 1..1 |-> pg]
<1>1. ps[1] = pg /\ Len(<<>>) = 0
  OBVIOUS
<1>2. Follows(pg, pg, r)
  BY FollowsItself
<1> HIDE DEF ps
<1>3. Untouched(<<>>, ps)
  BY <1>1 DEF Untouched
<1>4. Path(pg, r, <<>>, 0, ps) /\ ps[Len(<<>>) + 1] = pg /\ ps[0 + 1] = pg
  BY <1>1, <1>2, <1>3 DEF Path
<1> QED BY <1>4 DEF Reaches

\* The relay dies: of the path there is left what was overtaken.
LEMMA PathCut ==
  ASSUME NEW pg, NEW r \in Nat, NEW st \in Seq(Writes), NEW n \in Nat, n <= Len(st),
         NEW s, NEW z, Reaches(pg, r, st, n, s, z)
  PROVE  Reaches(pg, r, SubSeq(st, 1, n), n, s, s)
<1> DEFINE su == SubSeq(st, 1, n)
<1>1. PICK ps : Path(pg, r, st, n, ps) /\ ps[n + 1] = s
  BY DEF Reaches
<1>2. Len(su) = n /\ \A i \in 1..n : su[i] = st[i]
  OBVIOUS
<1> HIDE DEF su
<1>3. n + 1 \in n + 1..Len(st) + 1 /\ \A i \in n + 1..n + 1 : i = n + 1
  OBVIOUS
<1>4. \A i \in 1..n : i \in 1..Len(st)
  OBVIOUS
<1>5. \A p \in Places : ps[1][p] = pg[p]
  BY <1>1 DEF Path
<1>6. \A i \in 1..n : \A p \in Places :
         ps[i + 1][p] = IF p = su[i].place THEN su[i].value ELSE ps[i][p]
  BY <1>1, <1>2, <1>4 DEF Path
<1>7. Sound(ps[n + 1], r) /\ Follows(ps[n + 1], ps[n + 1], r)
  BY <1>1, <1>3, FollowsItself DEF Path
<1>8. Untouched(su, ps)
  <2> SUFFICES ASSUME NEW a \in 1..n + 1, NEW b \in 1..n + 1, a <= b, NEW p \in Places,
                      \A j \in a..b - 1 : su[j].place # p
               PROVE  ps[b][p] = ps[a][p]
    BY <1>2 DEF Untouched
  <2>1. a \in 1..Len(st) + 1 /\ b \in 1..Len(st) + 1 /\ \A j \in a..b - 1 : j \in 1..n
    OBVIOUS
  <2>2. \A j \in a..b - 1 : st[j].place # p
    BY <1>2, <2>1
  <2> QED BY <1>1, <2>1, <2>2 DEF Path, Untouched
<1>9. Path(pg, r, su, n, ps)
  BY <1>2, <1>3, <1>5, <1>6, <1>7, <1>8 DEF Path
<1> QED BY <1>1, <1>2, <1>9 DEF Reaches, su

\* The i-th of the stores st has become visible.
MadeVisible(pg, st, i, qg, su) ==
    /\ i \in 1..Len(st)
    /\ \A j \in 1..i - 1 : st[j].place # st[i].place
    /\ \A p \in Places : qg[p] = IF p = st[i].place THEN st[i].value ELSE pg[p]
    /\ su \in Seq(Writes) /\ Len(su) = Len(st) - 1
    /\ \A j \in 1..Len(st) - 1 : su[j] = IF j < i THEN st[j] ELSE st[j + 1]

\* How many stores have been overtaken then, if it was n before.
Overtaken(n, i) == (IF i > n THEN i ELSE n) - 1

\* A store becomes visible out of its turn: the pages before it get its value, and
\* the settled page moves along the path, if at all.
LEMMA PathWithout ==
  ASSUME NEW pg, NEW r \in Nat, NEW st \in Seq(Writes), NEW n \in Nat, n <= Len(st),
         NEW s, NEW z, Reaches(pg, r, st, n, s, z),
         NEW i, NEW qg, NEW su, MadeVisible(pg, st, i, qg, su),
         NEW m, m = Overtaken(n, i)
  PROVE  \E t : /\ Reaches(qg, r, su, m, t, z)
                /\ Follows(s, t, r)
                /\ n = Len(st) => t = s
<1>0. PICK ps : Path(pg, r, st, n, ps) /\ ps[n + 1] = s /\ ps[Len(st) + 1] = z
  BY DEF Reaches
<1> DEFINE l == Len(st)
           pl == st[i].place
           v == st[i].value
           pt == [k \in 1..l |-> IF k < i THEN After(ps[k], st[i]) ELSE ps[k + 1]]
<1>1. /\ l \in Nat \ {0} /\ Len(su) + 1 = l /\ Len(su) = l - 1 /\ i \in 1..l /\ n <= l /\ i \in Nat
      /\ m = (IF i > n THEN i ELSE n) - 1 /\ m \in Nat
  BY DEF MadeVisible, Overtaken
<1>2. \A k \in 1..l : k < i => \A p \in Places : pt[k][p] = IF p = pl THEN v ELSE ps[k][p]
  BY DEF After
<1>3. \A k \in 1..l : k >= i => pt[k] = ps[k + 1]
  BY <1>1
<1>4. \A j \in 1..l - 1 : su[j] = IF j < i THEN st[j] ELSE st[j + 1]
  BY DEF MadeVisible
<1>5. \A j \in 1..i - 1 : st[j].place # pl
  BY DEF MadeVisible
<1>6. \A p \in Places : qg[p] = IF p = pl THEN v ELSE pg[p]
  BY DEF MadeVisible
<1> HIDE DEF pt
<1>7. /\ \A p \in Places : ps[1][p] = pg[p]
      /\ \A k \in 1..l : \A p \in Places :
            ps[k + 1][p] = IF p = st[k].place THEN st[k].value ELSE ps[k][p]
      /\ \A k \in n + 1..l + 1 : Sound(ps[k], r)
      /\ \A k, j \in n + 1..l + 1 : k <= j => Follows(ps[k], ps[j], r)
      /\ ps[n + 1] = s /\ ps[l + 1] = z
  BY <1>0 DEF Path
<1>8. ASSUME NEW a \in 1..l + 1, NEW b \in 1..l + 1, a <= b, NEW p \in Places,
             \A j \in a..b - 1 : st[j].place # p
      PROVE  ps[b][p] = ps[a][p]
  BY <1>0, <1>8 DEF Path, Untouched
<1>9. \A p \in Places : ps[i + 1][p] = IF p = pl THEN v ELSE ps[i][p]
  BY <1>1, <1>7
<1> HIDE DEF l, pl, v
\* the first page
<1>10. \A p \in Places : pt[1][p] = qg[p]
  <2>1. CASE i = 1
    <3>1. 1 \in 1..l /\ pt[1] = ps[i + 1]
      BY <1>1, <1>3, <2>1
    <3> QED BY <1>6, <1>7, <1>9, <2>1, <3>1
  <2>2. CASE i > 1
    <3>1. 1 \in 1..l /\ 1 < i
      BY <1>1, <2>2
    <3> QED BY <1>2, <1>6, <1>7, <3>1
  <2> QED BY <1>1, <2>1, <2>2
\* from one to the next
<1>11. ASSUME NEW k \in 1..l - 1, NEW p \in Places
       PROVE  pt[k + 1][p] = IF p = su[k].place THEN su[k].value ELSE pt[k][p]
  <2>0. k \in 1..l /\ k + 1 \in 1..l
    BY <1>1
  <2>1. CASE k >= i
    <3>1. pt[k] = ps[k + 1] /\ pt[k + 1] = ps[(k + 1) + 1] /\ su[k] = st[k + 1]
      BY <1>1, <1>3, <1>4, <2>0, <2>1
    <3>2. ps[(k + 1) + 1][p] = IF p = st[k + 1].place THEN st[k + 1].value ELSE ps[k + 1][p]
      BY <1>7, <2>0
    <3> QED BY <3>1, <3>2
  <2>2. CASE k < i
    <3>1. /\ su[k] = st[k] /\ pt[k][p] = IF p = pl THEN v ELSE ps[k][p]
          /\ st[k].place # pl
      <4>1. k \in 1..i - 1
        BY <1>1, <2>2
      <4> QED BY <1>2, <1>4, <1>5, <2>0, <2>2, <4>1
    <3>2. pt[k + 1][p] = IF p = pl THEN v ELSE ps[k + 1][p]
      <4>1. CASE k + 1 < i
        BY <1>2, <2>0, <4>1
      <4>2. CASE k + 1 = i
        <5>1. pt[k + 1] = ps[i + 1] /\ ps[k + 1] = ps[i]
          BY <1>1, <1>3, <2>0, <4>2
        <5> QED BY <1>9, <5>1
      <4> QED BY <1>1, <2>2, <4>1, <4>2
    <3>3. ps[k + 1][p] = IF p = st[k].place THEN st[k].value ELSE ps[k][p]
      BY <1>7, <2>0
    <3> QED BY <3>1, <3>2, <3>3
  <2> QED BY <1>1, <2>1, <2>2
\* what is not stored to stays
<1>12. ASSUME NEW a \in 1..l, NEW b \in 1..l, a <= b, NEW p \in Places,
              \A j \in a..b - 1 : su[j].place # p
       PROVE  pt[b][p] = pt[a][p]
  <2>1. CASE a >= i
    <3>0. b >= i /\ a + 1 \in 1..l + 1 /\ b + 1 \in 1..l + 1 /\ a + 1 <= b + 1
      BY <1>1, <1>12, <2>1
    <3>1. pt[a] = ps[a + 1] /\ pt[b] = ps[b + 1]
      BY <1>3, <2>1, <3>0
    <3>2. ASSUME NEW j \in a + 1..(b + 1) - 1 PROVE st[j].place # p
      <4>1. j - 1 \in a..b - 1 /\ j - 1 \in 1..l - 1 /\ ~(j - 1 < i) /\ (j - 1) + 1 = j
        BY <1>1, <2>1
      <4> QED BY <1>4, <1>12, <4>1
    <3> QED BY <1>8, <3>0, <3>1, <3>2
  <2>2. CASE b < i
    <3>1. /\ pt[a][p] = IF p = pl THEN v ELSE ps[a][p]
          /\ pt[b][p] = IF p = pl THEN v ELSE ps[b][p]
      BY <1>1, <1>2, <1>12, <2>2
    <3>2. a \in 1..l + 1 /\ b \in 1..l + 1
      BY <1>1
    <3>3. ASSUME NEW j \in a..b - 1 PROVE st[j].place # p
      <4>1. j \in 1..l - 1 /\ j < i
        BY <1>1, <2>2
      <4> QED BY <1>4, <1>12, <4>1
    <3>4. ps[b][p] = ps[a][p]
      BY <1>8, <1>12, <3>2, <3>3
    <3> QED BY <3>1, <3>4
  <2>3. CASE a < i /\ i <= b
    <3>1. pt[a][p] = IF p = pl THEN v ELSE ps[a][p]
      BY <1>2, <2>3
    <3>2. pt[b] = ps[b + 1] /\ b + 1 \in 1..l + 1 /\ i + 1 \in 1..l + 1 /\ a \in 1..l + 1
          /\ i + 1 <= b + 1 /\ a <= b + 1
      BY <1>1, <1>3, <2>3
    <3>3. ASSUME NEW j \in i + 1..b PROVE st[j].place # p
      <4>1. j - 1 \in a..b - 1 /\ j - 1 \in 1..l - 1 /\ ~(j - 1 < i) /\ (j - 1) + 1 = j
        BY <1>1, <2>3
      <4> QED BY <1>4, <1>12, <4>1
    <3>4. CASE p = pl
      <4>1. ps[i + 1][p] = v
        BY <1>9, <3>4
      <4>2. (b + 1) - 1 = b
        BY <1>1
      <4>3. ps[b + 1][p] = ps[i + 1][p]
        BY <1>8, <3>2, <3>3, <4>2
      <4> QED BY <3>1, <3>2, <3>4, <4>1, <4>3
    <3>5. CASE p # pl
      <4>1. ASSUME NEW j \in a..(b + 1) - 1 PROVE st[j].place # p
        <5>1. CASE j < i
          <6>1. j \in a..b - 1 /\ j \in 1..l - 1
            BY <1>1, <2>3, <5>1
          <6> QED BY <1>4, <1>12, <5>1, <6>1
        <5>2. CASE j = i
          BY <3>5, <5>2 DEF pl
        <5>3. CASE j > i
          <6>1. j \in i + 1..b
            BY <1>1, <2>3, <5>3
          <6> QED BY <3>3, <6>1
        <5> QED BY <1>1, <5>1, <5>2, <5>3
      <4>2. ps[b + 1][p] = ps[a][p]
        BY <1>8, <3>2, <4>1
      <4> QED BY <3>1, <3>2, <3>5, <4>2
    <3> QED BY <3>4, <3>5
  <2> QED BY <1>1, <2>1, <2>2, <2>3
<1>13. Untouched(su, pt)
  BY <1>1, <1>12 DEF Untouched
\* from the settled page on they are the ones there were
<1>14. ASSUME NEW k \in m + 1..l
       PROVE  pt[k] = ps[k + 1] /\ k + 1 \in n + 1..l + 1
  <2>1. k \in 1..l /\ k >= i /\ k + 1 \in n + 1..l + 1
    BY <1>1
  <2> QED BY <1>3, <2>1
<1>15. \A k \in m + 1..l : Sound(pt[k], r)
  BY <1>7, <1>14
<1>16. \A k, j \in m + 1..l : k <= j => Follows(pt[k], pt[j], r)
  <2> SUFFICES ASSUME NEW k \in m + 1..l, NEW j \in m + 1..l, k <= j
               PROVE  Follows(pt[k], pt[j], r)
    OBVIOUS
  <2>1. /\ pt[k] = ps[k + 1] /\ k + 1 \in n + 1..l + 1
        /\ pt[j] = ps[j + 1] /\ j + 1 \in n + 1..l + 1
    BY <1>14
  <2>2. k + 1 <= j + 1
    BY <1>1
  <2> QED BY <1>7, <2>1, <2>2
<1>17. Path(qg, r, su, m, pt)
  BY <1>1, <1>10, <1>11, <1>13, <1>15, <1>16 DEF Path
<1>18. m + 1 \in m + 1..l /\ l \in m + 1..l
  BY <1>1
<1>19. pt[m + 1] = ps[(m + 1) + 1] /\ (m + 1) + 1 \in n + 1..l + 1 /\ pt[l] = z
  BY <1>7, <1>14, <1>18
<1>20. Reaches(qg, r, su, m, pt[m + 1], z)
  BY <1>1, <1>17, <1>19 DEF Reaches
<1>21. Follows(s, pt[m + 1], r)
  <2>1. n + 1 \in n + 1..l + 1 /\ n + 1 <= (m + 1) + 1
    BY <1>1, <1>19
  <2> QED BY <1>7, <1>19, <2>1
<1>22. n = Len(st) => pt[m + 1] = s
  <2> SUFFICES ASSUME n = l PROVE pt[m + 1] = s
    BY DEF l
  <2>1. (m + 1) + 1 = n + 1
    BY <1>1
  <2> QED BY <1>7, <1>19, <2>1
<1> QED BY <1>20, <1>21, <1>22

-----------------------------------------------------------------------------
(* Writer::open(): every place is zeroed before the magic number stands.   *)

Zero(p) == IF p \in Slots THEN NoEvent ELSE IF p = Body0 THEN NoBody ELSE 0

\* Place p has been zeroed on the i-th page.
Zeroed(i, p) ==
    \/ p = Magic0 /\ i >= 2
    \/ p = Seq0 /\ i >= 3
    \/ p = Body0 /\ i >= 4
    \/ p = Link0 /\ i >= 5
    \/ p = Head0 /\ i >= 6
    \/ \E j \in 0..Events - 1 : p = Slot(j) /\ i >= j + 7

\* The pages Writer::open() makes of page pg.
Opening(pg, r) ==
    [i \in 1..Events + 7 |-> [p \in Places |->
        IF p = Magic0 /\ i = Events + 7 THEN r
        ELSE IF Zeroed(i, p) THEN Zero(p) ELSE pg[p]]]

\* One store of Writer::open() zeroes one place.
LEMMA OpeningStores ==
  ASSUME run \in Nat, NEW i \in 1..Events + 6, NEW p \in Places
  PROVE  Opening(page, run + 1)[i + 1][p] =
            IF p = OpenStores[i].place THEN OpenStores[i].value
                                       ELSE Opening(page, run + 1)[i][p]
<1> DEFINE o == Opening(page, run + 1)
<1> SUFFICES o[i + 1][p] = IF p = OpenStores[i].place THEN OpenStores[i].value ELSE o[i][p]
  OBVIOUS
<1>1. /\ o[i + 1][p] = IF p = Magic0 /\ i + 1 = Events + 7 THEN run + 1
                        ELSE IF Zeroed(i + 1, p) THEN Zero(p) ELSE page[p]
      /\ o[i][p] = IF p = Magic0 /\ i = Events + 7 THEN run + 1
                    ELSE IF Zeroed(i, p) THEN Zero(p) ELSE page[p]
  <2>1. i \in 1..Events + 7 /\ i + 1 \in 1..Events + 7
    BY EventsAssumption
  <2> QED BY <2>1 DEF Opening
<1> HIDE DEF o
<1>2. i # Events + 7 /\ i \in Nat /\ i >= 1 /\ i <= Events + 6
  BY EventsAssumption
<1>3. \A q, v : Store(q, v).place = q /\ Store(q, v).value = v
  BY DEF Store
<1>4. \A j \in 0..Events - 1 : Slot(j) \in Slots
  BY SlotIsPlace, EventsAssumption
<1>5. CASE i = 1
  <2>1. OpenStores[i] = Store(Magic0, 0)
    BY <1>5, OpenShape
  <2>2. Zeroed(2, p) <=> p = Magic0
    BY EventsAssumption, PlaceFacts DEF Zeroed
  <2>3. ~Zeroed(1, p)
    BY EventsAssumption DEF Zeroed
  <2> QED BY <1>1, <1>3, <1>5, <2>1, <2>2, <2>3, PlaceFacts, EventsAssumption DEF Zero
<1>6. CASE i \in 2..5
  <2>1. PICK q \in {Seq0, Body0, Link0, Head0} : OpenStores[i] = Store(q, Zero(q))
                                                 /\ (Zeroed(i + 1, p) <=> Zeroed(i, p) \/ p = q)
    <3>1. CASE i = 2
      <4>1. OpenStores[2] = Store(Seq0, Zero(Seq0))
        BY OpenShape, PlaceFacts DEF Zero
      <4>2. Zeroed(3, p) <=> Zeroed(2, p) \/ p = Seq0
        BY EventsAssumption DEF Zeroed
      <4> QED BY <3>1, <4>1, <4>2
    <3>2. CASE i = 3
      <4>1. OpenStores[3] = Store(Body0, Zero(Body0))
        BY OpenShape, PlaceFacts DEF Zero
      <4>2. Zeroed(4, p) <=> Zeroed(3, p) \/ p = Body0
        BY EventsAssumption DEF Zeroed
      <4> QED BY <3>2, <4>1, <4>2
    <3>3. CASE i = 4
      <4>1. OpenStores[4] = Store(Link0, Zero(Link0))
        BY OpenShape, PlaceFacts DEF Zero
      <4>2. Zeroed(5, p) <=> Zeroed(4, p) \/ p = Link0
        BY EventsAssumption DEF Zeroed
      <4> QED BY <3>3, <4>1, <4>2
    <3>4. CASE i = 5
      <4>1. OpenStores[5] = Store(Head0, Zero(Head0))
        BY OpenShape, PlaceFacts DEF Zero
      <4>2. Zeroed(6, p) <=> Zeroed(5, p) \/ p = Head0
        BY EventsAssumption DEF Zeroed
      <4> QED BY <3>4, <4>1, <4>2
    <3> QED BY <1>6, <3>1, <3>2, <3>3, <3>4
  <2>2. i + 1 # Events + 7
    BY <1>6, EventsAssumption
  <2> QED BY <1>1, <1>2, <1>3, <2>1, <2>2
<1>7. CASE i \in 6..Events + 5
  <2>1. OpenStores[i] = Store(Slot(i - 6), NoEvent)
    BY <1>7, OpenShape
  <2>2. i - 6 \in 0..Events - 1 /\ i + 1 # Events + 7
    BY <1>7, EventsAssumption
  <2>3. Zeroed(i + 1, p) <=> Zeroed(i, p) \/ p = Slot(i - 6)
    <3>1. ASSUME NEW j \in 0..Events - 1, i + 1 >= j + 7 PROVE i >= j + 7 \/ j = i - 6
      BY <1>2, <3>1, EventsAssumption
    <3>2. (\E j \in 0..Events - 1 : p = Slot(j) /\ i + 1 >= j + 7)
            <=> (\E j \in 0..Events - 1 : p = Slot(j) /\ i >= j + 7) \/ p = Slot(i - 6)
      <4>1. ASSUME NEW j \in 0..Events - 1, i >= j + 7 PROVE i + 1 >= j + 7
        BY <1>2, <4>1, EventsAssumption
      <4>2. i + 1 >= (i - 6) + 7
        BY <1>2
      <4> QED BY <2>2, <3>1, <4>1, <4>2
    <3> QED BY <1>7, <3>2 DEF Zeroed
  <2>4. Zero(Slot(i - 6)) = NoEvent
    BY <1>4, <2>2 DEF Zero
  <2> QED BY <1>1, <1>2, <1>3, <2>1, <2>2, <2>3, <2>4
<1>8. CASE i = Events + 6
  <2>1. OpenStores[i] = Store(Magic0, run + 1)
    BY <1>8, OpenShape
  <2>2. i + 1 = Events + 7
    BY <1>8, EventsAssumption
  <2>3. Zeroed(i + 1, p) <=> Zeroed(i, p)
    <3>1. \A j \in 0..Events - 1 : i >= j + 7 /\ i + 1 >= j + 7
      BY <1>8, EventsAssumption
    <3>2. i >= 6 /\ i + 1 >= 6
      BY <1>8, EventsAssumption
    <3> QED BY <1>8, <3>1, <3>2, EventsAssumption DEF Zeroed
  <2> QED BY <1>1, <1>2, <1>3, <2>1, <2>2, <2>3
<1>9. i \in {1} \cup 2..5 \cup 6..Events + 5 \cup {Events + 6}
  BY <1>2, EventsAssumption
<1> QED BY <1>5, <1>6, <1>7, <1>8, <1>9

\* Until the new magic number stands there is none, and then all is zero.
LEMMA OpeningPath ==
  ASSUME PageOK, run \in Nat, Sound(page, run)
  PROVE  \E t, z : /\ Reaches(page, run + 1, OpenStores, 0, t, z)
                   /\ Final(z, run + 1, 0, 0, 0)
                   /\ Same(page, t)
<1> DEFINE o == Opening(page, run + 1)
           r == run + 1
           n == Events + 6
<1>1. n \in Nat /\ n + 1 = Events + 7 /\ r \in Nat /\ r > 0 /\ run < r /\ n > 6
  BY EventsAssumption
<1>2. ASSUME NEW i \in 1..n + 1, NEW p \in Places
      PROVE  o[i][p] = IF p = Magic0 /\ i = n + 1 THEN r
                        ELSE IF Zeroed(i, p) THEN Zero(p) ELSE page[p]
  BY <1>1 DEF Opening
<1>3. Len(OpenStores) = n
  BY OpenShape
<1>4. \A i \in 1..n : \A p \in Places :
         o[i + 1][p] = IF p = OpenStores[i].place THEN OpenStores[i].value ELSE o[i][p]
  BY OpeningStores
<1> HIDE DEF o, n, r
\* the first page
<1>5. \A p \in Places : o[1][p] = page[p]
  <2> TAKE p \in Places
  <2>1. ~Zeroed(1, p)
    BY EventsAssumption DEF Zeroed
  <2>2. 1 \in 1..n + 1 /\ 1 # n + 1
    BY <1>1
  <2> QED BY <1>2, <2>1, <2>2
<1>6. Sound(o[1], r) /\ o[1][Magic0] \in 0..run
  <2>1. Sound(o[1], r)
    BY <1>1, <1>5, SameSound DEF r, Same
  <2> QED BY <1>5, <2>1, PlacesIn DEF Sound
\* the pages of no run
<1>7. ASSUME NEW i \in 2..n
      PROVE  o[i][Magic0] = 0 /\ o[i][Seq0] \in Nat /\ o[i][Head0] \in Nat
  <2>1. i \in 1..n + 1 /\ i # n + 1 /\ i >= 2
    BY <1>1
  <2>2. Zeroed(i, Magic0)
    BY <2>1 DEF Zeroed
  <2>3. Zero(Magic0) = 0 /\ Zero(Seq0) = 0 /\ Zero(Head0) = 0
    BY PlaceFacts DEF Zero
  <2>4. page[Seq0] \in Nat /\ page[Head0] \in Nat
    BY NumberTypes
  <2> QED BY <1>2, <2>1, <2>2, <2>3, <2>4, PlacesIn
\* the last page
<1>8. /\ o[n + 1][Magic0] = r /\ o[n + 1][Seq0] = 0 /\ o[n + 1][Head0] = 0
      /\ o[n + 1][Link0] = 0 /\ o[n + 1][Body0] = NoBody
  <2>1. n + 1 \in 1..n + 1 /\ n + 1 >= 7
    BY <1>1
  <2>2. Zeroed(n + 1, Seq0) /\ Zeroed(n + 1, Head0) /\ Zeroed(n + 1, Link0) /\ Zeroed(n + 1, Body0)
    BY <2>1 DEF Zeroed
  <2>3. Zero(Seq0) = 0 /\ Zero(Head0) = 0 /\ Zero(Link0) = 0 /\ Zero(Body0) = NoBody
    BY PlaceFacts DEF Zero
  <2> QED BY <1>2, <2>1, <2>2, <2>3, PlacesIn, PlaceFacts
<1>9. \A i \in 1..n + 1 : Sound(o[i], r)
  <2> TAKE i \in 1..n + 1
  <2>1. CASE i = 1
    BY <1>6, <2>1
  <2>2. CASE i \in 2..n
    BY <1>1, <1>7, <2>2 DEF Sound
  <2>3. CASE i = n + 1
    <3>1. NoBody.no = 0
      BY DEF NoBody
    <3> QED BY <1>1, <1>8, <2>3, <3>1 DEF Sound
  <2> QED BY <1>1, <2>1, <2>2, <2>3
<1>10. \A i, j \in 1..n + 1 : i <= j => Follows(o[i], o[j], r)
  <2> SUFFICES ASSUME NEW i \in 1..n + 1, NEW j \in 1..n + 1, i <= j PROVE Follows(o[i], o[j], r)
    OBVIOUS
  <2>1. CASE i = j
    BY <1>1, <1>9, <2>1, FollowsItself
  <2>2. CASE i < j
    <3>1. o[j][Magic0] \in {0, r}
      <4>1. j \in 2..n \/ j = n + 1
        BY <1>1, <2>2
      <4> QED BY <1>7, <1>8, <4>1
    <3>2. o[i][Magic0] \in 0..run /\ (i # 1 => o[i][Magic0] = 0)
      <4>1. i = 1 \/ i \in 2..n
        BY <1>1, <2>2
      <4> QED BY <1>1, <1>6, <1>7, <4>1
    <3>3. o[i][Magic0] # r
      BY <1>1, <3>2
    <3>4. ~(o[i][Magic0] > 0 /\ o[j][Magic0] = o[i][Magic0])
      BY <1>1, <3>1, <3>2, <3>3
    <3> QED BY <3>1, <3>3, <3>4 DEF Follows
  <2> QED BY <1>1, <2>1, <2>2
<1>11. Untouched(OpenStores, o)
  <2> SUFFICES ASSUME NEW a \in 1..n + 1, NEW b \in 1..n + 1, a <= b, NEW p \in Places,
                      o[b][p] # o[a][p]
               PROVE  \E j \in a..b - 1 : OpenStores[j].place = p
    BY <1>3 DEF Untouched
  <2>1. \A q, y : Store(q, y).place = q
    BY DEF Store
  <2>2. CASE p = Magic0 /\ b = n + 1
    <3>1. OpenStores[n].place = p
      BY <2>1, <2>2, OpenShape DEF n
    <3>2. n \in a..b - 1
      BY <1>1, <2>2
    <3> QED BY <3>1, <3>2
  <2>3. CASE ~(p = Magic0 /\ b = n + 1)
    <3>1. ~(p = Magic0 /\ a = n + 1)
      BY <1>1, <2>3
    <3>2. /\ o[a][p] = IF Zeroed(a, p) THEN Zero(p) ELSE page[p]
          /\ o[b][p] = IF Zeroed(b, p) THEN Zero(p) ELSE page[p]
      BY <1>2, <2>3, <3>1
    <3>3. Zeroed(b, p) # Zeroed(a, p)
      BY <3>2
    <3>4. a \in Nat /\ b \in Nat
      BY <1>1
    <3>5. Zeroed(a, p) => Zeroed(b, p)
      BY <3>4, EventsAssumption DEF Zeroed
    <3>6. Zeroed(b, p) /\ ~Zeroed(a, p)
      BY <3>3, <3>5 DEF Zeroed
    <3>7. CASE p = Magic0 \/ p = Seq0 \/ p = Body0 \/ p = Link0 \/ p = Head0
      <4>1. PICK c \in 1..5 : p = OpenStores[c].place /\ (p = OpenStores[c].place => a < c + 1 /\ b >= c + 1)
        <5>1. CASE p = Magic0
          <6>1. a < 2 /\ b >= 2
            BY <3>4, <3>6, <5>1, PlaceFacts, SlotIsPlace, EventsAssumption DEF Zeroed
          <6>2. OpenStores[1].place = p
            BY <2>1, <5>1, OpenShape
          <6> QED BY <3>4, <6>1, <6>2
        <5>2. CASE p = Seq0
          <6>1. a < 3 /\ b >= 3
            BY <3>4, <3>6, <5>2, PlaceFacts, SlotIsPlace, EventsAssumption DEF Zeroed
          <6>2. OpenStores[2].place = p
            BY <2>1, <5>2, OpenShape
          <6> QED BY <3>4, <6>1, <6>2
        <5>3. CASE p = Body0
          <6>1. a < 4 /\ b >= 4
            BY <3>4, <3>6, <5>3, PlaceFacts, SlotIsPlace, EventsAssumption DEF Zeroed
          <6>2. OpenStores[3].place = p
            BY <2>1, <5>3, OpenShape
          <6> QED BY <3>4, <6>1, <6>2
        <5>4. CASE p = Link0
          <6>1. a < 5 /\ b >= 5
            BY <3>4, <3>6, <5>4, PlaceFacts, SlotIsPlace, EventsAssumption DEF Zeroed
          <6>2. OpenStores[4].place = p
            BY <2>1, <5>4, OpenShape
          <6> QED BY <3>4, <6>1, <6>2
        <5>5. CASE p = Head0
          <6>1. a < 6 /\ b >= 6
            BY <3>4, <3>6, <5>5, PlaceFacts, SlotIsPlace, EventsAssumption DEF Zeroed
          <6>2. OpenStores[5].place = p
            BY <2>1, <5>5, OpenShape
          <6> QED BY <3>4, <6>1, <6>2
        <5> QED BY <3>7, <5>1, <5>2, <5>3, <5>4, <5>5
      <4>2. c \in a..b - 1
        BY <3>4, <4>1
      <4> QED BY <4>1, <4>2
    <3>8. CASE ~(p = Magic0 \/ p = Seq0 \/ p = Body0 \/ p = Link0 \/ p = Head0)
      <4>1. PICK c \in 0..Events - 1 : p = Slot(c) /\ b >= c + 7
        BY <3>6, <3>8 DEF Zeroed
      <4>2. a < c + 7
        BY <3>4, <3>6, <4>1, EventsAssumption DEF Zeroed
      <4>3. c + 6 \in 6..Events + 5 /\ (c + 6) - 6 = c
        BY EventsAssumption
      <4>4. OpenStores[c + 6] = Store(Slot(c), NoEvent)
        BY <4>3, OpenShape
      <4>5. c + 6 \in a..b - 1
        BY <3>4, <4>1, <4>2, EventsAssumption
      <4> QED BY <2>1, <4>1, <4>4, <4>5
    <3> QED BY <3>7, <3>8
  <2> QED BY <2>2, <2>3
<1>12. Path(page, r, OpenStores, 0, o)
  <2>1. 0 + 1 = 1
    OBVIOUS
  <2> QED BY <1>3, <1>4, <1>5, <1>9, <1>10, <1>11, <2>1 DEF Path
<1>13. Reaches(page, r, OpenStores, 0, o[1], o[n + 1])
  <2>1. 0 + 1 = 1
    OBVIOUS
  <2> QED BY <1>3, <1>12, <2>1 DEF Reaches
<1>14. Final(o[n + 1], r, 0, 0, 0)
  BY <1>8 DEF Final, NoBody
<1>15. Same(page, o[1])
  BY <1>5 DEF Same
<1> QED BY <1>13, <1>14, <1>15 DEF r

\* Every step of the relay keeps the pages to come sound, and the settled page
\* becomes one that follows from it.
LEMMA RelaySettles ==
  ASSUME Typed, DownIsQuiet, NEW s, Settled(s), Relay
  PROVE  /\ DownIsQuiet' /\ run <= run'
         /\ \E t : /\ Settled(t)'
                   /\ \/ Same(s, t) /\ (up' => up \/ run < run')
                      \/ up /\ run' = run /\ Follows(s, t, run)
<1> USE DEF Typed
<1>0. stores \in Seq(Writes) /\ run \in Nat /\ seq \in Nat /\ head \in Nat /\ last \in Nat
      /\ reports \in Nat /\ late \in Nat /\ late <= Len(stores)
  BY DEF RelayOK
<1>1. Sound(s, run) /\ Same(s, s)
  BY SettledIsSound DEF Same
<1>2. PICK z : /\ Reaches(page, run, stores, late, s, z)
               /\ up => run > 0 /\ Final(z, run, seq, last, head)
  BY DEF Settled
<1>3. CASE Open
  <2>1. /\ page' = page /\ run' = run + 1 /\ stores' = OpenStores /\ late' = late
        /\ seq' = 0 /\ last' = 0 /\ head' = 0 /\ up'
    BY <1>3 DEF Open
  <2>2. late = 0
    <3>1. stores = <<>> /\ Len(<<>>) = 0
      BY <1>3 DEF Open
    <3> QED BY <1>0, <3>1
  <2>3. Same(s, page) /\ Same(page, s)
    <3>1. ~Behind(Places)
      BY <1>0, <2>2 DEF Behind
    <3> QED BY <3>1, NotBehind DEF Same
  <2>4. Sound(page, run)
    BY <1>0, <1>1, <2>3, SameSound
  <2>5. PICK t, y : /\ Reaches(page, run + 1, OpenStores, 0, t, y)
                    /\ Final(y, run + 1, 0, 0, 0)
                    /\ Same(page, t)
    BY <1>0, <2>4, OpeningPath
  <2>6. Settled(t)'
    BY <1>0, <2>1, <2>2, <2>5 DEF Settled
  <2>7. Same(s, t)
    BY <2>3, <2>5 DEF Same
  <2>8. run < run'
    BY <1>0, <2>1
  <2> QED BY <1>0, <2>1, <2>6, <2>7, <2>8 DEF DownIsQuiet
<1>4. CASE Die
  <2>1. /\ page' = page /\ run' = run /\ stores' = SubSeq(stores, 1, late) /\ late' = late
        /\ up' = FALSE
    BY <1>4 DEF Die
  <2>2. Reaches(page, run, SubSeq(stores, 1, late), late, s, s)
    BY <1>0, <1>2, PathCut
  <2>3. Settled(s)'
    BY <2>1, <2>2 DEF Settled
  <2>4. Len(stores') = late
    BY <1>0, <2>1
  <2> QED BY <1>0, <1>1, <2>1, <2>3, <2>4 DEF DownIsQuiet
<1>5. ASSUME NEW changed \in BOOLEAN, Publish(changed)
      PROVE  Settled(s)' /\ DownIsQuiet' /\ run' = run /\ up
  <2> DEFINE su == stores \o << Store(Seq0, seq + 1), Store(Body0, [no |-> reports + 1, changes |-> head']),
                               Store(Link0, reports + 1), Store(Seq0, seq + 2) >>
  <2>1. /\ up /\ up' /\ page' = page /\ run' = run /\ seq' = seq + 2 /\ last' = reports + 1
        /\ late' = late
        /\ head' = IF changed THEN head + 1 ELSE head
        /\ stores' = (stores \o StateStores(reports + 1, head'))
                        \o (IF changed THEN EventStores(head) ELSE <<>>)
    BY <1>5 DEF Publish
  <2>2. run \in Nat \ {0} /\ Final(z, run, seq, last, head)
    BY <1>0, <1>2, <2>1
  <2>3. head' \in Nat /\ reports + 1 \in Nat
    BY <1>0, <2>1
  <2>4. PICK y : Reaches(page, run, su, late, s, y) /\ Final(y, run, seq + 2, reports + 1, head)
    BY <1>0, <1>2, <2>2, <2>3, PathState
  <2>5. su \in Seq(Writes) /\ late <= Len(su)
    <3> DEFINE e == StateStores(reports + 1, head')
    <3>1. e \in Seq(Writes)
      BY <1>0, <2>3, StoreTypes
    <3>2. su = stores \o e
      BY DEF StateStores
    <3> HIDE DEF e, su
    <3> QED BY <1>0, <3>1, <3>2
  <2>6. stores \o StateStores(reports + 1, head') = su
    BY DEF StateStores
  <2> HIDE DEF su
  <2>7. CASE changed
    <3>1. stores' = su \o << Store(Slot(head), [run |-> run, no |-> head]), Store(Head0, head + 1) >>
      BY <2>1, <2>6, <2>7 DEF EventStores, Event
    <3>2. seq + 2 \in Nat
      BY <1>0
    <3>3. \E x : Reaches(page, run, stores', late, s, x)
                 /\ Final(x, run, seq + 2, reports + 1, head + 1)
      BY <1>0, <2>2, <2>4, <2>5, <3>1, <3>2, PathEvent
    <3>4. head' = head + 1
      BY <2>1, <2>7
    <3> QED BY <1>2, <2>1, <3>3, <3>4 DEF Settled, DownIsQuiet
  <2>8. CASE ~changed
    <3>1. stores' = su
      <4>1. su \o <<>> = su
        BY <2>5, ConcatEmptySeq
      <4> QED BY <2>1, <2>6, <2>8, <4>1
    <3>2. head' = head
      BY <2>1, <2>8
    <3> QED BY <1>2, <2>1, <2>4, <3>1, <3>2 DEF Settled, DownIsQuiet
  <2> QED BY <2>1, <2>7, <2>8
<1>6. CASE PublishLink
  <2>1. /\ up /\ up' /\ page' = page /\ run' = run /\ seq' = seq + 2 /\ last' = last /\ head' = head
        /\ late' = late
        /\ stores' = stores \o << Store(Seq0, seq + 1), Store(Link0, last), Store(Seq0, seq + 2) >>
    BY <1>6 DEF PublishLink
  <2>2. run \in Nat \ {0} /\ Final(z, run, seq, last, head)
    BY <1>0, <1>2, <2>1
  <2>3. \E y : Reaches(page, run, stores', late, s, y) /\ Final(y, run, seq + 2, last, head)
    BY <1>0, <1>2, <2>1, <2>2, PathLink
  <2>4. Settled(s)' /\ DownIsQuiet'
    BY <1>2, <2>1, <2>3 DEF Settled, DownIsQuiet
  <2> QED BY <1>0, <1>1, <2>1, <2>4
<1>7. ASSUME NEW i \in 1..MaxLate + 1, Visible(i)
      PROVE  /\ DownIsQuiet' /\ run' = run /\ up' = up
             /\ \E t : Settled(t)' /\ (t = s \/ (up /\ Follows(s, t, run)))
  <2>1. /\ i \in 1..Len(stores)
        /\ \A j \in 1..i - 1 : stores[j].place # stores[i].place
        /\ page' = [page EXCEPT ![stores[i].place] = stores[i].value]
        /\ stores' = [j \in 1..Len(stores) - 1 |-> IF j < i THEN stores[j] ELSE stores[j + 1]]
        /\ late' = (IF i > late THEN i ELSE late) - 1
        /\ UNCHANGED <<run, up, last, seq, head>>
    BY <1>0, <1>7 DEF Visible
  <2>2. \A p \in Places : page'[p] = IF p = stores[i].place THEN stores[i].value ELSE page[p]
    BY <2>1 DEF PageOK
  <2>3. RelayOK'
    BY <1>7, VisibleTyped
  <2>4. /\ stores' \in Seq(Writes) /\ Len(stores') = Len(stores) - 1
        /\ \A j \in 1..Len(stores) - 1 : stores'[j] = IF j < i THEN stores[j] ELSE stores[j + 1]
        /\ late' \in Nat
    BY <1>0, <2>1, <2>3 DEF RelayOK
  <2>5. PICK t : /\ Reaches(page', run, stores', late', t, z)
                 /\ Follows(s, t, run)
                 /\ late = Len(stores) => t = s
    <3>1. MadeVisible(page, stores, i, page', stores')
      BY <2>1, <2>2, <2>4 DEF MadeVisible
    <3>2. late' = Overtaken(late, i)
      BY <2>1 DEF Overtaken
    <3> QED BY <1>0, <1>2, <3>1, <3>2, PathWithout
  <2>6. Settled(t)'
    BY <1>2, <2>1, <2>5 DEF Settled
  <2>7. DownIsQuiet'
    <3> SUFFICES ASSUME ~up PROVE late' = Len(stores')
      BY <2>1 DEF DownIsQuiet
    <3>1. late = Len(stores)
      BY DEF DownIsQuiet
    <3> QED BY <1>0, <2>1, <2>4, <3>1
  <2>8. t = s \/ up
    BY <2>5 DEF DownIsQuiet
  <2> QED BY <2>1, <2>5, <2>6, <2>7, <2>8
<1> QED BY <1>0, <1>1, <1>3, <1>4, <1>5, <1>6, <1>7 DEF Relay, BecomesVisible

-----------------------------------------------------------------------------
(* Both sides together.                                                    *)

LEMMA FeedInit == Init => FeedInv
<1> SUFFICES ASSUME Init PROVE FeedInv
  OBVIOUS
<1>1. ViewInv
  BY ViewInit
<1>2. Sound(page, 0)
  <2>1. page[Magic0] = 0 /\ page[Seq0] = 0 /\ page[Head0] = 0
    BY PlaceFacts DEF Init
  <2> QED BY <2>1 DEF Sound
<1>3. Reaches(page, 0, <<>>, 0, page, page)
  BY <1>2, NothingOnItsWay
<1>4. Settled(page)
  BY <1>3 DEF Init, Settled
<1>5. Knows(page)
  BY DEF Init, Knows, NotYetKnown, CopyGood, DrainGood
<1>6. EarlyBlurs /\ SnapshotsWhole /\ NeverHalfWritten /\ LostAreGone
  BY DEF Init, EarlyBlurs, SnapshotsWhole, NeverHalfWritten, LostAreGone
<1>7. DownIsQuiet
  <2>1. Len(<<>>) = 0
    OBVIOUS
  <2> QED BY <2>1 DEF Init, DownIsQuiet
<1> QED BY <1>1, <1>4, <1>5, <1>6, <1>7 DEF FeedInv

\* While the settled page is the same run's, what the viewer holds of it ages as it
\* moves on; when it becomes a new run's, the viewer knows nothing of it.
LEMMA KnowsOn ==
  ASSUME Typed, Typed', NEW s, NEW t, Sound(s, run), Sound(t, run'), Knows(s), run <= run',
         UNCHANGED <<viewVars, histVars>>,
         \/ Same(s, t) /\ (up' => up \/ run < run')
         \/ up /\ run' = run /\ Follows(s, t, run)
  PROVE  Knows(t)'
<1> USE DEF Typed
<1>1. UNCHANGED <<at, snap, upTo, begun, blurred>>
  BY DEF viewVars, histVars
<1>2. /\ run \in Nat /\ run' \in Nat /\ begun \in Nat /\ snap.before \in Nat /\ upTo \in Nat
      /\ blurred \in BOOLEAN /\ up \in BOOLEAN /\ up' \in BOOLEAN
  BY DEF RelayOK, HistOK, ViewOK
<1>3. /\ s[Magic0] \in Nat /\ s[Seq0] \in Nat /\ s[Head0] \in Nat
      /\ t[Magic0] \in Nat /\ t[Seq0] \in Nat /\ t[Head0] \in Nat
  BY DEF Sound
<1>4. CASE Same(s, t) /\ (up' => up \/ run < run')
  <2>0. /\ t[Magic0] = s[Magic0] /\ t[Seq0] = s[Seq0] /\ t[Head0] = s[Head0]
        /\ t[Link0] = s[Link0] /\ t[Body0] = s[Body0]
    BY <1>4, SamePlaces
  <2>1. NotYetKnown(t)'
    <3>1. CASE run' = run
      BY <1>1, <1>2, <1>4, <2>0, <3>1 DEF Knows, NotYetKnown
    <3>2. CASE run < run'
      BY <1>1, <1>2, <3>2 DEF Knows, NotYetKnown
    <3> QED BY <1>2, <3>1, <3>2
  <2>2. CopyGood(t)' /\ DrainGood(t)'
    BY <1>1, <2>0 DEF Knows, CopyGood, DrainGood, SameRun
  <2> QED BY <2>1, <2>2 DEF Knows
<1>5. CASE up /\ run' = run /\ Follows(s, t, run)
  <2>1. NotYetKnown(t)'
    BY <1>1, <1>2, <1>5 DEF Knows, NotYetKnown, Follows
  <2>2. ASSUME ~blurred, SameRun(t)'
        PROVE  /\ t[Magic0] = s[Magic0] /\ SameRun(s)
               /\ s[Seq0] <= t[Seq0] /\ s[Head0] <= t[Head0]
               /\ (s[Seq0] = t[Seq0] /\ s[Seq0] % 2 = 0)
                     => (s[Body0] = t[Body0] /\ s[Link0] = t[Link0])
    <3>1. t[Magic0] > 0 /\ begun = t[Magic0]
      BY <1>1, <2>2 DEF SameRun
    <3>2. t[Magic0] = s[Magic0]
      <4> SUFFICES ASSUME t[Magic0] # s[Magic0] PROVE FALSE
        OBVIOUS
      <4>1. t[Magic0] = run
        BY <1>3, <1>5, <3>1 DEF Follows
      <4>2. begun < run
        BY <1>5, <2>2, <4>1 DEF Knows, NotYetKnown
      <4> QED BY <1>2, <3>1, <4>1, <4>2
    <3> QED BY <1>5, <3>1, <3>2 DEF Follows, SameRun
  <2>3. DrainGood(t)'
    <3> SUFFICES ASSUME at' = "events", ~blurred', SameRun(t)' PROVE upTo' <= t[Head0]
      BY DEF DrainGood
    <3>1. upTo <= s[Head0]
      BY <1>1, <2>2 DEF Knows, DrainGood
    <3> QED BY <1>1, <1>2, <1>3, <2>2, <3>1
  <2>4. CopyGood(t)'
    <3> SUFFICES ASSUME at \in {"body", "link", "recheck"}, ~blurred
                 PROVE  /\ snap.before % 2 = 0
                        /\ SameRun(t)' =>
                              /\ snap.before <= t[Seq0]
                              /\ t[Seq0] = snap.before =>
                                    /\ at \in {"link", "recheck"} => snap.body = t[Body0]
                                    /\ at = "recheck" => snap.link = t[Link0]
      BY <1>1 DEF CopyGood
    <3>1. snap.before % 2 = 0
      BY DEF Knows, CopyGood
    <3>2. ASSUME SameRun(t)'
          PROVE  /\ snap.before <= t[Seq0]
                 /\ t[Seq0] = snap.before =>
                       /\ at \in {"link", "recheck"} => snap.body = t[Body0]
                       /\ at = "recheck" => snap.link = t[Link0]
      <4>1. /\ snap.before <= s[Seq0]
            /\ s[Seq0] = snap.before =>
                  /\ at \in {"link", "recheck"} => snap.body = s[Body0]
                  /\ at = "recheck" => snap.link = s[Link0]
        BY <2>2, <3>2 DEF Knows, CopyGood
      <4>2. /\ s[Seq0] <= t[Seq0]
            /\ (s[Seq0] = t[Seq0] /\ s[Seq0] % 2 = 0)
                  => (s[Body0] = t[Body0] /\ s[Link0] = t[Link0])
        BY <2>2, <3>2
      <4>3. snap.before <= t[Seq0]
        BY <1>2, <1>3, <4>1, <4>2
      <4>4. t[Seq0] = snap.before => s[Seq0] = snap.before /\ s[Seq0] = t[Seq0]
        BY <1>2, <1>3, <4>1, <4>2
      <4> QED BY <3>1, <4>1, <4>2, <4>3, <4>4
    <3> QED BY <3>1, <3>2
  <2> QED BY <2>1, <2>3, <2>4 DEF Knows
<1> QED BY <1>4, <1>5

LEMMA RelayFeed ==
  ASSUME FeedInv, Relay, ViewInv'
  PROVE  FeedInv'
<1>1. Typed /\ Typed' /\ DownIsQuiet
  BY DEF FeedInv, ViewInv
<1>2. PICK s : Settled(s) /\ Knows(s)
  BY DEF FeedInv
<1>3. UNCHANGED <<viewVars, histVars>>
  BY RelayLeavesView
<1>4. DownIsQuiet' /\ run <= run'
  BY <1>1, <1>2, RelaySettles
<1>5. PICK t : /\ Settled(t)'
               /\ \/ Same(s, t) /\ (up' => up \/ run < run')
                  \/ up /\ run' = run /\ Follows(s, t, run)
  BY <1>1, <1>2, RelaySettles
<1>6. Sound(s, run)
  BY <1>1, <1>2, SettledIsSound
<1>7. Sound(t, run')
  <2>1. run' \in Nat /\ stores' \in Seq(Writes) /\ late' \in Nat /\ late' <= Len(stores')
    BY <1>1 DEF Typed, RelayOK
  <2>2. PICK z : Reaches(page', run', stores', late', t, z)
    BY <1>5 DEF Settled
  <2> QED BY <2>1, <2>2, ReachedIsSound
<1>8. Knows(t)'
  BY <1>1, <1>2, <1>3, <1>4, <1>5, <1>6, <1>7, KnowsOn
<1>9. EarlyBlurs' /\ SnapshotsWhole' /\ NeverHalfWritten' /\ LostAreGone'
  BY <1>3 DEF FeedInv, EarlyBlurs, SnapshotsWhole, NeverHalfWritten, LostAreGone, viewVars, histVars
<1> QED BY <1>4, <1>5, <1>8, <1>9 DEF FeedInv

\* What the viewer takes note of when it looks at the magic number.
LEMMA NoteRun ==
  ASSUME Typed, NEW s, Settled(s), Knows(s), UNCHANGED relayVars,
         \/ begun' = begun /\ (~blurred' => ~blurred)
         \/ begun' = 0
         \/ begun' = page[Magic0] /\ (~blurred' => page[Magic0] = s[Magic0])
  PROVE  NotYetKnown(s)'
<1>1. run \in Nat /\ begun \in Nat /\ run' = run /\ up' = up
  BY DEF Typed, RelayOK, HistOK, relayVars
<1>2. s[Magic0] \in 0..run
  BY SettledIsSound DEF Sound
<1>3. up => run > 0
  BY DEF Settled
<1> QED BY <1>1, <1>2, <1>3 DEF Knows, NotYetKnown

\* The steps of latest() that load.
LEMMA LoadsKnow ==
  ASSUME Typed, EarlyBlurs, NEW s, Settled(s), Knows(s), UNCHANGED relayVars,
         \/ LoadSeq /\ at' = "body"
         \/ CopyBody \/ CopyLink
  PROVE  CopyGood(s)' /\ NotYetKnown(s)'
<1>1. ViewOK /\ HistOK
  BY DEF Typed
<1>2. Sound(s, run)
  BY SettledIsSound
<1>3. s[Seq0] \in Nat /\ s[Magic0] \in Nat
  BY <1>2 DEF Sound
<1>4. \A places : ~Behind(places) => \A p \in Places \cap places : page[p] = s[p]
  BY NotBehind
<1>5. CASE LoadSeq /\ at' = "body"
  <2>1. /\ page[Seq0] % 2 # 1 /\ begun' = page[Magic0]
        /\ blurred' = (blurred \/ Behind({Magic0, Seq0}))
        /\ snap' = [snap EXCEPT !.before = page[Seq0]]
    BY <1>5 DEF LoadSeq, Latest, NextTry
  <2>2. ~blurred' => page[Magic0] = s[Magic0] /\ page[Seq0] = s[Seq0]
    BY <1>4, <2>1, PlacesIn
  <2>3. NotYetKnown(s)'
    BY <2>1, <2>2, NoteRun
  <2>4. snap'.before = page[Seq0]
    BY <1>1, <2>1 DEF ViewOK
  <2>5. ~blurred' => snap'.before = s[Seq0] /\ snap'.before % 2 = 0
    BY <1>3, <2>1, <2>2, <2>4
  <2>6. CopyGood(s)'
    BY <1>3, <1>5, <2>5 DEF CopyGood
  <2> QED BY <2>3, <2>6
<1>6. CASE CopyBody
  <2>1. /\ at = "body" /\ at' = "link" /\ begun' = begun
        /\ blurred' = (blurred \/ Behind({Body0}))
        /\ snap' = [snap EXCEPT !.body = Load("body", Body0)]
    BY <1>6 DEF CopyBody
  <2>2. ~blurred' => ~blurred /\ early = {} /\ page[Body0] = s[Body0]
    BY <1>4, <2>1, PlacesIn DEF EarlyBlurs
  <2>3. NotYetKnown(s)'
    BY <2>1, <2>2, NoteRun
  <2>4. snap'.before = snap.before /\ (~blurred' => snap'.body = s[Body0])
    BY <1>1, <2>1, <2>2 DEF ViewOK, Load
  <2>5. CopyGood(s)'
    BY <2>1, <2>2, <2>4 DEF Knows, CopyGood, SameRun
  <2> QED BY <2>3, <2>5
<1>7. CASE CopyLink
  <2>1. /\ at = "link" /\ at' = "recheck" /\ begun' = begun
        /\ blurred' = (blurred \/ Behind({Link0}))
        /\ snap' = [snap EXCEPT !.link = Load("link", Link0)]
    BY <1>7 DEF CopyLink
  <2>2. ~blurred' => ~blurred /\ early = {} /\ page[Link0] = s[Link0]
    BY <1>4, <2>1, PlacesIn DEF EarlyBlurs
  <2>3. NotYetKnown(s)'
    BY <2>1, <2>2, NoteRun
  <2>4. snap'.before = snap.before /\ snap'.body = snap.body /\ (~blurred' => snap'.link = s[Link0])
    BY <1>1, <2>1, <2>2 DEF ViewOK, Load
  <2>5. CopyGood(s)'
    BY <2>1, <2>2, <2>4 DEF Knows, CopyGood, SameRun
  <2> QED BY <2>3, <2>5
<1> QED BY <1>5, <1>6, <1>7

\* What latest() returns was published in one piece.
LEMMA RecheckWhole ==
  ASSUME Typed, EarlyBlurs, SnapshotsWhole, NEW s, Settled(s), Knows(s), Recheck
  PROVE  SnapshotsWhole'
<1> DEFINE b == blurred \/ Behind({Magic0, Seq0})
<1>1. CASE torn' = torn \/ torn' = {}
  BY <1>1 DEF SnapshotsWhole
<1>2. CASE /\ Unmoved /\ snap.link # snap.body.no
           /\ torn' = {[restarted |-> ~OneRun, blurred |-> b]}
  <2>1. ASSUME OneRun, ~b PROVE FALSE
    <3>1. /\ page[Magic0] = s[Magic0] /\ page[Seq0] = s[Seq0] /\ ~blurred /\ early = {}
      <4>1. ~Behind({Magic0, Seq0})
        BY <2>1
      <4>2. \A p \in Places \cap {Magic0, Seq0} : page[p] = s[p]
        BY <4>1, NotBehind
      <4> QED BY <2>1, <4>2, PlacesIn DEF EarlyBlurs
    <3>2. s[Seq0] = snap.before /\ SameRun(s) /\ at = "recheck"
      BY <1>2, <2>1, <3>1 DEF Unmoved, Load, OneRun, Valid, SameRun, Recheck
    <3>3. snap.before % 2 = 0 /\ snap.body = s[Body0] /\ snap.link = s[Link0]
      BY <3>1, <3>2 DEF Knows, CopyGood
    <3>4. Sound(s, run)
      BY SettledIsSound
    <3>5. s[Link0] = s[Body0].no
      BY <3>2, <3>3, <3>4 DEF Sound, SameRun
    <3> QED BY <1>2, <3>3, <3>5
  <2> HIDE DEF b
  <2>2. \A x \in torn' : x.restarted = ~OneRun /\ x.blurred = b
    BY <1>2
  <2> QED BY <2>1, <2>2 DEF SnapshotsWhole
<1> QED BY <1>1, <1>2 DEF Recheck

\* The ring at the start of drain(): what it skips has been overwritten.
LEMMA StartGone ==
  ASSUME Typed, LostAreGone, NEW s, Settled(s), DrainStart
  PROVE  LostAreGone'
<1> DEFINE from == IF Restarted(EventHead) THEN 0 ELSE cursor
           skip == Skipped(EventHead, from)
<1> SUFFICES ASSUME NEW k \in from..from + skip - 1,
                    page[Slot(k)] = [run |-> page[Magic0], no |-> k],
                    ~Behind({Magic0, Head0, Slot(k)})
             PROVE  FALSE
  BY DEF DrainStart, LostAreGone
<1>1. from \in Nat /\ EventHead \in Nat
  BY NumberTypes DEF Typed, ViewOK
<1> HIDE DEF from
<1>2. k \in Nat /\ k + Events < EventHead
  BY <1>1, EventsAssumption DEF Skipped
<1>3. EventHead = page[Head0] /\ page[Magic0] > 0
  BY <1>2, EventsAssumption DEF EventHead, Valid
<1>4. Slot(k) \in Places /\ Slot(k + Events) = Slot(k) /\ k + Events \in Nat
  BY <1>2, PlacesIn, SlotAgain, EventsAssumption
<1>5. page[Magic0] = s[Magic0] /\ page[Head0] = s[Head0] /\ page[Slot(k)] = s[Slot(k)]
  <2>1. \A p \in Places \cap {Magic0, Head0, Slot(k)} : page[p] = s[p]
    BY NotBehind
  <2> QED BY <1>4, <2>1, PlacesIn
<1>6. Sound(s, run)
  BY SettledIsSound
<1>7. s[Slot(k + Events)].no >= k + Events
  BY <1>2, <1>3, <1>4, <1>5, <1>6 DEF Sound
<1>8. s[Slot(k)].no = k
  BY <1>5
<1> QED BY <1>2, <1>4, <1>7, <1>8, EventsAssumption

\* What drain() hands on is the event in turn or a younger one of the run.
LEMMA EventWhole ==
  ASSUME Typed, NeverHalfWritten, NEW s, Settled(s), Knows(s), DrainEvent
  PROVE  NeverHalfWritten'
<1> SUFFICES ASSUME ~blurred, ~Behind({Magic0, Slot(cursor)}), OneRun, base = begun
             PROVE  page[Slot(cursor)].run = base /\ page[Slot(cursor)].no >= cursor
  BY DEF DrainEvent, NeverHalfWritten
<1>1. at = "events" /\ cursor < upTo /\ cursor \in Nat /\ upTo \in Nat
  BY DEF DrainEvent, Typed, ViewOK
<1>2. page[Magic0] = s[Magic0] /\ page[Slot(cursor)] = s[Slot(cursor)]
  <2>1. \A p \in Places \cap {Magic0, Slot(cursor)} : page[p] = s[p]
    BY NotBehind
  <2> QED BY <1>1, <2>1, PlacesIn
<1>3. SameRun(s) /\ s[Magic0] = base
  BY <1>2 DEF OneRun, Valid, SameRun
<1>4. upTo <= s[Head0]
  BY <1>1, <1>3 DEF Knows, DrainGood
<1>5. Sound(s, run)
  BY SettledIsSound
<1>6. s[Head0] \in Nat
  BY <1>5 DEF Sound
<1>7. cursor < s[Head0]
  BY <1>1, <1>4, <1>6
<1>8. s[Slot(cursor)].run = s[Magic0] /\ s[Slot(cursor)].no >= cursor
  BY <1>1, <1>3, <1>5, <1>7 DEF Sound, SameRun
<1> QED BY <1>2, <1>3, <1>8

LEMMA ViewFeed ==
  ASSUME FeedInv, View, ViewInv'
  PROVE  FeedInv'
<1>1. UNCHANGED relayVars
  BY ViewLeavesRelay
<1>2. PICK s : Settled(s) /\ Knows(s)
  BY DEF FeedInv
<1>3. Settled(s)' /\ DownIsQuiet'
  BY <1>1, <1>2 DEF FeedInv, relayVars, Settled, DownIsQuiet
<1>4. Typed /\ EarlyBlurs /\ SnapshotsWhole /\ NeverHalfWritten /\ LostAreGone
  BY DEF FeedInv, ViewInv
<1> SUFFICES Knows(s)' /\ EarlyBlurs' /\ SnapshotsWhole' /\ NeverHalfWritten' /\ LostAreGone'
  BY <1>3 DEF FeedInv
<1>5. CASE Attach \/ OpenFails \/ Top \/ DrainEnd
  <2>1. /\ at' \in {"seq", "top", "drain", "open"} /\ torn' \in {torn, {}} /\ early' = early
        /\ UNCHANGED <<half, kept>>
        /\ (begun' = begun /\ blurred' = blurred) \/ begun' = 0
        /\ at \in {"open", "top", "events"}
    BY <1>5 DEF Attach, OpenFails, Top, DrainEnd, histVars
  <2>2. NotYetKnown(s)'
    BY <1>1, <1>2, <1>4, <2>1, NoteRun
  <2>3. Knows(s)'
    BY <2>1, <2>2 DEF Knows, CopyGood, DrainGood
  <2>4. SnapshotsWhole' /\ NeverHalfWritten' /\ LostAreGone'
    BY <1>4, <2>1 DEF SnapshotsWhole, NeverHalfWritten, LostAreGone
  <2>5. EarlyBlurs'
    BY <1>4, <2>1 DEF EarlyBlurs
  <2> QED BY <2>3, <2>4, <2>5
<1>6. ASSUME Latest(TRUE) \/ Latest(FALSE) \/ NextTry
      PROVE  Knows(s)' /\ EarlyBlurs'
  <2>1. at' \in {"seq", "top"} /\ begun' = 0 /\ early' = {}
    BY <1>6 DEF Latest, NextTry
  <2>2. NotYetKnown(s)'
    BY <1>1, <1>2, <1>4, <2>1, NoteRun
  <2> QED BY <2>1, <2>2 DEF Knows, CopyGood, DrainGood, EarlyBlurs
<1>7. CASE LoadSeq
  <2>1. UNCHANGED <<half, kept, torn>>
    BY <1>7 DEF LoadSeq
  <2>2. SnapshotsWhole' /\ NeverHalfWritten' /\ LostAreGone'
    BY <1>4, <2>1 DEF SnapshotsWhole, NeverHalfWritten, LostAreGone
  <2>3. \/ Latest(FALSE) \/ NextTry
        \/ at = "seq" /\ at' = "body" /\ early' = early /\ (blurred => blurred')
    BY <1>7 DEF LoadSeq
  <2>4. CASE at = "seq" /\ at' = "body" /\ early' = early /\ (blurred => blurred')
    <3>1. CopyGood(s)' /\ NotYetKnown(s)'
      BY <1>1, <1>2, <1>4, <1>7, <2>4, LoadsKnow
    <3>2. DrainGood(s)' /\ EarlyBlurs'
      BY <1>4, <2>4 DEF DrainGood, EarlyBlurs
    <3> QED BY <2>2, <3>1, <3>2 DEF Knows
  <2> QED BY <1>6, <2>2, <2>3, <2>4
<1>8. CASE CopyBody \/ CopyLink
  <2>1. /\ UNCHANGED <<half, kept, torn, early>>
        /\ at' \in {"link", "recheck"} /\ (blurred => blurred')
    BY <1>8 DEF CopyBody, CopyLink
  <2>2. SnapshotsWhole' /\ NeverHalfWritten' /\ LostAreGone'
    BY <1>4, <2>1 DEF SnapshotsWhole, NeverHalfWritten, LostAreGone
  <2>3. CopyGood(s)' /\ NotYetKnown(s)'
    BY <1>1, <1>2, <1>4, <1>8, LoadsKnow
  <2>4. DrainGood(s)' /\ EarlyBlurs'
    BY <1>4, <2>1 DEF DrainGood, EarlyBlurs
  <2> QED BY <2>2, <2>3, <2>4 DEF Knows
<1>9. ASSUME NEW field \in {"body", "link", "after"}, LoadEarly(field)
      PROVE  Knows(s)' /\ EarlyBlurs' /\ SnapshotsWhole' /\ NeverHalfWritten' /\ LostAreGone'
  <2>1. /\ UNCHANGED <<half, kept, torn, at>> /\ blurred' = TRUE
        /\ at \in {"seq", "body", "link"}
    BY <1>9 DEF LoadEarly
  <2>2. SnapshotsWhole' /\ NeverHalfWritten' /\ LostAreGone'
    BY <1>4, <2>1 DEF SnapshotsWhole, NeverHalfWritten, LostAreGone
  <2> QED BY <2>1, <2>2 DEF Knows, NotYetKnown, CopyGood, DrainGood, EarlyBlurs
<1>10. CASE Recheck
  <2>1. UNCHANGED <<half, kept>> /\ (Latest(TRUE) \/ NextTry)
    BY <1>10 DEF Recheck
  <2>2. SnapshotsWhole'
    BY <1>2, <1>4, <1>10, RecheckWhole
  <2>3. NeverHalfWritten' /\ LostAreGone'
    BY <1>4, <2>1 DEF NeverHalfWritten, LostAreGone
  <2> QED BY <1>6, <2>1, <2>2, <2>3
<1>11. CASE DrainStart
  <2>1. /\ at = "drain" /\ at' = "events" /\ begun' = page[Magic0] /\ upTo' = EventHead
        /\ blurred' = Behind({Magic0, Head0})
        /\ UNCHANGED <<early, half, torn>>
    BY <1>11 DEF DrainStart
  <2>2. ~blurred' => page[Magic0] = s[Magic0] /\ page[Head0] = s[Head0]
    <3> SUFFICES ASSUME ~Behind({Magic0, Head0}) PROVE page[Magic0] = s[Magic0] /\ page[Head0] = s[Head0]
      BY <2>1
    <3>1. \A p \in Places \cap {Magic0, Head0} : page[p] = s[p]
      BY <1>2, <1>4, NotBehind
    <3> QED BY <3>1, PlacesIn
  <2>3. NotYetKnown(s)'
    BY <1>1, <1>2, <1>4, <2>1, <2>2, NoteRun
  <2>4. DrainGood(s)'
    <3> SUFFICES ASSUME ~blurred', SameRun(s)' PROVE upTo' <= s[Head0]
      BY DEF DrainGood
    <3>1. Sound(s, run)
      BY <1>2, <1>4, SettledIsSound
    <3>2. upTo' = s[Head0]
      BY <2>1, <2>2 DEF EventHead, Valid, SameRun
    <3> QED BY <3>1, <3>2 DEF Sound
  <2>5. CopyGood(s)' /\ SnapshotsWhole' /\ NeverHalfWritten' /\ EarlyBlurs'
    BY <1>4, <2>1 DEF CopyGood, SnapshotsWhole, NeverHalfWritten, EarlyBlurs
  <2>6. LostAreGone'
    BY <1>2, <1>4, <1>11, StartGone
  <2> QED BY <2>3, <2>4, <2>5, <2>6 DEF Knows
<1>12. CASE DrainEvent
  <2>1. at = "events" /\ UNCHANGED <<at, snap, early, upTo, begun, blurred, kept, torn>>
    BY <1>12 DEF DrainEvent
  <2>2. NotYetKnown(s)'
    BY <1>1, <1>2, <1>4, <2>1, NoteRun
  <2>3. DrainGood(s)' /\ CopyGood(s)'
    BY <1>2, <2>1 DEF Knows, DrainGood, CopyGood, SameRun
  <2>4. SnapshotsWhole' /\ LostAreGone' /\ EarlyBlurs'
    BY <1>4, <2>1 DEF SnapshotsWhole, LostAreGone, EarlyBlurs
  <2>5. NeverHalfWritten'
    BY <1>2, <1>4, <1>12, EventWhole
  <2> QED BY <2>2, <2>3, <2>4, <2>5 DEF Knows
<1> QED BY <1>5, <1>7, <1>8, <1>9, <1>10, <1>11, <1>12 DEF View

\* Every step keeps the invariant of both sides.
LEMMA FeedStep == FeedInv /\ [Next]_vars => FeedInv'
<1> SUFFICES ASSUME FeedInv, [Next]_vars PROVE FeedInv'
  OBVIOUS
<1>1. ViewInv'
  BY ViewStep DEF FeedInv
<1>2. CASE Relay
  BY <1>1, <1>2, RelayFeed
<1>3. CASE View
  BY <1>1, <1>3, ViewFeed
<1>4. CASE UNCHANGED vars
  <2>1. DownIsQuiet' /\ EarlyBlurs' /\ SnapshotsWhole' /\ NeverHalfWritten' /\ LostAreGone'
    BY <1>4 DEF FeedInv, DownIsQuiet, EarlyBlurs, SnapshotsWhole, NeverHalfWritten, LostAreGone, vars,
                relayVars, viewVars, histVars
  <2>2. PICK s : Settled(s) /\ Knows(s)
    BY DEF FeedInv
  <2>3. Settled(s)'
    BY <1>4, <2>2 DEF Settled, vars, relayVars
  <2>4. Knows(s)'
    BY <1>4, <2>2 DEF Knows, NotYetKnown, CopyGood, DrainGood, SameRun, vars, relayVars, viewVars,
                      histVars
  <2> QED BY <1>1, <2>1, <2>3, <2>4 DEF FeedInv
<1> QED BY <1>2, <1>3, <1>4, NextIsRelayOrView

\* The sequence lock works: what latest() returns was published in one piece,
\* unless the relay was started anew in the middle of the copy, one of its loads
\* found a place behind, or was done ahead of its turn.
THEOREM SnapshotsAlwaysWhole == Spec => []SnapshotsWhole
<1>1. FeedInv => SnapshotsWhole
  BY DEF FeedInv
<1> QED BY <1>1, FeedInit, FeedStep, PTL DEF Spec

\* So does the ring: "the slot is filled before the head moves, so a reader never
\* sees a half-written event", unless the store of the slot has been overtaken.
THEOREM AlwaysNeverHalfWritten == Spec => []NeverHalfWritten
<1>1. FeedInv => NeverHalfWritten
  BY DEF FeedInv
<1> QED BY <1>1, FeedInit, FeedStep, PTL DEF Spec

\* drain() gives up no event that the ring still has, unless the store that takes
\* its slot has been overtaken.
THEOREM LostAlwaysGone == Spec => []LostAreGone
<1>1. FeedInv => LostAreGone
  BY DEF FeedInv
<1> QED BY <1>1, FeedInit, FeedStep, PTL DEF Spec

=============================================================================
