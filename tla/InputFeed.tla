------------------------------ MODULE InputFeed ------------------------------
(***************************************************************************)
(* The shared page of InputFeed.h: the relay publishes the pad's latest    *)
(* state behind a sequence lock and every change of the buttons in a ring, *)
(* and padlog (the main loop of InputView.cpp) reads both from another     *)
(* process.                                                                *)
(*                                                                         *)
(* Both sides use relaxed atomics around plain copies, and the Pi's cores  *)
(* keep only accesses to one location in order.  The relay's stores        *)
(* therefore wait in `stores', in program order, and become visible one by *)
(* one, a store to another location overtaking older ones; latest() may    *)
(* do its loads ahead of their turn.  (drain() loads the head with         *)
(* acquire, so its loads stay behind it.)  The relay may die between any   *)
(* two stores and be started again; the viewer stays, and the new run      *)
(* takes over the file the viewer has mapped.                              *)
(*                                                                         *)
(* The buttons are one button.  It changes with every event, so event      *)
(* number k (from 0) of a run says "down" exactly if k is even, and a body *)
(* is known by its report number and the number of changes up to it.  A    *)
(* link block is known by the report it was published with.                *)
(***************************************************************************)
EXTENDS Integers, Sequences

CONSTANTS
    Events,       \* EVENTS: slots of the ring
    Attempts,     \* tries of latest() (16)
    MaxReports,   \* bound: state reports published, in all runs
    MaxQuiet,     \* bound: publications that change no button, in all runs
    MaxStores,    \* bound: stores of the relay not yet visible
    MaxMishaps,   \* bound: deaths of the relay and times a core leaves the program order
    MaxLate       \* bound: stores overtaken at a time

ASSUME EventsAssumption == Events \in Nat \ {0}
ASSUME AttemptsAssumption == Attempts \in Nat \ {0}
ASSUME BoundsAssumption ==
    MaxReports \in Nat /\ MaxQuiet \in Nat /\ MaxStores \in Nat
    /\ MaxMishaps \in Nat /\ MaxLate \in Nat

VARIABLES
    page,      \* the mapped page as the viewer sees it
    stores,    \* the relay's stores on their way there, in program order
    late,      \* how many of them, at the front, a younger one has overtaken
    run,       \* starts of the relay so far
    up,        \* the relay is running
    reports,   \* state reports published, in all runs
    last,      \* this run's last report, 0 before the first
    quiet,     \* publications that changed no button, in all runs
    seq,       \* the sequence number the relay stored last
    head,      \* the event head the relay stored last: this run's events so far
    mishaps,   \* deaths of the relay and times a core has left the program order
    \* the viewer
    at,        \* where its loop is
    attached,  \* cursor_set, and past the latest() that goes with it
    tries,     \* attempts left in latest()
    snap,      \* what latest() has loaded: seq before, body, link, seq after
    early,     \* loads of latest() done ahead of their turn
    cursor,    \* cursor
    upTo,      \* the head drain() works up to
    held,      \* panel.held: the button is down
    \* history
    base,      \* the run whose head the cursor was last set to, or for which it was reset
    begun,     \* the run of the page when latest() or drain() began
    blurred,   \* since then a load was done ahead of its turn, or found a place behind
    why,       \* what happened since the viewer last knew what is held
    sure,      \* it has had events of run base, the last of them not off a place behind
    kept,      \* an event it said was lost was still there
    half,      \* an event it handed on was neither the one in turn nor a younger one
    missed,    \* the event it handed on last changed nothing for it: {why}, otherwise {}
    torn       \* latest() has returned a body and a link block never published
               \* together: {what may explain it}, otherwise {}

relayVars == <<page, stores, late, run, up, reports, last, quiet, seq, head>>
viewVars == <<at, attached, tries, snap, early, cursor, upTo, held>>
histVars == <<base, begun, blurred, why, sure, kept, half, missed, torn>>
vars == <<relayVars, mishaps, viewVars, histVars>>

\* What a zeroed page holds.
NoBody == [no |-> 0, changes |-> 0]
NoSnap == [before |-> 0, body |-> NoBody, link |-> 0, after |-> 0]
NoEvent == [run |-> 0, no |-> -1]

\* A location of the page.  The magic number is the number of the run that wrote
\* it, 0 while there is none.
Magic0 == <<"magic", 0>>
Seq0 == <<"seq", 0>>
Body0 == <<"body", 0>>
Link0 == <<"link", 0>>
Head0 == <<"head", 0>>
Slot(k) == <<"slot", k % Events>>
Slots == {Slot(k) : k \in 0..Events - 1}

-----------------------------------------------------------------------------
(* The relay.                                                              *)

Store(place, value) == [place |-> place, value |-> value]

\* Something goes wrong, if it does.
Mishap(does) ==
    /\ does => mishaps < MaxMishaps
    /\ mishaps' = IF does THEN mishaps + 1 ELSE mishaps

\* Writer::open(): the file a previous run left is taken over, and zeroed in
\* place before the magic number makes it valid.
OpenStores ==
    << Store(Magic0, 0), Store(Seq0, 0), Store(Body0, NoBody), Store(Link0, 0),
       Store(Head0, 0) >>
    \o [i \in 1..Events |-> Store(Slot(i - 1), NoEvent)]
    \o << Store(Magic0, run + 1) >>

\* By the time a process is started, what another one stored is visible.
Open ==
    /\ ~up /\ stores = <<>>
    /\ up' = TRUE
    /\ run' = run + 1
    /\ last' = 0 /\ seq' = 0 /\ head' = 0
    /\ stores' = OpenStores
    /\ UNCHANGED <<page, late, reports, quiet, mishaps, viewVars, histVars>>

\* The relay dies, between any two of its stores.  What has been overtaken is on
\* its way.
Die ==
    /\ up
    /\ up' = FALSE
    /\ Mishap(TRUE)
    /\ stores' = SubSeq(stores, 1, late)
    /\ UNCHANGED <<page, late, run, reports, last, quiet, seq, head, viewVars, histVars>>

Event(k) == [run |-> run, no |-> k]

\* Bug: the head moves before the slot is filled.
EventStoresHeadFirst(k) == <<Store(Head0, k + 1), Store(Slot(k), Event(k))>>

\* A change of the buttons: "the slot is filled before the head moves".
EventStores(k) == <<Store(Slot(k), Event(k)), Store(Head0, k + 1)>>

\* The latest state: seq odd, copy, seq even.
StateStores(n, changes) ==
    << Store(Seq0, seq + 1), Store(Body0, [no |-> n, changes |-> changes]),
       Store(Link0, n), Store(Seq0, seq + 2) >>

\* publish() with a state report; changed: the buttons are not the last ones.
Publish(changed) ==
    /\ up
    /\ reports < MaxReports
    /\ ~changed => quiet < MaxQuiet
    /\ Len(stores) + 6 <= MaxStores
    /\ reports' = reports + 1 /\ last' = reports + 1
    /\ quiet' = IF changed THEN quiet ELSE quiet + 1
    /\ seq' = seq + 2
    /\ head' = IF changed THEN head + 1 ELSE head
    /\ stores' = stores \o StateStores(reports + 1, head')
                        \o (IF changed THEN EventStores(head) ELSE <<>>)
    /\ UNCHANGED <<page, late, run, up, mishaps, viewVars, histVars>>

\* publish_link(), from publish_stage()'s timer: the same block again, as far as
\* a body is concerned.
PublishLink ==
    /\ up
    /\ quiet < MaxQuiet
    /\ Len(stores) + 3 <= MaxStores
    /\ quiet' = quiet + 1
    /\ seq' = seq + 2
    /\ stores' = stores \o << Store(Seq0, seq + 1), Store(Link0, last),
                              Store(Seq0, seq + 2) >>
    /\ UNCHANGED <<page, late, run, up, reports, last, head, mishaps, viewVars, histVars>>

\* The i-th store becomes visible, and with it overtakes the older ones.
Visible(i) ==
    /\ i \in DOMAIN stores
    /\ \A j \in 1..i - 1 : stores[j].place # stores[i].place
    /\ page' = [page EXCEPT ![stores[i].place] = stores[i].value]
    /\ stores' = [j \in 1..Len(stores) - 1 |-> IF j < i THEN stores[j] ELSE stores[j + 1]]
    /\ late' = (IF i > late THEN i ELSE late) - 1
    /\ Mishap(late = 0 /\ i > 1)
    /\ UNCHANGED <<run, up, reports, last, quiet, seq, head, viewVars, histVars>>

-----------------------------------------------------------------------------
(* The viewer: attach, then drain and show for ever.                       *)

Down(changes) == changes % 2 = 1

Valid == page[Magic0] > 0

\* A store to one of these places has been overtaken: it has not become visible
\* and a younger one has.
Behind(places) == \E j \in 1..late : stores[j].place \in places

\* The cursor is set, for the run whose page it is.
SetCursor(c) ==
    /\ cursor' = c
    /\ base' = page[Magic0]
    /\ sure' = FALSE

\* open() and valid(): the cursor starts at the head, what is held with latest().
Attach ==
    /\ at = "open"
    /\ Valid
    /\ at' = "seq" /\ tries' = Attempts
    /\ attached' = FALSE
    /\ SetCursor(page[Head0])
    /\ UNCHANGED <<relayVars, mishaps, snap, early, upTo, held, begun, blurred, why, kept, half, missed,
                   torn>>

\* The page is still not valid: an attached viewer goes on with its cursor until
\* it is time to open() again, a new one waits.
OpenFails ==
    /\ at = "open"
    /\ ~Valid /\ attached
    /\ at' = "top"
    /\ UNCHANGED <<relayVars, mishaps, attached, tries, snap, early, cursor, upTo, held, histVars>>

\* The top of the loop: open() again if the page is not valid any more and it is
\* time to, drain() if it is.
Top ==
    /\ at = "top"
    /\ at' = IF Valid THEN "drain" ELSE "open"
    /\ torn' = {}
    /\ UNCHANGED <<relayVars, mishaps, attached, tries, snap, early, cursor, upTo, held, base, begun,
                   blurred, why, sure, kept, half, missed>>

\* What is held goes with the cursor if the body that says so is of the same moment.
Since(found) ==
    IF attached THEN why ELSE IF found /\ snap.body.changes = cursor THEN {} ELSE {"raced"}

\* Bug: the attach does not look at what is held already.
LatestUnlooked(found) ==
    /\ at' = "top"
    /\ attached' = TRUE /\ tries' = 0 /\ snap' = NoSnap /\ early' = {}
    /\ begun' = 0 /\ blurred' = FALSE
    /\ held' = held
    /\ why' = Since(found)

\* latest() is over; found: with a snapshot.  Only the attach looks at the
\* buttons in it.
Latest(found) ==
    /\ at' = "top"
    /\ attached' = TRUE /\ tries' = 0 /\ snap' = NoSnap /\ early' = {}
    /\ begun' = 0 /\ blurred' = FALSE
    /\ held' = IF ~attached /\ found THEN Down(snap.body.changes) ELSE held
    /\ why' = Since(found)

\* latest() has spent one attempt of its sixteen.
NextTry ==
    IF tries = 1
      THEN Latest(FALSE)
      ELSE /\ at' = "seq" /\ tries' = tries - 1 /\ snap' = NoSnap /\ early' = {}
           /\ begun' = 0 /\ blurred' = FALSE
           /\ UNCHANGED <<attached, held, why>>

\* A core may do a load of latest() ahead of its turn, as long as the two of seq
\* stay in order.
LoadEarly(field) ==
    /\ at \in {"seq", "body", "link"} /\ field \notin early
    /\ CASE field = "body" -> at = "seq"
         [] field = "link" -> at \in {"seq", "body"}
         [] field = "after" -> at \in {"body", "link"}
    /\ early' = early \cup {field}
    /\ snap' = [snap EXCEPT ![field] = page[CASE field = "body" -> Body0
                                              [] field = "link" -> Link0
                                              [] field = "after" -> Seq0]]
    /\ blurred' = TRUE
    /\ Mishap(early = {})
    /\ UNCHANGED <<relayVars, at, attached, tries, cursor, upTo, held, base, begun, why, sure, kept,
                   half, missed, torn>>

\* What a load of latest() in its turn takes: the place, unless it has been done.
Load(field, place) == IF field \in early THEN snap[field] ELSE page[place]

\* latest(): nothing of a page that is not valid (looked at once, at its start);
\* load seq, an odd one costs an attempt.
LoadSeq ==
    /\ at = "seq"
    /\ CASE tries = Attempts /\ ~Valid -> Latest(FALSE)
         [] (tries = Attempts => Valid) /\ page[Seq0] % 2 = 1 -> NextTry
         [] OTHER -> /\ at' = "body" /\ begun' = page[Magic0]
                     /\ blurred' = (blurred \/ Behind({Magic0, Seq0}))
                     /\ snap' = [snap EXCEPT !.before = page[Seq0]]
                     /\ UNCHANGED <<attached, tries, early, held, why>>
    /\ UNCHANGED <<relayVars, mishaps, cursor, upTo, base, sure, kept, half, missed, torn>>

\* latest(): copy the body, then the link block.
CopyBody ==
    /\ at = "body"
    /\ at' = "link"
    /\ snap' = [snap EXCEPT !.body = Load("body", Body0)]
    /\ blurred' = (blurred \/ Behind({Body0}))
    /\ UNCHANGED <<relayVars, mishaps, attached, tries, early, cursor, upTo, held, base, begun, why, sure,
                   kept, half, missed, torn>>

CopyLink ==
    /\ at = "link"
    /\ at' = "recheck"
    /\ snap' = [snap EXCEPT !.link = Load("link", Link0)]
    /\ blurred' = (blurred \/ Behind({Link0}))
    /\ UNCHANGED <<relayVars, mishaps, attached, tries, early, cursor, upTo, held, base, begun, why, sure,
                   kept, half, missed, torn>>

\* The page has belonged to one run since latest() or drain() began.
OneRun == Valid /\ begun = page[Magic0]

\* Bug: latest() trusts its copy.
UnmovedAlways == TRUE

\* The copy counts if seq has not moved.
Unmoved == Load("after", Seq0) = snap.before

\* latest(): load seq again.
Recheck ==
    /\ at = "recheck"
    /\ IF Unmoved
         THEN /\ Latest(TRUE)
              /\ torn' = IF snap.link = snap.body.no
                           THEN {}
                           ELSE {[restarted |-> ~OneRun,
                                  blurred |-> blurred \/ Behind({Magic0, Seq0})]}
         ELSE NextTry /\ UNCHANGED torn
    /\ UNCHANGED <<relayVars, mishaps, cursor, upTo, base, sure, kept, half, missed>>

\* Bug: one event too many is given up when the ring is overrun.
SkippedOneMore(h, c) == IF h - c > Events THEN h - c - Events + 1 ELSE 0

\* How many events drain() skips because the ring no longer has them.
Skipped(h, c) == IF h - c > Events THEN h - c - Events ELSE 0

\* event_head().
EventHead == IF Valid THEN page[Head0] ELSE 0

\* Bug: a head behind the cursor is taken for one that has not moved.
RestartedNever(h) == FALSE

\* "the relay restarted and reset the ring"
Restarted(h) == h < cursor

\* drain(), up to its loop.
DrainStart ==
    /\ at = "drain"
    /\ at' = "events"
    /\ begun' = page[Magic0] /\ blurred' = Behind({Magic0, Head0})
    /\ upTo' = EventHead
    /\ LET from == IF Restarted(EventHead) THEN 0 ELSE cursor
           skip == Skipped(EventHead, from)
       IN  /\ cursor' = from + skip
           /\ base' = IF from = 0 THEN page[Magic0] ELSE base
           /\ why' = (IF Restarted(EventHead) THEN {c \in {"restarted"} : held} ELSE why)
                         \cup {c \in {"lost"} : skip > 0}
           /\ kept' = (kept \/ \E k \in from..from + skip - 1 :
                                   /\ page[Slot(k)] = [run |-> page[Magic0], no |-> k]
                                   /\ ~Behind({Magic0, Head0, Slot(k)}))
    /\ sure' = (sure /\ ~Restarted(EventHead))
    /\ UNCHANGED <<relayVars, mishaps, attached, tries, snap, early, held, half, missed, torn>>

\* drain(), one event handed to note_event().
DrainEvent ==
    /\ at = "events" /\ cursor < upTo
    /\ LET e == page[Slot(cursor)]
           due == [run |-> base, no |-> cursor]
           clear == ~blurred /\ ~Behind({Magic0, Slot(cursor)})
       IN  /\ half' = (half \/ (clear /\ OneRun /\ base = begun /\ ~(e.run = base /\ e.no >= cursor)))
           /\ held' = Down(e.no + 1)
           /\ missed' = {c \in {why} : e = due /\ held = Down(e.no + 1)}
           /\ why' = IF e = due THEN {} ELSE why \cup {"lapped"}
           /\ sure' = clear
    /\ cursor' = cursor + 1
    /\ UNCHANGED <<relayVars, mishaps, at, attached, tries, snap, early, upTo, base, begun, blurred, kept,
                   torn>>

DrainEnd ==
    /\ at = "events" /\ cursor >= upTo
    /\ at' = "seq"
    /\ tries' = Attempts /\ upTo' = 0 /\ begun' = 0 /\ blurred' = FALSE /\ missed' = {}
    /\ UNCHANGED <<relayVars, mishaps, attached, snap, early, cursor, held, base, why, sure, kept, half,
                   torn>>

-----------------------------------------------------------------------------
\* No file, or one of zeros, and a viewer waiting for it.
Init ==
    /\ page = [p \in {Magic0, Seq0, Body0, Link0, Head0} \cup Slots |->
                 CASE p = Body0 -> NoBody [] p \in Slots -> NoEvent [] OTHER -> 0]
    /\ stores = <<>> /\ late = 0 /\ mishaps = 0 /\ run = 0 /\ up = FALSE
    /\ reports = 0 /\ last = 0 /\ quiet = 0 /\ seq = 0 /\ head = 0
    /\ at = "open" /\ attached = FALSE /\ tries = 0
    /\ snap = NoSnap /\ early = {}
    /\ cursor = 0 /\ upTo = 0 /\ held = FALSE
    /\ base = 0 /\ begun = 0 /\ blurred = FALSE /\ why = {} /\ sure = FALSE
    /\ kept = FALSE /\ half = FALSE /\ missed = {} /\ torn = {}

View ==
    \/ Attach \/ OpenFails \/ Top
    \/ \E field \in {"body", "link", "after"} : LoadEarly(field)
    \/ LoadSeq \/ CopyBody \/ CopyLink \/ Recheck
    \/ DrainStart \/ DrainEvent \/ DrainEnd

BecomesVisible == \E i \in 1..MaxLate + 1 : Visible(i)

Next ==
    \/ Open \/ Die
    \/ \E changed \in BOOLEAN : Publish(changed)
    \/ PublishLink
    \/ BecomesVisible
    \/ View

Spec == Init /\ [][Next]_vars

\* A running relay comes to the end of what it is at, and the viewer's loop runs.
FairSpec == Spec /\ WF_vars(BecomesVisible) /\ WF_vars(View)

-----------------------------------------------------------------------------
(* Properties.                                                             *)

\* Every variable has the type its declaration gives it.
TypeOK ==
    /\ DOMAIN page = {Magic0, Seq0, Body0, Link0, Head0} \cup Slots
    /\ page[Magic0] \in 0..run /\ page[Seq0] \in Nat
    /\ page[Link0] \in 0..reports /\ page[Head0] \in 0..reports
    /\ page[Body0] \in [no : 0..reports, changes : 0..reports]
    /\ \A s \in Slots : page[s] \in [run : 0..run, no : -1..reports - 1]
    /\ run \in 0..MaxMishaps + 1 /\ up \in BOOLEAN
    /\ reports \in 0..MaxReports /\ last \in 0..reports /\ quiet \in 0..MaxQuiet
    /\ head \in 0..reports /\ seq <= 2 * (reports + quiet)
    /\ late \in 0..Len(stores) /\ late <= MaxLate /\ mishaps \in 0..MaxMishaps
    /\ early \subseteq {"body", "link", "after"}
    /\ at \in {"open", "top", "seq", "body", "link", "recheck", "drain", "events"}
    /\ tries \in 0..Attempts
    /\ cursor \in 0..reports /\ upTo \in 0..reports
    /\ base \in 0..run /\ begun \in 0..run
    /\ why \subseteq {"lost", "lapped", "raced", "restarted"}
    /\ missed \subseteq SUBSET {"lost", "lapped", "raced", "restarted"}
    /\ torn \subseteq [restarted : BOOLEAN, blurred : BOOLEAN]
    /\ \A b \in {attached, held, blurred, sure, kept, half} : b \in BOOLEAN

\* "A reader that sees it odd, or changed across its copy, tries again": what
\* latest() returns was published in one piece - unless the relay was started anew
\* in the middle of the copy, a load found a store overtaken that it should have
\* seen, or was itself done ahead of its turn.
SnapshotsWhole == \A t \in torn : t.restarted \/ t.blurred

\* Comment in publish(): "The slot is filled before the head moves, so a reader
\* never sees a half-written event".  What drain() hands on of a run is the event
\* in turn or a younger one that has taken its slot, never an older one or none -
\* unless the relay was started anew meanwhile, or the store of the event, or of
\* the head or the magic number when drain() began, has been overtaken.
NeverHalfWritten == ~half

\* Comment on drain(): "Returns how many were lost because more than a ring's worth
\* arrived since the last call".  No event that it says was lost is still in the
\* ring, unless the store that replaces it has been overtaken.
LostAreGone == ~kept

\* Comment on the ring: it "is what makes a log of presses complete".  The log
\* misses a change of the buttons only if, since the last event in turn, the viewer
\* was told of lost ones, was handed one out of turn, attached while the relay was
\* publishing, or found the relay restarted while it had something held.
MissesExplained == {} \notin missed

\* Whatever happens to the relay, the viewer comes to rest at the head of the
\* ring, and with what is held right if it has had an event of that run, and the
\* last one not off a place behind.
LogSettles ==
    <>[](Valid =>
           /\ cursor = page[Head0]
           /\ (base = page[Magic0] /\ sure) => held = Down(page[Head0]))

\* The lock works across a restart.
SnapshotsOfOneRun == \A t \in torn : t.blurred

\* The lock works in whatever order the cores do it.
SnapshotsOrdered == \A t \in torn : t.restarted

\* Comment in publish(): "a reader never sees a half-written event" - nor one
\* that is not in turn.
EventsInTurn == "lapped" \notin why

\* "... complete": nothing but a lost or a lapped event hides a change.
LogComplete == \A m \in missed : m \cap {"lost", "lapped"} # {}

\* Comment in drain(): "the relay restarted and reset the ring" - a viewer that
\* has drained a run's events knows the run.
RestartsNoticed == at = "events" /\ OneRun => base = begun

=============================================================================
