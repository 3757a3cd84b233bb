------------------------------ MODULE InputRelay ------------------------------
(***************************************************************************)
(* The pad's input on its way to the console over Bluetooth: what the      *)
(* pad-facing handler does with a report (relay_pad_input_to_console), the *)
(* console-facing handler's flow control, its one held report, and what    *)
(* happens to both when buffers come back, when the console moves the      *)
(* controller from its registration radio to its play radio, and when a    *)
(* link goes away.                                                         *)
(*                                                                         *)
(* Reports that carry controller state are numbered as the pad sends them. *)
(* The controller's side is counted apart: how many of the packets it      *)
(* holds are input, and how many anything else (signalling, SDP, feature   *)
(* reports), which the code sends without asking for room.                 *)
(***************************************************************************)
EXTENDS AclFlowControl, FiniteSets

CONSTANTS
    Handles,        \* connection handles the console adapter can be given
    NoLink,         \* connection_handle_ = 0
    Pool,           \* buffers the controller reports
    MaxReports,     \* bound: state reports the pad sends
    MaxHeldPackets  \* bound: packets the controller ever holds

ASSUME HandlesAssumption == NoLink \notin Handles
ASSUME PoolAssumption == Pool \in Nat \ {0}
ASSUME MaxReportsAssumption == MaxReports \in Nat
ASSUME MaxHeldPacketsAssumption == MaxHeldPackets \in Nat

VARIABLES
    acl,          \* acl_ of the console-facing handler
    handle,       \* connection_handle_
    opens,        \* open_handles_: every link the adapter holds
    interrupt,    \* hid_interrupt_channel.dcid # 0
    full,         \* console_full_reports_
    held,         \* held_: the number of the report in it, 0 for none
    padSeq,       \* state reports the pad has sent
    \* the controller (external)
    inputs,       \* input packets it holds, per link
    others,       \* other packets it holds, per link
    \* history
    lastSent,     \* the newest report sent to the console
    carried,      \* held_ was filled on a link the console has since left
    asked,        \* the console asked for full reports on the current link
    unasked,      \* it was sent one on a link where it had not
    writeOffs,    \* what the write-offs so far found: "blocked" or "spare"
    loose         \* input was sent without metering

progVars == <<acl, handle, opens, interrupt, full, held, padSeq>>
ctrlVars == <<inputs, others>>
histVars == <<lastSent, carried, asked, unasked, writeOffs, loose>>
vars == <<progVars, ctrlVars, histVars>>

\* Counts of packets per link, as the set of the packets counted: <<h, k>> is the
\* k-th packet of link h.
Packets(count, links) == UNION {{h} \X (1..count[h]) : h \in links}

AtController == Cardinality(Packets(inputs, opens)) + Cardinality(Packets(others, opens))

\* A write-off is "spare" if there was room without it.
WriteOffsAfterAsking(a) ==
    IF WritesOff(a)
      THEN writeOffs \cup {IF a.total < Budget(a) THEN "spare" ELSE "blocked"}
      ELSE writeOffs

\* l2cap_send_frame() puts n packets on the current link - or on handle 0, where
\* the flow control counts them and the controller holds nothing.
Sent(a, n) ==
    CASE n = 0 -> a
      [] n = 1 -> OnSent(a, handle)
      [] n = 2 -> OnSent(OnSent(a, handle), handle)

Holds(packets, n) ==
    IF handle \in opens THEN [packets EXCEPT ![handle] = @ + n] ELSE packets

\* Packets that are not input, sent without asking for room.
SendOther(n) ==
    /\ acl.total + n <= MaxHeldPackets
    /\ AtController + n <= MaxHeldPackets
    /\ acl' = Sent(acl, n)
    /\ others' = Holds(others, n)

\* A report goes out: counted, then written on the current link, in the form
\* the console is thought to expect.  A write error loses it and costs no buffer.
\* a, i: the flow control, and the input packets the controller holds.
SendReport(a, i, r) ==
    /\ lastSent' = r
    /\ \/ /\ acl' = Sent(a, 1)
          /\ inputs' = Holds(i, 1)
          /\ unasked' = (unasked \/ (full /\ ~asked /\ handle # NoLink))
          /\ loose' = (loose \/ a.max = 0)
       \/ /\ acl' = a
          /\ inputs' = i
          /\ UNCHANGED <<unasked, loose>>

NothingSent(a, i) ==
    /\ acl' = a
    /\ inputs' = i
    /\ UNCHANGED <<lastSent, unasked, loose>>

-----------------------------------------------------------------------------
(* The pad speaks.                                                         *)

\* Bug: store() keeps what the slot has.
StoredBehind(fits, r) == IF held = 0 /\ fits THEN r ELSE held

\* held_.store(): a newer report replaces the held one; one too long for the
\* slot leaves it empty.
Stored(fits, r) == IF fits THEN r ELSE 0

\* Bug: the held report stays when a newer one goes out.
KeptInSlot == held

\* held_.clear(), when a newer report goes out.
Superseded == 0

\* relay_pad_input_to_console() with a report that is not one of the opaque
\* frames (those are dropped before anything is asked or changed).
PadState(fits) ==
    /\ padSeq < MaxReports
    /\ padSeq' = padSeq + 1
    /\ IF ~interrupt
         THEN NothingSent(acl, inputs) /\ UNCHANGED <<held, carried, writeOffs>>
         ELSE /\ writeOffs' = WriteOffsAfterAsking(acl)
              /\ carried' = FALSE
              /\ IF HasRoom(acl)
                   THEN held' = Superseded /\ SendReport(AfterHasRoom(acl), inputs, padSeq + 1)
                   ELSE /\ held' = Stored(fits, padSeq + 1)
                        /\ NothingSent(acl, inputs)
    /\ UNCHANGED <<handle, opens, interrupt, full, others, asked>>

-----------------------------------------------------------------------------
(* The controller gives buffers back.                                      *)

\* flush_held_report(), after the completions left the flow control at a and
\* the input packets at the controller at i.
FlushHeldReport(a, i) ==
    \/ /\ held = 0
       /\ NothingSent(a, i)
       /\ UNCHANGED <<held, carried, writeOffs>>
    \/ /\ held # 0
       /\ writeOffs' = WriteOffsAfterAsking(a)
       /\ IF ~HasRoom(a)
            THEN NothingSent(a, i) /\ UNCHANGED <<held, carried>>
            ELSE /\ held' = 0
                 /\ carried' = FALSE
                 /\ IF interrupt
                      THEN SendReport(AfterHasRoom(a), i, held)
                      ELSE NothingSent(AfterHasRoom(a), i)

\* What the controller can have finished on link h: i input packets, o others.
Finished(h, i, o) ==
    i \in 0..inputs[h] /\ o \in 0..others[h] /\ i + o > 0

\* handle_num_completed_packets(), one {handle, packets} pair.
NumCompleted(h, i, o) ==
    /\ Finished(h, i, o)
    /\ others' = [others EXCEPT ![h] = @ - o]
    /\ FlushHeldReport(OnCompleted(acl, h, i + o), [inputs EXCEPT ![h] = @ - i])
    /\ UNCHANGED <<handle, opens, interrupt, full, padSeq, asked>>

\* Two pairs in one event, flushed once.
NumCompletedTwo(h, i, o, g, j, p) ==
    /\ h # g
    /\ Finished(h, i, o) /\ Finished(g, j, p)
    /\ others' = [others EXCEPT ![h] = @ - o, ![g] = @ - p]
    /\ FlushHeldReport(OnCompleted(OnCompleted(acl, h, i + o), g, j + p),
                       [inputs EXCEPT ![h] = @ - i, ![g] = @ - j])
    /\ UNCHANGED <<handle, opens, interrupt, full, padSeq, asked>>

\* Read Buffer Size is answered.
BufferSizeAnswered ==
    /\ acl.max = 0
    /\ acl' = [acl EXCEPT !.max = Pool]
    /\ UNCHANGED <<handle, opens, interrupt, full, held, padSeq, ctrlVars, histVars>>

-----------------------------------------------------------------------------
(* The console speaks, on any link the adapter holds.                      *)

\* Signalling, SDP and feature answers.
OtherTraffic ==
    /\ opens # {} \/ interrupt
    /\ SendOther(1)
    /\ UNCHANGED <<handle, opens, interrupt, full, held, padSeq, inputs, histVars>>

\* The interrupt channel opens: the console asked (its request is answered and
\* our configuration sent) or answered our request (configuration only).
OpenInterrupt(n) ==
    /\ opens # {}
    /\ ~interrupt
    /\ interrupt' = TRUE
    /\ SendOther(n)
    /\ UNCHANGED <<handle, opens, full, held, padSeq, inputs, histVars>>

\* handle_feature_request_from_console() with a request for calibration or
\* firmware info, which arrived on link h.
FeatureRequest(h) ==
    /\ h \in opens
    /\ full' = TRUE
    /\ asked' = (asked \/ h = handle)
    /\ UNCHANGED <<acl, handle, opens, interrupt, held, padSeq, ctrlVars,
                   lastSent, carried, unasked, writeOffs, loose>>

-----------------------------------------------------------------------------
(* Links come and go.                                                      *)

\* handle_connection_complete(): if there was a link already, the console has
\* moved and the channels start over - the held report stays.
LinkUp(h) ==
    /\ h \notin opens
    /\ opens' = opens \cup {h}
    /\ handle' = h
    /\ IF handle # NoLink
         THEN interrupt' = FALSE /\ full' = FALSE /\ carried' = (held # 0)
         ELSE UNCHANGED <<interrupt, full, carried>>
    /\ asked' = FALSE
    /\ UNCHANGED <<acl, held, padSeq, ctrlVars, lastSent, unasked, writeOffs, loose>>

\* handle_disconnect_complete(): the controller has flushed the link's packets.
LinkDown(h) ==
    /\ h \in opens
    /\ opens' = opens \ {h}
    /\ acl' = OnDisconnect(acl, h)
    /\ inputs' = [inputs EXCEPT ![h] = 0]
    /\ others' = [others EXCEPT ![h] = 0]
    /\ IF h = handle
         THEN handle' = NoLink /\ held' = 0 /\ carried' = FALSE
              /\ interrupt' = FALSE /\ full' = FALSE
         ELSE UNCHANGED <<handle, held, carried, interrupt, full>>
    /\ UNCHANGED <<padSeq, lastSent, asked, unasked, writeOffs, loose>>

Tick ==
    /\ acl.idle <= WriteOff
    /\ acl' = Later(acl)
    /\ UNCHANGED <<handle, opens, interrupt, full, held, padSeq, ctrlVars, histVars>>

-----------------------------------------------------------------------------
Init ==
    /\ acl = NewAcl(0)
    /\ handle = NoLink /\ opens = {} /\ interrupt = FALSE /\ full = FALSE
    /\ held = 0 /\ padSeq = 0
    /\ inputs = [h \in Handles |-> 0]
    /\ others = [h \in Handles |-> 0]
    /\ lastSent = 0 /\ carried = FALSE /\ asked = FALSE /\ unasked = FALSE
    /\ writeOffs = {} /\ loose = FALSE

Next ==
    \/ \E fits \in BOOLEAN : PadState(fits)
    \/ \E h \in opens : \E i \in 0..inputs[h], o \in 0..others[h] :
          \/ NumCompleted(h, i, o)
          \/ \E g \in opens : \E j \in 0..inputs[g], p \in 0..others[g] :
                NumCompletedTwo(h, i, o, g, j, p)
    \/ BufferSizeAnswered
    \/ OtherTraffic
    \/ \E n \in 0..2 : OpenInterrupt(n)
    \/ \E h \in Handles : FeatureRequest(h) \/ LinkUp(h) \/ LinkDown(h)
    \/ Tick

Spec == Init /\ [][Next]_vars

-----------------------------------------------------------------------------
(* Properties.                                                             *)

\* Every variable has the type its declaration gives it.
TypeOK ==
    /\ IsAcl(acl, Handles \cup {NoLink})
    /\ opens \subseteq Handles
    /\ handle \in opens \cup {NoLink}
    /\ interrupt \in BOOLEAN /\ full \in BOOLEAN
    /\ held \in Nat /\ padSeq \in Nat /\ lastSent \in Nat
    /\ inputs \in [Handles -> Nat] /\ others \in [Handles -> Nat]
    /\ carried \in BOOLEAN /\ loose \in BOOLEAN
    /\ asked \in BOOLEAN /\ unasked \in BOOLEAN
    /\ writeOffs \subseteq {"blocked", "spare"}

\* total_ is what the comment on in_flight_total() claims it is, a running sum
\* of the map - the number of packets it counts - across write-offs, link losses
\* and completions for links the map has forgotten.
TotalIsSum ==
    acl.total = Cardinality(Packets(acl.inFlight, DOMAIN acl.inFlight))

\* A link is never charged for more packets than the controller holds for it,
\* and a link that is gone is not charged at all: its handle can be given to
\* the next link without starting it in debt.
NoPhantomDebt ==
    \A h \in DOMAIN acl.inFlight \ {NoLink} :
        h \in opens /\ acl.inFlight[h] <= inputs[h] + others[h]

\* "One buffer is always kept free": as long as every report was metered and no
\* credit was written off, the input stream alone never takes the whole pool.
InputKeepsABufferFree ==
    (~loose /\ writeOffs = {} /\ acl.max # 0)
        => Cardinality(Packets(inputs, opens)) < acl.max

\* "Always the newest": what waits for a buffer is newer than anything sent and,
\* unless the console moved to another link after it was stored, the last thing
\* the pad said.  With OnlyNewer, no report goes out twice or behind a newer one.
HeldIsNewest == held # 0 => lastSent < held /\ (~carried => held = padSeq)

\* Reports go out in the order the pad sent them, whichever of the two paths
\* they take.
OnlyNewer == [][lastSent' >= lastSent]_vars

\* Comment in HeldFrame.h: "what finally goes out is the freshest thing the pad
\* has said".
SentIsFreshest == [][lastSent' # lastSent => lastSent' = padSeq']_vars

\* Comment in AclFlowControl.h: credits are written off "if we are blocked and
\* nothing has completed for long enough".
OnlyBlockedCreditsWrittenOff == "spare" \notin writeOffs

\* Comment in HidRelay.cpp: before the console has asked for anything on a fresh
\* link it expects the cut-down report.
FullOnlyWhereAsked == ~unasked

\* Comment in AclFlowControl.h: it tracks "how many ACL packets the controller
\* still holds".
NoDebtToNobody == acl.total <= AtController

=============================================================================
