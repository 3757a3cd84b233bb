------------------------------ MODULE AclInput ------------------------------
(***************************************************************************)
(* What one adapter's links go through over several runs of the process:   *)
(* reassembly of L2CAP PDUs and the ghost links of handle_acl(), the       *)
(* bookkeeping of handle_connection_complete() and                         *)
(* handle_disconnect_complete(), the reset a run begins with, and the way  *)
(* Ctrl+C closes the links (main.cpp, disconnect_link()).                  *)
(*                                                                         *)
(* A PDU is a number and a length in units, of which the first holds the   *)
(* L2CAP header; a fragment carries the units from one to another.  The    *)
(* command path is HciCommandQueue's with room for one command, without    *)
(* its clock, and carries Disconnects only.  Links are numbered as they    *)
(* come up; handles are reused.                                            *)
(***************************************************************************)
EXTENDS Integers, Sequences, SequencesExt

CONSTANTS
    Handles,      \* the controller's connection handles
    Lengths,      \* lengths of PDUs, in units
    MaxLinks,     \* bound: links that come up
    MaxPdus,      \* bound: PDUs the peers begin
    MaxRuns,      \* bound: times the process starts
    MaxUnread,    \* bound: packets in the socket
    MaxLosses     \* bound: fragments the socket drops for want of space

ASSUME LengthsAssumption == Lengths \subseteq Nat \ {0}
ASSUME BoundsAssumption ==
    {MaxLinks, MaxPdus, MaxRuns, MaxUnread, MaxLosses} \subseteq Nat

VARIABLES
    phase,        \* "off", "reset", "serving" or "closing"
    current,      \* connection_handle_, or NoHandle
    openHandles,  \* open_handles_
    ghosts,       \* ghost_handles_
    reasm,        \* acl_reasm_: per handle, the PDU that is open on it
    cmds,         \* commands not written yet, oldest first
    unanswered,   \* one is written and has no answer: nothing else is written
    old,          \* after the signal: it was written before it
    \* the controller, the socket and the peers (external)
    up,           \* the link on each handle, 0 for none
    inside,       \* commands the controller has not carried out
    resetDue,     \* it took a Reset and has not carried it out
    sending,      \* the PDU the peer on each handle is in
    rx,           \* the socket: packets not read yet
    links, pdus, runs, losses,
    \* history
    known,        \* the link this run was told of on each handle, 0 for none
    abandoned,    \* a peer began a PDU before it had finished the last one,
                  \* or a late reset cut one off
    torn,         \* what was routed was not one whole PDU
    intruder,     \* a packet was taken that is not of the link this run was
                  \* told of
    told,         \* links whose Disconnect this run has written
    lost,         \* those whose Disconnect the controller lost
    atSignal,     \* links that were open when the signal came
    untold        \* a run left one of them up without a word

progVars == <<phase, current, openHandles, ghosts, reasm, cmds, unanswered, old>>
ctrlVars == <<up, inside, resetDue, sending>>
countVars == <<links, pdus, runs, losses>>
pduHist == <<abandoned, torn, intruder>>
linkHist == <<known, told, lost, atSignal, untold>>
vars == <<progVars, ctrlVars, rx, countVars, pduHist, linkHist>>

NoHandle == "none"
Links == 1..MaxLinks
Closed == [expected |-> 0, buf |-> <<>>]
Silent == [pdu |-> 0, len |-> 0, done |-> 0]
NoLinks == [h \in Handles |-> 0]

\* The units of a PDU from a to b, as bytes that show where they come from.
Units(l, p, a, b) == [i \in 1..(b - a + 1) |-> [link |-> l, pdu |-> p, unit |-> a + i - 1]]

\* A fragment of one, and the bytes in it.  The length is in the header, so the
\* program looks for it in a start only.
Fragment(h, l, pb, p, n, a, b) ==
    [type |-> "acl", handle |-> h, link |-> l, pb |-> pb, pdu |-> p, len |-> n,
     from |-> a, to |-> b]
Data(f) == Units(f.link, f.pdu, f.from, f.to)

-----------------------------------------------------------------------------
(* The command path.                                                       *)

\* A Disconnect of the link l the caller takes handle h to be.
Disconnect(h, l) == [handle |-> h, link |-> l]

\* pump_commands() on a queue q: the oldest command is written if nothing is
\* out (busy).
Pump(q, busy) ==
    IF busy \/ q = <<>>
      THEN /\ cmds' = q /\ unanswered' = busy
           /\ UNCHANGED <<inside, told>>
      ELSE /\ cmds' = Tail(q) /\ unanswered' = TRUE
           /\ inside' = Append(inside, Head(q))
           /\ told' = told \cup {Head(q).link}

\* send_cmd() for each of a sequence of commands.
Send(new) == Pump(cmds \o new, unanswered)

\* watch_commands(): no answer in two seconds.  In the 300 ms after the signal
\* that can only be a command from before it.
GiveUp ==
    /\ phase = "serving" \/ (phase = "closing" /\ old)
    /\ unanswered
    /\ Pump(cmds, FALSE)
    /\ old' = FALSE
    /\ UNCHANGED <<phase, current, openHandles, ghosts, reasm, up, resetDue, sending, rx,
                   countVars, pduHist, known, lost, atSignal, untold>>

-----------------------------------------------------------------------------
(* The read loop.                                                          *)

Reads(type) == phase \in {"serving", "closing"} /\ rx # <<>> /\ Head(rx).type = type

\* handle_connection_complete(), success.
OnLinkUp ==
    /\ Reads("up")
    /\ rx' = Tail(rx)
    /\ current' = Head(rx).handle
    /\ openHandles' = openHandles \cup {Head(rx).handle}
    /\ known' = [known EXCEPT ![Head(rx).handle] = Head(rx).link]
    /\ UNCHANGED <<phase, ghosts, reasm, cmds, unanswered, old, ctrlVars, countVars, pduHist,
                   told, lost, atSignal, untold>>

\* What a lost link leaves of the PDUs that are open.
Dropped(h) == [reasm EXCEPT ![h] = Closed]

\* handle_disconnect_complete().
OnLinkDown ==
    /\ Reads("down")
    /\ rx' = Tail(rx)
    /\ LET h == Head(rx).handle
       IN  /\ openHandles' = openHandles \ {h}
           /\ ghosts' = ghosts \ {h}
           /\ reasm' = Dropped(h)
           /\ current' = IF current = h THEN NoHandle ELSE current
           /\ known' = [known EXCEPT ![h] = 0]
    /\ UNCHANGED <<phase, cmds, unanswered, old, ctrlVars, countVars, pduHist, 
                   told, lost, atSignal, untold>>

\* Command Status or Command Complete.
OnAnswer ==
    /\ Reads("answer")
    /\ rx' = Tail(rx)
    /\ Pump(cmds, FALSE)
    /\ old' = FALSE
    /\ UNCHANGED <<phase, current, openHandles, ghosts, reasm, up, resetDue, sending,
                   countVars, pduHist, known, lost, atSignal, untold>>

\* Bug: traffic is served while any link is up.
IsGhostOnlyAlone(h) == openHandles = {}

\* A link this run never opened.
IsGhost(h) == h \notin openHandles

\* Bug: a ghost is not asked while a command is out.
AsksNowIfFree(h) == h \notin ghosts /\ ~unanswered

\* Its first packet.
AsksNow(h) == h \notin ghosts

\* handle_acl() on a link that is not ours: closed, and not listened to.
OnGhostTraffic ==
    /\ Reads("acl")
    /\ rx' = Tail(rx)
    /\ LET h == Head(rx).handle
       IN  /\ IsGhost(h)
           /\ ghosts' = ghosts \cup {h}
           /\ Send(IF AsksNow(h) THEN <<Disconnect(h, Head(rx).link)>> ELSE <<>>)
    /\ UNCHANGED <<phase, current, openHandles, reasm, old, up, resetDue, sending, countVars,
                   pduHist, known, lost, atSignal, untold>>

\* route_l2cap_pdu() with the bytes of buf: one PDU, from its first unit to its
\* last?
Route(buf) == torn' = (torn \/ buf # Units(buf[1].link, buf[1].pdu, 1, Len(buf)))

\* A packet is taken for one of the link its handle stands for.
Taken(p) == intruder' = (intruder \/ p.link # known[p.handle])

\* Bug: a start finds the old partial PDU in its place and leaves it there.
HoldNotReplaced(h, p) ==
    IF reasm[h] = Closed /\ Data(p) # <<>>
      THEN [reasm EXCEPT ![h] = [expected |-> p.len, buf |-> Data(p)]]
      ELSE reasm

\* What a start that is not the whole PDU leaves: its bytes, waiting for the
\* rest; nothing, if it is too short for the length field.
Hold(h, p) ==
    [reasm EXCEPT ![h] = IF Data(p) = <<>> THEN Closed
                                           ELSE [expected |-> p.len, buf |-> Data(p)]]

\* handle_acl(), a start: any partial PDU is dropped.
OnStart ==
    /\ Reads("acl") /\ Head(rx).pb = "start"
    /\ rx' = Tail(rx)
    /\ LET p == Head(rx)
       IN  /\ ~IsGhost(p.handle)
           /\ Taken(p)
           /\ IF Data(p) # <<>> /\ Len(Data(p)) >= p.len
                THEN Route(Data(p)) /\ reasm' = [reasm EXCEPT ![p.handle] = Closed]
                ELSE UNCHANGED torn /\ reasm' = Hold(p.handle, p)
    /\ UNCHANGED <<phase, current, openHandles, ghosts, cmds, unanswered, old, ctrlVars,
                   countVars, abandoned, linkHist>>

\* handle_acl(), a continuation: of the PDU that is open, or a stray one.
OnContinuation ==
    /\ Reads("acl") /\ Head(rx).pb = "cont"
    /\ rx' = Tail(rx)
    /\ LET p == Head(rx)
           r == reasm[p.handle]
           buf == r.buf \o Data(p)
       IN  /\ ~IsGhost(p.handle)
           /\ Taken(p)
           /\ IF r # Closed /\ Len(buf) >= r.expected
                THEN /\ Route(SubSeq(buf, 1, r.expected))
                     /\ reasm' = [reasm EXCEPT ![p.handle] = Closed]
                ELSE /\ reasm' = IF r = Closed THEN reasm
                                               ELSE [reasm EXCEPT ![p.handle].buf = buf]
                     /\ UNCHANGED torn
    /\ UNCHANGED <<phase, current, openHandles, ghosts, cmds, unanswered, old, ctrlVars,
                   countVars, abandoned, linkHist>>

-----------------------------------------------------------------------------
(* Runs.                                                                   *)

\* The process is gone, and with it everything it knew; the socket with it.
Gone ==
    /\ phase' = "off"
    /\ current' = NoHandle /\ openHandles' = {} /\ ghosts' = {}
    /\ reasm' = [h \in Handles |-> Closed]
    /\ cmds' = <<>> /\ unanswered' = FALSE /\ old' = FALSE
    /\ rx' = <<>>
    /\ known' = NoLinks
    /\ told' = {} /\ lost' = {} /\ atSignal' = {}

StartRun ==
    /\ phase = "off" /\ runs < MaxRuns
    /\ runs' = runs + 1
    /\ phase' = "reset"
    /\ UNCHANGED <<current, openHandles, ghosts, reasm, cmds, unanswered, old, ctrlVars, rx,
                   links, pdus, losses, pduHist, linkHist>>

\* reset_controller() throws away what arrives before the answer...
DiscardDuringReset ==
    /\ phase = "reset" /\ rx # <<>>
    /\ rx' = Tail(rx)
    /\ UNCHANGED <<progVars, ctrlVars, countVars, pduHist, linkHist>>

\* ... and with the answer every link is gone.
ResetConfirmed ==
    /\ phase = "reset"
    /\ phase' = "serving"
    /\ up' = NoLinks /\ inside' = <<>> /\ resetDue' = FALSE
    /\ sending' = [h \in Handles |-> Silent]
    /\ rx' = <<>>
    /\ UNCHANGED <<current, openHandles, ghosts, reasm, cmds, unanswered, old, countVars,
                   pduHist, linkHist>>

\* The write fails, the Reset is refused, or two seconds pass; in the last case
\* the controller may yet carry it out.
ResetUnconfirmed ==
    /\ phase = "reset"
    /\ phase' = "serving"
    /\ resetDue' \in {resetDue, TRUE}
    /\ UNCHANGED <<current, openHandles, ghosts, reasm, cmds, unanswered, old, up, inside,
                   sending, rx, countVars, pduHist, linkHist>>

\* Bug: only the link that is relayed on is closed.
ToCloseCurrent == openHandles \cap {current}

\* disconnect_link(): the links to close.
ToClose == openHandles

\* Ctrl+C: a Disconnect for every open link, and 300 ms of grace.
Signal ==
    /\ phase = "serving"
    /\ phase' = "closing"
    /\ old' = unanswered
    /\ Send(SetToSeq({Disconnect(h, known[h]) : h \in ToClose}))
    /\ atSignal' = {known[h] : h \in openHandles}
    /\ UNCHANGED <<current, openHandles, ghosts, reasm, up, resetDue, sending, rx, countVars,
                   pduHist, known, lost, untold>>

\* A link's Disconnect waits behind a command the controller has not answered.
Stuck(l) == unanswered /\ \E i \in DOMAIN cmds : cmds[i].link = l

\* The grace period is over: ios.stop().
Exit ==
    /\ phase = "closing"
    /\ Gone
    /\ untold' = (untold \/ \E h \in Handles : /\ up[h] \in atSignal \ told
                                                 /\ ~Stuck(up[h]))
    /\ UNCHANGED <<ctrlVars, countVars, pduHist>>

\* The process is killed, or dies, at any moment.
Kill ==
    /\ phase # "off"
    /\ Gone
    /\ UNCHANGED <<ctrlVars, countVars, pduHist, untold>>

-----------------------------------------------------------------------------
(* The controller and the peers.                                           *)

\* What the controller has to say reaches the socket of a run that listens.
Delivered(packets) == rx' = IF phase = "off" THEN rx ELSE rx \o packets

\* Bounds: the socket's space, and nothing is followed after the last run.
HasSpace == Len(rx) < MaxUnread /\ (phase # "off" \/ runs < MaxRuns)

LinkUp(h) ==
    /\ up[h] = 0 /\ links < MaxLinks /\ ~resetDue /\ HasSpace
    /\ links' = links + 1
    /\ up' = [up EXCEPT ![h] = links + 1]
    /\ Delivered(<<[type |-> "up", handle |-> h, link |-> links + 1]>>)
    /\ UNCHANGED <<progVars, inside, resetDue, sending, pdus, runs, losses, pduHist,
                   linkHist>>

\* The peer closes a link, or is lost.
LinkDown(h) ==
    /\ up[h] # 0 /\ HasSpace
    /\ up' = [up EXCEPT ![h] = 0]
    /\ sending' = [sending EXCEPT ![h] = Silent]
    /\ Delivered(<<[type |-> "down", handle |-> h]>>)
    /\ UNCHANGED <<progVars, inside, resetDue, countVars, pduHist, linkHist>>

\* The controller carries out a command and answers it.
ControllerExecutes ==
    /\ inside # <<>> /\ ~resetDue /\ HasSpace
    /\ inside' = Tail(inside)
    /\ LET h == Head(inside).handle
           closes == up[h] # 0
       IN  /\ up' = IF closes THEN [up EXCEPT ![h] = 0] ELSE up
           /\ sending' = IF closes THEN [sending EXCEPT ![h] = Silent] ELSE sending
           /\ Delivered(IF closes
                          THEN <<[type |-> "answer"], [type |-> "down", handle |-> h]>>
                          ELSE <<[type |-> "answer"]>>)
    /\ UNCHANGED <<progVars, resetDue, countVars, pduHist, linkHist>>

ControllerLoses ==
    /\ inside # <<>> /\ HasSpace
    /\ inside' = Tail(inside)
    /\ lost' = lost \cup {Head(inside).link}
    /\ UNCHANGED <<progVars, up, resetDue, sending, rx, countVars, pduHist, known, 
                   told, atSignal, untold>>

\* The Reset nobody waits for any more: links and commands go without a word.
LateReset ==
    /\ resetDue /\ HasSpace
    /\ resetDue' = FALSE
    /\ up' = NoLinks /\ sending' = [h \in Handles |-> Silent]
    /\ inside' = <<>>
    /\ lost' = lost \cup {inside[i].link : i \in DOMAIN inside}
    /\ abandoned' = (abandoned \/ \E h \in Handles : sending[h].done < sending[h].len)
    /\ Delivered(<<[type |-> "answer"]>>)
    /\ UNCHANGED <<progVars, countVars, torn, intruder, known, told, atSignal, untold>>

\* A peer begins a PDU - whether or not the last one was finished - and sends
\* its first k units; k = 0 is a fragment shorter than the header.
PduBegins(h) ==
    /\ up[h] # 0 /\ pdus < MaxPdus /\ HasSpace
    /\ pdus' = pdus + 1
    /\ abandoned' = (abandoned \/ sending[h].done < sending[h].len)
    /\ \E n \in Lengths : \E k \in 0..n :
          /\ sending' = [sending EXCEPT ![h] = [pdu |-> pdus + 1, len |-> n, done |-> k]]
          /\ Delivered(<<Fragment(h, up[h], "start", pdus + 1, n, 1, k)>>)
    /\ UNCHANGED <<progVars, up, inside, resetDue, links, runs, losses, torn,
                   intruder, linkHist>>

PduContinues(h) ==
    /\ sending[h].done < sending[h].len /\ HasSpace
    /\ \E k \in sending[h].done + 1 .. sending[h].len :
          /\ sending' = [sending EXCEPT ![h].done = k]
          /\ Delivered(<<Fragment(h, up[h], "cont", sending[h].pdu, sending[h].len,
                                  sending[h].done + 1, k)>>)
    /\ UNCHANGED <<progVars, up, inside, resetDue, countVars, pduHist, linkHist>>

\* The socket is full and drops a fragment.  Events are taken to arrive: one lost
\* would leave the handler and the controller apart about which links there are,
\* and nothing in the code looks for that.
FragmentLost ==
    /\ losses < MaxLosses
    /\ losses' = losses + 1
    /\ \E i \in DOMAIN rx : rx[i].type = "acl" /\ rx' = RemoveAt(rx, i)
    /\ UNCHANGED <<progVars, ctrlVars, links, pdus, runs, pduHist, linkHist>>

-----------------------------------------------------------------------------
Init ==
    /\ phase = "off" /\ current = NoHandle /\ openHandles = {} /\ ghosts = {}
    /\ reasm = [h \in Handles |-> Closed]
    /\ cmds = <<>> /\ unanswered = FALSE /\ old = FALSE
    /\ up = NoLinks /\ inside = <<>> /\ resetDue = FALSE
    /\ sending = [h \in Handles |-> Silent] /\ rx = <<>>
    /\ links = 0 /\ pdus = 0 /\ runs = 0 /\ losses = 0
    /\ known = NoLinks /\ abandoned = FALSE /\ torn = FALSE /\ intruder = FALSE
    /\ told = {} /\ lost = {} /\ atSignal = {} /\ untold = FALSE

\* Everything the read loop does with the next packet.
ReadsOn ==
    OnLinkUp \/ OnLinkDown \/ OnAnswer \/ OnGhostTraffic \/ OnStart \/ OnContinuation

Next ==
    \/ ReadsOn \/ GiveUp
    \/ StartRun \/ DiscardDuringReset \/ ResetConfirmed \/ ResetUnconfirmed
    \/ Signal \/ Exit \/ Kill
    \/ ControllerExecutes \/ ControllerLoses \/ LateReset \/ FragmentLost
    \/ \E h \in Handles : LinkUp(h) \/ LinkDown(h) \/ PduBegins(h) \/ PduContinues(h)

Spec == Init /\ [][Next]_vars

\* The io_context reads what has arrived and its timers run out; the controller
\* deals with a command, one way or the other.
FairSpec ==
    /\ Spec
    /\ WF_vars(ReadsOn) /\ WF_vars(GiveUp)
    /\ WF_vars(ControllerExecutes \/ ControllerLoses)

-----------------------------------------------------------------------------
(* Properties.                                                             *)

\* What is routed to the channels is always one whole PDU: no piece of an
\* abandoned PDU, of a lost link whose handle was given to the next one or of
\* another peer gets into it.  It takes two things to break that, the start of a
\* PDU lost and the one before it not finished: because its peer gave it up, or
\* because a fragment of it was lost too.
RoutedWhole == torn => losses > 0 /\ (abandoned \/ losses > 1)

\* "The discriminator is exact": nothing that arrives on a link left behind by
\* an earlier run is ever taken for live data, however late the controller
\* resets and whichever handles it gives out next.
GhostsNeverServed == ~intruder

\* A ghost that talks is got rid of: it goes, or the run ends first, or the
\* controller lost the one Disconnect it is sent (nothing asks again), or it
\* still has a Reset to carry out.
GhostsGo ==
    \A h \in Handles :
        (phase = "serving" /\ h \in ghosts \ openHandles)
          ~> \/ phase # "serving" \/ resetDue
             \/ h \in openHandles \/ up[h] \in lost \cup {0}

\* "Ctrl+C has to close the links, not just kill the process": every link that
\* was open when the signal came is gone at the end, has been sent its
\* Disconnect, or the controller still owes the answer to a command before it.
ShutdownTells == ~untold

\* The same of the links that came up before the process ended.
ShutdownClosesAll ==
    [][phase = "closing" /\ phase' = "off" /\ ~unanswered =>
         \A h \in openHandles : up[h] \in told \cup {0}]_vars

\* The ghost that is closed is the one that was seen.
ClosesTheGhost ==
    [][\A h \in Handles :
         (phase = "serving" /\ ControllerExecutes /\ up[h] # 0 /\ up'[h] = 0)
            => up[h] = Head(inside).link]_vars

=============================================================================
