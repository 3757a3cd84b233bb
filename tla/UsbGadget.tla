------------------------------ MODULE UsbGadget ------------------------------
(***************************************************************************)
(* The USB side: the FunctionFS gadget of USBHandler.cpp, seen from its    *)
(* three asynchronous edges.                                               *)
(*   - ep0: control_events() reads FunctionFS events and answers control   *)
(*     requests; a GET_REPORT the pad has to answer waits on a timer.      *)
(*   - the interrupt endpoints: one AIO request per direction, completed   *)
(*     by the kernel and reaped by endpoint_events().                      *)
(*   - the pad: feature answers arrive whenever the radio brings them.     *)
(* With them, how the gadget comes up (start_usb_gadget) and how it is     *)
(* detached when the console asks for Bluetooth (the tail of               *)
(* l2cap_send_feature_set).                                                *)
(*                                                                         *)
(* A pad answer is the number of the question it answers.  FunctionFS      *)
(* keeps at most one state event and one SETUP unread: a state event       *)
(* throws away everything before it, a SETUP replaces a SETUP, and either  *)
(* cancels a request that was read and not answered.                       *)
(***************************************************************************)
EXTENDS Integers, Sequences, FiniteSets

CONSTANTS
    Fixed,          \* cacheable feature reports (0x05, 0x09, 0x20)
    Live,           \* every other feature report
    SubmitFails,    \* set of BOOLEANs: may io_submit() itself fail?
    MaxRequests,    \* bound: control requests from the host
    MaxStarts,      \* bound: times the pad's channels come up
    MaxResets       \* bound: times the host resets the device

\* Feature reports are not the other control requests, and Fixed is a few of them.
ASSUME IdsAssumption ==
    Fixed \cap Live = {} /\ {"pair", "other"} \cap (Fixed \cup Live) = {}
ASSUME FixedAssumption == IsFiniteSet(Fixed)
ASSUME SubmitFailsAssumption == SubmitFails \in (SUBSET BOOLEAN) \ {{}}
ASSUME MaxRequestsAssumption == MaxRequests \in Nat
ASSUME MaxStartsAssumption == MaxStarts \in Nat
ASSUME MaxResetsAssumption == MaxResets \in Nat

VARIABLES
    starts,       \* start_usb_gadget() coroutines in their 300 ms sleep
    started,      \* usb_started_
    bound,        \* bound_
    looping,      \* control_events() and endpoint_events() have been spawned
    enabled,      \* endpoints_enabled_
    inBusy,       \* in_busy_
    outBusy,      \* out_busy_
    pending,      \* pending_get_: the request, or NoRequest
    timer,        \* get_report_timer_, as control_events() waits on it
    answers,      \* answers_: the last answer per report, 0 for none
    handovers,    \* detach coroutines spawned and not yet run
    \* the kernel and the host (external)
    udc,          \* the gadget is bound to the UDC
    epUp,         \* the host has the configuration selected
    stateEvent,   \* unread ENABLE or DISABLE on ep0
    setupEvent,   \* unread SETUP on ep0
    inHand,       \* the SETUP last read, which a reply on ep0 would answer
    setupState,   \* of that SETUP: "none", "pending" or "cancelled"
    kIn, kOut,    \* the AIO request on each endpoint
    hostNo, resets, padUps,
    \* the pad and the radio (external)
    padQueue,     \* questions on their way to an answer, oldest first
    asks,         \* questions asked so far
    \* history
    served,       \* per report, the newest answer the host was given
    wrong,        \* a reply went to another request than the one it was for
    stalled,      \* an event read hit a request that was waiting for the pad
    detached,     \* disable_gadget() has run
    rushed        \* the host configured the device again before the relay had
                  \* caught up with its reset, or io_submit() refused a read

progVars == <<starts, started, bound, looping, enabled, inBusy, outBusy,
              pending, timer, answers, handovers>>
kernVars == <<udc, epUp, stateEvent, setupEvent, inHand, setupState, kIn, kOut, hostNo,
              resets, padUps>>
histVars == <<served, wrong, stalled, detached, rushed>>
vars == <<progVars, kernVars, padQueue, asks, histVars>>

Ids == Fixed \cup Live
NoRequest == [no |-> 0, what |-> "none"]
Whats == Ids \cup {"pair", "other"}
Requests == [no : 1..MaxRequests, what : Whats]
Done == {"ok", "error"}

-----------------------------------------------------------------------------
(* Pieces the handlers share.                                              *)

\* l2cap_get_report(): the question goes out, or the channel is not open and it
\* does not; either way it may never be answered.
AskPad(questions) ==
    /\ asks' = asks + Len(questions)
    /\ padQueue' = padQueue \o questions

\* submit_output_read(), from the given values: one read is queued, and fails
\* at once on an endpoint that is down.
SubmitOutputRead(busy, up, fails) ==
    IF busy \/ ~up \/ fails
      THEN outBusy' = busy /\ UNCHANGED kOut
      ELSE outBusy' = TRUE /\ kOut' = IF epUp THEN "queued" ELSE "error"

\* ep0_reply() with the pad's answer v to report id, for the pending_get_ get.
\* FunctionFS takes it for the request it has in hand, whichever that is, if it
\* still expects an answer (else EIDRM) and the host collects it (else EINTR, on
\* which ep0_stage_failed() stalls the request).
ReplyGet(get, id, v) ==
    /\ setupState' = "none"
    /\ \/ UNCHANGED <<served, wrong>>
       \/ /\ setupState = "pending"
          /\ served' = [served EXCEPT ![id] = v]
          /\ wrong' = (wrong \/ get # inHand \/ id # inHand.what)

\* get_report_timer_.cancel(): too late for a timer that has run out.
Cancelled == IF timer = "running" THEN "cancelled" ELSE timer

-----------------------------------------------------------------------------
(* Coming up.                                                              *)

Orders(S) ==
    {s \in [1..Cardinality(S) -> S] : \A i, j \in DOMAIN s : s[i] = s[j] => i = j}

\* The pad's interrupt channel is configured: start_usb_gadget(), to its sleep.
PadChannelsUp ==
    /\ padUps < MaxStarts
    /\ padUps' = padUps + 1
    /\ starts' = starts + 1
    /\ \E order \in Orders(Fixed) :
          AskPad([i \in DOMAIN order |-> [id |-> order[i], no |-> asks + i]])
    /\ UNCHANGED <<started, bound, looping, enabled, inBusy, outBusy, pending, timer,
                   answers, handovers, udc, epUp, stateEvent, setupEvent, setupState,
                   inHand, kIn, kOut, hostNo, resets, histVars>>

\* It has been brought up before (usb_started_).
AlreadyUp == started

\* start_usb_gadget(), after its sleep.  ok: the bind succeeds.
StartGadget(ok) ==
    /\ starts > 0
    /\ starts' = starts - 1
    /\ started' = TRUE
    /\ IF AlreadyUp
         THEN UNCHANGED <<bound, udc, looping>>
         ELSE bound' = ok /\ udc' = ok /\ looping' = ok
    /\ UNCHANGED <<enabled, inBusy, outBusy, pending, timer, answers, handovers, epUp,
                   stateEvent, setupEvent, setupState, kIn, kOut, hostNo, resets, inHand, padUps,
                   padQueue, asks, histVars>>

-----------------------------------------------------------------------------
(* ep0.                                                                    *)

\* l2cap_send_feature_set(): a pair command spawns one deferred detach.
DetachesSpawned(handover) == IF handover THEN 1 ELSE 0

\* handle_setup(), what it does to the rest.
\*   cached: a fixed report the pad has already given is served on the spot, if
\*   the host collects it
HandleSetup(r, handover) ==
    IF r = NoRequest
      THEN /\ setupState' = "none"
           /\ UNCHANGED <<pending, timer, padQueue, asks, served, handovers>>
      ELSE CASE r.what \in Fixed /\ answers[r.what] # 0 ->
                  /\ setupState' = "none"
                  /\ served' \in {served, [served EXCEPT ![r.what] = answers[r.what]]}
                  /\ UNCHANGED <<pending, timer, padQueue, asks, handovers>>
             [] r.what \in Ids /\ ~(r.what \in Fixed /\ answers[r.what] # 0) ->
                  /\ setupState' = "pending"
                  /\ pending' = r
                  /\ timer' = "running"
                  /\ AskPad(<<[id |-> r.what, no |-> asks + 1]>>)
                  /\ UNCHANGED <<served, handovers>>
             [] r.what = "pair" ->
                  /\ setupState' = "none"
                  /\ handovers' = handovers + DetachesSpawned(handover)
                  /\ UNCHANGED <<pending, timer, padQueue, asks, served>>
             [] r.what = "other" ->
                  /\ setupState' = "none"
                  /\ UNCHANGED <<pending, timer, padQueue, asks, served, handovers>>

\* Bug: control_events() reads ep0 with a GET_REPORT outstanding.
FreeToReadAlways == timer # "cancelled"

\* control_events() is at its read: nothing is pending and it is not in a wait.
FreeToRead == pending = NoRequest /\ timer = "off"

\* Bug: on_endpoints_disabled() takes the buffers back from the kernel.
OnStateEventTakesBuffers(fails) ==
    /\ enabled' = (stateEvent = "ENABLE" \/ (enabled /\ stateEvent = "none"))
    /\ inBusy' = (inBusy /\ stateEvent # "DISABLE")
    /\ IF stateEvent = "ENABLE" /\ ~enabled
         THEN SubmitOutputRead(outBusy, TRUE, fails)
         ELSE UNCHANGED <<outBusy, kOut>>

\* on_endpoints_enabled(), which does nothing twice, on_endpoints_disabled(), or
\* no state event at all.
OnStateEvent(fails) ==
    /\ enabled' = (stateEvent = "ENABLE" \/ (enabled /\ stateEvent = "none"))
    /\ inBusy' = inBusy
    /\ IF stateEvent = "ENABLE" /\ ~enabled
         THEN SubmitOutputRead(outBusy, TRUE, fails)
         ELSE UNCHANGED <<outBusy, kOut>>

\* control_events() with nothing pending: read what FunctionFS has (a cancelled
\* request costs an EIDRM first), and handle the events in their order.
\* handover: a pair command finds a captured pairing and a console radio.
ReadEp0(handover, fails) ==
    /\ looping
    /\ FreeToRead
    /\ stateEvent # "none" \/ setupEvent # NoRequest \/ setupState # "none"
    /\ stalled' = (stalled \/ (setupState = "pending" /\ ~detached))
    /\ OnStateEvent(fails)
    /\ rushed' = (rushed \/ (fails /\ ~outBusy'))
    /\ HandleSetup(setupEvent, handover)
    /\ stateEvent' = "none" /\ setupEvent' = NoRequest /\ inHand' = setupEvent
    /\ UNCHANGED <<starts, started, bound, looping, answers, udc, epUp, kIn, hostNo, resets,
                   padUps, wrong, detached>>

\* A thousand milliseconds pass.
TimerExpires ==
    /\ timer = "running"
    /\ timer' = "expired"
    /\ UNCHANGED <<starts, started, bound, looping, enabled, inBusy, outBusy, pending,
                   answers, handovers, kernVars, padQueue, asks, histVars>>

\* Bug: a pad that is late is answered for with zeros, whatever it said before.
FallbackZeros(id) == 0

\* What a GET_REPORT gets when time is up: the pad's last answer, or zeros (0).
Fallback(id) == answers[id]

\* Bug: the expired wait is taken for a cancelled one.
NeverTimeUp == FALSE

\* The wait ended because time is up and the request is still there.
TimeUp == timer = "expired" /\ pending # NoRequest

\* control_events() wakes from its wait on the timer.
WakeOnTimer ==
    /\ timer \in {"expired", "cancelled"}
    /\ timer' = "off"
    /\ IF TimeUp
         THEN pending' = NoRequest /\ ReplyGet(pending, pending.what, Fallback(pending.what))
         ELSE UNCHANGED <<pending, setupState, served, wrong>>
    /\ UNCHANGED <<starts, started, bound, looping, enabled, inBusy, outBusy, answers,
                   handovers, udc, epUp, stateEvent, setupEvent, kIn, kOut, hostNo, resets,
                   inHand, padUps, padQueue, asks, stalled, detached, rushed>>

\* Bug: any answer finishes whatever request is pending.
IsAwaitedAny(id) == pending # NoRequest

IsAwaited(id) == pending # NoRequest /\ pending.what = id

\* on_feature_report(): the pad answers its oldest question.
OnFeatureReport ==
    /\ padQueue # <<>>
    /\ padQueue' = Tail(padQueue)
    /\ LET q == Head(padQueue)
       IN  /\ answers' = [answers EXCEPT ![q.id] = q.no]
           /\ IF IsAwaited(q.id)
                THEN /\ pending' = NoRequest
                     /\ timer' = Cancelled
                     /\ ReplyGet(pending, q.id, q.no)
                ELSE UNCHANGED <<pending, timer, setupState, served, wrong>>
    /\ UNCHANGED <<starts, started, bound, looping, enabled, inBusy, outBusy, handovers,
                   udc, epUp, stateEvent, setupEvent, kIn, kOut, hostNo, resets, inHand, padUps,
                   asks, stalled, detached, rushed>>

\* A question or its answer is lost on the radio.
PadAnswerLost ==
    /\ padQueue # <<>>
    /\ padQueue' = Tail(padQueue)
    /\ UNCHANGED <<progVars, kernVars, asks, histVars>>

-----------------------------------------------------------------------------
(* The interrupt endpoints.                                                *)

\* send_input() with the pad's report: dropped if the endpoint is down or the
\* last report has not been taken, else submitted.
SendInput(fails) ==
    /\ bound
    /\ enabled /\ ~inBusy /\ ~fails
    /\ inBusy' = TRUE
    /\ kIn' = IF epUp THEN "queued" ELSE "error"
    /\ UNCHANGED <<starts, started, bound, looping, enabled, outBusy, pending, timer, answers,
                   handovers, udc, epUp, stateEvent, setupEvent, setupState, kOut, hostNo,
                   resets, inHand, padUps, padQueue, asks, histVars>>

\* Bug: a completed read is not followed by another.
OnOutputDoneOnce(fails) == outBusy' = FALSE /\ kOut' = "none"

\* What reaping leaves of a completed read: a report is followed by the next
\* read, an error is not.  A read refused at once is reaped in the same loop.
OnOutputDone(fails) ==
    IF kOut = "ok" /\ enabled /\ epUp /\ ~fails
      THEN outBusy' = TRUE /\ kOut' = "queued"
      ELSE outBusy' = FALSE /\ kOut' = "none"

\* endpoint_events(): reap every completion.
Reap(fails) ==
    /\ looping
    /\ kIn \in Done \/ kOut \in Done
    /\ IF kIn \in Done THEN inBusy' = FALSE /\ kIn' = "none" ELSE UNCHANGED <<inBusy, kIn>>
    /\ IF kOut \in Done THEN OnOutputDone(fails) ELSE UNCHANGED <<outBusy, kOut>>
    /\ rushed' = (rushed \/ (fails /\ ~outBusy'))
    /\ UNCHANGED <<starts, started, bound, looping, enabled, pending, timer, answers,
                   handovers, udc, epUp, stateEvent, setupEvent, setupState, hostNo, resets,
                   inHand, padUps, padQueue, asks, served, wrong, stalled, detached>>

-----------------------------------------------------------------------------
(* Going away.                                                             *)

\* What the endpoints do to requests in flight when they go down.
Flushed(k) == IF k = "queued" THEN "error" ELSE k

Interrupted == IF setupState = "pending" THEN "cancelled" ELSE setupState

\* The deferred half of the pair command: disable_gadget().  The console radio
\* is called next, which is not modelled here.  ok: the unbind takes effect.
Detach(ok) ==
    /\ handovers > 0
    /\ handovers' = handovers - 1
    /\ detached' = TRUE
    /\ bound' = FALSE /\ enabled' = FALSE
    /\ IF pending # NoRequest
         THEN pending' = NoRequest /\ timer' = Cancelled
         ELSE UNCHANGED <<pending, timer>>
    /\ IF ok /\ udc
         THEN /\ udc' = FALSE /\ epUp' = FALSE
              /\ stateEvent' = "DISABLE" /\ setupEvent' = NoRequest
              /\ setupState' = Interrupted
              /\ kIn' = Flushed(kIn) /\ kOut' = Flushed(kOut)
         ELSE UNCHANGED <<udc, epUp, stateEvent, setupEvent, setupState, kIn, kOut>>
    /\ UNCHANGED <<starts, started, looping, inBusy, outBusy, answers, hostNo, resets, inHand, padUps,
                   padQueue, asks, served, wrong, stalled, rushed>>

-----------------------------------------------------------------------------
(* The kernel and the host.                                                *)

\* The relay has read every event and reaped every request of the last reset.
CaughtUp == stateEvent = "none" /\ kIn \notin Done /\ kOut \notin Done /\ ~enabled

HostConfigures ==
    /\ udc /\ ~epUp
    /\ rushed' = (rushed \/ ~CaughtUp)
    /\ epUp' = TRUE
    /\ stateEvent' = "ENABLE" /\ setupEvent' = NoRequest
    /\ setupState' = Interrupted
    /\ UNCHANGED <<progVars, udc, kIn, kOut, hostNo, resets, inHand, padUps, padQueue, asks, served,
                   wrong, stalled, detached>>

HostResets ==
    /\ epUp /\ resets < MaxResets
    /\ resets' = resets + 1
    /\ epUp' = FALSE
    /\ stateEvent' = "DISABLE" /\ setupEvent' = NoRequest
    /\ setupState' = Interrupted
    /\ kIn' = Flushed(kIn) /\ kOut' = Flushed(kOut)
    /\ UNCHANGED <<progVars, udc, hostNo, inHand, padUps, padQueue, asks, histVars>>

\* A control request; a new one means the host has given up on the last.
HostSetup(what) ==
    /\ epUp /\ hostNo < MaxRequests
    /\ hostNo' = hostNo + 1
    /\ setupEvent' = [no |-> hostNo + 1, what |-> what]
    /\ setupState' = Interrupted
    /\ UNCHANGED <<progVars, udc, epUp, stateEvent, kIn, kOut, resets, inHand, padUps, padQueue, asks,
                   histVars>>

\* The host takes an input report, or sends an output report.
HostPolls ==
    \/ kIn = "queued" /\ kIn' = "ok" /\ UNCHANGED kOut
    \/ kOut = "queued" /\ kOut' = "ok" /\ UNCHANGED kIn

KernelCompletes ==
    /\ HostPolls
    /\ UNCHANGED <<progVars, udc, epUp, stateEvent, setupEvent, setupState, hostNo, resets,
                   inHand, padUps, padQueue, asks, histVars>>

-----------------------------------------------------------------------------
Init ==
    /\ starts = 0 /\ started = FALSE /\ bound = FALSE /\ looping = FALSE
    /\ enabled = FALSE /\ inBusy = FALSE /\ outBusy = FALSE
    /\ pending = NoRequest /\ timer = "off" /\ handovers = 0
    /\ answers = [id \in Ids |-> 0]
    /\ udc = FALSE /\ epUp = FALSE /\ stateEvent = "none" /\ setupEvent = NoRequest
    /\ inHand = NoRequest /\ setupState = "none" /\ kIn = "none" /\ kOut = "none"
    /\ hostNo = 0 /\ resets = 0 /\ padUps = 0
    /\ padQueue = <<>> /\ asks = 0
    /\ served = [id \in Ids |-> 0] /\ wrong = FALSE /\ stalled = FALSE /\ detached = FALSE
    /\ rushed = FALSE

Next ==
    \/ PadChannelsUp
    \/ \E ok \in BOOLEAN : StartGadget(ok) \/ Detach(ok)
    \/ \E handover \in BOOLEAN, fails \in SubmitFails : ReadEp0(handover, fails)
    \/ TimerExpires \/ WakeOnTimer \/ OnFeatureReport \/ PadAnswerLost
    \/ \E fails \in SubmitFails : SendInput(fails) \/ Reap(fails)
    \/ HostConfigures \/ HostResets \/ KernelCompletes
    \/ \E what \in Whats : HostSetup(what)

Spec == Init /\ [][Next]_vars

\* The io_context runs what is ready and timers run out.  Nothing is assumed of
\* the host or of the pad.
Fairness ==
    /\ WF_vars(TimerExpires) /\ WF_vars(WakeOnTimer)
    /\ WF_vars(\E handover \in BOOLEAN, fails \in SubmitFails : ReadEp0(handover, fails))
    /\ WF_vars(\E fails \in SubmitFails : Reap(fails))

FairSpec == Spec /\ Fairness

-----------------------------------------------------------------------------
(* Properties.                                                             *)

\* Every variable has the type its declaration gives it.
TypeOK ==
    /\ starts \in 0..MaxStarts /\ padUps \in 0..MaxStarts
    /\ started \in BOOLEAN /\ bound \in BOOLEAN /\ looping \in BOOLEAN
    /\ enabled \in BOOLEAN /\ inBusy \in BOOLEAN /\ outBusy \in BOOLEAN
    /\ pending \in Requests \cup {NoRequest}
    /\ timer \in {"off", "running", "expired", "cancelled"}
    /\ answers \in [Ids -> Nat] /\ served \in [Ids -> Nat]
    /\ handovers \in 0..MaxRequests
    /\ udc \in BOOLEAN /\ epUp \in BOOLEAN
    /\ stateEvent \in {"none", "ENABLE", "DISABLE"}
    /\ setupEvent \in Requests \cup {NoRequest} /\ inHand \in Requests \cup {NoRequest}
    /\ setupState \in {"none", "pending", "cancelled"}
    /\ kIn \in {"none", "queued"} \cup Done /\ kOut \in {"none", "queued"} \cup Done
    /\ hostNo \in 0..MaxRequests /\ resets \in 0..MaxResets
    /\ padQueue \in Seq([id : Ids, no : Nat]) /\ asks \in Nat
    /\ wrong \in BOOLEAN /\ stalled \in BOOLEAN /\ detached \in BOOLEAN
    /\ rushed \in BOOLEAN

\* "Buffers belong to the kernel from submission until the completion is
\* reaped": each flag says exactly whether the kernel has the buffer, so it is
\* never written under a transfer and never left unused for good.
BuffersAccountedFor == inBusy = (kIn # "none") /\ outBusy = (kOut # "none")

\* "While it is set ep0 belongs to it": no event read of ours ever hits a
\* GET_REPORT that is waiting for the pad, and so stalls it.  (A detach forgets
\* the request and counts on the unbind to cancel it, so a failed unbind is the
\* one exception.)
Ep0LeftAlone == ~stalled

\* finish_get_report() writes to ep0 blindly, and FunctionFS gives what is written
\* to whatever request it has in hand: so what the host is given is the answer to
\* the very request pending_get_ was stored for, and to that report, also when
\* the host went on to another request, was reset or configured again, the relay
\* detached, or something else was asked of the pad while it waited.
AnswersTheRequest == ~wrong

\* For no report does the host ever get an older answer after a newer one, be
\* it from the pad, from the cache or after a timeout.
AnswersOnlyNewer == [][\A id \in Ids : served'[id] >= served[id]]_vars

\* Every GET_REPORT is dealt with: it does not hold ep0 for ever.
GetReportsEnd ==
    \A n \in 1..MaxRequests : (pending.no = n) ~> (pending.no # n)

\* "One read is kept queued on the OUT endpoint whenever the host has it
\* enabled": if the host leaves the device configured and the relay has not
\* detached, then from some point on a read is always queued.  (Not so if the
\* host was back before the failed read had been reaped, or if io_submit()
\* itself refused one: nothing tries again before the next enable.)
OutKeepsReading == <>[](epUp /\ ~detached /\ ~rushed) => <>[]outBusy

\* The comment without that exception.
OutAlwaysReads == <>[](epUp /\ ~detached) => <>[]outBusy

\* Comment in start_usb_gadget(): on a reconnect the gadget is already there.
StartedMeansBound == (started /\ ~detached) => bound

=============================================================================
