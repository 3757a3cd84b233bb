------------------------------- MODULE Queries --------------------------------
(***************************************************************************)
(* The questions only the pad can answer.  The console asks the relay for  *)
(* the controller's service record (Sdp.cpp) and reads and writes feature  *)
(* reports on its control channel (HidRelay.cpp); the relay passes both on *)
(* to the pad and the answers back.  It also asks the pad on its own       *)
(* account, to have the answers at hand, and for the USB gadget.           *)
(*                                                                         *)
(* A question is a record [id, kind]; the relay's own have id Own.         *)
(* Answers carry the id (the SDP transaction id; for feature reports it is *)
(* the model's) and say what they answer.                                  *)
(***************************************************************************)
EXTENDS Integers, Sequences, FiniteSets

CONSTANTS
    Lanes,            \* the channels questions travel on: "sdp", "control" or both
    SdpAsks,          \* what the console asks of SDP
    FeatureAsks,      \* the feature reports it asks for
    MaxAsks,          \* bound: questions of the console
    MaxUsbAsks,       \* bound: feature reports the gadget asks for
    MaxPadLinks,      \* bound: links of the pad
    MaxConsoleLinks   \* bound: links of the console

\* ServiceSearchAttribute without and with a continuation state, ServiceSearch,
\* ServiceAttribute, and a request SDP does not know.
SdpKinds == {"record", "more", "search", "attribute", "other"}
FeatureKinds == {"calibration", "pairing", "firmware", "live"}
AllLanes == {"sdp", "control"}

ASSUME LanesAssumption == Lanes \subseteq AllLanes
ASSUME AsksAssumption == SdpAsks \subseteq SdpKinds /\ FeatureAsks \subseteq FeatureKinds
ASSUME BoundsAssumption ==
    MaxAsks \in Nat /\ MaxUsbAsks \in Nat /\ MaxPadLinks \in Nat /\ MaxConsoleLinks \in Nat

VARIABLES
    toPad,       \* open channels of the pad handler: sdp_client, hid_control
    toConsole,   \* open channels of the console handler: hid_sdp, hid_control
    cache,       \* sdp_answer_cache_: what it answers, or "none"
    full,        \* console_full_reports_
    primed,      \* lanes on which this pad link has been asked the relay's own
    links,       \* links so far, of the pad and of the console
    asks,        \* questions of the console so far
    usbAsks,     \* questions of the gadget so far
    \* the peers (external)
    dead,        \* channels in toPad that the pad has closed
    atPad,       \* questions the pad has not answered, per lane
    awaited,     \* questions the console waits for on this link, per lane
    given,       \* answers the console was given on this link, per lane
    \* history
    heard,       \* the pad has answered a question for its record
    lost         \* questions that went to a pad that left, into a channel it
                 \* had closed, or to none

hostVars == <<toPad, toConsole, cache, full, primed, links, asks, usbAsks>>
peerVars == <<dead, atPad, awaited, given>>
histVars == <<heard, lost>>
vars == <<hostVars, peerVars, histVars>>

Own == 0
Ids == 1..MaxAsks
Nothing == "none"

Question(id, kind) == [id |-> id, kind |-> kind]
Answer(id, kind) == [id |-> id, kind |-> kind]

\* The channels on which the pad hears what is sent to it.
Heeded == toPad \ dead

\* l2cap_send_framed() to the pad: nothing is sent on a channel that is not open,
\* and what is sent on one that the pad has closed is not heard.
Forwarded(lane, q) ==
    IF lane \in Heeded THEN [atPad EXCEPT ![lane] = Append(@, q)] ELSE atPad

\* A question nobody hears.
Unheard(lane, id) == IF lane \in Heeded THEN lost ELSE lost \cup {id}

\* The questions that wait on the channels ls.
WaitingOn(ls) == {q.id : q \in UNION {{atPad[l][i] : i \in DOMAIN atPad[l]} : l \in ls}}

\* The console takes an answer: whatever it waits for under that id is answered.
Give(lane, a) ==
    /\ given' = [given EXCEPT ![lane] = Append(@, a)]
    /\ awaited' = [awaited EXCEPT ![lane] = {q \in @ : q.id # a.id}]

-----------------------------------------------------------------------------
(* The links, as far as the questions are concerned.                       *)

\* A channel to the pad is there: the pad's CID has been stored.  It may open its
\* control channel again; the SDP channel is ours to open, once per link.
PadOpens(lane) ==
    /\ lane \notin (IF lane = "control" THEN Heeded ELSE toPad)
    /\ toPad = {} => links.pad < MaxPadLinks
    /\ links' = IF toPad = {} THEN [links EXCEPT !.pad = @ + 1] ELSE links
    /\ toPad' = toPad \cup {lane} /\ dead' = dead \ {lane}
    /\ UNCHANGED <<toConsole, cache, full, primed, asks, usbAsks, atPad, awaited, given, histVars>>

\* handle_l2cap_cmd() with the pad's disconnection request is answered and nothing
\* else: the CID stays.  What the pad had been asked on the channel goes with it.
PadCloses(lane) ==
    /\ lane \in Heeded
    /\ dead' = dead \cup {lane}
    /\ lost' = lost \cup WaitingOn({lane})
    /\ atPad' = [atPad EXCEPT ![lane] = <<>>]
    /\ UNCHANGED <<hostVars, awaited, given, heard>>

\* handle_conf_response() for the SDP channel of the pad: ask for the record.
PrimeSdp ==
    /\ "sdp" \in toPad \ primed
    /\ primed' = primed \cup {"sdp"}
    /\ atPad' = Forwarded("sdp", Question(Own, "record"))
    /\ UNCHANGED <<toPad, toConsole, cache, full, links, asks, usbAsks, dead, awaited, given, histVars>>

\* start_usb_gadget(), spawned once the pad's interrupt channel is configured.
PrimeFeatures ==
    /\ "control" \in toPad \ primed
    /\ primed' = primed \cup {"control"}
    /\ atPad' = IF "control" \in Heeded
                  THEN [atPad EXCEPT !["control"] =
                          @ \o <<Question(Own, "calibration"), Question(Own, "pairing"),
                                 Question(Own, "firmware")>>]
                  ELSE atPad
    /\ UNCHANGED <<toPad, toConsole, cache, full, links, asks, usbAsks, dead, awaited, given,
                   histVars>>

\* reset_channels() of the pad handler.  What the pad had been asked goes with
\* the link.
PadLeaves ==
    /\ toPad # {}
    /\ toPad' = {} /\ primed' = {} /\ dead' = {}
    /\ lost' = lost \cup WaitingOn(AllLanes)
    /\ atPad' = [l \in AllLanes |-> <<>>]
    /\ UNCHANGED <<toConsole, cache, full, links, asks, usbAsks, awaited, given, heard>>

\* A channel of the console is there.
ConsoleOpens(lane) ==
    /\ lane \notin toConsole
    /\ toConsole = {} => links.console < MaxConsoleLinks
    /\ links' = IF toConsole = {} THEN [links EXCEPT !.console = @ + 1] ELSE links
    /\ toConsole' = toConsole \cup {lane}
    /\ UNCHANGED <<toPad, cache, full, primed, asks, usbAsks, peerVars, histVars>>

\* Bug: the cached record goes with the console's link.
CacheKeptNot == Nothing

\* reset_channels() leaves sdp_answer_cache_ alone.
CacheKept == cache

\* reset_channels() of the console handler.
ConsoleLeaves ==
    /\ toConsole # {}
    /\ toConsole' = {}
    /\ full' = FALSE
    /\ cache' = CacheKept
    /\ awaited' = [l \in AllLanes |-> {}] /\ given' = [l \in AllLanes |-> <<>>]
    /\ UNCHANGED <<toPad, primed, links, asks, usbAsks, dead, atPad, histVars>>

-----------------------------------------------------------------------------
(* The questions.                                                          *)

\* handle_sdp_request(): what the relay says when it has nothing to say.
Empty(kind) == IF kind = "other" THEN "error" ELSE "empty"

\* Bug: the cache first, the pad if there is nothing in it.
SdpQueryRouteCacheFirst(kind) ==
    CASE kind \in {"record", "more"} /\ cache # Nothing -> "cache"
      [] ~(kind \in {"record", "more"} /\ cache # Nothing) /\ "sdp" \in toPad -> "pad"
      [] OTHER -> "empty"

\* handle_sdp_query(): the pad if its channel is open, the cache for a
\* ServiceSearchAttribute, the empty answer.
SdpQueryRoute(kind) ==
    CASE "sdp" \in toPad -> "pad"
      [] "sdp" \notin toPad /\ kind \in {"record", "more"} /\ cache # Nothing -> "cache"
      [] OTHER -> "empty"

\* The console continues only what it has had the beginning of (external).
MayAsk(kind) == kind = "more" => \E i \in DOMAIN given["sdp"] : given["sdp"][i].kind = "record"

\* handle_sdp_query() of the console handler.
SdpQuery(kind) ==
    /\ "sdp" \in toConsole /\ asks < MaxAsks /\ MayAsk(kind)
    /\ asks' = asks + 1
    /\ LET id == asks + 1
       IN  CASE SdpQueryRoute(kind) = "pad" ->
                  /\ atPad' = Forwarded("sdp", Question(id, kind))
                  /\ awaited' = [awaited EXCEPT !["sdp"] = @ \cup {Question(id, kind)}]
                  /\ lost' = Unheard("sdp", id)
                  /\ UNCHANGED given
             [] SdpQueryRoute(kind) = "cache" ->
                  Give("sdp", Answer(id, cache)) /\ UNCHANGED <<atPad, lost>>
             [] SdpQueryRoute(kind) = "empty" ->
                  Give("sdp", Answer(id, Empty(kind))) /\ UNCHANGED <<atPad, lost>>
    /\ UNCHANGED <<toPad, toConsole, cache, full, primed, links, usbAsks, dead, heard>>

\* handle_feature_request_from_console(): passed on, if there is a channel to
\* pass it on to; two of them switch the console to full reports.
FeatureRequest(kind) ==
    /\ "control" \in toConsole /\ asks < MaxAsks
    /\ asks' = asks + 1
    /\ full' = (full \/ kind \in {"calibration", "firmware"})
    /\ LET q == Question(asks + 1, kind)
       IN  /\ atPad' = Forwarded("control", q)
           /\ awaited' = [awaited EXCEPT !["control"] = @ \cup {q}]
           /\ lost' = Unheard("control", q.id)
    /\ UNCHANGED <<toPad, toConsole, cache, primed, links, usbAsks, dead, given, heard>>

\* l2cap_get_report() for the gadget.
UsbAsks ==
    /\ usbAsks < MaxUsbAsks
    /\ usbAsks' = usbAsks + 1
    /\ atPad' = Forwarded("control", Question(Own, "live"))
    /\ UNCHANGED <<toPad, toConsole, cache, full, primed, links, asks, dead, awaited, given, histVars>>

-----------------------------------------------------------------------------
(* The answers.                                                            *)

\* handle_sdp_answer_from_pad() caches first.
Cached(a) == a.kind

\* Bug: only what finds the cache empty is passed on.
PassesOnFirst(lane) == lane \in toConsole /\ (lane = "sdp" => cache = Nothing)

\* "forward if there is anyone to forward to".
PassesOn(lane) == lane \in toConsole

\* handle_sdp_answer_from_pad().
SdpAnswer ==
    /\ atPad["sdp"] # <<>>
    /\ atPad' = [atPad EXCEPT !["sdp"] = Tail(@)]
    /\ LET a == Head(atPad["sdp"])
       IN  /\ cache' = Cached(a)
           /\ heard' = (heard \/ a.kind = "record")
           /\ IF PassesOn("sdp") THEN Give("sdp", a) ELSE UNCHANGED <<awaited, given>>
    /\ UNCHANGED <<toPad, toConsole, full, primed, links, asks, usbAsks, dead, lost>>

\* handle_feature_answer_from_pad(): data or a handshake, it goes to the console.
\* What the gadget makes of it is UsbGadget's.
FeatureAnswer ==
    /\ atPad["control"] # <<>>
    /\ atPad' = [atPad EXCEPT !["control"] = Tail(@)]
    /\ IF PassesOn("control") THEN Give("control", Head(atPad["control"]))
                              ELSE UNCHANGED <<awaited, given>>
    /\ UNCHANGED <<hostVars, dead, histVars>>

-----------------------------------------------------------------------------
Init ==
    /\ toPad = {} /\ toConsole = {} /\ cache = Nothing /\ full = FALSE /\ primed = {}
    /\ links = [pad |-> 0, console |-> 0] /\ asks = 0 /\ usbAsks = 0
    /\ dead = {} /\ atPad = [l \in AllLanes |-> <<>>]
    /\ awaited = [l \in AllLanes |-> {}] /\ given = [l \in AllLanes |-> <<>>]
    /\ heard = FALSE /\ lost = {}

Next ==
    \/ \E lane \in Lanes : PadOpens(lane) \/ PadCloses(lane) \/ ConsoleOpens(lane)
    \/ PrimeSdp \/ PrimeFeatures \/ PadLeaves \/ ConsoleLeaves
    \/ \E kind \in SdpAsks : SdpQuery(kind)
    \/ \E kind \in FeatureAsks : FeatureRequest(kind)
    \/ UsbAsks \/ SdpAnswer \/ FeatureAnswer

Spec == Init /\ [][Next]_vars

\* A pad that keeps its link answers what it is asked.
FairSpec == Spec /\ WF_vars(SdpAnswer) /\ WF_vars(FeatureAnswer)

-----------------------------------------------------------------------------
(* Properties.                                                             *)

\* An answer is given to the console on lane l, and which.
NewAnswer(l) == Len(given'[l]) > Len(given[l])
TheAnswer(l) == given'[l][Len(given'[l])]
WasAwaited(l, a) == \E q \in awaited[l] : q.id = a.id

\* "answering it empty gets us rejected outright": once the pad has answered for
\* its record, and however often either side has come and gone since, the console
\* is told that there is nothing only when it searched, or asked for a record's
\* attributes by its handle: handle_sdp_query() has the cache for a
\* ServiceSearchAttribute alone, so with the pad away those two are answered empty
\* although the record is at hand.
NeverEmptyOnceHeard ==
    [][\A kind \in SdpKinds :
          heard /\ SdpQuery(kind) /\ NewAnswer("sdp") /\ TheAnswer("sdp").kind = "empty"
             => kind \in {"search", "attribute"}]_vars

\* The console's questions of one link are answered in the order it asked them,
\* none of them twice, whether the pad, the cache or nobody answers.
AnswersInOrder ==
    \A l \in Lanes : \A i, j \in 1..Len(given[l]) :
        i < j /\ given[l][j].id # Own => given[l][i].id < given[l][j].id

\* A question of the console's is answered in the end, by the pad, from the cache
\* or by the relay itself, or the console has left - unless nobody heard it: the
\* pad was asked and left, or the relay sent it on a channel that the pad has
\* closed or never opened.  (handle_l2cap_cmd() keeps the CID of a closed channel,
\* so the relay does not turn to what it could answer itself.)
QuestionsAnswered ==
    \A id \in Ids, l \in Lanes :
        (\E q \in awaited[l] : q.id = id)
            ~> ((\A q \in awaited[l] : q.id # id) \/ id \in lost)

\* "so the answer is already in hand whenever the question comes": a console that
\* asks for the record when the relay has had it gets an answer, pad or no pad.
RecordInHandIsGiven ==
    \A id \in Ids :
        (cache # Nothing /\ Question(id, "record") \in awaited["sdp"])
            ~> (Question(id, "record") \notin awaited["sdp"])

\* "the record does not change. Only the transaction id has to be the one the
\* console used": a question for the record that the relay answers from what it
\* has kept is answered with the record.
RecordIsTheRecord ==
    [][SdpQuery("record") /\ NewAnswer("sdp") /\ cache # Nothing =>
          TheAnswer("sdp").kind = "record"]_vars

\* "A feature answer the console asked for goes straight back to it": the console
\* is given no answer to a question it has not asked on this link.
OnlyWhatWasAsked == [][NewAnswer("control") => WasAwaited("control", TheAnswer("control"))]_vars

=============================================================================
