-------------------------------- MODULE Links --------------------------------
(***************************************************************************)
(* How the two adapters get their links, lose them and get them back: the  *)
(* connection events of HciEvents.cpp, send_connection_request() of        *)
(* HciCommands.cpp and the handover of Handover.cpp, for the pad-facing    *)
(* and the console-facing handler together, because they share one secret: *)
(* the console-facing adapter claims the pad's address, so it has to be    *)
(* deaf while the pad-facing one pages for the pad.                        *)
(*                                                                         *)
(* Delays are not modelled: a timer that is running may fire at any time.  *)
(* Scan, page-scan window and page timeout are what the program asked for  *)
(* last; the command queue delivers them in order (HciCommandQueue).       *)
(***************************************************************************)
EXTENDS FiniteSets

CONSTANTS
    PadHandles,      \* connection handles the pad-facing adapter can give
    ConsoleHandles,  \* and the console-facing one
    NoLink,          \* connection_handle_ = 0
    Refusals,        \* how a Create Connection may be refused at status time:
                     \* subset of {"exists", "other"}
    PadFailures,     \* how a page to the pad may fail: subset of
                     \* {"timeout", "own radio", "other"}
    Strangers        \* the sides that devices other than their peer call

Sides == {"pad", "console"}

ASSUME StrangersAssumption == Strangers \subseteq Sides
ASSUME HandlesAssumption == NoLink \notin PadHandles \cup ConsoleHandles
ASSUME RefusalsAssumption == Refusals \subseteq {"exists", "other"}
ASSUME PadFailuresAssumption == PadFailures \subseteq {"timeout", "own radio", "other"}

Handles(s) == IF s = "pad" THEN PadHandles ELSE ConsoleHandles

VARIABLES
    setup,       \* handle() is past the reset and the setup commands
    addr,        \* bt_addr_ is set
    expected,    \* the address handle_conn_request() compares with is set
    handle,      \* connection_handle_
    opens,       \* open_handles_
    accepted,    \* accepted_incoming_
    reconnect,   \* reconnect_pending_
    stale,       \* stale_link_reset_
    window,      \* page-scan window asked for: "eager" or "normal"
    \* of the console-facing handler
    suppressed,  \* scan_suppressed_
    scan,        \* page scan asked for
    onPlay,      \* on_play_link_
    outputSeen,  \* console_output_seen_
    handover,    \* handover_paging_since_ is set
    \* the controllers (external)
    paging,      \* a Create Connection is being carried out
    refused,     \* a Command Status refusing one is on its way
    answering,   \* a call we accepted has not ended yet
    rejecting,   \* a call we rejected has not ended yet
    \* history
    crossed      \* two attempts to connect have been under way at once, and
                 \* one of them still is

peerVars == <<setup, addr, expected, stale>>
linkVars == <<handle, opens, accepted, onPlay, outputSeen, handover>>
scanVars == <<suppressed, scan>>
ctrlVars == <<paging, refused, answering, rejecting>>
vars == <<peerVars, linkVars, reconnect, window, scanVars, ctrlVars, crossed>>

Linked(s) == handle[s] # NoLink

\* schedule_reconnect(): one timer at a time.
Schedule(s) == reconnect' = [reconnect EXCEPT ![s] = TRUE]

\* History: a new attempt while another is under way, and the end of one.
Crossing(s, another) == crossed' = [crossed EXCEPT ![s] = @ \/ another]
Settled(s) ==
    crossed' = [crossed EXCEPT ![s] = @ /\ (paging'[s] \/ answering'[s] \/ rejecting'[s])]

-----------------------------------------------------------------------------
(* Paging.                                                                 *)

\* Bug: nobody notes that the other radio has to be woken up again.
DeafenUnflagged(s) ==
    IF s = "pad" THEN scan' = FALSE /\ UNCHANGED suppressed
                 ELSE UNCHANGED scanVars

\* send_connection_request() silences the console-facing adapter for the
\* length of a page to the pad.
Deafen(s) ==
    IF s = "pad" THEN scan' = FALSE /\ suppressed' = TRUE
                 ELSE UNCHANGED scanVars

\* The Create Connection: carried out, or refused - always, if one is already
\* out.
CreateConnection(s) ==
    \/ /\ ~paging[s]
       /\ paging' = [paging EXCEPT ![s] = TRUE]
       /\ Crossing(s, answering[s] \/ rejecting[s])
       /\ UNCHANGED refused
    \/ /\ \E r \in IF paging[s] THEN {"other"} ELSE Refusals :
             refused' = [refused EXCEPT ![s] = r]
       /\ UNCHANGED <<paging, crossed>>

\* handle(), from the end of the reset to its read loop.
SetUp(s) ==
    /\ ~setup[s]
    /\ setup' = [setup EXCEPT ![s] = TRUE]
    /\ window' = [window EXCEPT ![s] = "eager"]
    /\ IF s = "pad"
         THEN Deafen(s) /\ CreateConnection(s)
         ELSE /\ scan' = (scan \/ ~suppressed)
              /\ UNCHANGED <<suppressed, paging, refused, crossed>>
    /\ UNCHANGED <<addr, expected, stale, linkVars, reconnect, answering, rejecting>>

\* What a reconnect timer looks at when it fires: still no link, and somebody
\* to page.
WorthPaging(s) == ~Linked(s) /\ addr[s]

\* A reconnect timer fires.
ReconnectFires(s) ==
    /\ reconnect[s]
    /\ reconnect' = [reconnect EXCEPT ![s] = FALSE]
    /\ IF WorthPaging(s)
         THEN Deafen(s) /\ CreateConnection(s)
         ELSE UNCHANGED <<scanVars, paging, refused, crossed>>
    /\ UNCHANGED <<peerVars, linkVars, window, answering, rejecting>>

\* handle_cmd_status() with a refused Create Connection: a link left by an
\* earlier run is swept away, once; anything else is only logged.
CmdStatus(s) ==
    /\ refused[s] # "none"
    /\ refused' = [refused EXCEPT ![s] = "none"]
    /\ IF refused[s] = "exists" /\ ~Linked(s) /\ ~stale[s]
         THEN stale' = [stale EXCEPT ![s] = TRUE] /\ Schedule(s)
         ELSE UNCHANGED <<stale, reconnect>>
    /\ UNCHANGED <<setup, addr, expected, linkVars, window, scanVars, paging, answering,
                   rejecting, crossed>>

\* connect_to_console(), when the pair command came over USB and the gadget is
\* detached.
ConnectToConsole ==
    /\ setup["console"]
    /\ ~Linked("console")
    /\ addr' = [addr EXCEPT !["console"] = TRUE]
    /\ expected' = [expected EXCEPT !["console"] = TRUE]
    /\ scan' = TRUE
    /\ handover' = TRUE
    /\ CreateConnection("console")
    /\ UNCHANGED <<setup, stale, handle, opens, accepted, onPlay, outputSeen, reconnect,
                   window, suppressed, answering, rejecting>>

-----------------------------------------------------------------------------
(* Being called.                                                           *)

\* handle_conn_request() from the side's peer (either radio of the console).
PeerCalls(s) ==
    /\ setup[s] /\ expected[s] /\ ~answering[s]
    /\ accepted' = [accepted EXCEPT ![s] = TRUE]
    /\ answering' = [answering EXCEPT ![s] = TRUE]
    /\ Crossing(s, paging[s] \/ rejecting[s])
    /\ UNCHANGED <<peerVars, handle, opens, onPlay, outputSeen, handover, reconnect, window,
                   scanVars, paging, refused, rejecting>>

\* handle_conn_request() from anybody else: rejected.
StrangerCalls(s) ==
    /\ s \in Strangers /\ setup[s] /\ ~rejecting[s]
    /\ rejecting' = [rejecting EXCEPT ![s] = TRUE]
    /\ Crossing(s, paging[s] \/ answering[s])
    /\ UNCHANGED <<peerVars, linkVars, reconnect, window, scanVars, paging, refused,
                   answering>>

-----------------------------------------------------------------------------
(* Connection Complete.                                                    *)

\* Bug: the other radio stays deaf.
ListenAgainNot(s, failedIncoming) == UNCHANGED scanVars

\* "Our page is over, one way or the other": the console-facing adapter listens
\* again.
ListenAgain(s, failedIncoming) ==
    IF s = "pad" /\ ~failedIncoming /\ suppressed
      THEN suppressed' = FALSE /\ scan' = TRUE
      ELSE UNCHANGED scanVars

\* Bug: a call that failed leaves its mark on the next link.
ForgetCallNot(s) == accepted

ForgetCall(s) == [accepted EXCEPT ![s] = FALSE]

\* Success.  dialled: it is our page that was answered.
ConnectionUp(s, h, dialled) ==
    /\ h \notin opens[s]
    /\ IF dialled
         THEN paging[s] /\ paging' = [paging EXCEPT ![s] = FALSE] /\ UNCHANGED answering
         ELSE answering[s] /\ answering' = [answering EXCEPT ![s] = FALSE] /\ UNCHANGED paging
    /\ ListenAgain(s, FALSE)
    /\ IF s = "console" /\ Linked(s)
         THEN onPlay' = TRUE /\ outputSeen' = FALSE
         ELSE UNCHANGED <<onPlay, outputSeen>>
    /\ handle' = [handle EXCEPT ![s] = h]
    /\ opens' = [opens EXCEPT ![s] = @ \cup {h}]
    /\ handover' = (handover /\ s # "console")
    /\ window' = IF s = "pad" THEN [window EXCEPT ![s] = "normal"] ELSE window
    /\ accepted' = [accepted EXCEPT ![s] = FALSE]
    /\ UNCHANGED <<peerVars, reconnect, refused, rejecting>>
    /\ Settled(s)


\* handle_connection_failure() for a connection to or from bt_addr_: the console
\* side tries again whatever it was, the pad side after its two known reasons.
Retries(s, why) == addr[s] /\ (s = "console" \/ why \in {"timeout", "own radio"})

\* Failure of our page (why), of a call we accepted ("call", from bt_addr_ or,
\* other, from the console's second radio) or of one we rejected ("rejected").
\* The console side treats every failure of a page alike.  over: a handover is
\* under way and its window has passed.
ConnectionFails(s, why, other, over) ==
    /\ CASE why = "call" ->
              /\ answering[s]
              /\ answering' = [answering EXCEPT ![s] = FALSE]
              /\ UNCHANGED <<paging, rejecting>>
         [] why = "rejected" ->
              /\ rejecting[s]
              /\ rejecting' = [rejecting EXCEPT ![s] = FALSE]
              /\ UNCHANGED <<paging, answering>>
         [] why \notin {"call", "rejected"} ->
              /\ paging[s] /\ ~other
              /\ why \in IF s = "pad" THEN PadFailures ELSE {"other"}
              /\ paging' = [paging EXCEPT ![s] = FALSE]
              /\ UNCHANGED <<answering, rejecting>>
    /\ other => s = "console" /\ why = "call"
    /\ over => s = "console" /\ handover
    /\ accepted' = IF accepted[s] THEN ForgetCall(s) ELSE accepted
    /\ ListenAgain(s, accepted[s])
    /\ IF why # "rejected" /\ ~other /\ Retries(s, why)
         THEN /\ Schedule(s)
              /\ handover' = (handover /\ ~over)
         ELSE UNCHANGED <<reconnect, handover>>
    /\ Settled(s)
    /\ UNCHANGED <<peerVars, handle, opens, onPlay, outputSeen, window, refused>>

-----------------------------------------------------------------------------
(* Losing links, and playing.                                              *)

\* Bug: the page scan stays eased off.
EagerAgainNot(s) == window

EagerAgain(s) == [window EXCEPT ![s] = "eager"]

Unlink(s) == [handle EXCEPT ![s] = NoLink]

\* handle_disconnect_complete().
LinkDown(s, h) ==
    /\ h \in opens[s]
    /\ opens' = [opens EXCEPT ![s] = @ \ {h}]
    /\ IF h = handle[s]
         THEN /\ handle' = Unlink(s)
              /\ window' = EagerAgain(s)
              /\ IF s = "console"
                   THEN scan' = TRUE /\ onPlay' = FALSE /\ outputSeen' = FALSE
                   ELSE UNCHANGED <<scan, onPlay, outputSeen>>
              /\ Schedule(s)
         ELSE UNCHANGED <<handle, window, scan, onPlay, outputSeen, reconnect>>
    /\ UNCHANGED <<peerVars, accepted, handover, suppressed, ctrlVars, crossed>>

\* relay_console_output_to_pad(), the first report since the channels were
\* reset, from any open link: quiet_the_radio().
FirstOutput ==
    /\ opens["console"] # {}
    /\ ~outputSeen
    /\ outputSeen' = TRUE
    /\ window' = IF onPlay THEN [window EXCEPT !["console"] = "normal"] ELSE window
    /\ UNCHANGED <<peerVars, handle, opens, accepted, onPlay, handover, reconnect, scanVars,
                   ctrlVars, crossed>>

-----------------------------------------------------------------------------
\* The console's address may be known from an earlier run; it is only paged
\* once the console has asked for us.
Init ==
    /\ setup = [s \in Sides |-> FALSE]
    /\ addr = [s \in Sides |-> s = "pad"]
    /\ expected \in {e \in [Sides -> BOOLEAN] : e["pad"]}
    /\ handle = [s \in Sides |-> NoLink]
    /\ opens = [s \in Sides |-> {}]
    /\ accepted = [s \in Sides |-> FALSE]
    /\ reconnect = [s \in Sides |-> FALSE]
    /\ stale = [s \in Sides |-> FALSE]
    /\ window = [s \in Sides |-> "eager"]
    /\ suppressed = FALSE /\ scan = FALSE /\ onPlay = FALSE /\ outputSeen = FALSE
    /\ handover = FALSE
    /\ paging = [s \in Sides |-> FALSE]
    /\ refused = [s \in Sides |-> "none"]
    /\ answering = [s \in Sides |-> FALSE]
    /\ rejecting = [s \in Sides |-> FALSE]
    /\ crossed = [s \in Sides |-> FALSE]

Failures == {"timeout", "own radio", "other", "call", "rejected"}

PageEnds(s) ==
    \/ \E h \in Handles(s) : ConnectionUp(s, h, TRUE)
    \/ \E why \in Failures \ {"call", "rejected"}, over \in BOOLEAN :
          ConnectionFails(s, why, FALSE, over)

CallEnds(s) ==
    \/ \E h \in Handles(s) : ConnectionUp(s, h, FALSE)
    \/ \E why \in {"call", "rejected"}, other, over \in BOOLEAN : ConnectionFails(s, why, other, over)

Next ==
    \/ \E s \in Sides :
          \/ SetUp(s) \/ ReconnectFires(s) \/ CmdStatus(s)
          \/ PeerCalls(s) \/ StrangerCalls(s)
          \/ PageEnds(s) \/ CallEnds(s)
          \/ \E h \in Handles(s) : LinkDown(s, h)
    \/ ConnectToConsole
    \/ FirstOutput

Spec == Init /\ [][Next]_vars

\* Both handlers get through their setup, timers fire, and a controller reports
\* the end of every page and the refusal of every command.  Whether anybody
\* answers or calls is left open.
Fairness ==
    \A s \in Sides :
        /\ WF_vars(SetUp(s)) /\ WF_vars(ReconnectFires(s)) /\ WF_vars(CmdStatus(s))
        /\ WF_vars(PageEnds(s))

FairSpec == Spec /\ Fairness

-----------------------------------------------------------------------------
(* Properties.                                                             *)

\* Every variable has the type its declaration gives it, and the current link
\* is one of the open ones.
TypeOK ==
    /\ setup \in [Sides -> BOOLEAN] /\ addr \in [Sides -> BOOLEAN]
    /\ expected \in [Sides -> BOOLEAN] /\ accepted \in [Sides -> BOOLEAN]
    /\ reconnect \in [Sides -> BOOLEAN] /\ stale \in [Sides -> BOOLEAN]
    /\ handle \in [Sides -> PadHandles \cup ConsoleHandles \cup {NoLink}]
    /\ opens \in [Sides -> SUBSET (PadHandles \cup ConsoleHandles)]
    /\ \A s \in Sides : opens[s] \subseteq Handles(s) /\ handle[s] \in opens[s] \cup {NoLink}
    /\ window \in [Sides -> {"eager", "normal"}]
    /\ suppressed \in BOOLEAN /\ scan \in BOOLEAN /\ onPlay \in BOOLEAN
    /\ outputSeen \in BOOLEAN /\ handover \in BOOLEAN
    /\ paging \in [Sides -> BOOLEAN] /\ answering \in [Sides -> BOOLEAN]
    /\ rejecting \in [Sides -> BOOLEAN]
    /\ refused \in [Sides -> {"none", "exists", "other"}]
    /\ crossed \in [Sides -> BOOLEAN]

\* The console-facing adapter is never deaf without the flag that will make it
\* listen again, whichever handler spoke to it last.
DeafOnlyUnderFlag == (setup["console"] /\ ~scan) => suppressed

\* An adapter without a link listens with the eager window: neither the pad's
\* call nor the console's call-back meets a radio eased off for a link that is
\* gone.
EagerWhenUnlinked == \A s \in Sides : ~Linked(s) => window[s] = "eager"

\* A call from the peer has just become a link.
CallAnswered(s) == handle'[s] \notin {handle[s], NoLink} /\ answering[s] /\ ~answering'[s]

\* Exactly one end authenticates a link, the one that dialled it, however many
\* calls failed before - as long as no two attempts were under way at once.
OneEndAuthenticates ==
    [][\A s \in Sides : (handle'[s] \notin {handle[s], NoLink} /\ ~crossed[s])
                            => (accepted[s] <=> CallAnswered(s))]_vars

\* Comment in handle_connection_complete(): on a link the peer opened, the peer
\* drives authentication.
NeverAuthenticateIncoming == [][\A s \in Sides : CallAnswered(s) => accepted[s]]_vars

\* Comment in send_connection_request(): the console-facing adapter "is silenced
\* only for the length of this page" - and for all of it.
DeafDuringPage == paging["pad"] => ~scan

\* "It is put back ... on success and on failure alike": the console-facing
\* adapter does not stay suppressed.
SuppressionEnds == suppressed ~> ~suppressed


=============================================================================
