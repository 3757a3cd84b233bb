------------------------------- MODULE Channels -------------------------------
(***************************************************************************)
(* The L2CAP channels of one handler: how they are asked for, opened and   *)
(* configured (the signalling half of L2cap.cpp), what starts that         *)
(* (handle_auth_complete and handle_encrypt_change of HciEvents.cpp) and   *)
(* what ends it.  Both handlers run this code; side says which one it is.  *)
(*                                                                         *)
(* A handler keeps one remote CID per channel and sends everything on      *)
(* connection_handle_, while signalling arrives on any link it holds.  A   *)
(* remote CID is known here by the link it was given on, which time that   *)
(* link's handle was in use, and who asked for the channel.                *)
(***************************************************************************)
EXTENDS Integers, Sequences

CONSTANTS
    Sides,       \* the peers the handler may face: "pad", "console"
    Handles,     \* connection handles its adapter can be given
    NoLink,      \* connection_handle_ = 0
    Closes,      \* channels the peer may close while it keeps the link
    Refuses,     \* channels the peer may refuse
    Asks,        \* sets of channels, one of which the peer asks for on a link
    MaxUps,      \* bound: links ever opened
    MaxInbox     \* bound: signalling on its way on any link when a peer speaks

ASSUME SidesAssumption == Sides \subseteq {"pad", "console"}
ASSUME HandlesAssumption == NoLink \notin Handles
ASSUME MaxUpsAssumption == MaxUps \in Nat
ASSUME MaxInboxAssumption == MaxInbox \in Nat

VARIABLES
    side,       \* conn_side_, for good
    handle,     \* connection_handle_
    opens,      \* open_handles_
    incoming,   \* incoming_link_
    dcid,       \* remote CID per channel, or Closed
    timers,     \* running step-in timers, per connection_handle_ they noted
    ups,        \* links opened so far
    \* the links and the peer (external)
    use,        \* how often each handle has been given
    called,     \* the pad opened this link (with the console nothing depends on it)
    security,   \* "auth", "plain", "on", or "left": nobody turns it on
    asked,      \* our connection requests the peer has not answered, per link
    inbox,      \* signalling on its way to us, per link
    channels,   \* channels the peer has open, per link: [c, by]
    theirs,     \* channels the peer has asked for, per link
    configured, \* channels the peer has sent its configuration for, per link
    owed,       \* our configuration requests it has not answered, per link
    \* history
    ready,      \* start_usb_gadget() was spawned on the current link
    recordAsked, \* the pad was asked for its service record on it
    denied,     \* the peer has refused or closed a channel on it
    mistaken,   \* incoming_link_ was wrong about that
    astray      \* channels whose remote CID was last given on a link that was
                \* not the current one

endVars == <<side, handle, opens, incoming, dcid, timers, ups>>
otherEndVars == <<use, called, security, asked, inbox, channels, theirs, configured, owed>>
answerVars == <<ready, recordAsked, denied>>
slipVars == <<mistaken, astray>>
channelsVars == <<endVars, otherEndVars, answerVars, slipVars>>

\* sdp_client_channel, hid_sdp_channel, hid_control_channel and
\* hid_interrupt_channel.
Names == {"records", "sdp", "control", "interrupt"}
ASSUME ClosesAssumption == Closes \subseteq Names /\ Refuses \subseteq Names
ASSUME SetupAsksAssumption == Asks \subseteq SUBSET {"sdp", "control", "interrupt"}

Closed == [h |-> NoLink, use |-> 0, by |-> "none"]
AllClosed == [c \in Names |-> Closed]
Cid(h, by) == [h |-> h, use |-> use[h], by |-> by]
IsOpen(c) == dcid[c] # Closed

\* l2cap_send_conn_request(), on the current link.
Ask(c) ==
    asked' = IF handle \in opens THEN [asked EXCEPT ![handle] = Append(@, c)] ELSE asked

\* l2cap_send_configure_mtu_request() for the channel with remote CID d, on the
\* current link: on any other link that CID is not what it was.
Configure(c, d) ==
    owed' = IF d.h = handle /\ handle \in opens
              THEN [owed EXCEPT ![handle] = @ \cup {[c |-> c, by |-> d.by]}]
              ELSE owed

-----------------------------------------------------------------------------
(* The link.                                                               *)

\* Bug: the channels outlive their link.
ResetChannelsNot == dcid

\* reset_channels().
ResetChannels == AllClosed

\* Who turns security on: we authenticate unless the flag says the peer opened the
\* link, the peer does if it opened it.
Securing(call, flag) ==
    IF ~flag THEN "auth" ELSE IF call THEN "plain" ELSE "left"

\* handle_connection_complete(): the new link is the current one.  call says who
\* opened it, flag is accepted_incoming_: they differ when a page of ours and a
\* call of the peer's have crossed (Links).  The console has two radios and may
\* hold a link with each; the pad has one.
LinkUp(h, call, flag) ==
    /\ h \notin opens /\ ups < MaxUps
    /\ opens = {} \/ side = "console"
    /\ ups' = ups + 1
    /\ opens' = opens \cup {h}
    /\ handle' = h
    /\ incoming' = flag
    /\ IF handle # NoLink THEN dcid' = ResetChannels /\ astray' = {} ELSE UNCHANGED <<dcid, astray>>
    /\ use' = [use EXCEPT ![h] = @ + 1]
    /\ called' = [called EXCEPT ![h] = side = "pad" /\ call]
    /\ mistaken' = [mistaken EXCEPT ![h] = side = "pad" /\ flag # call]
    /\ security' = [security EXCEPT ![h] = Securing(call, flag)]
    /\ ready' = FALSE /\ recordAsked' = FALSE /\ denied' = FALSE
    /\ UNCHANGED <<side, timers, asked, inbox, channels, theirs, configured, owed>>

\* connection_handle_ once link h is gone.
Left(h) == IF h = handle THEN NoLink ELSE handle

\* handle_disconnect_complete().
LinkDown(h) ==
    /\ h \in opens
    /\ opens' = opens \ {h}
    /\ handle' = Left(h)
    /\ IF h = handle
         THEN /\ incoming' = FALSE /\ dcid' = ResetChannels /\ astray' = {}
              /\ ready' = FALSE /\ recordAsked' = FALSE /\ denied' = FALSE
         ELSE UNCHANGED <<incoming, dcid, astray, answerVars>>
    /\ asked' = [asked EXCEPT ![h] = <<>>] /\ inbox' = [inbox EXCEPT ![h] = <<>>]
    /\ channels' = [channels EXCEPT ![h] = {}] /\ theirs' = [theirs EXCEPT ![h] = {}]
    /\ configured' = [configured EXCEPT ![h] = {}] /\ owed' = [owed EXCEPT ![h] = {}]
    /\ security' = [security EXCEPT ![h] = "left"] /\ called' = [called EXCEPT ![h] = FALSE]
    /\ mistaken' = [mistaken EXCEPT ![h] = FALSE]
    /\ UNCHANGED <<side, timers, ups, use>>

\* handle_auth_complete() on a link we dialled: the SDP channel to the pad, or a
\* request to encrypt - whatever link is current by now.
AuthComplete(h) ==
    /\ h \in opens /\ security[h] = "auth"
    /\ IF side = "pad"
         THEN security' = [security EXCEPT ![h] = "plain"] /\ Ask("records")
         ELSE /\ security' = [security EXCEPT ![h] = IF h = handle THEN "plain" ELSE "left"]
              /\ UNCHANGED asked
    /\ UNCHANGED <<endVars, use, called, inbox, channels, theirs, configured, owed, answerVars,
                   slipVars>>

\* Bug: handle_encrypt_change() leaves the SDP channel to Authentication Complete.
WantsRecordsNot == FALSE

\* handle_encrypt_change() opens the SDP channel unless it is there.
WantsRecords == side = "pad" /\ ~IsOpen("records")

\* handle_encrypt_change(): encryption is on.
EncryptChange(h) ==
    /\ h \in opens /\ security[h] = "plain"
    /\ security' = [security EXCEPT ![h] = "on"]
    /\ IF WantsRecords THEN Ask("records") ELSE UNCHANGED asked
    /\ UNCHANGED <<endVars, use, called, inbox, channels, theirs, configured, owed, answerVars,
                   slipVars>>

-----------------------------------------------------------------------------
(* Signalling, as it arrives on link h.                                    *)

\* The channel's remote CID is stored, whichever link it came on.
Store(h, c, by) ==
    /\ dcid' = [dcid EXCEPT ![c] = Cid(h, by)]
    /\ astray' = IF h = handle THEN astray \ {c} ELSE astray \cup {c}

\* handle_conn_response(): the channel is open, and we configure it.
ConnResponse(h, c) ==
    /\ Store(h, c, "us")
    /\ Configure(c, Cid(h, "us"))
    /\ UNCHANGED <<timers, asked, channels, answerVars>>

\* handle_l2cap_cmd() with a connection request: accepted, in an answer sent on
\* the current link, and configured.
ConnRequest(h, c) ==
    /\ Store(h, c, "peer")
    /\ channels' = IF h = handle THEN [channels EXCEPT ![h] = @ \cup {[c |-> c, by |-> "peer"]}]
                                 ELSE channels
    /\ Configure(c, Cid(h, "peer"))
    /\ UNCHANGED <<timers, asked, answerVars>>

\* Bug: the chain goes on whoever opened the link.
ChainsAlways == side = "pad"

\* On a link the peer opened, the peer opens the channels; the console always
\* does.
Chains == side = "pad" /\ ~incoming

\* The console opens the interrupt channel right after the control channel; it
\* is given ten seconds.
WaitsForInterrupt(c) ==
    side = "console" /\ ~incoming /\ c = "control" /\ ~IsOpen("interrupt")

\* handle_conf_request(): answered, and on a pad's link we dialled the next
\* channel of the chain; on a console's, a timer to step in with the interrupt
\* channel.
ConfRequest(h, c) ==
    /\ CASE Chains /\ c = "records" -> Ask("control")
         [] Chains /\ c = "control" -> Ask("interrupt")
         [] ~(Chains /\ c \in {"records", "control"}) -> UNCHANGED asked
    /\ timers' = IF WaitsForInterrupt(c) THEN [timers EXCEPT ![handle] = @ + 1] ELSE timers
    /\ UNCHANGED <<dcid, astray, channels, owed, answerVars>>

\* handle_conf_response(): on the pad's link the SDP channel is used at once, and
\* the interrupt channel brings the gadget up.
ConfResponse(h, c) ==
    /\ recordAsked' = (recordAsked \/ (side = "pad" /\ c = "records"))
    /\ ready' = (ready \/ (side = "pad" /\ c = "interrupt"))
    /\ UNCHANGED <<dcid, astray, timers, asked, channels, owed, denied>>

\* handle_l2cap_cmd() with a disconnection request is answered and nothing else.
DisconnRequest(h, c) == UNCHANGED <<dcid, astray, timers, asked, channels, owed, answerVars>>

\* handle_l2cap_cmd(), whichever link it arrived on.
Receive(h) ==
    /\ inbox[h] # <<>>
    /\ inbox' = [inbox EXCEPT ![h] = Tail(@)]
    /\ LET m == Head(inbox[h])
       IN  CASE m.code = "CONN_RSP" -> ConnResponse(h, m.c)
             [] m.code = "CONN_REQ" -> ConnRequest(h, m.c)
             [] m.code = "CONF_REQ" -> ConfRequest(h, m.c)
             [] m.code = "CONF_RSP" -> ConfResponse(h, m.c)
             [] m.code = "DISCONN_REQ" -> DisconnRequest(h, m.c)
    /\ UNCHANGED <<side, handle, opens, incoming, ups, use, called, security, theirs, configured,
                   mistaken>>

\* "Only step in if it has not", and on the link the timer was started for.
NotOpenedYet(h) == handle = h /\ ~IsOpen("interrupt")

\* Ten seconds after the console configured the control channel.
StepIn(h) ==
    /\ timers[h] > 0
    /\ timers' = [timers EXCEPT ![h] = @ - 1]
    /\ IF NotOpenedYet(h) THEN Ask("interrupt") ELSE UNCHANGED asked
    /\ UNCHANGED <<side, handle, opens, incoming, dcid, ups, use, called, security, inbox, channels,
                   theirs, configured, owed, answerVars, slipVars>>

-----------------------------------------------------------------------------
(* The peer.                                                               *)

Says(h, code, c) ==
    /\ \A g \in Handles : Len(inbox[g]) < MaxInbox
    /\ inbox' = [inbox EXCEPT ![h] = Append(@, [code |-> code, c |-> c])]

\* It answers our oldest connection request: yes, unless our CID is in use on
\* this link already.  A refusal is only logged.
PeerAnswers(h, yes) ==
    /\ asked[h] # <<>>
    /\ yes \/ Head(asked[h]) \in Refuses
    /\ asked' = [asked EXCEPT ![h] = Tail(@)]
    /\ LET c == Head(asked[h])
           ch == [c |-> c, by |-> "us"]
       IN  IF yes /\ ch \notin channels[h]
             THEN channels' = [channels EXCEPT ![h] = @ \cup {ch}] /\ Says(h, "CONN_RSP", c)
             ELSE UNCHANGED <<channels, inbox>>
    /\ denied' = (denied \/ (~yes /\ h = handle))
    /\ UNCHANGED <<endVars, use, called, security, theirs, configured, owed, ready, recordAsked,
                   slipVars>>

\* It asks for a channel: the console on any link, the pad on one it opened and
\* for its HID channels only; the interrupt channel after the control channel.
PeerRequests(h, c) ==
    /\ h \in opens /\ security[h] = "on"
    /\ side = "pad" => called[h] /\ c # "sdp"
    /\ c \notin theirs[h] /\ \E wanted \in Asks : theirs[h] \cup {c} \subseteq wanted
    /\ c = "interrupt" => "control" \in theirs[h]
    /\ theirs' = [theirs EXCEPT ![h] = @ \cup {c}]
    /\ Says(h, "CONN_REQ", c)
    /\ UNCHANGED <<endVars, use, called, security, asked, channels, configured, owed, answerVars,
                   slipVars>>

\* It configures a channel, once.
PeerConfigures(h, ch) ==
    /\ ch \in channels[h] \ configured[h]
    /\ configured' = [configured EXCEPT ![h] = @ \cup {ch}]
    /\ Says(h, "CONF_REQ", ch.c)
    /\ UNCHANGED <<endVars, use, called, security, asked, channels, theirs, owed, answerVars,
                   slipVars>>

\* It answers our configuration.
PeerAccepts(h, ch) ==
    /\ ch \in owed[h] \cap channels[h]
    /\ owed' = [owed EXCEPT ![h] = @ \ {ch}]
    /\ Says(h, "CONF_RSP", ch.c)
    /\ UNCHANGED <<endVars, use, called, security, asked, channels, theirs, configured, answerVars,
                   slipVars>>

\* It closes a channel.
PeerClosesChannel(h, ch) ==
    /\ ch.c \in Closes
    /\ ch \in channels[h]
    /\ channels' = [channels EXCEPT ![h] = @ \ {ch}]
    /\ Says(h, "DISCONN_REQ", ch.c)
    /\ denied' = (denied \/ h = handle)
    /\ UNCHANGED <<endVars, use, called, security, asked, theirs, configured, owed,
                   ready, recordAsked, slipVars>>

-----------------------------------------------------------------------------
ChannelsInit ==
    /\ side \in Sides
    /\ handle = NoLink /\ opens = {} /\ incoming = FALSE /\ dcid = AllClosed
    /\ timers = [h \in Handles \cup {NoLink} |-> 0] /\ ups = 0
    /\ use = [h \in Handles |-> 0]
    /\ called = [h \in Handles |-> FALSE]
    /\ security = [h \in Handles |-> "left"]
    /\ asked = [h \in Handles |-> <<>>] /\ inbox = [h \in Handles |-> <<>>]
    /\ channels = [h \in Handles |-> {}] /\ theirs = [h \in Handles |-> {}]
    /\ configured = [h \in Handles |-> {}] /\ owed = [h \in Handles |-> {}]
    /\ ready = FALSE /\ recordAsked = FALSE /\ denied = FALSE
    /\ mistaken = [h \in Handles |-> FALSE] /\ astray = {}

Peer(h) ==
    \/ PeerAnswers(h, TRUE)
    \/ \E ch \in channels[h] : PeerConfigures(h, ch) \/ PeerAccepts(h, ch)

ChannelsNext ==
    \/ \E h \in Handles :
          \/ \E call, flag \in BOOLEAN : LinkUp(h, call, flag)
          \/ LinkDown(h)
          \/ AuthComplete(h) \/ EncryptChange(h)
          \/ Receive(h) \/ Peer(h) \/ PeerAnswers(h, FALSE)
          \/ \E c \in Names : PeerRequests(h, c)
          \/ \E ch \in channels[h] : PeerClosesChannel(h, ch)
    \/ \E h \in Handles \cup {NoLink} : StepIn(h)

ChannelsSpec == ChannelsInit /\ [][ChannelsNext]_channelsVars

\* What is due on a link that stays: what the io_context has ready, a timer that
\* has run out, and what a peer owes that keeps its link: to secure it, to answer
\* what it is asked and to configure what it opened.  A pad that called opens its
\* own channels; of the console this is not assumed.
Due ==
    \/ \E h \in Handles :
          \/ AuthComplete(h) \/ EncryptChange(h) \/ Receive(h) \/ Peer(h)
          \/ side = "pad" /\ \E c \in {"control", "interrupt"} : PeerRequests(h, c)
    \/ \E h \in Handles \cup {NoLink} : StepIn(h)

\* Only so much is ever due on one link, so it is enough that something due is
\* done as long as there is any.
ChannelsFairSpec == ChannelsSpec /\ WF_channelsVars(Due)

-----------------------------------------------------------------------------
(* Properties.                                                             *)

Messages == [code : {"CONN_RSP", "CONN_REQ", "CONF_REQ", "CONF_RSP", "DISCONN_REQ"}, c : Names]
Ends == [c : Names, by : {"us", "peer"}]

\* Every variable has the type its declaration gives it, and the current link
\* is one of the open ones.
ChannelsTypeOK ==
    /\ side \in Sides
    /\ opens \subseteq Handles /\ handle \in opens \cup {NoLink}
    /\ incoming \in BOOLEAN /\ ready \in BOOLEAN /\ recordAsked \in BOOLEAN /\ denied \in BOOLEAN
    /\ dcid \in [Names -> [h : Handles, use : 0..MaxUps, by : {"us", "peer"}] \cup {Closed}]
    /\ timers \in [Handles \cup {NoLink} -> Nat]
    /\ ups \in 0..MaxUps /\ use \in [Handles -> 0..MaxUps]
    /\ called \in [Handles -> BOOLEAN]
    /\ security \in [Handles -> {"auth", "plain", "on", "left"}]
    /\ asked \in [Handles -> Seq(Names)] /\ inbox \in [Handles -> Seq(Messages)]
    /\ channels \in [Handles -> SUBSET Ends] /\ theirs \in [Handles -> SUBSET Names]
    /\ configured \in [Handles -> SUBSET Ends] /\ owed \in [Handles -> SUBSET Ends]
    /\ mistaken \in [Handles -> BOOLEAN] /\ astray \subseteq Names

\* The channel's remote CID is one of the current link, as that link is now, and
\* the peer has it open unless it is one the peer closes.
OfThisLink(c) ==
    /\ handle \in opens
    /\ dcid[c] = Cid(handle, dcid[c].by)
    /\ c \in Closes \/ [c |-> c, by |-> dcid[c].by] \in channels[handle]

\* handle_connection_complete(): "channel state from the old link" must not be used
\* on the new one, "a combination that no longer exists".  However the console
\* moves from one link to the other, a channel that counts as open is of the
\* current link - unless the signalling that opened it came in on a link that was
\* not the current one: handle_l2cap_cmd() does not look which link it serves.
ChannelsOfThisLink == \A c \in Names \ astray : IsOpen(c) => OfThisLink(c)

\* The same without the exception.
NoneFromElsewhere == \A c \in Names : IsOpen(c) => OfThisLink(c)

Twice(h, c) == {[c |-> c, by |-> "us"], [c |-> c, by |-> "peer"]} \subseteq channels[h]

\* "Only when we are the caller; on an incoming link the pad opens its own channels
\* and this would race with it": on the pad's link no channel exists twice, whoever
\* dialled - unless the pad dialled and incoming_link_ does not say so, because its
\* call crossed a page of ours.
OneChannelPerPsm ==
    side = "pad" => \A h \in Handles, c \in Names : Twice(h, c) => called[h] /\ mistaken[h]

\* "Racing it gives two channels on one PSM sharing a single HciChannel": nor
\* does the step-in timer ever open a second one with the console.
NeverTwice == \A h \in Handles, c \in Names : ~Twice(h, c)

\* A link we dialled and took for one the peer opened: nobody authenticates it.
Unsecured == handle \in opens /\ mistaken[handle] /\ ~called[handle]

\* A link with the pad that stays up, whoever dialled, ends with the gadget started
\* and the pad's service record asked for, if the pad takes part - unless we
\* dialled and incoming_link_ says otherwise.
PadComesUp ==
    (side = "pad" /\ handle # NoLink)
        ~> ((ready /\ recordAsked) \/ denied \/ Unsecured \/ handle = NoLink)

\* On a link that we take for one we dialled, a console that opens the control
\* channel and never the interrupt channel is not left at that, unless it leaves,
\* moves, or opened the control channel by way of another link.
ConsoleComesUp ==
    (side = "console" /\ ~incoming /\ IsOpen("control"))
        ~> (IsOpen("interrupt") \/ denied \/ ~IsOpen("control") \/ "control" \in astray)

\* A link that stays up gets its channels, with the pad and with the console.
ChannelsComeUp == PadComesUp /\ ConsoleComesUp

=============================================================================
