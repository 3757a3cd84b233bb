------------------------------ MODULE L2capProofs ------------------------------
(***************************************************************************)
(* Proofs about the L2CAP channels and about the questions that are relayed *)
(* over them, for any handles, links, questions and bounds.                *)
(*                                                                         *)
(*  - Channels: a channel that counts as open is one of the current link, and *)
(*    with the pad no PSM has two;                                         *)
(*  - Queries: once the pad has answered for its service record the relay has *)
(*    it for the rest of the run, and answers leave in the order asked.    *)
(***************************************************************************)
EXTENDS Queries, Channels, TLAPS

(***************************************************************************)
(* Channels.                                                               *)
(***************************************************************************)

\* x is somewhere in s.
Has(s, x) == \E i \in 1..Len(s) : s[i] = x

\* A link that is not there carries nothing.
Quiet ==
    \A h \in Handles : h \notin opens =>
        /\ asked[h] = <<>> /\ inbox[h] = <<>>
        /\ channels[h] = {} /\ theirs[h] = {} /\ configured[h] = {} /\ owed[h] = {}

\* Every use of a handle was a link that came up.
UsesCounted == \A h \in Handles : use[h] <= ups

\* With the pad, incoming_link_ says who opened the current link, or is known to be
\* mistaken about it.
IncomingTells ==
    side = "pad" /\ handle \in opens => incoming = called[handle] \/ mistaken[handle]

\* A link we dialled, or may have taken for one.
Ours(h) == ~called[h] \/ mistaken[h]

\* With the pad nobody waits for an interrupt channel.
NoTimers == side = "pad" => \A h \in Handles \cup {NoLink} : timers[h] = 0

\* With the pad, whoever called opens the channels.  On a link that it opened and
\* that we know it opened, nothing but the SDP channel to it is asked for or opened
\* by us.
WeAsk ==
    side = "pad" => \A h \in Handles, c \in Names :
        Has(asked[h], c) => c = "records" \/ Ours(h)
WeOpened ==
    side = "pad" => \A h \in Handles, c \in Names :
        [c |-> c, by |-> "us"] \in channels[h] => c = "records" \/ Ours(h)

\* It asks for nothing, and opens nothing, on a link we dialled, and never for that
\* channel.
PadAsks ==
    side = "pad" => \A h \in Handles, c \in Names :
        Has(inbox[h], [code |-> "CONN_REQ", c |-> c]) => c # "records" /\ called[h]
PadOpened ==
    side = "pad" => \A h \in Handles, c \in Names :
        [c |-> c, by |-> "peer"] \in channels[h] => c # "records" /\ called[h]

\* A channel the peer said yes to is there, unless it is one it closes.
YesMeansOpen ==
    \A h \in Handles, c \in Names :
        Has(inbox[h], [code |-> "CONN_RSP", c |-> c]) =>
            c \in Closes \/ [c |-> c, by |-> "us"] \in channels[h]

-----------------------------------------------------------------------------
(* Sequences.                                                              *)

\* Nothing is in the empty sequence.
LEMMA HasEmpty == ASSUME NEW x PROVE ~Has(<<>>, x)
BY DEF Has

\* A queue that has lost its head holds no more than before, and it held that head.
LEMMA HasTail ==
  ASSUME NEW S, NEW s \in Seq(S), s # <<>>
  PROVE  /\ Head(s) \in S /\ Tail(s) \in Seq(S)
         /\ Has(s, Head(s))
         /\ \A x : Has(Tail(s), x) => Has(s, x)
<1>1. Head(s) \in S /\ Tail(s) \in Seq(S) /\ Len(s) \in Nat /\ Len(s) >= 1 /\ s[1] = Head(s)
  OBVIOUS
<1>2. Has(s, Head(s))
  BY <1>1 DEF Has
<1>3. ASSUME NEW x, Has(Tail(s), x) PROVE Has(s, x)
  <2>1. PICK i \in 1..Len(Tail(s)) : Tail(s)[i] = x
    BY <1>3 DEF Has
  <2>2. Len(Tail(s)) = Len(s) - 1 /\ Tail(s)[i] = s[i + 1]
    BY <1>1, <2>1
  <2>3. i + 1 \in 1..Len(s) /\ s[i + 1] = x
    BY <1>1, <2>1, <2>2
  <2> QED BY <2>3 DEF Has
<1> QED BY <1>1, <1>2, <1>3

\* Appending adds what is appended.
LEMMA HasAppend ==
  ASSUME NEW S, NEW s \in Seq(S), NEW y \in S
  PROVE  /\ Append(s, y) \in Seq(S)
         /\ \A x : Has(Append(s, y), x) <=> Has(s, x) \/ x = y
<1>1. /\ Append(s, y) \in Seq(S) /\ Len(s) \in Nat /\ Len(Append(s, y)) = Len(s) + 1
      /\ Append(s, y)[Len(s) + 1] = y
      /\ \A i \in 1..Len(s) : Append(s, y)[i] = s[i]
  OBVIOUS
<1>2. ASSUME NEW x, Has(Append(s, y), x) PROVE Has(s, x) \/ x = y
  <2>1. PICK i \in 1..Len(Append(s, y)) : Append(s, y)[i] = x
    BY <1>2 DEF Has
  <2>2. CASE i = Len(s) + 1
    BY <1>1, <2>1, <2>2
  <2>3. CASE i # Len(s) + 1
    <3>1. i \in 1..Len(s)
      BY <1>1, <2>1, <2>3
    <3> QED BY <1>1, <2>1, <3>1 DEF Has
  <2> QED BY <2>2, <2>3
<1>3. ASSUME NEW x, Has(s, x) PROVE Has(Append(s, y), x)
  <2>1. PICK i \in 1..Len(s) : s[i] = x
    BY <1>3 DEF Has
  <2>2. i \in 1..Len(Append(s, y)) /\ Append(s, y)[i] = x
    BY <1>1, <2>1
  <2> QED BY <2>2 DEF Has
<1>4. Has(Append(s, y), y)
  <2>1. Len(s) + 1 \in 1..Len(Append(s, y))
    BY <1>1
  <2> QED BY <1>1, <2>1 DEF Has
<1> QED BY <1>1, <1>2, <1>3, <1>4

-----------------------------------------------------------------------------
(* What the parts of an action do.                                         *)

\* Asking adds one request, on the current link.
LEMMA AskDoes ==
  ASSUME ChannelsTypeOK, NEW c \in Names, Ask(c)
  PROVE  /\ asked' \in [Handles -> Seq(Names)]
         /\ \A h \in Handles : h \notin opens => asked'[h] = asked[h]
         /\ \A h \in Handles, x \in Names :
               Has(asked'[h], x) => Has(asked[h], x) \/ (h = handle /\ handle \in opens /\ x = c)
<1>1. asked \in [Handles -> Seq(Names)] /\ opens \subseteq Handles
  BY DEF ChannelsTypeOK
<1>2. CASE handle \in opens
  <2>1. asked' = [asked EXCEPT ![handle] = Append(@, c)]
    BY <1>2 DEF Ask
  <2>2. handle \in Handles /\ asked[handle] \in Seq(Names)
    BY <1>1, <1>2
  <2>3. /\ Append(asked[handle], c) \in Seq(Names)
        /\ \A x : Has(Append(asked[handle], c), x) <=> Has(asked[handle], x) \/ x = c
    BY <2>2, HasAppend
  <2>4. asked' \in [Handles -> Seq(Names)]
    BY <1>1, <2>1, <2>2, <2>3
  <2>5. \A h \in Handles : asked'[h] = IF h = handle THEN Append(asked[handle], c) ELSE asked[h]
    BY <1>1, <2>1, <2>2
  <2> QED BY <1>2, <2>3, <2>4, <2>5
<1>3. CASE handle \notin opens
  BY <1>1, <1>3 DEF Ask
<1> QED BY <1>2, <1>3

\* Configuring adds one answer that is owed, on the current link.
LEMMA ConfigureDoes ==
  ASSUME ChannelsTypeOK, NEW c \in Names, NEW d, d.by \in {"us", "peer"}, Configure(c, d)
  PROVE  /\ owed' \in [Handles -> SUBSET Ends]
         /\ \A h \in Handles : h \notin opens => owed'[h] = owed[h]
<1>1. owed \in [Handles -> SUBSET Ends] /\ opens \subseteq Handles
  BY DEF ChannelsTypeOK
<1>2. CASE d.h = handle /\ handle \in opens
  <2>1. owed' = [owed EXCEPT ![handle] = @ \cup {[c |-> c, by |-> d.by]}]
    BY <1>2 DEF Configure
  <2>2. [c |-> c, by |-> d.by] \in Ends
    BY DEF Ends
  <2> QED BY <1>1, <1>2, <2>1, <2>2
<1>3. CASE ~(d.h = handle /\ handle \in opens)
  BY <1>1, <1>3 DEF Configure
<1> QED BY <1>2, <1>3


Codes == {"CONN_RSP", "CONN_REQ", "CONF_REQ", "CONF_RSP", "DISCONN_REQ"}

\* The peer's signalling joins what is on its way on its link.
LEMMA SaysDoes ==
  ASSUME ChannelsTypeOK, NEW h \in Handles, NEW c \in Names, NEW code \in Codes, Says(h, code, c)
  PROVE  /\ inbox' \in [Handles -> Seq(Messages)]
         /\ \A g \in Handles : g # h => inbox'[g] = inbox[g]
         /\ \A x : Has(inbox'[h], x) <=> Has(inbox[h], x) \/ x = [code |-> code, c |-> c]
<1>1. inbox \in [Handles -> Seq(Messages)] /\ inbox[h] \in Seq(Messages)
  BY DEF ChannelsTypeOK
<1>2. [code |-> code, c |-> c] \in Messages
  BY DEF Messages, Codes
<1>3. inbox' = [inbox EXCEPT ![h] = Append(@, [code |-> code, c |-> c])]
  BY DEF Says
<1> DEFINE m == [code |-> code, c |-> c]
<1>4. inbox' = [inbox EXCEPT ![h] = Append(inbox[h], m)] /\ m \in Messages
  BY <1>2, <1>3
<1> HIDE DEF m
<1>5. /\ Append(inbox[h], m) \in Seq(Messages)
      /\ \A x : Has(Append(inbox[h], m), x) <=> Has(inbox[h], x) \/ x = m
  BY <1>1, <1>4, HasAppend
<1>6. /\ inbox' \in [Handles -> Seq(Messages)]
      /\ inbox'[h] = Append(inbox[h], m)
      /\ \A g \in Handles : g # h => inbox'[g] = inbox[g]
  BY <1>1, <1>4, <1>5
<1>7. \A x : Has(inbox'[h], x) <=> Has(inbox[h], x) \/ x = m
  BY <1>5, <1>6
<1> QED BY <1>6, <1>7 DEF m

\* What handle_l2cap_cmd() does with a message, by its code.
Handled(h, m) ==
    \/ m.code = "CONN_RSP" /\ ConnResponse(h, m.c)
    \/ m.code = "CONN_REQ" /\ ConnRequest(h, m.c)
    \/ m.code = "CONF_REQ" /\ ConfRequest(h, m.c)
    \/ m.code = "CONF_RSP" /\ ConfResponse(h, m.c)
    \/ m.code = "DISCONN_REQ" /\ DisconnRequest(h, m.c)

\* A message that arrives was on its way, and is handled by its code.
LEMMA ReceiveDoes ==
  ASSUME ChannelsTypeOK, NEW h \in Handles, Receive(h)
  PROVE  /\ inbox' \in [Handles -> Seq(Messages)]
         /\ inbox[h] # <<>>
         /\ \A g \in Handles : \A x : Has(inbox'[g], x) => Has(inbox[g], x)
         /\ \A g \in Handles : g # h => inbox'[g] = inbox[g]
         /\ Head(inbox[h]) \in Messages
         /\ Has(inbox[h], Head(inbox[h]))
         /\ Handled(h, Head(inbox[h]))
<1>1. inbox \in [Handles -> Seq(Messages)] /\ inbox[h] \in Seq(Messages)
  BY DEF ChannelsTypeOK
<1>2. inbox[h] # <<>> /\ inbox' = [inbox EXCEPT ![h] = Tail(inbox[h])]
  BY Zenon DEF Receive
<1>3. /\ Head(inbox[h]) \in Messages /\ Tail(inbox[h]) \in Seq(Messages)
      /\ Has(inbox[h], Head(inbox[h]))
      /\ \A x : Has(Tail(inbox[h]), x) => Has(inbox[h], x)
  BY <1>1, <1>2, HasTail
<1>4. /\ inbox' \in [Handles -> Seq(Messages)] /\ inbox'[h] = Tail(inbox[h])
      /\ \A g \in Handles : g # h => inbox'[g] = inbox[g]
  BY <1>1, <1>2, <1>3
<1>5. \A g \in Handles : \A x : Has(inbox'[g], x) => Has(inbox[g], x)
  BY <1>3, <1>4
<1>6. Handled(h, Head(inbox[h]))
  <2>1. Head(inbox[h]).code \in Codes
    BY <1>3 DEF Messages, Codes
  <2> DEFINE m == Head(inbox[h])
  <2>2. CASE m.code = "CONN_RSP" BY <2>2 DEF Receive, Handled
  <2>3. CASE m.code = "CONN_REQ" BY <2>3 DEF Receive, Handled
  <2>4. CASE m.code = "CONF_REQ" BY <2>4 DEF Receive, Handled
  <2>5. CASE m.code = "CONF_RSP" BY <2>5 DEF Receive, Handled
  <2>6. CASE m.code = "DISCONN_REQ" BY <2>6 DEF Receive, Handled
  <2> QED BY <2>1, <2>2, <2>3, <2>4, <2>5, <2>6 DEF Codes
<1> QED BY <1>2, <1>3, <1>4, <1>5, <1>6

\* What a message leaves alone, whatever its code.
LEMMA ReceiveLeaves ==
  ASSUME NEW h, Receive(h)
  PROVE  /\ side' = side /\ handle' = handle /\ opens' = opens /\ incoming' = incoming
         /\ ups' = ups /\ use' = use /\ called' = called /\ security' = security
         /\ theirs' = theirs /\ configured' = configured /\ mistaken' = mistaken
BY Zenon DEF Receive

\* An answer that arrives on a link makes the channel one of that link.
LEMMA CidType ==
  ASSUME ChannelsTypeOK, NEW h \in Handles, NEW by \in {"us", "peer"}, NEW c \in Names,
         dcid' = [dcid EXCEPT ![c] = Cid(h, by)]
  PROVE  /\ dcid' \in [Names -> [h : Handles, use : 0..MaxUps, by : {"us", "peer"}] \cup {Closed}]
         /\ Cid(h, by).by = by
<1>1. dcid \in [Names -> [h : Handles, use : 0..MaxUps, by : {"us", "peer"}] \cup {Closed}]
  BY DEF ChannelsTypeOK
<1>2. use[h] \in 0..MaxUps
  BY DEF ChannelsTypeOK
<1>3. Cid(h, by) \in [h : Handles, use : 0..MaxUps, by : {"us", "peer"}]
  BY <1>2 DEF Cid
<1> DEFINE T == [h : Handles, use : 0..MaxUps, by : {"us", "peer"}] \cup {Closed}
           d == Cid(h, by)
<1>4. d \in T /\ dcid \in [Names -> T] /\ dcid' = [dcid EXCEPT ![c] = d]
  BY <1>1, <1>3
<1>6. Cid(h, by).by = by
  BY DEF Cid
<1> HIDE DEF T, d
<1>5. dcid' \in [Names -> T]
  BY <1>4
<1> QED BY <1>5, <1>6 DEF T

\* No channel is open.
LEMMA AllClosedType ==
  /\ AllClosed \in [Names -> [h : Handles, use : 0..MaxUps, by : {"us", "peer"}] \cup {Closed}]
  /\ \A c \in Names : AllClosed[c] = Closed
BY DEF AllClosed

-----------------------------------------------------------------------------
(* Types, quiet links and counted uses.                                    *)

BaseInv == ChannelsTypeOK /\ Quiet /\ UsesCounted

HostOK == side \in Sides /\ opens \subseteq Handles /\ handle \in opens \cup {NoLink}
FlagsOK == incoming \in BOOLEAN /\ ready \in BOOLEAN /\ recordAsked \in BOOLEAN /\ denied \in BOOLEAN
DcidOK == dcid \in [Names -> [h : Handles, use : 0..MaxUps, by : {"us", "peer"}] \cup {Closed}]
TimersOK == timers \in [Handles \cup {NoLink} -> Nat]
CountsOK == ups \in 0..MaxUps /\ use \in [Handles -> 0..MaxUps]
LinksOK ==
    called \in [Handles -> BOOLEAN] /\ security \in [Handles -> {"auth", "plain", "on", "left"}]
QueuesOK == asked \in [Handles -> Seq(Names)] /\ inbox \in [Handles -> Seq(Messages)]
SetsOK ==
    /\ channels \in [Handles -> SUBSET Ends] /\ theirs \in [Handles -> SUBSET Names]
    /\ configured \in [Handles -> SUBSET Ends] /\ owed \in [Handles -> SUBSET Ends]

SlipsOK == mistaken \in [Handles -> BOOLEAN] /\ astray \subseteq Names

\* The type invariant is its parts.
LEMMA TypeParts ==
  ChannelsTypeOK <=> /\ HostOK /\ FlagsOK /\ DcidOK /\ TimersOK /\ CountsOK /\ LinksOK
                     /\ QueuesOK /\ SetsOK /\ SlipsOK
BY Zenon DEF ChannelsTypeOK, HostOK, FlagsOK, DcidOK, TimersOK, CountsOK, LinksOK, QueuesOK, SetsOK,
             SlipsOK

\* The same of the next state.
LEMMA TypeJoin ==
  HostOK' /\ FlagsOK' /\ DcidOK' /\ TimersOK' /\ CountsOK' /\ LinksOK' /\ QueuesOK' /\ SetsOK'
    /\ SlipsOK' => ChannelsTypeOK'
BY Zenon DEF ChannelsTypeOK, HostOK, FlagsOK, DcidOK, TimersOK, CountsOK, LinksOK, QueuesOK, SetsOK,
             SlipsOK

\* What the history remembers keeps its type.
LEMMA SlipsStep ==
  ASSUME SlipsOK,
         \/ mistaken' = mistaken
         \/ \E h \in Handles, b \in BOOLEAN : mistaken' = [mistaken EXCEPT ![h] = b],
         \/ astray' = astray \/ astray' = {}
         \/ \E c \in Names : astray' = astray \ {c} \/ astray' = astray \cup {c}
  PROVE  SlipsOK'
<1>1. mistaken' \in [Handles -> BOOLEAN]
  BY DEF SlipsOK
<1>2. astray' \subseteq Names
  BY DEF SlipsOK
<1> QED BY <1>1, <1>2 DEF SlipsOK

LEMMA InitBase == ChannelsInit => BaseInv
<1> SUFFICES ASSUME ChannelsInit PROVE BaseInv
  OBVIOUS
<1>1. HostOK /\ FlagsOK
  BY Zenon DEF ChannelsInit, HostOK, FlagsOK
<1>2. DcidOK
  <2>1. dcid = AllClosed
    BY DEF ChannelsInit
  <2> QED BY <2>1, AllClosedType DEF DcidOK
<1>3. TimersOK
  BY DEF ChannelsInit, TimersOK
<1>4. CountsOK
  BY MaxUpsAssumption DEF ChannelsInit, CountsOK
<1>5. LinksOK
  <2>1. called = [h \in Handles |-> FALSE] /\ security = [h \in Handles |-> "left"]
    BY DEF ChannelsInit
  <2> QED BY <2>1 DEF LinksOK
<1>6. QueuesOK
  <2>1. asked = [h \in Handles |-> <<>>] /\ inbox = [h \in Handles |-> <<>>]
    BY DEF ChannelsInit
  <2> QED BY <2>1 DEF QueuesOK
<1>7. SetsOK
  <2>1. /\ channels = [h \in Handles |-> {}] /\ theirs = [h \in Handles |-> {}]
        /\ configured = [h \in Handles |-> {}] /\ owed = [h \in Handles |-> {}]
    BY DEF ChannelsInit
  <2> QED BY <2>1 DEF SetsOK
<1>8. Quiet
  BY DEF ChannelsInit, Quiet
<1>9. UsesCounted
  BY DEF ChannelsInit, UsesCounted
<1>10. SlipsOK
  <2>1. mistaken = [h \in Handles |-> FALSE] /\ astray = {}
    BY DEF ChannelsInit
  <2> QED BY <2>1 DEF SlipsOK
<1> QED BY <1>1, <1>2, <1>3, <1>4, <1>5, <1>6, <1>7, <1>8, <1>9, <1>10, TypeParts DEF BaseInv

\* A new link was quiet before it came up, and is counted.
LEMMA LinkUpBase ==
  ASSUME BaseInv, NEW h \in Handles, NEW call \in BOOLEAN, NEW flag \in BOOLEAN,
         LinkUp(h, call, flag)
  PROVE  BaseInv'
<1>0. /\ HostOK /\ FlagsOK /\ DcidOK /\ TimersOK /\ CountsOK /\ LinksOK /\ QueuesOK /\ SetsOK
      /\ SlipsOK
  BY TypeParts DEF BaseInv
<1>1. HostOK'
  BY <1>0 DEF LinkUp, HostOK
<1>2. FlagsOK'
  BY <1>0 DEF LinkUp, FlagsOK
<1>3. DcidOK'
  <2>1. dcid' = AllClosed \/ dcid' = dcid
    BY DEF LinkUp, ResetChannels
  <2>2. CASE dcid' = AllClosed
    BY <2>2, AllClosedType DEF DcidOK
  <2>3. CASE dcid' = dcid
    BY <1>0, <2>3 DEF DcidOK
  <2> QED BY <2>1, <2>2, <2>3
<1>4. TimersOK'
  BY <1>0 DEF LinkUp, TimersOK
<1>5. CountsOK' /\ UsesCounted'
  <2>1. /\ ups < MaxUps /\ ups' = ups + 1 /\ use' = [use EXCEPT ![h] = @ + 1]
        /\ \A g \in Handles : use[g] <= ups
    BY DEF LinkUp, BaseInv, UsesCounted
  <2> QED BY <1>0, <2>1, MaxUpsAssumption DEF CountsOK, UsesCounted
<1>6. LinksOK'
  <2>1. /\ called' = [called EXCEPT ![h] = side = "pad" /\ call]
        /\ security' = [security EXCEPT ![h] = Securing(call, flag)]
    BY DEF LinkUp
  <2>2. Securing(call, flag) \in {"auth", "plain", "left"} /\ (side = "pad" /\ call) \in BOOLEAN
    BY DEF Securing
  <2> QED BY <1>0, <2>1, <2>2 DEF LinksOK
<1>7. QueuesOK'
  BY <1>0 DEF LinkUp, QueuesOK
<1>8. SetsOK'
  BY <1>0 DEF LinkUp, SetsOK
<1>9. Quiet'
  BY DEF LinkUp, BaseInv, Quiet
<1>10. SlipsOK'
  <2>1. /\ mistaken' = [mistaken EXCEPT ![h] = side = "pad" /\ flag # call]
        /\ astray' = astray \/ astray' = {}
    BY DEF LinkUp
  <2>2. (side = "pad" /\ flag # call) \in BOOLEAN
    OBVIOUS
  <2> QED BY <1>0, <2>1, <2>2, SlipsStep
<1> QED BY <1>1, <1>2, <1>3, <1>4, <1>5, <1>6, <1>7, <1>8, <1>9, <1>10, TypeJoin DEF BaseInv

\* A link that goes takes with it what was on its way.
LEMMA LinkDownBase ==
  ASSUME BaseInv, NEW h \in Handles, LinkDown(h)
  PROVE  BaseInv'
<1>0. /\ HostOK /\ FlagsOK /\ DcidOK /\ TimersOK /\ CountsOK /\ LinksOK /\ QueuesOK /\ SetsOK
      /\ SlipsOK
  BY TypeParts DEF BaseInv
<1>1. HostOK'
  BY <1>0 DEF LinkDown, Left, HostOK
<1>2. FlagsOK' /\ DcidOK'
  <2>1. CASE h = handle
    <3>1. /\ incoming' = FALSE /\ dcid' = AllClosed
          /\ ready' = FALSE /\ recordAsked' = FALSE /\ denied' = FALSE
      BY <2>1 DEF LinkDown, ResetChannels
    <3> QED BY <3>1, AllClosedType DEF FlagsOK, DcidOK
  <2>2. CASE h # handle
    <3>1. /\ incoming' = incoming /\ dcid' = dcid
          /\ ready' = ready /\ recordAsked' = recordAsked /\ denied' = denied
      BY <2>2 DEF LinkDown, answerVars
    <3> QED BY <1>0, <3>1 DEF FlagsOK, DcidOK
  <2> QED BY <2>1, <2>2
<1>3. TimersOK' /\ CountsOK' /\ UsesCounted'
  BY <1>0 DEF LinkDown, TimersOK, CountsOK, UsesCounted, BaseInv
<1>4. LinksOK'
  <2>1. called' = [called EXCEPT ![h] = FALSE] /\ security' = [security EXCEPT ![h] = "left"]
    BY DEF LinkDown
  <2> QED BY <1>0, <2>1 DEF LinksOK
<1>5. QueuesOK'
  <2>1. asked' = [asked EXCEPT ![h] = <<>>] /\ inbox' = [inbox EXCEPT ![h] = <<>>]
    BY DEF LinkDown
  <2> QED BY <1>0, <2>1 DEF QueuesOK
<1>6. SetsOK'
  <2>1. /\ channels' = [channels EXCEPT ![h] = {}] /\ theirs' = [theirs EXCEPT ![h] = {}]
        /\ configured' = [configured EXCEPT ![h] = {}] /\ owed' = [owed EXCEPT ![h] = {}]
    BY DEF LinkDown
  <2> QED BY <1>0, <2>1 DEF SetsOK
<1>7. Quiet'
  <2>1. /\ asked' = [asked EXCEPT ![h] = <<>>] /\ inbox' = [inbox EXCEPT ![h] = <<>>]
        /\ channels' = [channels EXCEPT ![h] = {}] /\ theirs' = [theirs EXCEPT ![h] = {}]
        /\ configured' = [configured EXCEPT ![h] = {}] /\ owed' = [owed EXCEPT ![h] = {}]
        /\ opens' = opens \ {h}
    BY DEF LinkDown
  <2> QED BY <1>0, <2>1 DEF BaseInv, Quiet, QueuesOK, SetsOK
<1>8. SlipsOK'
  <2>1. mistaken' = [mistaken EXCEPT ![h] = FALSE] /\ (astray' = astray \/ astray' = {})
    BY DEF LinkDown
  <2> QED BY <1>0, <2>1, SlipsStep
<1> QED BY <1>1, <1>2, <1>3, <1>4, <1>5, <1>6, <1>7, <1>8, TypeJoin DEF BaseInv

\* Securing a link may ask for a channel of the current one.
LEMMA SecureBase ==
  ASSUME BaseInv, NEW h \in Handles, AuthComplete(h) \/ EncryptChange(h)
  PROVE  BaseInv'
<1>0. /\ HostOK /\ FlagsOK /\ DcidOK /\ TimersOK /\ CountsOK /\ LinksOK /\ QueuesOK /\ SetsOK
      /\ SlipsOK
  BY TypeParts DEF BaseInv
<1>1. UNCHANGED <<endVars, use, called, inbox, channels, theirs, configured, owed, answerVars,
                  slipVars>>
  BY Zenon DEF AuthComplete, EncryptChange
<1>2. asked' = asked \/ Ask("records")
  BY Zenon DEF AuthComplete, EncryptChange
<1>3. /\ asked' \in [Handles -> Seq(Names)]
      /\ \A g \in Handles : g \notin opens => asked'[g] = asked[g]
  <2>1. CASE asked' = asked
    BY <1>0, <2>1 DEF QueuesOK
  <2>2. CASE Ask("records")
    <3>1. "records" \in Names
      BY DEF Names
    <3>2. ChannelsTypeOK
      BY DEF BaseInv
    <3> QED BY <2>2, <3>1, <3>2, AskDoes
  <2> QED BY <1>2, <2>1, <2>2
<1>4. HostOK' /\ FlagsOK' /\ DcidOK' /\ TimersOK' /\ CountsOK' /\ UsesCounted'
  BY <1>0, <1>1
     DEF endVars, answerVars, HostOK, FlagsOK, DcidOK, TimersOK, CountsOK, UsesCounted, BaseInv
<1>5. LinksOK'
  <2>1. \E v \in {"plain", "on", "left"} : security' = [security EXCEPT ![h] = v]
    BY DEF AuthComplete, EncryptChange
  <2> QED BY <1>0, <1>1, <2>1 DEF LinksOK
<1>6. QueuesOK' /\ SetsOK'
  BY <1>0, <1>1, <1>3 DEF QueuesOK, SetsOK
<1>7. Quiet'
  BY <1>1, <1>3 DEF endVars, BaseInv, Quiet
<1>8. SlipsOK'
  BY <1>0, <1>1, SlipsStep DEF slipVars
<1> QED BY <1>4, <1>5, <1>6, <1>7, <1>8, TypeJoin DEF BaseInv

\* A message is handled on a link that is there, and touches only what may be
\* there: what it opens and asks for is on an open link.
LEMMA ReceiveBase ==
  ASSUME BaseInv, NEW h \in Handles, Receive(h)
  PROVE  BaseInv'
<1>0. /\ HostOK /\ FlagsOK /\ DcidOK /\ TimersOK /\ CountsOK /\ LinksOK /\ QueuesOK /\ SetsOK
      /\ SlipsOK /\ ChannelsTypeOK /\ Quiet /\ UsesCounted
  BY TypeParts DEF BaseInv
<1> DEFINE m == Head(inbox[h])
<1>1. /\ inbox' \in [Handles -> Seq(Messages)] /\ inbox[h] # <<>>
      /\ \A g \in Handles : g # h => inbox'[g] = inbox[g]
      /\ m \in Messages /\ Handled(h, m)
  BY <1>0, ReceiveDoes
<1>2. m.c \in Names
  BY <1>1 DEF Messages
<1>3. h \in opens
  BY <1>0, <1>1 DEF Quiet
<1>4. /\ side' = side /\ handle' = handle /\ opens' = opens /\ incoming' = incoming
      /\ ups' = ups /\ use' = use /\ called' = called /\ security' = security
      /\ theirs' = theirs /\ configured' = configured /\ mistaken' = mistaken
  BY ReceiveLeaves
<1> HIDE DEF m
<1>5. FlagsOK' /\ DcidOK' /\ TimersOK'
  <2>1. CASE m.code = "CONN_RSP" /\ ConnResponse(h, m.c)
    <3>1. /\ dcid' = [dcid EXCEPT ![m.c] = Cid(h, "us")]
          /\ timers' = timers /\ UNCHANGED answerVars
      BY <2>1 DEF ConnResponse, Store
    <3>2. DcidOK'
      BY <1>0, <1>2, <3>1, CidType DEF DcidOK
    <3> QED BY <1>0, <1>4, <3>1, <3>2 DEF FlagsOK, TimersOK, answerVars
  <2>2. CASE m.code = "CONN_REQ" /\ ConnRequest(h, m.c)
    <3>1. /\ dcid' = [dcid EXCEPT ![m.c] = Cid(h, "peer")]
          /\ timers' = timers /\ UNCHANGED answerVars
      BY <2>2 DEF ConnRequest, Store
    <3>2. DcidOK'
      BY <1>0, <1>2, <3>1, CidType DEF DcidOK
    <3> QED BY <1>0, <1>4, <3>1, <3>2 DEF FlagsOK, TimersOK, answerVars
  <2>3. CASE m.code = "CONF_REQ" /\ ConfRequest(h, m.c)
    <3>1. /\ timers' = timers \/ timers' = [timers EXCEPT ![handle] = @ + 1]
          /\ dcid' = dcid /\ UNCHANGED answerVars
      BY <2>3 DEF ConfRequest
    <3>2. handle \in Handles \cup {NoLink}
      BY <1>0 DEF HostOK
    <3> QED BY <1>0, <1>4, <3>1, <3>2 DEF FlagsOK, DcidOK, TimersOK, answerVars
  <2>4. CASE m.code = "CONF_RSP" /\ ConfResponse(h, m.c)
    <3>1. /\ recordAsked' = (recordAsked \/ (side = "pad" /\ m.c = "records"))
          /\ ready' = (ready \/ (side = "pad" /\ m.c = "interrupt"))
          /\ dcid' = dcid /\ timers' = timers /\ denied' = denied
      BY <2>4 DEF ConfResponse
    <3>2. recordAsked' \in BOOLEAN /\ ready' \in BOOLEAN
      BY <3>1, Zenon
    <3> QED BY <1>0, <1>4, <3>1, <3>2 DEF FlagsOK, DcidOK, TimersOK
  <2>5. CASE m.code = "DISCONN_REQ" /\ DisconnRequest(h, m.c)
    BY <1>0, <1>4, <2>5 DEF DisconnRequest, FlagsOK, DcidOK, TimersOK, answerVars
  <2> QED BY <1>1, <2>1, <2>2, <2>3, <2>4, <2>5 DEF Handled
<1>6. /\ asked' \in [Handles -> Seq(Names)]
      /\ \A g \in Handles : g \notin opens => asked'[g] = asked[g]
  <2>1. asked' = asked \/ Ask("control") \/ Ask("interrupt")
    BY <1>1 DEF Handled, ConnResponse, ConnRequest, ConfRequest, ConfResponse, DisconnRequest
  <2>2. "control" \in Names /\ "interrupt" \in Names
    BY DEF Names
  <2>3. CASE asked' = asked
    BY <1>0, <2>3 DEF QueuesOK
  <2>4. CASE Ask("control")
    BY <1>0, <2>2, <2>4, AskDoes
  <2>5. CASE Ask("interrupt")
    BY <1>0, <2>2, <2>5, AskDoes
  <2> QED BY <2>1, <2>3, <2>4, <2>5
<1>7. /\ channels' \in [Handles -> SUBSET Ends]
      /\ \A g \in Handles : g \notin opens => channels'[g] = channels[g]
  <2>1. channels' = channels \/ channels' = [channels EXCEPT ![h] = @ \cup {[c |-> m.c, by |-> "peer"]}]
    BY <1>1 DEF Handled, ConnResponse, ConnRequest, ConfRequest, ConfResponse, DisconnRequest
  <2>2. [c |-> m.c, by |-> "peer"] \in Ends
    BY <1>2 DEF Ends
  <2> QED BY <1>0, <1>3, <2>1, <2>2 DEF SetsOK
<1>8. /\ owed' \in [Handles -> SUBSET Ends]
      /\ \A g \in Handles : g \notin opens => owed'[g] = owed[g]
  <2>1. owed' = owed \/ Configure(m.c, Cid(h, "us")) \/ Configure(m.c, Cid(h, "peer"))
    BY <1>1 DEF Handled, ConnResponse, ConnRequest, ConfRequest, ConfResponse, DisconnRequest
  <2>2. Cid(h, "us").by \in {"us", "peer"} /\ Cid(h, "peer").by \in {"us", "peer"}
    BY DEF Cid
  <2>3. CASE owed' = owed
    BY <1>0, <2>3 DEF SetsOK
  <2>4. CASE Configure(m.c, Cid(h, "us"))
    BY <1>0, <1>2, <2>2, <2>4, ConfigureDoes
  <2>5. CASE Configure(m.c, Cid(h, "peer"))
    BY <1>0, <1>2, <2>2, <2>5, ConfigureDoes
  <2> QED BY <2>1, <2>3, <2>4, <2>5
<1>9. HostOK' /\ CountsOK' /\ LinksOK' /\ UsesCounted'
  BY <1>0, <1>4 DEF HostOK, CountsOK, LinksOK, UsesCounted
<1>10. QueuesOK' /\ SetsOK'
  BY <1>0, <1>1, <1>4, <1>6, <1>7, <1>8 DEF QueuesOK, SetsOK
<1>11. Quiet'
  BY <1>0, <1>1, <1>3, <1>4, <1>6, <1>7, <1>8 DEF Quiet
<1>12. SlipsOK'
  <2>1. astray' = astray \/ astray' = astray \ {m.c} \/ astray' = astray \cup {m.c}
    BY <1>1 DEF Handled, ConnResponse, ConnRequest, ConfRequest, ConfResponse, DisconnRequest, Store
  <2> QED BY <1>0, <1>2, <1>4, <2>1, SlipsStep
<1> QED BY <1>5, <1>9, <1>10, <1>11, <1>12, TypeJoin DEF BaseInv

\* A timer that fires may ask for a channel of the current link.
LEMMA StepInBase ==
  ASSUME BaseInv, NEW h \in Handles \cup {NoLink}, StepIn(h)
  PROVE  BaseInv'
<1>0. /\ HostOK /\ FlagsOK /\ DcidOK /\ TimersOK /\ CountsOK /\ LinksOK /\ QueuesOK /\ SetsOK
      /\ SlipsOK /\ ChannelsTypeOK /\ Quiet /\ UsesCounted
  BY TypeParts DEF BaseInv
<1>1. /\ timers[h] > 0 /\ timers' = [timers EXCEPT ![h] = @ - 1]
      /\ asked' = asked \/ Ask("interrupt")
      /\ UNCHANGED <<side, handle, opens, incoming, dcid, ups, use, called, security, inbox, channels,
                     theirs, configured, owed, answerVars, slipVars>>
  BY Zenon DEF StepIn
<1>2. /\ asked' \in [Handles -> Seq(Names)]
      /\ \A g \in Handles : g \notin opens => asked'[g] = asked[g]
  <2>1. "interrupt" \in Names
    BY DEF Names
  <2>2. CASE asked' = asked
    BY <1>0, <2>2 DEF QueuesOK
  <2>3. CASE Ask("interrupt")
    BY <1>0, <2>1, <2>3, AskDoes
  <2> QED BY <1>1, <2>2, <2>3
<1>3. TimersOK'
  <2>1. timers[h] - 1 \in Nat
    BY <1>0, <1>1 DEF TimersOK
  <2> QED BY <1>0, <1>1, <2>1 DEF TimersOK
<1>4. HostOK' /\ FlagsOK' /\ DcidOK' /\ CountsOK' /\ LinksOK' /\ UsesCounted'
  BY <1>0, <1>1 DEF HostOK, FlagsOK, DcidOK, CountsOK, LinksOK, UsesCounted, answerVars
<1>5. QueuesOK' /\ SetsOK'
  BY <1>0, <1>1, <1>2 DEF QueuesOK, SetsOK
<1>6. Quiet'
  BY <1>0, <1>1, <1>2 DEF Quiet
<1>7. SlipsOK'
  BY <1>0, <1>1, SlipsStep DEF slipVars
<1> QED BY <1>3, <1>4, <1>5, <1>6, <1>7, TypeJoin DEF BaseInv

\* The peer answers what it was asked, on a link that is there.
LEMMA PeerAnswersDoes ==
  ASSUME BaseInv, NEW h \in Handles, NEW yes \in BOOLEAN, PeerAnswers(h, yes)
  PROVE  /\ h \in opens
         /\ Head(asked[h]) \in Names /\ Has(asked[h], Head(asked[h]))
         /\ asked' \in [Handles -> Seq(Names)] /\ asked' = [asked EXCEPT ![h] = Tail(asked[h])]
         /\ \A g \in Handles : \A x : Has(asked'[g], x) => Has(asked[g], x)
         /\ \/ UNCHANGED <<channels, inbox>>
            \/ /\ channels' = [channels EXCEPT ![h] = @ \cup {[c |-> Head(asked[h]), by |-> "us"]}]
               /\ Says(h, "CONN_RSP", Head(asked[h]))
<1>1. asked[h] # <<>> /\ asked' = [asked EXCEPT ![h] = Tail(asked[h])]
  BY Zenon DEF PeerAnswers
<1>2. asked \in [Handles -> Seq(Names)] /\ asked[h] \in Seq(Names)
  BY DEF BaseInv, ChannelsTypeOK
<1>3. /\ Head(asked[h]) \in Names /\ Tail(asked[h]) \in Seq(Names)
      /\ Has(asked[h], Head(asked[h])) /\ \A x : Has(Tail(asked[h]), x) => Has(asked[h], x)
  BY <1>1, <1>2, HasTail
<1>4. /\ asked' \in [Handles -> Seq(Names)]
      /\ \A g \in Handles : asked'[g] = IF g = h THEN Tail(asked[h]) ELSE asked[g]
  BY <1>1, <1>2, <1>3
<1>5. \A g \in Handles : \A x : Has(asked'[g], x) => Has(asked[g], x)
  BY <1>3, <1>4
<1>6. h \in opens
  BY <1>1 DEF BaseInv, Quiet
<1>7. \/ UNCHANGED <<channels, inbox>>
      \/ /\ channels' = [channels EXCEPT ![h] = @ \cup {[c |-> Head(asked[h]), by |-> "us"]}]
         /\ Says(h, "CONN_RSP", Head(asked[h]))
  BY Zenon DEF PeerAnswers
<1> QED BY <1>1, <1>3, <1>4, <1>5, <1>6, <1>7

\* Nothing of the peer's touches a link that is not there.
LEMMA PeerAnswersBase ==
  ASSUME BaseInv, NEW h \in Handles, NEW yes \in BOOLEAN, PeerAnswers(h, yes)
  PROVE  BaseInv'
<1>0. /\ HostOK /\ FlagsOK /\ DcidOK /\ TimersOK /\ CountsOK /\ LinksOK /\ QueuesOK /\ SetsOK
      /\ SlipsOK /\ ChannelsTypeOK /\ Quiet /\ UsesCounted
  BY TypeParts DEF BaseInv
<1> DEFINE c == Head(asked[h])
<1>1. /\ h \in opens /\ c \in Names
      /\ asked' \in [Handles -> Seq(Names)] /\ asked' = [asked EXCEPT ![h] = Tail(asked[h])]
      /\ \/ UNCHANGED <<channels, inbox>>
         \/ /\ channels' = [channels EXCEPT ![h] = @ \cup {[c |-> c, by |-> "us"]}]
            /\ Says(h, "CONN_RSP", c)
  BY PeerAnswersDoes
<1>2. /\ UNCHANGED <<endVars, use, called, security, theirs, configured, owed, ready, recordAsked,
                     slipVars>>
      /\ denied' = (denied \/ (~yes /\ h = handle))
  BY Zenon DEF PeerAnswers
<1> HIDE DEF c
<1>3. /\ inbox' \in [Handles -> Seq(Messages)]
      /\ \A g \in Handles : g # h => inbox'[g] = inbox[g]
  <2>1. CASE UNCHANGED <<channels, inbox>>
    BY <1>0, <2>1 DEF QueuesOK
  <2>2. CASE Says(h, "CONN_RSP", c)
    <3>1. "CONN_RSP" \in Codes
      BY DEF Codes
    <3> QED BY <1>0, <1>1, <2>2, <3>1, SaysDoes
  <2> QED BY <1>1, <2>1, <2>2
<1>4. /\ channels' \in [Handles -> SUBSET Ends]
      /\ \A g \in Handles : g # h => channels'[g] = channels[g]
  <2>1. [c |-> c, by |-> "us"] \in Ends
    BY <1>1 DEF Ends
  <2> QED BY <1>0, <1>1, <2>1 DEF SetsOK
<1>5. FlagsOK'
  <2>1. denied' \in BOOLEAN
    BY <1>2, Zenon
  <2> QED BY <1>0, <1>2, <2>1 DEF FlagsOK, endVars
<1>6. HostOK' /\ DcidOK' /\ TimersOK' /\ CountsOK' /\ LinksOK' /\ UsesCounted'
  BY <1>0, <1>2 DEF HostOK, DcidOK, TimersOK, CountsOK, LinksOK, UsesCounted, endVars
<1>7. QueuesOK' /\ SetsOK'
  BY <1>0, <1>1, <1>2, <1>3, <1>4 DEF QueuesOK, SetsOK
<1>8. Quiet'
  <2>1. \A g \in Handles : g # h => asked'[g] = asked[g]
    BY <1>0, <1>1 DEF QueuesOK
  <2> QED BY <1>0, <1>1, <1>2, <1>3, <1>4, <2>1 DEF Quiet, endVars
<1>9. SlipsOK'
  BY <1>0, <1>2, SlipsStep DEF slipVars
<1> QED BY <1>5, <1>6, <1>7, <1>8, <1>9, TypeJoin DEF BaseInv

\* The peer asks for a channel, configures one or accepts our configuration.
LEMMA PeerSpeaksBase ==
  ASSUME BaseInv, NEW h \in Handles, NEW c \in Names, NEW code \in Codes, Says(h, code, c),
         h \in opens, UNCHANGED <<endVars, use, called, security, asked, answerVars, slipVars>>,
         channels' = channels,
         NEW t \in SUBSET Names, theirs' = [theirs EXCEPT ![h] = t],
         NEW e \in SUBSET Ends, configured' = [configured EXCEPT ![h] = e],
         NEW o \in SUBSET Ends, owed' = [owed EXCEPT ![h] = o]
  PROVE  BaseInv'
<1>0. /\ HostOK /\ FlagsOK /\ DcidOK /\ TimersOK /\ CountsOK /\ LinksOK /\ QueuesOK /\ SetsOK
      /\ SlipsOK /\ ChannelsTypeOK /\ Quiet /\ UsesCounted
  BY TypeParts DEF BaseInv
<1>1. /\ inbox' \in [Handles -> Seq(Messages)]
      /\ \A g \in Handles : g # h => inbox'[g] = inbox[g]
  BY <1>0, SaysDoes
<1>2. /\ SetsOK'
      /\ \A g \in Handles : g # h =>
            theirs'[g] = theirs[g] /\ configured'[g] = configured[g] /\ owed'[g] = owed[g]
  BY <1>0 DEF SetsOK
<1>3. HostOK' /\ FlagsOK' /\ DcidOK' /\ TimersOK' /\ CountsOK' /\ LinksOK' /\ UsesCounted'
  BY <1>0 DEF HostOK, FlagsOK, DcidOK, TimersOK, CountsOK, LinksOK, UsesCounted, endVars, answerVars
<1>4. QueuesOK'
  BY <1>0, <1>1 DEF QueuesOK
<1>5. Quiet'
  BY <1>0, <1>1, <1>2 DEF Quiet, endVars
<1>6. SlipsOK'
  BY <1>0, SlipsStep DEF slipVars
<1> QED BY <1>2, <1>3, <1>4, <1>5, <1>6, TypeJoin DEF BaseInv

\* Writing back what is there changes nothing.
LEMMA SameExcept ==
  ASSUME NEW S, NEW T, NEW f \in [S -> T], NEW x \in S
  PROVE  f = [f EXCEPT ![x] = f[x]]
OBVIOUS

LEMMA PeerRequestsBase ==
  ASSUME BaseInv, NEW h \in Handles, NEW c \in Names, PeerRequests(h, c)
  PROVE  BaseInv'
<1>1. SetsOK
  BY TypeParts DEF BaseInv
<1>2. /\ h \in opens /\ theirs' = [theirs EXCEPT ![h] = theirs[h] \cup {c}]
      /\ Says(h, "CONN_REQ", c)
      /\ UNCHANGED <<endVars, use, called, security, asked, channels, configured, owed, answerVars,
                     slipVars>>
  BY Zenon DEF PeerRequests
<1>3. /\ configured' = [configured EXCEPT ![h] = configured[h]]
      /\ owed' = [owed EXCEPT ![h] = owed[h]]
  BY <1>1, <1>2, SameExcept DEF SetsOK
<1>4. theirs[h] \cup {c} \in SUBSET Names /\ configured[h] \in SUBSET Ends /\ owed[h] \in SUBSET Ends
  BY <1>1 DEF SetsOK
<1>5. "CONN_REQ" \in Codes
  BY DEF Codes
<1> QED BY <1>2, <1>3, <1>4, <1>5, PeerSpeaksBase

LEMMA PeerConfiguresBase ==
  ASSUME BaseInv, NEW h \in Handles, NEW ch \in channels[h], PeerConfigures(h, ch)
  PROVE  BaseInv'
<1>1. SetsOK /\ Quiet
  BY TypeParts DEF BaseInv
<1>2. ch \in Ends /\ ch.c \in Names /\ h \in opens
  BY <1>1 DEF SetsOK, Ends, Quiet
<1>3. /\ configured' = [configured EXCEPT ![h] = configured[h] \cup {ch}]
      /\ Says(h, "CONF_REQ", ch.c)
      /\ UNCHANGED <<endVars, use, called, security, asked, channels, theirs, owed, answerVars,
                     slipVars>>
  BY Zenon DEF PeerConfigures
<1>4. theirs' = [theirs EXCEPT ![h] = theirs[h]] /\ owed' = [owed EXCEPT ![h] = owed[h]]
  BY <1>1, <1>3, SameExcept DEF SetsOK
<1>5. theirs[h] \in SUBSET Names /\ configured[h] \cup {ch} \in SUBSET Ends /\ owed[h] \in SUBSET Ends
  BY <1>1, <1>2 DEF SetsOK
<1>6. "CONF_REQ" \in Codes
  BY DEF Codes
<1> QED BY <1>2, <1>3, <1>4, <1>5, <1>6, PeerSpeaksBase

LEMMA PeerAcceptsBase ==
  ASSUME BaseInv, NEW h \in Handles, NEW ch \in channels[h], PeerAccepts(h, ch)
  PROVE  BaseInv'
<1>1. SetsOK /\ Quiet
  BY TypeParts DEF BaseInv
<1>2. ch \in Ends /\ ch.c \in Names /\ h \in opens
  BY <1>1 DEF SetsOK, Ends, Quiet
<1>3. /\ owed' = [owed EXCEPT ![h] = owed[h] \ {ch}]
      /\ Says(h, "CONF_RSP", ch.c)
      /\ UNCHANGED <<endVars, use, called, security, asked, channels, theirs, configured, answerVars,
                     slipVars>>
  BY Zenon DEF PeerAccepts
<1>4. /\ theirs' = [theirs EXCEPT ![h] = theirs[h]]
      /\ configured' = [configured EXCEPT ![h] = configured[h]]
  BY <1>1, <1>3, SameExcept DEF SetsOK
<1>5. theirs[h] \in SUBSET Names /\ configured[h] \in SUBSET Ends /\ owed[h] \ {ch} \in SUBSET Ends
  BY <1>1, <1>2 DEF SetsOK
<1>6. "CONF_RSP" \in Codes
  BY DEF Codes
<1> QED BY <1>2, <1>3, <1>4, <1>5, <1>6, PeerSpeaksBase

LEMMA PeerClosesChannelBase ==
  ASSUME BaseInv, NEW h \in Handles, NEW ch \in channels[h], PeerClosesChannel(h, ch)
  PROVE  BaseInv'
<1>0. /\ HostOK /\ FlagsOK /\ DcidOK /\ TimersOK /\ CountsOK /\ LinksOK /\ QueuesOK /\ SetsOK
      /\ SlipsOK /\ ChannelsTypeOK /\ Quiet /\ UsesCounted
  BY TypeParts DEF BaseInv
<1>1. ch \in Ends /\ ch.c \in Names /\ h \in opens
  BY <1>0 DEF SetsOK, Ends, Quiet
<1>2. /\ channels' = [channels EXCEPT ![h] = channels[h] \ {ch}]
      /\ Says(h, "DISCONN_REQ", ch.c)
      /\ denied' = (denied \/ h = handle)
      /\ UNCHANGED <<endVars, use, called, security, asked, theirs, configured, owed, ready, recordAsked,
                     slipVars>>
  BY Zenon DEF PeerClosesChannel
<1>3. "DISCONN_REQ" \in Codes
  BY DEF Codes
<1>4. /\ inbox' \in [Handles -> Seq(Messages)]
      /\ \A g \in Handles : g # h => inbox'[g] = inbox[g]
  BY <1>0, <1>1, <1>2, <1>3, SaysDoes
<1>5. FlagsOK'
  <2>1. denied' \in BOOLEAN
    BY <1>2, Zenon
  <2> QED BY <1>0, <1>2, <2>1 DEF FlagsOK, endVars
<1>6. HostOK' /\ DcidOK' /\ TimersOK' /\ CountsOK' /\ LinksOK' /\ UsesCounted'
  BY <1>0, <1>2 DEF HostOK, DcidOK, TimersOK, CountsOK, LinksOK, UsesCounted, endVars
<1>7. QueuesOK' /\ SetsOK' /\ \A g \in Handles : g # h => channels'[g] = channels[g]
  BY <1>0, <1>2, <1>4 DEF QueuesOK, SetsOK
<1>8. Quiet'
  BY <1>0, <1>1, <1>2, <1>4, <1>7 DEF Quiet, endVars
<1>9. SlipsOK'
  BY <1>0, <1>2, SlipsStep DEF slipVars
<1> QED BY <1>5, <1>6, <1>7, <1>8, <1>9, TypeJoin DEF BaseInv

\* A step that changes nothing keeps it.
LEMMA StutterBase ==
  ASSUME BaseInv, UNCHANGED channelsVars
  PROVE  BaseInv'
BY DEF BaseInv, ChannelsTypeOK, Quiet, UsesCounted, Cid, channelsVars, endVars, otherEndVars,
       answerVars, slipVars

\* The actions of ChannelsNext, one by one.
LEMMA NextCases ==
  ASSUME ChannelsNext
  PROVE  \/ \E h \in Handles :
               \/ \E call, flag \in BOOLEAN : LinkUp(h, call, flag)
               \/ LinkDown(h)
               \/ AuthComplete(h) \/ EncryptChange(h)
               \/ Receive(h)
               \/ \E yes \in BOOLEAN : PeerAnswers(h, yes)
               \/ \E c \in Names : PeerRequests(h, c)
               \/ \E ch \in channels[h] :
                     PeerConfigures(h, ch) \/ PeerAccepts(h, ch) \/ PeerClosesChannel(h, ch)
         \/ \E h \in Handles \cup {NoLink} : StepIn(h)
BY DEF ChannelsNext, Peer

LEMMA NextBase ==
  ASSUME BaseInv, [ChannelsNext]_channelsVars
  PROVE  BaseInv'
<1>1. ASSUME NEW h \in Handles, NEW call \in BOOLEAN, NEW flag \in BOOLEAN,
         LinkUp(h, call, flag) PROVE BaseInv'
  BY <1>1, LinkUpBase
<1>2. ASSUME NEW h \in Handles, LinkDown(h) PROVE BaseInv'
  BY <1>2, LinkDownBase
<1>3. ASSUME NEW h \in Handles, AuthComplete(h) \/ EncryptChange(h) PROVE BaseInv'
  BY <1>3, SecureBase
<1>4. ASSUME NEW h \in Handles, Receive(h) PROVE BaseInv'
  BY <1>4, ReceiveBase
<1>5. ASSUME NEW h \in Handles, NEW yes \in BOOLEAN, PeerAnswers(h, yes) PROVE BaseInv'
  BY <1>5, PeerAnswersBase
<1>6. ASSUME NEW h \in Handles, NEW c \in Names, PeerRequests(h, c) PROVE BaseInv'
  BY <1>6, PeerRequestsBase
<1>7. ASSUME NEW h \in Handles, NEW ch \in channels[h], PeerConfigures(h, ch) PROVE BaseInv'
  BY <1>7, PeerConfiguresBase
<1>8. ASSUME NEW h \in Handles, NEW ch \in channels[h], PeerAccepts(h, ch) PROVE BaseInv'
  BY <1>8, PeerAcceptsBase
<1>9. ASSUME NEW h \in Handles, NEW ch \in channels[h], PeerClosesChannel(h, ch) PROVE BaseInv'
  BY <1>9, PeerClosesChannelBase
<1>10. ASSUME NEW h \in Handles \cup {NoLink}, StepIn(h) PROVE BaseInv'
  BY <1>10, StepInBase
<1>11. CASE ChannelsNext
  BY <1>1, <1>2, <1>3, <1>4, <1>5, <1>6, <1>7, <1>8, <1>9, <1>10, <1>11, NextCases
<1>12. CASE UNCHANGED channelsVars
  BY <1>12, StutterBase
<1> QED BY <1>11, <1>12

\* Every variable has its type, at any time.
THEOREM ChannelsTypeCorrect == ChannelsSpec => []ChannelsTypeOK
<1>1. ChannelsInit => BaseInv
  BY InitBase
<1>2. BaseInv /\ [ChannelsNext]_channelsVars => BaseInv'
  BY NextBase
<1>3. BaseInv => ChannelsTypeOK
  BY DEF BaseInv
<1> QED BY <1>1, <1>2, <1>3, PTL DEF ChannelsSpec

-----------------------------------------------------------------------------
(* Whoever called opens the channels.                                      *)

CallerOpens == IncomingTells /\ NoTimers /\ WeAsk /\ WeOpened /\ PadAsks /\ PadOpened

\* While the links stay, it is enough that what is new with the pad is allowed.
LEMMA CallerStep ==
  ASSUME CallerOpens,
         UNCHANGED <<side, handle, opens, incoming, called, mistaken>>,
         side = "pad" => \A h \in Handles \cup {NoLink} : timers'[h] = timers[h],
         side = "pad" => \A h \in Handles, c \in Names :
            /\ Has(asked'[h], c) => Has(asked[h], c) \/ c = "records" \/ Ours(h)
            /\ [c |-> c, by |-> "us"] \in channels'[h] =>
                  [c |-> c, by |-> "us"] \in channels[h] \/ c = "records" \/ Ours(h)
            /\ Has(inbox'[h], [code |-> "CONN_REQ", c |-> c]) =>
                  Has(inbox[h], [code |-> "CONN_REQ", c |-> c]) \/ (c # "records" /\ called[h])
            /\ [c |-> c, by |-> "peer"] \in channels'[h] =>
                  [c |-> c, by |-> "peer"] \in channels[h] \/ (c # "records" /\ called[h])
  PROVE  CallerOpens'
<1>1. IncomingTells'
  BY DEF CallerOpens, IncomingTells
<1>2. NoTimers'
  BY DEF CallerOpens, NoTimers
<1>3. WeAsk'
  BY DEF CallerOpens, WeAsk, Ours
<1>4. WeOpened'
  BY DEF CallerOpens, WeOpened, Ours
<1>5. PadAsks'
  BY DEF CallerOpens, PadAsks
<1>6. PadOpened'
  BY DEF CallerOpens, PadOpened
<1> QED BY <1>1, <1>2, <1>3, <1>4, <1>5, <1>6 DEF CallerOpens

LEMMA InitCaller == ChannelsInit => CallerOpens
<1> SUFFICES ASSUME ChannelsInit PROVE CallerOpens
  OBVIOUS
<1>1. IncomingTells /\ NoTimers
  BY DEF ChannelsInit, IncomingTells, NoTimers
<1>2. \A h \in Handles : asked[h] = <<>> /\ inbox[h] = <<>> /\ channels[h] = {}
  BY DEF ChannelsInit
<1>3. WeAsk /\ PadAsks
  BY <1>2, HasEmpty DEF WeAsk, PadAsks
<1>4. WeOpened /\ PadOpened
  BY <1>2 DEF WeOpened, PadOpened
<1> QED BY <1>1, <1>3, <1>4 DEF CallerOpens

\* Who called is settled before anything is on its way.
LEMMA LinkUpCaller ==
  ASSUME BaseInv, CallerOpens, NEW h \in Handles, NEW call \in BOOLEAN, NEW flag \in BOOLEAN,
         LinkUp(h, call, flag)
  PROVE  CallerOpens'
<1>1. /\ h \notin opens /\ handle' = h /\ incoming' = flag /\ opens' = opens \cup {h}
      /\ called' = [called EXCEPT ![h] = side = "pad" /\ call]
      /\ mistaken' = [mistaken EXCEPT ![h] = side = "pad" /\ flag # call]
      /\ UNCHANGED <<side, timers, asked, inbox, channels>>
  BY Zenon DEF LinkUp
<1>2. called \in [Handles -> BOOLEAN] /\ mistaken \in [Handles -> BOOLEAN]
  BY DEF BaseInv, ChannelsTypeOK
<1>3. /\ called'[h] = (side = "pad" /\ call) /\ mistaken'[h] = (side = "pad" /\ flag # call)
      /\ \A g \in Handles : g # h => called'[g] = called[g] /\ mistaken'[g] = mistaken[g]
  BY <1>1, <1>2
<1>4. asked[h] = <<>> /\ inbox[h] = <<>> /\ channels[h] = {}
  BY <1>1 DEF BaseInv, Quiet
<1>5. IncomingTells'
  BY <1>1, <1>3 DEF IncomingTells
<1>6. NoTimers'
  BY <1>1 DEF CallerOpens, NoTimers
<1>7. WeAsk' /\ PadAsks'
  <2>1. \A x : ~Has(asked[h], x) /\ ~Has(inbox[h], x)
    BY <1>4, HasEmpty
  <2> QED BY <1>1, <1>3, <2>1 DEF CallerOpens, WeAsk, PadAsks, Ours
<1>8. WeOpened' /\ PadOpened'
  BY <1>1, <1>3, <1>4 DEF CallerOpens, WeOpened, PadOpened, Ours
<1> QED BY <1>5, <1>6, <1>7, <1>8 DEF CallerOpens

LEMMA LinkDownCaller ==
  ASSUME BaseInv, CallerOpens, NEW h \in Handles, LinkDown(h)
  PROVE  CallerOpens'
<1>0. /\ asked \in [Handles -> Seq(Names)] /\ inbox \in [Handles -> Seq(Messages)]
      /\ channels \in [Handles -> SUBSET Ends] /\ opens \subseteq Handles
      /\ called \in [Handles -> BOOLEAN] /\ mistaken \in [Handles -> BOOLEAN]
  BY DEF BaseInv, ChannelsTypeOK
<1>1. /\ opens' = opens \ {h} /\ handle' = Left(h)
      /\ asked' = [asked EXCEPT ![h] = <<>>] /\ inbox' = [inbox EXCEPT ![h] = <<>>]
      /\ channels' = [channels EXCEPT ![h] = {}]
      /\ h # handle => incoming' = incoming
      /\ called' = [called EXCEPT ![h] = FALSE] /\ mistaken' = [mistaken EXCEPT ![h] = FALSE]
      /\ UNCHANGED <<side, timers>>
  BY Zenon DEF LinkDown
<1>2. \A g \in Handles :
         /\ asked'[g] = IF g = h THEN <<>> ELSE asked[g]
         /\ inbox'[g] = IF g = h THEN <<>> ELSE inbox[g]
         /\ channels'[g] = IF g = h THEN {} ELSE channels[g]
         /\ g # h => called'[g] = called[g] /\ mistaken'[g] = mistaken[g]
  BY <1>0, <1>1
<1>3. IncomingTells'
  BY <1>0, <1>1, <1>2, HandlesAssumption DEF Left, CallerOpens, IncomingTells
<1>4. NoTimers'
  BY <1>1 DEF CallerOpens, NoTimers
<1>5. WeAsk /\ PadAsks /\ WeOpened /\ PadOpened /\ side' = side
  BY <1>1 DEF CallerOpens
<1>6. \A x : ~Has(asked'[h], x) /\ ~Has(inbox'[h], x)
  BY <1>2, HasEmpty
<1>7. channels'[h] = {}
  BY <1>2
<1>8. ASSUME side = "pad", NEW g \in Handles, g # h, NEW c \in Names
      PROVE  /\ Has(asked'[g], c) => c = "records" \/ ~called'[g] \/ mistaken'[g]
             /\ Has(inbox'[g], [code |-> "CONN_REQ", c |-> c]) => c # "records" /\ called'[g]
             /\ [c |-> c, by |-> "us"] \in channels'[g] =>
                   c = "records" \/ ~called'[g] \/ mistaken'[g]
             /\ [c |-> c, by |-> "peer"] \in channels'[g] => c # "records" /\ called'[g]
  <2>1. /\ asked'[g] = asked[g] /\ inbox'[g] = inbox[g] /\ channels'[g] = channels[g]
        /\ called'[g] = called[g] /\ mistaken'[g] = mistaken[g]
    BY <1>2, <1>8
  <2> QED BY <1>5, <1>8, <2>1, Zenon DEF WeAsk, PadAsks, WeOpened, PadOpened, Ours
<1>9. WeAsk' /\ PadAsks'
  BY <1>5, <1>6, <1>8, ZenonT(60) DEF WeAsk, PadAsks, Ours
<1>10. WeOpened' /\ PadOpened'
  BY <1>5, <1>7, <1>8, ZenonT(60) DEF WeOpened, PadOpened, Ours
<1> QED BY <1>3, <1>4, <1>9, <1>10 DEF CallerOpens

\* Only the SDP channel to the pad is asked for whoever opened the link.
LEMMA SecureCaller ==
  ASSUME BaseInv, CallerOpens, NEW h \in Handles, AuthComplete(h) \/ EncryptChange(h)
  PROVE  CallerOpens'
<1>1. UNCHANGED <<side, handle, opens, incoming, called, mistaken, timers, inbox, channels>>
  BY Zenon DEF AuthComplete, EncryptChange, endVars, slipVars
<1>2. asked' = asked \/ Ask("records")
  BY Zenon DEF AuthComplete, EncryptChange
<1>3. \A g \in Handles, c \in Names : Has(asked'[g], c) => Has(asked[g], c) \/ c = "records"
  <2>1. CASE asked' = asked
    BY <2>1
  <2>2. CASE Ask("records")
    <3>1. "records" \in Names /\ ChannelsTypeOK
      BY DEF Names, BaseInv
    <3> QED BY <2>2, <3>1, AskDoes
  <2> QED BY <1>2, <2>1, <2>2
<1> QED BY <1>1, <1>3, CallerStep

\* The next channel of the chain is asked for on a link we dialled.
LEMMA ReceiveCaller ==
  ASSUME BaseInv, CallerOpens, NEW h \in Handles, Receive(h)
  PROVE  CallerOpens'
<1> DEFINE m == Head(inbox[h])
<1>0. ChannelsTypeOK
  BY DEF BaseInv
<1>1. /\ \A g \in Handles : \A x : Has(inbox'[g], x) => Has(inbox[g], x)
      /\ m \in Messages /\ Has(inbox[h], m) /\ Handled(h, m)
  BY <1>0, ReceiveDoes
<1>2. UNCHANGED <<side, handle, opens, incoming, called, mistaken>>
  BY ReceiveLeaves
<1> HIDE DEF m
<1>3. side = "pad" => timers' = timers
  BY <1>1 DEF Handled, ConnResponse, ConnRequest, ConfRequest, ConfResponse, DisconnRequest,
              WaitsForInterrupt
<1>4. ASSUME side = "pad", NEW g \in Handles, NEW c \in Names, Has(asked'[g], c)
      PROVE  Has(asked[g], c) \/ Ours(g)
  <2>1. CASE asked' = asked
    BY <1>4, <2>1
  <2>2. CASE asked' # asked
    <3>1. ~incoming /\ (Ask("control") \/ Ask("interrupt"))
      BY <1>1, <2>2 DEF Handled, ConnResponse, ConnRequest, ConfRequest, ConfResponse, DisconnRequest,
                        Chains
    <3>2. "control" \in Names /\ "interrupt" \in Names
      BY DEF Names
    <3>3. Has(asked[g], c) \/ (g = handle /\ handle \in opens)
      <4>1. CASE Ask("control")
        BY <1>0, <1>4, <3>2, <4>1, AskDoes
      <4>2. CASE Ask("interrupt")
        BY <1>0, <1>4, <3>2, <4>2, AskDoes
      <4> QED BY <3>1, <4>1, <4>2
    <3> QED BY <1>4, <3>1, <3>3 DEF CallerOpens, IncomingTells, Ours
  <2> QED BY <2>1, <2>2
<1>5. ASSUME side = "pad", NEW g \in Handles, NEW c \in Names,
             NEW by \in {"us", "peer"}, [c |-> c, by |-> by] \in channels'[g]
      PROVE  \/ [c |-> c, by |-> by] \in channels[g]
             \/ by = "peer" /\ c # "records" /\ called[g]
  <2>1. CASE channels' = channels
    BY <1>5, <2>1
  <2>2. CASE channels' # channels
    <3>1. /\ m.code = "CONN_REQ"
          /\ channels' = [channels EXCEPT ![h] = @ \cup {[c |-> m.c, by |-> "peer"]}]
      BY <1>1, <2>2 DEF Handled, ConnResponse, ConnRequest, ConfRequest, ConfResponse, DisconnRequest
    <3>2. m = [code |-> "CONN_REQ", c |-> m.c] /\ m.c \in Names
      BY <1>1, <3>1 DEF Messages
    <3>3. m.c # "records" /\ called[h]
      BY <1>1, <1>5, <3>2 DEF CallerOpens, PadAsks
    <3>4. channels \in [Handles -> SUBSET Ends]
      BY <1>0 DEF ChannelsTypeOK
    <3>5. \/ [c |-> c, by |-> by] \in channels[g]
          \/ g = h /\ [c |-> c, by |-> by] = [c |-> m.c, by |-> "peer"]
      BY <1>5, <3>1, <3>4
    <3> QED BY <3>3, <3>5
  <2> QED BY <2>1, <2>2
<1>6. side = "pad" => \A g \in Handles, c \in Names :
         /\ [c |-> c, by |-> "us"] \in channels'[g] => [c |-> c, by |-> "us"] \in channels[g]
         /\ [c |-> c, by |-> "peer"] \in channels'[g] =>
               [c |-> c, by |-> "peer"] \in channels[g] \/ (c # "records" /\ called[g])
  BY <1>5, Zenon
<1> QED BY <1>1, <1>2, <1>3, <1>4, <1>6, CallerStep

\* With the pad no timer runs.
LEMMA StepInCaller ==
  ASSUME BaseInv, CallerOpens, NEW h \in Handles \cup {NoLink}, StepIn(h)
  PROVE  CallerOpens'
<1>1. timers[h] > 0 /\ UNCHANGED <<side, handle, opens, incoming, called, mistaken, inbox, channels>>
  BY Zenon DEF StepIn, slipVars
<1>2. side # "pad"
  BY <1>1 DEF CallerOpens, NoTimers
<1> QED BY <1>1, <1>2, CallerStep

\* What the pad opens for us we had asked for.
LEMMA PeerAnswersCaller ==
  ASSUME BaseInv, CallerOpens, NEW h \in Handles, NEW yes \in BOOLEAN, PeerAnswers(h, yes)
  PROVE  CallerOpens'
<1> DEFINE q == Head(asked[h])
<1>0. ChannelsTypeOK /\ channels \in [Handles -> SUBSET Ends]
  BY DEF BaseInv, ChannelsTypeOK
<1>1. /\ q \in Names /\ Has(asked[h], q)
      /\ \A g \in Handles : \A x : Has(asked'[g], x) => Has(asked[g], x)
      /\ \/ UNCHANGED <<channels, inbox>>
         \/ /\ channels' = [channels EXCEPT ![h] = @ \cup {[c |-> q, by |-> "us"]}]
            /\ Says(h, "CONN_RSP", q)
  BY PeerAnswersDoes
<1>2. UNCHANGED <<side, handle, opens, incoming, called, mistaken, timers>>
  BY Zenon DEF PeerAnswers, endVars, slipVars
<1> HIDE DEF q
<1>3. side = "pad" => q = "records" \/ Ours(h)
  BY <1>1 DEF CallerOpens, WeAsk
<1>4. CASE UNCHANGED <<channels, inbox>>
  BY <1>1, <1>2, <1>4, CallerStep
<1>5. CASE /\ channels' = [channels EXCEPT ![h] = @ \cup {[c |-> q, by |-> "us"]}]
           /\ Says(h, "CONN_RSP", q)
  <2>1. "CONN_RSP" \in Codes
    BY DEF Codes
  <2>2. /\ \A g \in Handles : g # h => inbox'[g] = inbox[g]
        /\ \A x : Has(inbox'[h], x) <=> Has(inbox[h], x) \/ x = [code |-> "CONN_RSP", c |-> q]
    BY <1>0, <1>1, <1>5, <2>1, SaysDoes
  <2>3. \A g \in Handles, c \in Names :
           Has(inbox'[g], [code |-> "CONN_REQ", c |-> c]) => Has(inbox[g], [code |-> "CONN_REQ", c |-> c])
    BY <2>2
  <2>4. \A g \in Handles, c \in Names :
           /\ [c |-> c, by |-> "peer"] \in channels'[g] => [c |-> c, by |-> "peer"] \in channels[g]
           /\ [c |-> c, by |-> "us"] \in channels'[g] =>
                 [c |-> c, by |-> "us"] \in channels[g] \/ (g = h /\ c = q)
    BY <1>0, <1>5
  <2> QED BY <1>1, <1>2, <1>3, <2>3, <2>4, CallerStep
<1> QED BY <1>1, <1>4, <1>5

\* The pad asks for its HID channels on a link it opened.
LEMMA PeerRequestsCaller ==
  ASSUME BaseInv, CallerOpens, NEW h \in Handles, NEW c \in Names, PeerRequests(h, c)
  PROVE  CallerOpens'
<1>0. ChannelsTypeOK
  BY DEF BaseInv
<1>1. /\ side = "pad" => called[h]
      /\ \E wanted \in Asks : theirs[h] \cup {c} \subseteq wanted
      /\ Says(h, "CONN_REQ", c)
      /\ UNCHANGED <<side, handle, opens, incoming, called, mistaken, timers, asked, channels>>
  BY Zenon DEF PeerRequests, endVars, slipVars
<1>2. c # "records"
  BY <1>1, SetupAsksAssumption
<1>3. "CONN_REQ" \in Codes
  BY DEF Codes
<1>4. /\ \A g \in Handles : g # h => inbox'[g] = inbox[g]
      /\ \A x : Has(inbox'[h], x) <=> Has(inbox[h], x) \/ x = [code |-> "CONN_REQ", c |-> c]
  BY <1>0, <1>1, <1>3, SaysDoes
<1>5. \A g \in Handles, d \in Names :
         Has(inbox'[g], [code |-> "CONN_REQ", c |-> d]) =>
            Has(inbox[g], [code |-> "CONN_REQ", c |-> d]) \/ (g = h /\ d = c)
  BY <1>4
<1> QED BY <1>1, <1>2, <1>5, CallerStep

\* The rest of what the peer does opens nothing and asks for nothing.
LEMMA PeerRestCaller ==
  ASSUME BaseInv, CallerOpens, NEW h \in Handles, NEW ch \in channels[h],
         PeerConfigures(h, ch) \/ PeerAccepts(h, ch) \/ PeerClosesChannel(h, ch)
  PROVE  CallerOpens'
<1>0. ChannelsTypeOK /\ channels \in [Handles -> SUBSET Ends]
  BY DEF BaseInv, ChannelsTypeOK
<1>1. ch.c \in Names
  BY <1>0 DEF Ends
<1>2. /\ UNCHANGED <<side, handle, opens, incoming, called, mistaken, timers, asked>>
      /\ \E code \in {"CONF_REQ", "CONF_RSP", "DISCONN_REQ"} : Says(h, code, ch.c)
      /\ channels' = channels \/ channels' = [channels EXCEPT ![h] = @ \ {ch}]
  BY DEF PeerConfigures, PeerAccepts, PeerClosesChannel, endVars, slipVars
<1>3. PICK code \in {"CONF_REQ", "CONF_RSP", "DISCONN_REQ"} : Says(h, code, ch.c)
  BY <1>2
<1>4. code \in Codes
  BY DEF Codes
<1>5. /\ \A g \in Handles : g # h => inbox'[g] = inbox[g]
      /\ \A x : Has(inbox'[h], x) <=> Has(inbox[h], x) \/ x = [code |-> code, c |-> ch.c]
  BY <1>0, <1>1, <1>3, <1>4, SaysDoes
<1>6. \A g \in Handles, d \in Names :
         Has(inbox'[g], [code |-> "CONN_REQ", c |-> d]) => Has(inbox[g], [code |-> "CONN_REQ", c |-> d])
  BY <1>5
<1>7. \A g \in Handles : channels'[g] \subseteq channels[g]
  BY <1>0, <1>2
<1> QED BY <1>2, <1>6, <1>7, CallerStep

LEMMA StutterCaller ==
  ASSUME CallerOpens, UNCHANGED channelsVars
  PROVE  CallerOpens'
BY CallerStep DEF channelsVars, endVars, otherEndVars, answerVars, slipVars

LEMMA NextCaller ==
  ASSUME BaseInv, CallerOpens, [ChannelsNext]_channelsVars
  PROVE  CallerOpens'
<1>1. ASSUME NEW h \in Handles, NEW call \in BOOLEAN, NEW flag \in BOOLEAN,
         LinkUp(h, call, flag) PROVE CallerOpens'
  BY <1>1, LinkUpCaller
<1>2. ASSUME NEW h \in Handles, LinkDown(h) PROVE CallerOpens'
  BY <1>2, LinkDownCaller
<1>3. ASSUME NEW h \in Handles, AuthComplete(h) \/ EncryptChange(h) PROVE CallerOpens'
  BY <1>3, SecureCaller
<1>4. ASSUME NEW h \in Handles, Receive(h) PROVE CallerOpens'
  BY <1>4, ReceiveCaller
<1>5. ASSUME NEW h \in Handles, NEW yes \in BOOLEAN, PeerAnswers(h, yes) PROVE CallerOpens'
  BY <1>5, PeerAnswersCaller
<1>6. ASSUME NEW h \in Handles, NEW c \in Names, PeerRequests(h, c) PROVE CallerOpens'
  BY <1>6, PeerRequestsCaller
<1>7. ASSUME NEW h \in Handles, NEW ch \in channels[h],
             PeerConfigures(h, ch) \/ PeerAccepts(h, ch) \/ PeerClosesChannel(h, ch)
      PROVE  CallerOpens'
  BY <1>7, PeerRestCaller
<1>8. ASSUME NEW h \in Handles \cup {NoLink}, StepIn(h) PROVE CallerOpens'
  BY <1>8, StepInCaller
<1>9. CASE ChannelsNext
  BY <1>1, <1>2, <1>3, <1>4, <1>5, <1>6, <1>7, <1>8, <1>9, NextCases
<1>10. CASE UNCHANGED channelsVars
  BY <1>10, StutterCaller
<1> QED BY <1>9, <1>10

\* With the pad no PSM has two channels on one link, unless a call of the pad's is
\* taken for a page of ours: what we open is the SDP channel, or on a link that we
\* dialled or believe to have dialled; what the pad opens is neither.
THEOREM OneChannelPerPsmTheorem == ChannelsSpec => []OneChannelPerPsm
<1>1. ChannelsInit => BaseInv /\ CallerOpens
  BY InitBase, InitCaller
<1>2. BaseInv /\ CallerOpens /\ [ChannelsNext]_channelsVars => BaseInv' /\ CallerOpens'
  BY NextBase, NextCaller
<1>3. CallerOpens => OneChannelPerPsm
  BY DEF CallerOpens, WeOpened, PadOpened, OneChannelPerPsm, Twice, Ours
<1> QED BY <1>1, <1>2, <1>3, PTL DEF ChannelsSpec

-----------------------------------------------------------------------------
(* The channels are those of this link.                                    *)

\* With what a yes means, this is inductive, whichever links the peer holds.
CurrentInv == YesMeansOpen /\ ChannelsOfThisLink

\* While the link and our channels stay, the peer may open channels, close what it
\* closes, and say yes to what is open.
LEMMA CurrentStep ==
  ASSUME CurrentInv,
         UNCHANGED <<handle, opens, dcid, use, astray>>, opens \subseteq Handles,
         \A by : \A h \in Handles, c \in Names :
            [c |-> c, by |-> by] \in channels[h] => c \in Closes \/ [c |-> c, by |-> by] \in channels'[h],
         \A h \in Handles, c \in Names :
            Has(inbox'[h], [code |-> "CONN_RSP", c |-> c]) =>
               \/ Has(inbox[h], [code |-> "CONN_RSP", c |-> c])
               \/ [c |-> c, by |-> "us"] \in channels'[h]
  PROVE  CurrentInv'
<1>2. YesMeansOpen'
  BY DEF CurrentInv, YesMeansOpen
<1>3. ASSUME NEW c \in Names \ astray, dcid[c] # Closed
      PROVE  /\ handle \in opens /\ dcid[c] = Cid(handle, dcid[c].by)
             /\ c \in Closes \/ [c |-> c, by |-> dcid[c].by] \in channels'[handle]
  <2>1. /\ handle \in opens /\ dcid[c] = Cid(handle, dcid[c].by)
        /\ c \in Closes \/ [c |-> c, by |-> dcid[c].by] \in channels[handle]
    BY <1>3, Zenon DEF CurrentInv, ChannelsOfThisLink, IsOpen, OfThisLink
  <2>2. handle \in Handles
    BY <2>1
  <2> QED BY <2>1, <2>2
<1>4. ChannelsOfThisLink'
  BY <1>3 DEF ChannelsOfThisLink, OfThisLink, IsOpen, Closed, Cid
<1> QED BY <1>2, <1>4 DEF CurrentInv

LEMMA InitCurrent == ChannelsInit => CurrentInv
<1> SUFFICES ASSUME ChannelsInit PROVE CurrentInv
  OBVIOUS
<1>1. opens = {} /\ dcid = AllClosed /\ \A h \in Handles : inbox[h] = <<>>
  BY DEF ChannelsInit
<1>3. YesMeansOpen
  BY <1>1, HasEmpty DEF YesMeansOpen
<1>4. ChannelsOfThisLink
  BY <1>1, AllClosedType DEF ChannelsOfThisLink, IsOpen
<1> QED BY <1>3, <1>4 DEF CurrentInv

\* A second link takes the channels of the first away.  Where there was no current
\* link, nothing but what had come in on another one counted as open.
LEMMA LinkUpCurrent ==
  ASSUME BaseInv, CurrentInv, NEW h \in Handles, NEW call \in BOOLEAN, NEW flag \in BOOLEAN,
         LinkUp(h, call, flag)
  PROVE  CurrentInv'
<1>1. /\ IF handle # NoLink THEN dcid' = AllClosed /\ astray' = {} ELSE UNCHANGED <<dcid, astray>>
      /\ UNCHANGED <<inbox, channels>>
  BY Zenon DEF LinkUp, ResetChannels
<1>2. YesMeansOpen'
  BY <1>1 DEF CurrentInv, YesMeansOpen
<1>3. \A c \in Names \ astray' : dcid'[c] = Closed
  <2>1. CASE handle # NoLink
    BY <1>1, <2>1, AllClosedType
  <2>2. CASE handle = NoLink
    <3>1. handle \notin opens
      BY <2>2, HandlesAssumption DEF BaseInv, ChannelsTypeOK
    <3>2. \A c \in Names \ astray : dcid[c] = Closed
      BY <3>1 DEF CurrentInv, ChannelsOfThisLink, IsOpen, OfThisLink
    <3> QED BY <1>1, <2>2, <3>2
  <2> QED BY <2>1, <2>2
<1>4. ChannelsOfThisLink'
  BY <1>3 DEF ChannelsOfThisLink, IsOpen, Closed
<1> QED BY <1>2, <1>4 DEF CurrentInv

\* With the current link its channels go; with another, none of them.
LEMMA LinkDownCurrent ==
  ASSUME BaseInv, CurrentInv, NEW h \in Handles, LinkDown(h)
  PROVE  CurrentInv'
<1>0. /\ inbox \in [Handles -> Seq(Messages)] /\ channels \in [Handles -> SUBSET Ends]
      /\ opens \subseteq Handles
  BY DEF BaseInv, ChannelsTypeOK
<1>1. /\ opens' = opens \ {h} /\ handle' = Left(h) /\ use' = use
      /\ inbox' = [inbox EXCEPT ![h] = <<>>] /\ channels' = [channels EXCEPT ![h] = {}]
  BY Zenon DEF LinkDown
<1>2. \A g \in Handles :
         /\ inbox'[g] = IF g = h THEN <<>> ELSE inbox[g]
         /\ channels'[g] = IF g = h THEN {} ELSE channels[g]
  BY <1>0, <1>1
<1>3. YesMeansOpen'
  BY <1>2, HasEmpty DEF CurrentInv, YesMeansOpen
<1>4. CASE h = handle
  <2>1. dcid' = AllClosed
    BY <1>4 DEF LinkDown, ResetChannels
  <2>2. ChannelsOfThisLink'
    BY <2>1, AllClosedType DEF ChannelsOfThisLink, IsOpen, Closed
  <2> QED BY <1>3, <2>2 DEF CurrentInv
<1>5. CASE h # handle
  <2>1. dcid' = dcid /\ astray' = astray /\ handle' = handle
    BY <1>1, <1>5 DEF LinkDown, Left
  <2>2. ASSUME NEW c \in Names \ astray, dcid[c] # Closed
        PROVE  /\ handle \in opens' /\ dcid[c] = Cid(handle, dcid[c].by)
               /\ c \in Closes \/ [c |-> c, by |-> dcid[c].by] \in channels'[handle]
    <3>1. /\ handle \in opens /\ dcid[c] = Cid(handle, dcid[c].by)
          /\ c \in Closes \/ [c |-> c, by |-> dcid[c].by] \in channels[handle]
      BY <2>2, Zenon DEF CurrentInv, ChannelsOfThisLink, IsOpen, OfThisLink
    <3>2. channels'[handle] = channels[handle]
      BY <1>0, <1>2, <1>5, <3>1
    <3> QED BY <1>1, <1>5, <3>1, <3>2
  <2>3. ChannelsOfThisLink'
    BY <1>1, <2>1, <2>2 DEF ChannelsOfThisLink, OfThisLink, IsOpen, Closed, Cid
  <2> QED BY <1>3, <2>3 DEF CurrentInv
<1> QED BY <1>4, <1>5

\* What arrives on the current link opens a channel of that link, and a yes means
\* the channel is there; what arrives on another goes astray.
LEMMA ReceiveCurrent ==
  ASSUME BaseInv, CurrentInv, NEW h \in Handles, Receive(h)
  PROVE  CurrentInv'
<1> DEFINE m == Head(inbox[h])
<1>0. /\ ChannelsTypeOK /\ Quiet /\ channels \in [Handles -> SUBSET Ends] /\ opens \subseteq Handles
      /\ DOMAIN dcid = Names
  BY DEF BaseInv, ChannelsTypeOK
<1>1. /\ \A g \in Handles : \A x : Has(inbox'[g], x) => Has(inbox[g], x)
      /\ inbox[h] # <<>>
      /\ m \in Messages /\ Has(inbox[h], m) /\ Handled(h, m)
  BY <1>0, ReceiveDoes
<1>2. UNCHANGED <<handle, opens, use>>
  BY ReceiveLeaves
<1>3. h \in opens
  BY <1>0, <1>1 DEF Quiet
<1> HIDE DEF m
<1>4. m.c \in Names
  BY <1>1 DEF Messages
<1>6. \A g \in Handles : channels[g] \subseteq channels'[g]
  <2>1. channels' = channels \/ channels' = [channels EXCEPT ![h] = @ \cup {[c |-> m.c, by |-> "peer"]}]
    BY <1>1 DEF Handled, ConnResponse, ConnRequest, ConfRequest, ConfResponse, DisconnRequest
  <2> QED BY <1>0, <2>1
<1>7. YesMeansOpen'
  BY <1>1, <1>6 DEF CurrentInv, YesMeansOpen
<1>8. \/ dcid' = dcid /\ astray' = astray
      \/ \E by \in {"us", "peer"} :
            /\ Store(h, m.c, by)
            /\ h = handle => m.c \in Closes \/ [c |-> m.c, by |-> by] \in channels'[h]
  <2>1. CASE m.code = "CONN_RSP" /\ ConnResponse(h, m.c)
    <3>1. m = [code |-> "CONN_RSP", c |-> m.c]
      BY <1>1, <2>1 DEF Messages
    <3>2. m.c \in Closes \/ [c |-> m.c, by |-> "us"] \in channels[h]
      BY <1>1, <1>4, <3>1 DEF CurrentInv, YesMeansOpen
    <3>3. Store(h, m.c, "us")
      BY <2>1 DEF ConnResponse
    <3> QED BY <1>6, <3>2, <3>3
  <2>2. CASE m.code = "CONN_REQ" /\ ConnRequest(h, m.c)
    <3>1. /\ Store(h, m.c, "peer")
          /\ h = handle => channels' = [channels EXCEPT ![h] = @ \cup {[c |-> m.c, by |-> "peer"]}]
      BY <2>2 DEF ConnRequest
    <3>2. h = handle => [c |-> m.c, by |-> "peer"] \in channels'[h]
      BY <1>0, <3>1
    <3> QED BY <3>1, <3>2
  <2>3. CASE \/ m.code = "CONF_REQ" /\ ConfRequest(h, m.c)
             \/ m.code = "CONF_RSP" /\ ConfResponse(h, m.c)
             \/ m.code = "DISCONN_REQ" /\ DisconnRequest(h, m.c)
    BY <2>3 DEF ConfRequest, ConfResponse, DisconnRequest
  <2> QED BY <1>1, <2>1, <2>2, <2>3 DEF Handled
<1>9. ASSUME NEW c \in Names \ astray', dcid'[c] # Closed
      PROVE  /\ handle \in opens /\ dcid'[c] = Cid(handle, dcid'[c].by)
             /\ c \in Closes \/ [c |-> c, by |-> dcid'[c].by] \in channels'[handle]
  <2>1. CASE dcid'[c] = dcid[c] /\ c \notin astray
    <3>1. /\ handle \in opens /\ dcid[c] = Cid(handle, dcid[c].by)
          /\ c \in Closes \/ [c |-> c, by |-> dcid[c].by] \in channels[handle]
      BY <1>9, <2>1, Zenon DEF CurrentInv, ChannelsOfThisLink, IsOpen, OfThisLink
    <3>2. handle \in Handles
      BY <1>0, <3>1
    <3> QED BY <1>6, <2>1, <3>1, <3>2
  <2>2. CASE ~(dcid'[c] = dcid[c] /\ c \notin astray)
    <3>0. ~(dcid' = dcid /\ astray' = astray)
      BY <1>9, <2>2
    <3>1. PICK by \in {"us", "peer"} :
             /\ Store(h, m.c, by)
             /\ h = handle => m.c \in Closes \/ [c |-> m.c, by |-> by] \in channels'[h]
      BY <1>8, <3>0
    <3>2. /\ dcid' = [dcid EXCEPT ![m.c] = Cid(h, by)]
          /\ astray' = IF h = handle THEN astray \ {m.c} ELSE astray \cup {m.c}
      BY <3>1 DEF Store
    <3>3. c = m.c /\ h = handle /\ dcid'[c] = Cid(h, by)
      BY <1>0, <1>9, <2>2, <3>2
    <3>4. dcid'[c].by = by
      BY <3>3 DEF Cid
    <3> QED BY <1>3, <3>1, <3>3, <3>4
  <2> QED BY <2>1, <2>2
<1>10. ChannelsOfThisLink'
  BY <1>2, <1>9 DEF ChannelsOfThisLink, OfThisLink, IsOpen, Closed, Cid
<1> QED BY <1>7, <1>10 DEF CurrentInv

\* What the host does by itself opens nothing and closes nothing.
LEMMA HostCurrent ==
  ASSUME BaseInv, CurrentInv, UNCHANGED <<handle, opens, dcid, use, astray, inbox, channels>>
  PROVE  CurrentInv'
<1>1. opens \subseteq Handles
  BY DEF BaseInv, ChannelsTypeOK
<1> QED BY <1>1, CurrentStep

\* The peer says yes to what it opens.
LEMMA PeerAnswersCurrent ==
  ASSUME BaseInv, CurrentInv, NEW h \in Handles, NEW yes \in BOOLEAN, PeerAnswers(h, yes)
  PROVE  CurrentInv'
<1> DEFINE q == Head(asked[h])
<1>0. ChannelsTypeOK /\ channels \in [Handles -> SUBSET Ends] /\ opens \subseteq Handles
  BY DEF BaseInv, ChannelsTypeOK
<1>1. /\ q \in Names
      /\ \/ UNCHANGED <<channels, inbox>>
         \/ /\ channels' = [channels EXCEPT ![h] = @ \cup {[c |-> q, by |-> "us"]}]
            /\ Says(h, "CONN_RSP", q)
  BY PeerAnswersDoes
<1>2. UNCHANGED <<handle, opens, dcid, use, astray>>
  BY Zenon DEF PeerAnswers, endVars, slipVars
<1> HIDE DEF q
<1>3. CASE UNCHANGED <<channels, inbox>>
  BY <1>2, <1>3, HostCurrent
<1>4. CASE /\ channels' = [channels EXCEPT ![h] = @ \cup {[c |-> q, by |-> "us"]}]
           /\ Says(h, "CONN_RSP", q)
  <2>1. "CONN_RSP" \in Codes
    BY DEF Codes
  <2>2. /\ \A g \in Handles : g # h => inbox'[g] = inbox[g]
        /\ \A x : Has(inbox'[h], x) <=> Has(inbox[h], x) \/ x = [code |-> "CONN_RSP", c |-> q]
    BY <1>0, <1>1, <1>4, <2>1, SaysDoes
  <2>3. /\ \A g \in Handles : channels[g] \subseteq channels'[g]
        /\ [c |-> q, by |-> "us"] \in channels'[h]
    BY <1>0, <1>4
  <2>4. \A g \in Handles, c \in Names :
           Has(inbox'[g], [code |-> "CONN_RSP", c |-> c]) =>
              \/ Has(inbox[g], [code |-> "CONN_RSP", c |-> c])
              \/ [c |-> c, by |-> "us"] \in channels'[g]
    BY <2>2, <2>3
  <2> QED BY <1>0, <1>2, <2>3, <2>4, CurrentStep
<1> QED BY <1>1, <1>3, <1>4

\* The rest of what the peer does says yes to nothing and closes what it closes.
LEMMA PeerRestCurrent ==
  ASSUME BaseInv, CurrentInv, NEW h \in Handles, NEW c \in Names,
         NEW code \in Codes, code # "CONN_RSP", Says(h, code, c),
         UNCHANGED <<handle, opens, dcid, use, astray>>,
         \/ channels' = channels
         \/ \E ch \in channels[h] : ch.c \in Closes /\ channels' = [channels EXCEPT ![h] = @ \ {ch}]
  PROVE  CurrentInv'
<1>0. ChannelsTypeOK /\ channels \in [Handles -> SUBSET Ends] /\ opens \subseteq Handles
  BY DEF BaseInv, ChannelsTypeOK
<1>1. /\ \A g \in Handles : g # h => inbox'[g] = inbox[g]
      /\ \A x : Has(inbox'[h], x) <=> Has(inbox[h], x) \/ x = [code |-> code, c |-> c]
  BY <1>0, SaysDoes
<1>2. \A g \in Handles, d \in Names :
         Has(inbox'[g], [code |-> "CONN_RSP", c |-> d]) => Has(inbox[g], [code |-> "CONN_RSP", c |-> d])
  BY <1>1
<1>3. ASSUME NEW by, NEW g \in Handles, NEW d \in Names, [c |-> d, by |-> by] \in channels[g]
      PROVE  d \in Closes \/ [c |-> d, by |-> by] \in channels'[g]
  <2>1. CASE channels' = channels
    BY <1>3, <2>1
  <2>2. CASE \E ch \in channels[h] : ch.c \in Closes /\ channels' = [channels EXCEPT ![h] = @ \ {ch}]
    <3>1. PICK ch \in channels[h] : ch.c \in Closes /\ channels' = [channels EXCEPT ![h] = @ \ {ch}]
      BY <2>2
    <3>2. CASE ch = [c |-> d, by |-> by]
      BY <3>1, <3>2
    <3>3. CASE ch # [c |-> d, by |-> by]
      BY <1>0, <1>3, <3>1, <3>3
    <3> QED BY <3>2, <3>3
  <2> QED BY <2>1, <2>2
<1> QED BY <1>0, <1>2, <1>3, CurrentStep

LEMMA PeerSaysCurrent ==
  ASSUME BaseInv, CurrentInv, NEW h \in Handles, NEW ch \in channels[h],
         PeerConfigures(h, ch) \/ PeerAccepts(h, ch) \/ PeerClosesChannel(h, ch)
  PROVE  CurrentInv'
<1>1. ch.c \in Names
  BY DEF BaseInv, ChannelsTypeOK, Ends
<1>2. UNCHANGED <<handle, opens, dcid, use, astray>>
  BY Zenon DEF PeerConfigures, PeerAccepts, PeerClosesChannel, endVars, slipVars
<1>3. \/ Says(h, "CONF_REQ", ch.c) /\ channels' = channels
      \/ Says(h, "CONF_RSP", ch.c) /\ channels' = channels
      \/ /\ Says(h, "DISCONN_REQ", ch.c)
         /\ ch.c \in Closes /\ channels' = [channels EXCEPT ![h] = @ \ {ch}]
  BY Zenon DEF PeerConfigures, PeerAccepts, PeerClosesChannel
<1>4. "CONF_REQ" \in Codes /\ "CONF_RSP" \in Codes /\ "DISCONN_REQ" \in Codes
  BY DEF Codes
<1>5. CASE Says(h, "CONF_REQ", ch.c) /\ channels' = channels
  BY <1>1, <1>2, <1>4, <1>5, PeerRestCurrent
<1>6. CASE Says(h, "CONF_RSP", ch.c) /\ channels' = channels
  BY <1>1, <1>2, <1>4, <1>6, PeerRestCurrent
<1>7. CASE /\ Says(h, "DISCONN_REQ", ch.c)
           /\ ch.c \in Closes /\ channels' = [channels EXCEPT ![h] = @ \ {ch}]
  BY <1>1, <1>2, <1>4, <1>7, PeerRestCurrent
<1> QED BY <1>3, <1>5, <1>6, <1>7

LEMMA PeerRequestsCurrent ==
  ASSUME BaseInv, CurrentInv, NEW h \in Handles, NEW c \in Names, PeerRequests(h, c)
  PROVE  CurrentInv'
<1>1. Says(h, "CONN_REQ", c) /\ UNCHANGED <<handle, opens, dcid, use, astray, channels>>
  BY Zenon DEF PeerRequests, endVars, slipVars
<1>2. "CONN_REQ" \in Codes
  BY DEF Codes
<1> QED BY <1>1, <1>2, PeerRestCurrent

LEMMA NextCurrent ==
  ASSUME BaseInv, CurrentInv, [ChannelsNext]_channelsVars
  PROVE  CurrentInv'
<1>1. ASSUME NEW h \in Handles, NEW call \in BOOLEAN, NEW flag \in BOOLEAN,
         LinkUp(h, call, flag) PROVE CurrentInv'
  BY <1>1, LinkUpCurrent
<1>2. ASSUME NEW h \in Handles, LinkDown(h) PROVE CurrentInv'
  BY <1>2, LinkDownCurrent
<1>3. ASSUME NEW h \in Handles, AuthComplete(h) \/ EncryptChange(h) PROVE CurrentInv'
  <2>1. UNCHANGED <<handle, opens, dcid, use, astray, inbox, channels>>
    BY <1>3, Zenon DEF AuthComplete, EncryptChange, endVars, slipVars
  <2> QED BY <2>1, HostCurrent
<1>4. ASSUME NEW h \in Handles, Receive(h) PROVE CurrentInv'
  BY <1>4, ReceiveCurrent
<1>5. ASSUME NEW h \in Handles, NEW yes \in BOOLEAN, PeerAnswers(h, yes) PROVE CurrentInv'
  BY <1>5, PeerAnswersCurrent
<1>6. ASSUME NEW h \in Handles, NEW c \in Names, PeerRequests(h, c) PROVE CurrentInv'
  BY <1>6, PeerRequestsCurrent
<1>7. ASSUME NEW h \in Handles, NEW ch \in channels[h],
             PeerConfigures(h, ch) \/ PeerAccepts(h, ch) \/ PeerClosesChannel(h, ch)
      PROVE  CurrentInv'
  BY <1>7, PeerSaysCurrent
<1>8. ASSUME NEW h \in Handles \cup {NoLink}, StepIn(h) PROVE CurrentInv'
  <2>1. UNCHANGED <<handle, opens, dcid, use, astray, inbox, channels>>
    BY <1>8, Zenon DEF StepIn, slipVars
  <2> QED BY <2>1, HostCurrent
<1>9. CASE ChannelsNext
  BY <1>1, <1>2, <1>3, <1>4, <1>5, <1>6, <1>7, <1>8, <1>9, NextCases
<1>10. CASE UNCHANGED channelsVars
  <2>1. UNCHANGED <<handle, opens, dcid, use, astray, inbox, channels>>
    BY <1>10, Zenon DEF channelsVars, endVars, otherEndVars, slipVars
  <2> QED BY <2>1, HostCurrent
<1> QED BY <1>9, <1>10

\* handle_connection_complete() and handle_disconnect_complete(): however many links
\* the peer holds and whichever it moves to or loses, a channel that counts as open
\* is one of the current link as it is now, and the peer has it open unless it is
\* one it closes - but for those whose signalling came in on another link.
THEOREM ChannelsOfThisLinkTheorem == ChannelsSpec => []ChannelsOfThisLink
<1>1. ChannelsInit => BaseInv /\ CurrentInv
  BY InitBase, InitCurrent
<1>2. BaseInv /\ CurrentInv /\ [ChannelsNext]_channelsVars => BaseInv' /\ CurrentInv'
  BY NextBase, NextCurrent
<1>3. CurrentInv => ChannelsOfThisLink
  BY DEF CurrentInv
<1> QED BY <1>1, <1>2, <1>3, PTL DEF ChannelsSpec

(***************************************************************************)
(* Queries.                                                                *)
(***************************************************************************)

\* Questions and answers, whatever the bounds.
Asked == [id : Nat, kind : SdpKinds \cup FeatureKinds]
Said == [id : Nat, kind : SdpKinds \cup FeatureKinds \cup {"empty", "error"}]

\* The parts of the state the cache depends on are well typed.
Typed ==
    /\ asks \in Nat
    /\ cache \in SdpKinds \cup {Nothing}
    /\ heard \in BOOLEAN
    /\ atPad \in [AllLanes -> Seq(Asked)]
    /\ given \in [AllLanes -> Seq(Said)]

\* Only questions of SDP's wait on the pad's SDP channel.
OnlySdpThere == \A i \in 1..Len(atPad["sdp"]) : atPad["sdp"][i].kind \in SdpKinds

\* The cache is not empty again once the record has been heard.
HeardIsKept == heard => cache # Nothing

Kept == Typed /\ OnlySdpThere /\ HeardIsKept

\* A question joins those at the pad on its own lane only.
LEMMA ForwardedTyped ==
    ASSUME Kept, NEW lane \in AllLanes, NEW q \in Asked, lane = "sdp" => q.kind \in SdpKinds,
           atPad' = Forwarded(lane, q)
    PROVE  /\ atPad' \in [AllLanes -> Seq(Asked)]
           /\ OnlySdpThere'
<1> DEFINE s == atPad[lane]
<1>1. s \in Seq(Asked)
  BY DEF Kept, Typed
<1>2. /\ Append(s, q) \in Seq(Asked) /\ Len(Append(s, q)) = Len(s) + 1 /\ Len(s) \in Nat
      /\ \A i \in 1..Len(s) + 1 : Append(s, q)[i] = IF i = Len(s) + 1 THEN q ELSE s[i]
  BY <1>1
<1>3. atPad' = atPad \/ atPad' = [atPad EXCEPT ![lane] = Append(s, q)]
  BY DEF Forwarded
<1>4. CASE atPad' = atPad
  BY <1>4 DEF Kept, Typed, OnlySdpThere
<1>5. CASE atPad' = [atPad EXCEPT ![lane] = Append(s, q)]
  <2>1. atPad' \in [AllLanes -> Seq(Asked)]
    BY <1>2, <1>5 DEF Kept, Typed
  <2>2. CASE lane = "sdp"
    <3>1. atPad'["sdp"] = Append(s, q)
      BY <1>5, <2>2 DEF Kept, Typed
    <3> HIDE DEF s
    <3>2. \A i \in 1..Len(s) + 1 : Append(s, q)[i].kind \in SdpKinds
      <4> SUFFICES ASSUME NEW i \in 1..Len(s) + 1 PROVE Append(s, q)[i].kind \in SdpKinds
        OBVIOUS
      <4>1. CASE i = Len(s) + 1
        BY <1>2, <2>2, <4>1
      <4>2. CASE i # Len(s) + 1
        <5>1. i \in 1..Len(s) /\ Append(s, q)[i] = s[i]
          BY <1>2, <4>2
        <5> QED
          BY <2>2, <5>1 DEF Kept, OnlySdpThere, s
      <4> QED
        BY <4>1, <4>2
    <3> QED
      BY <1>2, <2>1, <3>1, <3>2 DEF OnlySdpThere
  <2>3. CASE lane # "sdp"
    <3>1. atPad'["sdp"] = atPad["sdp"]
      BY <1>5, <2>3 DEF Kept, Typed, AllLanes
    <3> QED
      BY <2>1, <3>1 DEF Kept, OnlySdpThere
  <2> QED
    BY <2>2, <2>3
<1> QED
  BY <1>3, <1>4, <1>5

\* An answer joins those the console was given.
LEMMA GiveTyped ==
    ASSUME Kept, NEW lane \in AllLanes, NEW a \in Said, Give(lane, a)
    PROVE  /\ given' \in [AllLanes -> Seq(Said)]
           /\ given'[lane] = Append(given[lane], a)
<1>1. given[lane] \in Seq(Said)
  BY DEF Kept, Typed
<1>2. Append(given[lane], a) \in Seq(Said)
  BY <1>1
<1> QED
  BY <1>2 DEF Give, Kept, Typed

\* handle_sdp_query() answers from the cache, with an empty answer or not at all.
LEMMA QueryTyped ==
    ASSUME Kept, NEW kind \in SdpAsks, SdpQuery(kind)
    PROVE  Kept'
<1> DEFINE q == Question(asks + 1, kind)
<1>1. kind \in SdpKinds /\ asks \in Nat /\ "sdp" \in AllLanes
  BY AsksAssumption DEF Kept, Typed, AllLanes
<1>2. q \in Asked /\ q.kind \in SdpKinds
  BY <1>1 DEF Question, Asked
<1>3. asks' \in Nat /\ cache' = cache /\ heard' = heard
  BY <1>1 DEF SdpQuery, histVars
<1>4. CASE SdpQueryRoute(kind) = "pad"
  <2>1. atPad' = Forwarded("sdp", q) /\ given' = given
    BY <1>4 DEF SdpQuery
  <2> HIDE DEF q
  <2>2. atPad' \in [AllLanes -> Seq(Asked)] /\ OnlySdpThere'
    BY <1>1, <1>2, <2>1, ForwardedTyped
  <2> QED
    BY <1>3, <2>1, <2>2 DEF Kept, Typed, HeardIsKept
<1>5. CASE SdpQueryRoute(kind) = "cache"
  <2>1. cache # Nothing
    BY <1>5 DEF SdpQueryRoute
  <2>2. Answer(asks + 1, cache) \in Said
    BY <1>1, <2>1 DEF Answer, Said, Kept, Typed
  <2>3. Give("sdp", Answer(asks + 1, cache)) /\ atPad' = atPad
    BY <1>5 DEF SdpQuery
  <2>4. given' \in [AllLanes -> Seq(Said)]
    BY <1>1, <2>2, <2>3, GiveTyped
  <2> QED
    BY <1>3, <2>3, <2>4 DEF Kept, Typed, OnlySdpThere, HeardIsKept
<1>6. CASE SdpQueryRoute(kind) = "empty"
  <2>1. Answer(asks + 1, Empty(kind)) \in Said
    BY <1>1 DEF Answer, Said, Empty
  <2>2. Give("sdp", Answer(asks + 1, Empty(kind))) /\ atPad' = atPad
    BY <1>6 DEF SdpQuery
  <2>3. given' \in [AllLanes -> Seq(Said)]
    BY <1>1, <2>1, <2>2, GiveTyped
  <2> QED
    BY <1>3, <2>2, <2>3 DEF Kept, Typed, OnlySdpThere, HeardIsKept
<1> QED
  BY <1>4, <1>5, <1>6 DEF SdpQueryRoute

\* The head of what is at the pad, once answered, leaves the rest in place.
LEMMA AnsweredTyped ==
    ASSUME Kept, NEW lane \in AllLanes, atPad[lane] # <<>>,
           atPad' = [atPad EXCEPT ![lane] = Tail(@)]
    PROVE  /\ Head(atPad[lane]) \in Asked /\ Head(atPad[lane]) \in Said
           /\ lane = "sdp" => Head(atPad[lane]).kind \in SdpKinds
           /\ atPad' \in [AllLanes -> Seq(Asked)]
           /\ OnlySdpThere'
<1> DEFINE s == atPad[lane]
<1>1. s \in Seq(Asked) /\ s # <<>>
  BY DEF Kept, Typed
<1> HIDE DEF s
<1>2. /\ Head(s) \in Asked /\ Tail(s) \in Seq(Asked) /\ Head(s) = s[1]
      /\ Len(s) \in Nat \ {0} /\ Len(Tail(s)) = Len(s) - 1
      /\ \A i \in 1..Len(s) - 1 : Tail(s)[i] = s[i + 1]
  BY <1>1
<1>3. Head(s) \in Said
  BY <1>2 DEF Asked, Said
<1>4. lane = "sdp" => \A i \in 1..Len(s) : s[i].kind \in SdpKinds
  BY DEF s, Kept, OnlySdpThere
<1>5. lane = "sdp" => Head(s).kind \in SdpKinds
  BY <1>2, <1>4
<1>6. /\ atPad' \in [AllLanes -> Seq(Asked)]
      /\ atPad'[lane] = Tail(s)
      /\ lane # "sdp" => atPad'["sdp"] = atPad["sdp"]
  BY <1>2 DEF s, Kept, Typed, AllLanes
<1>7. OnlySdpThere'
  <2>1. CASE lane = "sdp"
    <3>1. \A i \in 1..Len(s) - 1 : Tail(s)[i].kind \in SdpKinds
      BY <1>2, <1>4, <2>1
    <3> QED
      BY <1>2, <1>6, <2>1, <3>1 DEF OnlySdpThere
  <2>2. CASE lane # "sdp"
    BY <1>6, <2>2 DEF Kept, OnlySdpThere
  <2> QED
    BY <2>1, <2>2
<1> QED
  BY <1>2, <1>3, <1>5, <1>6, <1>7 DEF s

\* Every step keeps what the cache promises.
LEMMA KeptStep == ASSUME Kept, [Next]_vars PROVE Kept'
<1>0. "sdp" \in AllLanes /\ "control" \in AllLanes
  BY DEF AllLanes
<1>1. ASSUME NEW lane \in Lanes, PadOpens(lane) \/ ConsoleOpens(lane) PROVE Kept'
  BY <1>1 DEF PadOpens, ConsoleOpens, Kept, Typed, OnlySdpThere, HeardIsKept, peerVars, histVars
<1>12. ASSUME NEW lane \in Lanes, PadCloses(lane) PROVE Kept'
  <2>1. atPad' = [atPad EXCEPT ![lane] = <<>>] /\ lane \in AllLanes
    BY <1>12, LanesAssumption DEF PadCloses
  <2>2. /\ atPad' \in [AllLanes -> Seq(Asked)]
        /\ atPad'["sdp"] = <<>> \/ atPad'["sdp"] = atPad["sdp"]
    BY <1>0, <2>1 DEF Kept, Typed
  <2>3. OnlySdpThere'
    BY <2>2 DEF Kept, OnlySdpThere
  <2> QED
    BY <1>12, <2>2, <2>3 DEF PadCloses, Kept, Typed, HeardIsKept, hostVars
<1>2. CASE PrimeSdp
  <2> DEFINE q == Question(Own, "record")
  <2>1. q \in Asked /\ q.kind \in SdpKinds
    BY DEF Question, Asked, SdpKinds, Own
  <2>2. atPad' = Forwarded("sdp", q)
    BY <1>2 DEF PrimeSdp
  <2> HIDE DEF q
  <2>3. atPad' \in [AllLanes -> Seq(Asked)] /\ OnlySdpThere'
    BY <1>0, <2>1, <2>2, ForwardedTyped
  <2> QED
    BY <1>2, <2>3 DEF PrimeSdp, Kept, Typed, HeardIsKept, histVars
<1>3. CASE PrimeFeatures
  <2> DEFINE t == <<Question(Own, "calibration"), Question(Own, "pairing"),
                    Question(Own, "firmware")>>
  <2>1. t \in Seq(Asked)
    BY DEF Question, Asked, FeatureKinds, Own
  <2>2. atPad' = [atPad EXCEPT !["control"] = atPad["control"] \o t] \/ atPad' = atPad
    BY <1>3 DEF PrimeFeatures
  <2> HIDE DEF t
  <2>3. atPad["control"] \o t \in Seq(Asked)
    BY <1>0, <2>1 DEF Kept, Typed
  <2>4. atPad' \in [AllLanes -> Seq(Asked)] /\ atPad'["sdp"] = atPad["sdp"]
    BY <1>0, <2>2, <2>3 DEF Kept, Typed
  <2> QED
    BY <1>3, <2>4 DEF PrimeFeatures, Kept, Typed, OnlySdpThere, HeardIsKept, histVars
<1>4. CASE PadLeaves
  <2>1. atPad' = [l \in AllLanes |-> <<>>]
    BY <1>4 DEF PadLeaves
  <2>2. atPad' \in [AllLanes -> Seq(Asked)] /\ atPad'["sdp"] = <<>>
    BY <1>0, <2>1
  <2> QED
    BY <1>4, <2>2 DEF PadLeaves, Kept, Typed, OnlySdpThere, HeardIsKept
<1>5. CASE ConsoleLeaves
  <2>1. given' = [l \in AllLanes |-> <<>>]
    BY <1>5 DEF ConsoleLeaves
  <2>2. given' \in [AllLanes -> Seq(Said)]
    BY <2>1
  <2> QED
    BY <1>5, <2>2 DEF ConsoleLeaves, CacheKept, Kept, Typed, OnlySdpThere, HeardIsKept, histVars
<1>6. ASSUME NEW kind \in SdpAsks, SdpQuery(kind) PROVE Kept'
  BY <1>6, QueryTyped
<1>7. ASSUME NEW kind \in FeatureAsks, FeatureRequest(kind) PROVE Kept'
  <2> DEFINE q == Question(asks + 1, kind)
  <2>1. q \in Asked
    BY AsksAssumption DEF Question, Asked, Kept, Typed
  <2>2. atPad' = Forwarded("control", q)
    BY <1>7 DEF FeatureRequest
  <2> HIDE DEF q
  <2>3. atPad' \in [AllLanes -> Seq(Asked)] /\ OnlySdpThere'
    BY <1>0, <2>1, <2>2, ForwardedTyped
  <2> QED
    BY <1>7, <2>3 DEF FeatureRequest, Kept, Typed, HeardIsKept
<1>8. CASE UsbAsks
  <2> DEFINE q == Question(Own, "live")
  <2>1. q \in Asked
    BY DEF Question, Asked, FeatureKinds, Own
  <2>2. atPad' = Forwarded("control", q)
    BY <1>8 DEF UsbAsks
  <2> HIDE DEF q
  <2>3. atPad' \in [AllLanes -> Seq(Asked)] /\ OnlySdpThere'
    BY <1>0, <2>1, <2>2, ForwardedTyped
  <2> QED
    BY <1>8, <2>3 DEF UsbAsks, Kept, Typed, HeardIsKept, histVars
<1>9. CASE SdpAnswer
  <2> DEFINE a == Head(atPad["sdp"])
  <2>1. /\ a \in Said /\ a.kind \in SdpKinds
        /\ atPad' \in [AllLanes -> Seq(Asked)] /\ OnlySdpThere'
    BY <1>0, <1>9, AnsweredTyped DEF SdpAnswer
  <2>2. /\ cache' = a.kind /\ heard' = (heard \/ a.kind = "record") /\ asks' = asks
        /\ Give("sdp", a) \/ given' = given
    BY <1>9 DEF SdpAnswer, Cached
  <2> HIDE DEF a
  <2>3. given' \in [AllLanes -> Seq(Said)]
    BY <1>0, <2>1, <2>2, GiveTyped DEF Kept, Typed
  <2>4. cache' # Nothing
    BY <2>1, <2>2 DEF SdpKinds, Nothing
  <2> QED
    BY <2>1, <2>2, <2>3, <2>4 DEF Kept, Typed, HeardIsKept
<1>10. CASE FeatureAnswer
  <2> DEFINE a == Head(atPad["control"])
  <2>1. /\ a \in Said
        /\ atPad' \in [AllLanes -> Seq(Asked)] /\ OnlySdpThere'
    BY <1>0, <1>10, AnsweredTyped DEF FeatureAnswer
  <2>2. Give("control", a) \/ given' = given
    BY <1>10 DEF FeatureAnswer
  <2> HIDE DEF a
  <2>3. given' \in [AllLanes -> Seq(Said)]
    BY <1>0, <2>1, <2>2, GiveTyped DEF Kept, Typed
  <2> QED
    BY <1>10, <2>1, <2>3 DEF FeatureAnswer, Kept, Typed, HeardIsKept, hostVars, histVars
<1>11. CASE UNCHANGED vars
  BY <1>11 DEF Kept, Typed, OnlySdpThere, HeardIsKept, vars, hostVars, peerVars, histVars
<1> QED
  BY <1>1, <1>12, <1>2, <1>3, <1>4, <1>5, <1>6, <1>7, <1>8, <1>9, <1>10, <1>11 DEF Next

\* The cache promises nothing before the pad has spoken.
LEMMA KeptInit == Init => Kept
<1> SUFFICES ASSUME Init PROVE Kept
  OBVIOUS
<1>1. "sdp" \in AllLanes
  BY DEF AllLanes
<1>2. atPad \in [AllLanes -> Seq(Asked)] /\ given \in [AllLanes -> Seq(Said)]
      /\ atPad["sdp"] = <<>>
  BY <1>1 DEF Init
<1>3. asks = 0 /\ cache = Nothing /\ heard = FALSE
  BY DEF Init
<1>4. Len(atPad["sdp"]) = 0
  BY <1>2
<1>5. heard \in BOOLEAN /\ HeardIsKept
  BY <1>3, Zenon DEF HeardIsKept
<1>6. OnlySdpThere
  BY <1>4 DEF OnlySdpThere
<1>7. asks \in Nat /\ cache \in SdpKinds \cup {Nothing}
  BY <1>3
<1> QED
  BY <1>2, <1>5, <1>6, <1>7 DEF Kept, Typed

\* sdp_answer_cache_ holds an answer from the moment the pad has given its
\* record to the end of the run.
THEOREM RecordKept == Spec => []Kept
<1>1. Kept /\ [Next]_vars => Kept'
  BY KeptStep
<1> QED
  BY KeptInit, <1>1, PTL DEF Spec

\* Once the record has been heard, the relay answers empty nothing but what the
\* cache is not for.
LEMMA NotEmpty ==
    ASSUME Kept, heard, NEW kind \in SdpKinds, SdpQuery(kind), NewAnswer("sdp"),
           TheAnswer("sdp").kind = "empty"
    PROVE  kind \in {"search", "attribute"}
<1>1. "sdp" \in AllLanes /\ asks \in Nat /\ cache # Nothing
  BY DEF AllLanes, Kept, Typed, HeardIsKept
<1>2. given["sdp"] \in Seq(Said)
  BY <1>1 DEF Kept, Typed
<1>3. SdpQueryRoute(kind) # "pad"
  <2> SUFFICES ASSUME SdpQueryRoute(kind) = "pad" PROVE FALSE
    OBVIOUS
  <2>1. given' = given
    BY DEF SdpQuery
  <2> QED
    BY <1>2, <2>1 DEF NewAnswer
<1>4. ASSUME NEW a \in Said, Give("sdp", a) PROVE TheAnswer("sdp") = a
  <2>1. given'["sdp"] = Append(given["sdp"], a)
    BY <1>1, <1>4, GiveTyped
  <2> QED
    BY <1>2, <2>1 DEF TheAnswer
<1>5. CASE SdpQueryRoute(kind) = "cache"
  <2>1. Give("sdp", Answer(asks + 1, cache))
    BY <1>5 DEF SdpQuery
  <2>2. Answer(asks + 1, cache) \in Said /\ Answer(asks + 1, cache).kind # "empty"
    BY <1>1 DEF Answer, Said, Kept, Typed, SdpKinds
  <2> QED
    BY <1>4, <2>1, <2>2
<1>6. CASE SdpQueryRoute(kind) = "empty"
  <2>1. Give("sdp", Answer(asks + 1, Empty(kind)))
    BY <1>6 DEF SdpQuery
  <2>2. /\ Answer(asks + 1, Empty(kind)) \in Said
        /\ Answer(asks + 1, Empty(kind)).kind = Empty(kind)
    BY <1>1 DEF Answer, Said, Empty
  <2>3. kind # "other"
    BY <1>4, <2>1, <2>2 DEF Empty
  <2>4. kind \notin {"record", "more"}
    BY <1>1, <1>6 DEF SdpQueryRoute
  <2> QED
    BY <2>3, <2>4 DEF SdpKinds
<1> QED
  BY <1>3, <1>5, <1>6 DEF SdpQueryRoute

\* However many questions are asked and links come and go: once the pad has
\* answered for its record, handle_sdp_query() tells the console that there is
\* nothing only when it searched or asked by record handle.
THEOREM NeverEmpty == Spec => NeverEmptyOnceHeard
<1>1. Kept /\ [Next]_vars =>
        [\A kind \in SdpKinds :
            heard /\ SdpQuery(kind) /\ NewAnswer("sdp") /\ TheAnswer("sdp").kind = "empty"
              => kind \in {"search", "attribute"}]_vars
  BY NotEmpty
<1> QED
  BY RecordKept, <1>1, PTL DEF Spec, NeverEmptyOnceHeard

-----------------------------------------------------------------------------
(* The order of the answers.  What the console was given on a lane,        *)
(* followed by what still waits at the pad for it, is one line: however it *)
(* is passed on or dropped from now on, the console's own questions come   *)
(* out of it in the order they were asked.                                 *)

\* A console's question comes after everything before it in s.
Ordered(s) == \A i, j \in 1..Len(s) : i < j /\ s[j].id # Own => s[i].id < s[j].id

\* The console's questions in t come after everything in s.
Before(s, t) == \A i \in 1..Len(s), j \in 1..Len(t) : t[j].id # Own => s[i].id < t[j].id

\* Nothing in s was asked after the n-th question.
UpTo(s, n) == \A i \in 1..Len(s) : s[i].id <= n

InLine(g, p, n) ==
    /\ Ordered(g) /\ Ordered(p) /\ Before(g, p)
    /\ UpTo(g, n) /\ UpTo(p, n)

\* On every lane, and nothing waits on a channel that is not open: only then does
\* handle_sdp_query() answer past the line.
AllInLine ==
    \A l \in AllLanes : /\ InLine(given[l], atPad[l], asks)
                        /\ l \notin toPad => atPad[l] = <<>>

\* Two ends of the line: nothing given yet, or nothing waiting.
LEMMA LineCleared ==
    ASSUME NEW g \in Seq(Said), NEW p \in Seq(Asked), NEW n \in Nat, InLine(g, p, n)
    PROVE  InLine(<<>>, p, n) /\ InLine(g, <<>>, n)
<1>1. Len(<<>>) = 0
  OBVIOUS
<1>2. Ordered(<<>>) /\ UpTo(<<>>, n) /\ Before(<<>>, p) /\ Before(g, <<>>)
  BY <1>1 DEF Ordered, UpTo, Before
<1> QED
  BY <1>2 DEF InLine

\* A question of the console's own next number, or one of the relay's, joins the
\* end of the line.
LEMMA LineGrows ==
    ASSUME NEW g \in Seq(Said), NEW p \in Seq(Asked), NEW n \in Nat, InLine(g, p, n),
           NEW m \in Nat, n <= m, NEW q \in Asked, q.id = Own \/ (q.id = m /\ n < m)
    PROVE  InLine(g, Append(p, q), m)
<1> DEFINE t == Append(p, q)
<1>1. /\ Len(p) \in Nat /\ Len(g) \in Nat /\ Len(t) = Len(p) + 1
      /\ \A i \in 1..Len(p) : t[i] = p[i]
      /\ t[Len(p) + 1] = q
  OBVIOUS
<1>2. /\ \A i \in 1..Len(p) : p[i].id \in Nat /\ p[i].id <= n
      /\ \A i \in 1..Len(g) : g[i].id \in Nat /\ g[i].id <= n
  <2>1. (\A i \in 1..Len(p) : p[i] \in Asked) /\ (\A i \in 1..Len(g) : g[i] \in Said)
    OBVIOUS
  <2>2. (\A q0 \in Asked : q0.id \in Nat) /\ (\A a0 \in Said : a0.id \in Nat)
    BY DEF Asked, Said
  <2> QED
    BY <2>1, <2>2 DEF InLine, UpTo
<1>3. q.id \in Nat /\ q.id <= m /\ (q.id # Own => n < q.id)
  BY DEF Own
<1> HIDE DEF t
<1>4. Ordered(t)
  <2> SUFFICES ASSUME NEW i \in 1..Len(t), NEW j \in 1..Len(t), i < j, t[j].id # Own
               PROVE  t[i].id < t[j].id
    BY DEF Ordered
  <2>1. i \in 1..Len(p) /\ t[i] = p[i]
    BY <1>1
  <2>2. CASE j = Len(p) + 1
    BY <1>1, <1>2, <1>3, <2>1, <2>2
  <2>3. CASE j # Len(p) + 1
    <3>1. j \in 1..Len(p) /\ t[j] = p[j]
      BY <1>1, <2>3
    <3> QED
      BY <2>1, <3>1 DEF InLine, Ordered
  <2> QED
    BY <2>2, <2>3
<1>5. Before(g, t)
  <2> SUFFICES ASSUME NEW i \in 1..Len(g), NEW j \in 1..Len(t), t[j].id # Own
               PROVE  g[i].id < t[j].id
    BY DEF Before
  <2>1. CASE j = Len(p) + 1
    BY <1>1, <1>2, <1>3, <2>1
  <2>2. CASE j # Len(p) + 1
    <3>1. j \in 1..Len(p) /\ t[j] = p[j]
      BY <1>1, <2>2
    <3> QED
      BY <3>1 DEF InLine, Before
  <2> QED
    BY <2>1, <2>2
<1>6. UpTo(g, m)
  BY <1>2 DEF UpTo
<1>7. UpTo(t, m)
  <2> SUFFICES ASSUME NEW i \in 1..Len(t) PROVE t[i].id <= m
    BY DEF UpTo
  <2>1. CASE i = Len(p) + 1
    BY <1>1, <1>3, <2>1
  <2>2. CASE i # Len(p) + 1
    <3>1. i \in 1..Len(p) /\ t[i] = p[i]
      BY <1>1, <2>2
    <3> QED
      BY <1>2, <3>1
  <2> QED
    BY <2>1, <2>2
<1> QED
  BY <1>4, <1>5, <1>6, <1>7 DEF InLine, t

\* An answer of the relay's, when nothing waits at the pad.
LEMMA LineAnswered ==
    ASSUME NEW g \in Seq(Said), NEW n \in Nat, InLine(g, <<>>, n),
           NEW a \in Said, a.id = n + 1
    PROVE  InLine(Append(g, a), <<>>, n + 1)
<1> DEFINE t == Append(g, a)
<1>1. /\ Len(g) \in Nat /\ Len(t) = Len(g) + 1 /\ Len(<<>>) = 0
      /\ \A i \in 1..Len(g) : t[i] = g[i]
      /\ t[Len(g) + 1] = a
  OBVIOUS
<1>2. \A i \in 1..Len(g) : g[i].id \in Nat /\ g[i].id <= n
  <2>1. \A i \in 1..Len(g) : g[i] \in Said
    OBVIOUS
  <2>2. \A a0 \in Said : a0.id \in Nat
    BY DEF Said
  <2> QED
    BY <2>1, <2>2 DEF InLine, UpTo
<1> HIDE DEF t
<1>3. Ordered(t)
  <2> SUFFICES ASSUME NEW i \in 1..Len(t), NEW j \in 1..Len(t), i < j, t[j].id # Own
               PROVE  t[i].id < t[j].id
    BY DEF Ordered
  <2>1. i \in 1..Len(g) /\ t[i] = g[i]
    BY <1>1
  <2>2. CASE j = Len(g) + 1
    BY <1>1, <1>2, <2>1, <2>2
  <2>3. CASE j # Len(g) + 1
    <3>1. j \in 1..Len(g) /\ t[j] = g[j]
      BY <1>1, <2>3
    <3> QED
      BY <2>1, <3>1 DEF InLine, Ordered
  <2> QED
    BY <2>2, <2>3
<1>4. UpTo(t, n + 1)
  <2> SUFFICES ASSUME NEW i \in 1..Len(t) PROVE t[i].id <= n + 1
    BY DEF UpTo
  <2>1. CASE i = Len(g) + 1
    BY <1>1, <2>1
  <2>2. CASE i # Len(g) + 1
    <3>1. i \in 1..Len(g) /\ t[i] = g[i]
      BY <1>1, <2>2
    <3> QED
      BY <1>2, <3>1
  <2> QED
    BY <2>1, <2>2
<1>5. Ordered(<<>>) /\ Before(t, <<>>) /\ UpTo(<<>>, n + 1)
  BY <1>1 DEF Ordered, Before, UpTo
<1> QED
  BY <1>3, <1>4, <1>5 DEF InLine, t

\* The pad answers the first in the line, and the answer is dropped or goes to
\* the console.
LEMMA LineMoves ==
    ASSUME NEW g \in Seq(Said), NEW p \in Seq(Asked), NEW n \in Nat, InLine(g, p, n), p # <<>>
    PROVE  InLine(g, Tail(p), n) /\ InLine(Append(g, Head(p)), Tail(p), n)
<1> DEFINE r == Tail(p)
           t == Append(g, Head(p))
<1>1. /\ Len(p) \in Nat \ {0} /\ Len(g) \in Nat /\ Len(r) = Len(p) - 1
      /\ \A i \in 1..Len(p) - 1 : r[i] = p[i + 1]
      /\ Head(p) = p[1]
  OBVIOUS
<1>2. /\ Len(t) = Len(g) + 1
      /\ \A i \in 1..Len(g) : t[i] = g[i]
      /\ t[Len(g) + 1] = p[1]
  BY <1>1
<1>3. /\ \A i \in 1..Len(p) : p[i].id \in Nat /\ p[i].id <= n
      /\ \A i \in 1..Len(g) : g[i].id \in Nat /\ g[i].id <= n
  <2>1. (\A i \in 1..Len(p) : p[i] \in Asked) /\ (\A i \in 1..Len(g) : g[i] \in Said)
    OBVIOUS
  <2>2. (\A q0 \in Asked : q0.id \in Nat) /\ (\A a0 \in Said : a0.id \in Nat)
    BY DEF Asked, Said
  <2> QED
    BY <2>1, <2>2 DEF InLine, UpTo
<1> HIDE DEF r, t
<1>4. Ordered(r)
  <2> SUFFICES ASSUME NEW i \in 1..Len(r), NEW j \in 1..Len(r), i < j, r[j].id # Own
               PROVE  r[i].id < r[j].id
    BY DEF Ordered
  <2>1. /\ i + 1 \in 1..Len(p) /\ j + 1 \in 1..Len(p) /\ i + 1 < j + 1
        /\ r[i] = p[i + 1] /\ r[j] = p[j + 1]
    BY <1>1
  <2> QED
    BY <2>1 DEF InLine, Ordered
<1>5. UpTo(r, n)
  <2> SUFFICES ASSUME NEW i \in 1..Len(r) PROVE r[i].id <= n
    BY DEF UpTo
  <2>1. i + 1 \in 1..Len(p) /\ r[i] = p[i + 1]
    BY <1>1
  <2> QED
    BY <1>3, <2>1
<1>6. Before(g, r)
  <2> SUFFICES ASSUME NEW i \in 1..Len(g), NEW j \in 1..Len(r), r[j].id # Own
               PROVE  g[i].id < r[j].id
    BY DEF Before
  <2>1. j + 1 \in 1..Len(p) /\ r[j] = p[j + 1]
    BY <1>1
  <2> QED
    BY <2>1 DEF InLine, Before
<1>7. Ordered(t)
  <2> SUFFICES ASSUME NEW i \in 1..Len(t), NEW j \in 1..Len(t), i < j, t[j].id # Own
               PROVE  t[i].id < t[j].id
    BY DEF Ordered
  <2>1. i \in 1..Len(g) /\ t[i] = g[i]
    BY <1>1, <1>2
  <2>2. CASE j = Len(g) + 1
    BY <1>1, <1>2, <2>1, <2>2 DEF InLine, Before
  <2>3. CASE j # Len(g) + 1
    <3>1. j \in 1..Len(g) /\ t[j] = g[j]
      BY <1>1, <1>2, <2>3
    <3> QED
      BY <2>1, <3>1 DEF InLine, Ordered
  <2> QED
    BY <2>2, <2>3
<1>8. UpTo(t, n)
  <2> SUFFICES ASSUME NEW i \in 1..Len(t) PROVE t[i].id <= n
    BY DEF UpTo
  <2>1. CASE i = Len(g) + 1
    BY <1>1, <1>2, <1>3, <2>1
  <2>2. CASE i # Len(g) + 1
    <3>1. i \in 1..Len(g) /\ t[i] = g[i]
      BY <1>1, <1>2, <2>2
    <3> QED
      BY <1>3, <3>1
  <2> QED
    BY <2>1, <2>2
<1>9. Before(t, r)
  <2> SUFFICES ASSUME NEW i \in 1..Len(t), NEW j \in 1..Len(r), r[j].id # Own
               PROVE  t[i].id < r[j].id
    BY DEF Before
  <2>1. /\ j + 1 \in 1..Len(p) /\ 1 \in 1..Len(p) /\ 1 < j + 1 /\ r[j] = p[j + 1]
    BY <1>1
  <2>2. CASE i = Len(g) + 1
    <3>1. t[i] = p[1]
      BY <1>2, <2>2
    <3> QED
      BY <2>1, <3>1 DEF InLine, Ordered
  <2>3. CASE i # Len(g) + 1
    <3>1. i \in 1..Len(g) /\ t[i] = g[i]
      BY <1>1, <1>2, <2>3
    <3> QED
      BY <2>1, <3>1 DEF InLine, Before
  <2> QED
    BY <2>2, <2>3
<1> QED
  BY <1>4, <1>5, <1>6, <1>7, <1>8, <1>9 DEF InLine, r, t

\* The lines before a step, with what their parts are.
LEMMA LinesTyped ==
    ASSUME Kept, AllInLine, NEW l \in AllLanes
    PROVE  /\ given[l] \in Seq(Said) /\ atPad[l] \in Seq(Asked) /\ asks \in Nat
           /\ InLine(given[l], atPad[l], asks)
           /\ l \notin toPad => atPad[l] = <<>>
  BY DEF Kept, Typed, AllInLine

\* A question of the console's or of the relay's is sent to the pad, or to nobody.
LEMMA SentInLine ==
    ASSUME Kept, AllInLine, NEW lane \in AllLanes, NEW q \in Asked,
           atPad' = Forwarded(lane, q), given' = given, toPad' = toPad,
           asks' \in Nat, asks <= asks', q.id = Own \/ (q.id = asks' /\ asks < asks')
    PROVE  AllInLine'
<1> SUFFICES ASSUME NEW l \in AllLanes
             PROVE  /\ InLine(given'[l], atPad'[l], asks')
                    /\ l \notin toPad' => atPad'[l] = <<>>
  BY DEF AllInLine
<1>1. /\ given[l] \in Seq(Said) /\ atPad[l] \in Seq(Asked) /\ asks \in Nat
      /\ InLine(given[l], atPad[l], asks)
      /\ l \notin toPad => atPad[l] = <<>>
  BY LinesTyped
<1>2. CASE lane \in Heeded /\ l = lane
  <2>1. atPad'[l] = Append(atPad[l], q)
    BY <1>2 DEF Forwarded, Kept, Typed
  <2>2. InLine(given[l], Append(atPad[l], q), asks')
    BY <1>1, LineGrows
  <2> QED
    BY <1>2, <2>1, <2>2 DEF Heeded
<1>3. CASE ~(lane \in Heeded /\ l = lane)
  <2>1. atPad'[l] = atPad[l]
    BY <1>3 DEF Forwarded, Kept, Typed
  <2>2. InLine(given[l], atPad[l], asks')
    <3>1. (\A i \in 1..Len(given[l]) : given[l][i] \in Said)
          /\ (\A i \in 1..Len(atPad[l]) : atPad[l][i] \in Asked)
      BY <1>1
    <3>2. (\A q0 \in Asked : q0.id \in Nat) /\ (\A a0 \in Said : a0.id \in Nat)
      BY DEF Asked, Said
    <3>3. UpTo(given[l], asks') /\ UpTo(atPad[l], asks')
      BY <1>1, <3>1, <3>2 DEF InLine, UpTo
    <3> QED
      BY <1>1, <3>3 DEF InLine
  <2> QED
    BY <1>1, <2>1, <2>2
<1> QED
  BY <1>2, <1>3

\* handle_sdp_query() answers by itself: the pad's SDP channel is not open.
LEMMA SelfAnsweredInLine ==
    ASSUME Kept, AllInLine, "sdp" \notin toPad, NEW a \in Said, a.id = asks + 1,
           Give("sdp", a), atPad' = atPad, toPad' = toPad, asks' = asks + 1
    PROVE  AllInLine'
<1>1. "sdp" \in AllLanes
  BY DEF AllLanes
<1> SUFFICES ASSUME NEW l \in AllLanes
             PROVE  /\ InLine(given'[l], atPad'[l], asks')
                    /\ l \notin toPad' => atPad'[l] = <<>>
  BY DEF AllInLine
<1>2. /\ given[l] \in Seq(Said) /\ atPad[l] \in Seq(Asked) /\ asks \in Nat
      /\ InLine(given[l], atPad[l], asks)
      /\ l \notin toPad => atPad[l] = <<>>
  BY LinesTyped
<1>3. CASE l = "sdp"
  <2>1. atPad[l] = <<>> /\ given'[l] = Append(given[l], a)
    BY <1>1, <1>2, <1>3, GiveTyped
  <2>2. InLine(Append(given[l], a), <<>>, asks + 1)
    BY <1>2, <2>1, LineAnswered
  <2> QED
    BY <2>1, <2>2
<1>4. CASE l # "sdp"
  <2>1. given'[l] = given[l]
    BY <1>4 DEF Give, Kept, Typed
  <2>2. InLine(given[l], atPad[l], asks + 1)
    <3>1. (\A i \in 1..Len(given[l]) : given[l][i] \in Said)
          /\ (\A i \in 1..Len(atPad[l]) : atPad[l][i] \in Asked)
      BY <1>2
    <3>2. (\A q0 \in Asked : q0.id \in Nat) /\ (\A a0 \in Said : a0.id \in Nat)
      BY DEF Asked, Said
    <3>3. UpTo(given[l], asks + 1) /\ UpTo(atPad[l], asks + 1)
      BY <1>2, <3>1, <3>2 DEF InLine, UpTo
    <3> QED
      BY <1>2, <3>3 DEF InLine
  <2> QED
    BY <1>2, <2>1, <2>2
<1> QED
  BY <1>3, <1>4

\* The pad answers, and the console is there to hear it or is not.
LEMMA PadAnsweredInLine ==
    ASSUME Kept, AllInLine, NEW lane \in AllLanes, atPad[lane] # <<>>,
           atPad' = [atPad EXCEPT ![lane] = Tail(@)],
           Give(lane, Head(atPad[lane])) \/ given' = given,
           toPad' = toPad, asks' = asks
    PROVE  AllInLine'
<1> SUFFICES ASSUME NEW l \in AllLanes
             PROVE  /\ InLine(given'[l], atPad'[l], asks')
                    /\ l \notin toPad' => atPad'[l] = <<>>
  BY DEF AllInLine
<1>1. /\ given[l] \in Seq(Said) /\ atPad[l] \in Seq(Asked) /\ asks \in Nat
      /\ InLine(given[l], atPad[l], asks)
      /\ l \notin toPad => atPad[l] = <<>>
  BY LinesTyped
<1>2. CASE l = lane
  <2>1. atPad'[l] = Tail(atPad[l]) /\ l \in toPad
    BY <1>1, <1>2 DEF Kept, Typed
  <2>2. Head(atPad[l]) \in Said
    BY <1>2, AnsweredTyped
  <2>3. given'[l] = given[l] \/ given'[l] = Append(given[l], Head(atPad[l]))
    BY <1>2, <2>2, GiveTyped
  <2>4. /\ InLine(given[l], Tail(atPad[l]), asks)
        /\ InLine(Append(given[l], Head(atPad[l])), Tail(atPad[l]), asks)
    BY <1>1, <1>2, LineMoves
  <2> QED
    BY <2>1, <2>3, <2>4
<1>3. CASE l # lane
  BY <1>1, <1>3 DEF Give, Kept, Typed
<1> QED
  BY <1>2, <1>3

\* Every step keeps the lines, one action at a time.
LEMMA AllInLineStep == ASSUME Kept, AllInLine, [Next]_vars PROVE AllInLine'
<1>0. /\ "sdp" \in AllLanes /\ "control" \in AllLanes /\ asks \in Nat
  BY DEF AllLanes, Kept, Typed
<1>1. ASSUME NEW lane \in Lanes, PadOpens(lane) \/ ConsoleOpens(lane) PROVE AllInLine'
  BY <1>1 DEF PadOpens, ConsoleOpens, AllInLine, peerVars
<1>12. ASSUME NEW lane \in Lanes, PadCloses(lane) PROVE AllInLine'
  <2> SUFFICES ASSUME NEW l \in AllLanes
               PROVE  /\ InLine(given'[l], atPad'[l], asks')
                      /\ l \notin toPad' => atPad'[l] = <<>>
    BY DEF AllInLine
  <2>1. /\ atPad'[l] = <<>> \/ atPad'[l] = atPad[l]
        /\ given' = given /\ asks' = asks /\ toPad' = toPad
    BY <1>12 DEF PadCloses, hostVars, Kept, Typed
  <2>2. /\ InLine(given[l], <<>>, asks) /\ InLine(given[l], atPad[l], asks)
        /\ l \notin toPad => atPad[l] = <<>>
    BY LinesTyped, LineCleared
  <2> QED
    BY <2>1, <2>2
<1>2. CASE PrimeSdp
  <2> DEFINE q == Question(Own, "record")
  <2>1. q \in Asked /\ q.id = Own
    BY DEF Question, Asked, SdpKinds, Own
  <2>2. atPad' = Forwarded("sdp", q) /\ given' = given /\ toPad' = toPad /\ asks' = asks
    BY <1>2 DEF PrimeSdp
  <2> HIDE DEF q
  <2> QED
    BY <1>0, <2>1, <2>2, SentInLine
<1>3. CASE PrimeFeatures
  <2> DEFINE c == Question(Own, "calibration")
             d == Question(Own, "pairing")
             f == Question(Own, "firmware")
             s == atPad["control"]
  <2>1. c \in Asked /\ d \in Asked /\ f \in Asked /\ c.id = Own /\ d.id = Own /\ f.id = Own
    BY DEF Question, Asked, FeatureKinds, Own
  <2>0. /\ "control" \in toPad /\ given' = given /\ toPad' = toPad /\ asks' = asks
    BY <1>3 DEF PrimeFeatures
  <2> SUFFICES ASSUME "control" \in Heeded PROVE AllInLine'
    BY <1>3, <2>0 DEF PrimeFeatures, AllInLine
  <2>2. /\ atPad' = [atPad EXCEPT !["control"] = s \o <<c, d, f>>] /\ "control" \in toPad
        /\ given' = given /\ toPad' = toPad /\ asks' = asks
    BY <1>3, <2>0 DEF PrimeFeatures
  <2>3. s \in Seq(Asked) /\ given["control"] \in Seq(Said) /\ InLine(given["control"], s, asks)
    BY <1>0, LinesTyped
  <2> HIDE DEF c, d, f, s
  <2>4. /\ Append(s, c) \in Seq(Asked) /\ Append(Append(s, c), d) \in Seq(Asked)
        /\ s \o <<c, d, f>> = Append(Append(Append(s, c), d), f)
    BY <2>1, <2>3
  <2>5. ASSUME NEW p \in Seq(Asked), InLine(given["control"], p, asks),
               NEW q \in Asked, q.id = Own
        PROVE  InLine(given["control"], Append(p, q), asks)
    BY <1>0, <2>3, <2>5, LineGrows
  <2>6. InLine(given["control"], Append(Append(s, c), d), asks)
    BY <2>1, <2>3, <2>4, <2>5
  <2>7. InLine(given["control"], Append(Append(Append(s, c), d), f), asks)
    BY <2>1, <2>4, <2>5, <2>6
  <2>8. /\ atPad'["control"] = s \o <<c, d, f>>
        /\ \A l \in AllLanes \ {"control"} : atPad'[l] = atPad[l]
    BY <1>0, <2>2 DEF Kept, Typed
  <2>9. InLine(given'["control"], atPad'["control"], asks')
    BY <2>2, <2>4, <2>7, <2>8
  <2> QED
    BY <2>2, <2>8, <2>9 DEF AllInLine
<1>4. CASE PadLeaves
  <2> SUFFICES ASSUME NEW l \in AllLanes
               PROVE  /\ InLine(given'[l], atPad'[l], asks')
                      /\ l \notin toPad' => atPad'[l] = <<>>
    BY DEF AllInLine
  <2>1. atPad'[l] = <<>> /\ given' = given /\ asks' = asks
    BY <1>4 DEF PadLeaves
  <2>2. InLine(given[l], <<>>, asks)
    BY LinesTyped, LineCleared
  <2> QED
    BY <2>1, <2>2
<1>5. CASE ConsoleLeaves
  <2> SUFFICES ASSUME NEW l \in AllLanes
               PROVE  /\ InLine(given'[l], atPad'[l], asks')
                      /\ l \notin toPad' => atPad'[l] = <<>>
    BY DEF AllInLine
  <2>1. given'[l] = <<>> /\ atPad' = atPad /\ asks' = asks /\ toPad' = toPad
    BY <1>5 DEF ConsoleLeaves
  <2>2. InLine(<<>>, atPad[l], asks) /\ (l \notin toPad => atPad[l] = <<>>)
    BY LinesTyped, LineCleared
  <2> QED
    BY <2>1, <2>2
<1>6. ASSUME NEW kind \in SdpAsks, SdpQuery(kind) PROVE AllInLine'
  <2> DEFINE q == Question(asks + 1, kind)
  <2>1. kind \in SdpKinds
    BY AsksAssumption
  <2>2. asks' = asks + 1 /\ toPad' = toPad
    BY <1>6 DEF SdpQuery
  <2>3. CASE SdpQueryRoute(kind) = "pad"
    <3>1. atPad' = Forwarded("sdp", q) /\ given' = given
      BY <1>6, <2>3 DEF SdpQuery
    <3>2. q \in Asked /\ q.id = asks + 1
      BY <1>0, <2>1 DEF Question, Asked
    <3> HIDE DEF q
    <3> QED
      BY <1>0, <2>2, <3>1, <3>2, SentInLine
  <2>4. CASE SdpQueryRoute(kind) = "cache"
    <3>1. cache # Nothing /\ "sdp" \notin toPad
      BY <2>4 DEF SdpQueryRoute
    <3>2. Answer(asks + 1, cache) \in Said /\ Answer(asks + 1, cache).id = asks + 1
      BY <1>0, <3>1 DEF Answer, Said, Kept, Typed
    <3>3. Give("sdp", Answer(asks + 1, cache)) /\ atPad' = atPad
      BY <1>6, <2>4 DEF SdpQuery
    <3> QED
      BY <2>2, <3>1, <3>2, <3>3, SelfAnsweredInLine
  <2>5. CASE SdpQueryRoute(kind) = "empty"
    <3>1. "sdp" \notin toPad
      BY <2>5 DEF SdpQueryRoute
    <3>2. Answer(asks + 1, Empty(kind)) \in Said /\ Answer(asks + 1, Empty(kind)).id = asks + 1
      BY <1>0 DEF Answer, Said, Empty
    <3>3. Give("sdp", Answer(asks + 1, Empty(kind))) /\ atPad' = atPad
      BY <1>6, <2>5 DEF SdpQuery
    <3> QED
      BY <2>2, <3>1, <3>2, <3>3, SelfAnsweredInLine
  <2> QED
    BY <2>3, <2>4, <2>5 DEF SdpQueryRoute
<1>7. ASSUME NEW kind \in FeatureAsks, FeatureRequest(kind) PROVE AllInLine'
  <2> DEFINE q == Question(asks + 1, kind)
  <2>1. q \in Asked /\ q.id = asks + 1
    BY <1>0, AsksAssumption DEF Question, Asked
  <2>2. atPad' = Forwarded("control", q) /\ given' = given /\ toPad' = toPad /\ asks' = asks + 1
    BY <1>7 DEF FeatureRequest
  <2> HIDE DEF q
  <2> QED
    BY <1>0, <2>1, <2>2, SentInLine
<1>8. CASE UsbAsks
  <2> DEFINE q == Question(Own, "live")
  <2>1. q \in Asked /\ q.id = Own
    BY DEF Question, Asked, FeatureKinds, Own
  <2>2. atPad' = Forwarded("control", q) /\ given' = given /\ toPad' = toPad /\ asks' = asks
    BY <1>8 DEF UsbAsks
  <2> HIDE DEF q
  <2> QED
    BY <1>0, <2>1, <2>2, SentInLine
<1>9. CASE SdpAnswer
  <2>1. /\ atPad["sdp"] # <<>> /\ atPad' = [atPad EXCEPT !["sdp"] = Tail(@)]
        /\ Give("sdp", Head(atPad["sdp"])) \/ given' = given
        /\ toPad' = toPad /\ asks' = asks
    BY <1>9 DEF SdpAnswer
  <2> QED
    BY <1>0, <2>1, PadAnsweredInLine
<1>10. CASE FeatureAnswer
  <2>1. /\ atPad["control"] # <<>> /\ atPad' = [atPad EXCEPT !["control"] = Tail(@)]
        /\ Give("control", Head(atPad["control"])) \/ given' = given
        /\ toPad' = toPad /\ asks' = asks
    BY <1>10 DEF FeatureAnswer, hostVars
  <2> QED
    BY <1>0, <2>1, PadAnsweredInLine
<1>11. CASE UNCHANGED vars
  BY <1>11 DEF AllInLine, vars, hostVars, peerVars
<1> QED
  BY <1>1, <1>12, <1>2, <1>3, <1>4, <1>5, <1>6, <1>7, <1>8, <1>9, <1>10, <1>11 DEF Next

\* The lines are empty when the relay starts.
LEMMA AllInLineInit == Init => AllInLine
<1> SUFFICES ASSUME Init, NEW l \in AllLanes
             PROVE  InLine(given[l], atPad[l], asks) /\ (l \notin toPad => atPad[l] = <<>>)
  BY DEF AllInLine
<1>1. given[l] = <<>> /\ atPad[l] = <<>> /\ Len(<<>>) = 0
  BY DEF Init
<1> QED
  BY <1>1 DEF InLine, Ordered, Before, UpTo

\* However the pad, the cache and the relay itself take turns in answering, and
\* however often the links come and go, the console's questions of one link are
\* answered in the order it asked them and none of them twice.
THEOREM AnswersAlwaysInOrder == Spec => []AnswersInOrder
<1>1. Kept /\ AllInLine /\ [Next]_vars => AllInLine'
  BY AllInLineStep
<1>2. AllInLine => AnswersInOrder
  BY LanesAssumption DEF AllInLine, InLine, Ordered, AnswersInOrder
<1> QED
  BY RecordKept, AllInLineInit, <1>1, <1>2, PTL DEF Spec

================================================================================
