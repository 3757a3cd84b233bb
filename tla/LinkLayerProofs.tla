--------------------------- MODULE LinkLayerProofs ---------------------------
(***************************************************************************)
(* Proofs about the links of the two adapters and about the keys they are  *)
(* met with, for any handles, failures, callers, controllers, keys and runs. *)
(*                                                                         *)
(*  - Links: the console-facing adapter is deaf only under its flag, an    *)
(*    adapter without a link listens eagerly, and a link has exactly one end *)
(*    that authenticates it unless two attempts crossed;                   *)
(*  - Bonds: the console is met with the key it issued, and the pad's good *)
(*    key is never thrown away.                                            *)
(***************************************************************************)
EXTENDS Links, Bonds, TLAPS

(***************************************************************************)
(* Links.                                                                  *)
(***************************************************************************)

\* The play link is a link.
PlayIsLinked == onPlay => Linked("console")

\* What accepted_incoming_ says of the attempts under way: it is only ever set
\* while a call is, and if no two attempts crossed there is at most one attempt,
\* and the flag tells which.
FlagTells ==
    \A s \in Sides :
        /\ accepted[s] => answering[s]
        /\ ~crossed[s] =>
              /\ answering[s] => accepted[s] /\ ~paging[s] /\ ~rejecting[s]
              /\ paging[s] => ~rejecting[s]

-----------------------------------------------------------------------------
\* The initial state is well typed.
LEMMA InitLinks == Init => TypeOK
<1> SUFFICES ASSUME Init PROVE TypeOK
    OBVIOUS
<1>1. expected \in [Sides -> BOOLEAN]
  BY DEF Init
<1>2. addr \in [Sides -> BOOLEAN]
  BY Zenon DEF Init
<1>3. /\ handle \in [Sides -> PadHandles \cup ConsoleHandles \cup {NoLink}]
      /\ opens \in [Sides -> SUBSET (PadHandles \cup ConsoleHandles)]
      /\ \A s \in Sides : opens[s] \subseteq Handles(s) /\ handle[s] \in opens[s] \cup {NoLink}
  <2>1. handle = [s \in Sides |-> NoLink] /\ opens = [s \in Sides |-> {}]
    BY DEF Init
  <2> QED
    BY <2>1
<1>4. /\ setup \in [Sides -> BOOLEAN] /\ accepted \in [Sides -> BOOLEAN]
      /\ reconnect \in [Sides -> BOOLEAN] /\ stale \in [Sides -> BOOLEAN]
  <2>1. /\ setup = [s \in Sides |-> FALSE] /\ accepted = [s \in Sides |-> FALSE]
        /\ reconnect = [s \in Sides |-> FALSE] /\ stale = [s \in Sides |-> FALSE]
    BY DEF Init
  <2> QED
    BY <2>1
<1>5. /\ paging \in [Sides -> BOOLEAN] /\ answering \in [Sides -> BOOLEAN]
      /\ rejecting \in [Sides -> BOOLEAN] /\ crossed \in [Sides -> BOOLEAN]
  <2>1. /\ paging = [s \in Sides |-> FALSE] /\ answering = [s \in Sides |-> FALSE]
        /\ rejecting = [s \in Sides |-> FALSE] /\ crossed = [s \in Sides |-> FALSE]
    BY DEF Init
  <2> QED
    BY <2>1
<1>6. /\ window \in [Sides -> {"eager", "normal"}]
      /\ refused \in [Sides -> {"none", "exists", "other"}]
  <2>1. window = [s \in Sides |-> "eager"] /\ refused = [s \in Sides |-> "none"]
    BY DEF Init
  <2> QED
    BY <2>1
<1>7. /\ suppressed \in BOOLEAN /\ scan \in BOOLEAN /\ onPlay \in BOOLEAN
      /\ outputSeen \in BOOLEAN /\ handover \in BOOLEAN
  <2>1. /\ suppressed = FALSE /\ scan = FALSE /\ onPlay = FALSE
        /\ outputSeen = FALSE /\ handover = FALSE
    BY DEF Init
  <2> QED
    BY <2>1
<1> QED
  BY <1>1, <1>2, <1>3, <1>4, <1>5, <1>6, <1>7, Zenon DEF TypeOK

\* A Create Connection leaves what it changes well typed.
LEMMA CreateConnectionType ==
    ASSUME TypeOK, NEW s \in Sides, CreateConnection(s)
    PROVE  /\ paging' \in [Sides -> BOOLEAN] /\ crossed' \in [Sides -> BOOLEAN]
           /\ refused' \in [Sides -> {"none", "exists", "other"}]
<1>1. CASE /\ ~paging[s]
           /\ paging' = [paging EXCEPT ![s] = TRUE]
           /\ Crossing(s, answering[s] \/ rejecting[s])
           /\ UNCHANGED refused
  BY <1>1 DEF TypeOK, Crossing
<1>2. CASE /\ \E r \in IF paging[s] THEN {"other"} ELSE Refusals :
                 refused' = [refused EXCEPT ![s] = r]
           /\ UNCHANGED <<paging, crossed>>
  <2>1. PICK r \in IF paging[s] THEN {"other"} ELSE Refusals :
               refused' = [refused EXCEPT ![s] = r]
    BY <1>2
  <2>2. r \in {"none", "exists", "other"}
    BY <2>1, RefusalsAssumption
  <2> QED
    BY <1>2, <2>1, <2>2 DEF TypeOK
<1> QED
  BY <1>1, <1>2 DEF CreateConnection

\* What SetUp and ReconnectFires do to the radio leaves it well typed.
LEMMA DeafenType ==
    ASSUME TypeOK, NEW s \in Sides, Deafen(s)
    PROVE  scan' \in BOOLEAN /\ suppressed' \in BOOLEAN
BY DEF TypeOK, Deafen, scanVars

\* Every step keeps the state well typed.
LEMMA NextLinks == TypeOK /\ [Next]_vars => TypeOK'
<1> SUFFICES ASSUME TypeOK, [Next]_vars PROVE TypeOK'
    OBVIOUS
<1>1. ASSUME NEW s \in Sides, SetUp(s) PROVE TypeOK'
  <2>1. /\ paging' \in [Sides -> BOOLEAN] /\ crossed' \in [Sides -> BOOLEAN]
        /\ refused' \in [Sides -> {"none", "exists", "other"}]
    BY <1>1, CreateConnectionType DEF SetUp, TypeOK
  <2>2. scan' \in BOOLEAN /\ suppressed' \in BOOLEAN
    BY <1>1, DeafenType DEF SetUp, TypeOK
  <2> QED
    BY <1>1, <2>1, <2>2 DEF TypeOK, SetUp, linkVars
<1>2. ASSUME NEW s \in Sides, ReconnectFires(s) PROVE TypeOK'
  <2>1. /\ paging' \in [Sides -> BOOLEAN] /\ crossed' \in [Sides -> BOOLEAN]
        /\ refused' \in [Sides -> {"none", "exists", "other"}]
    BY <1>2, CreateConnectionType DEF ReconnectFires, TypeOK
  <2>2. scan' \in BOOLEAN /\ suppressed' \in BOOLEAN
    BY <1>2, DeafenType DEF ReconnectFires, TypeOK, scanVars
  <2> QED
    BY <1>2, <2>1, <2>2 DEF TypeOK, ReconnectFires, linkVars, peerVars
<1>3. ASSUME NEW s \in Sides, CmdStatus(s) PROVE TypeOK'
  BY <1>3 DEF TypeOK, CmdStatus, Schedule, linkVars, scanVars
<1>4. ASSUME NEW s \in Sides, PeerCalls(s) PROVE TypeOK'
  BY <1>4 DEF TypeOK, PeerCalls, Crossing, scanVars, peerVars
<1>5. ASSUME NEW s \in Sides, StrangerCalls(s) PROVE TypeOK'
  BY <1>5 DEF TypeOK, StrangerCalls, Crossing, linkVars, scanVars, peerVars
<1>6. ASSUME NEW s \in Sides, NEW h \in Handles(s), NEW d \in BOOLEAN, ConnectionUp(s, h, d)
      PROVE TypeOK'
  <2>1. /\ handle' = [handle EXCEPT ![s] = h]
        /\ opens' = [opens EXCEPT ![s] = @ \cup {h}]
    BY <1>6 DEF ConnectionUp
  <2>2. /\ handle' \in [Sides -> PadHandles \cup ConsoleHandles \cup {NoLink}]
        /\ opens' \in [Sides -> SUBSET (PadHandles \cup ConsoleHandles)]
    BY <2>1 DEF TypeOK, Handles
  <2>3. \A r \in Sides :
          opens'[r] \subseteq Handles(r) /\ handle'[r] \in opens'[r] \cup {NoLink}
    BY <2>1 DEF TypeOK
  <2> QED
    <3>1. /\ scan' \in BOOLEAN /\ suppressed' \in BOOLEAN /\ onPlay' \in BOOLEAN
          /\ outputSeen' \in BOOLEAN /\ handover' \in BOOLEAN
      BY <1>6 DEF TypeOK, ConnectionUp, ListenAgain, scanVars
    <3>2. /\ paging' \in [Sides -> BOOLEAN] /\ answering' \in [Sides -> BOOLEAN]
          /\ window' \in [Sides -> {"eager", "normal"}]
          /\ accepted' \in [Sides -> BOOLEAN] /\ crossed' \in [Sides -> BOOLEAN]
      BY <1>6 DEF TypeOK, ConnectionUp, Settled
    <3>3. UNCHANGED <<setup, addr, expected, stale, reconnect, refused, rejecting>>
      BY <1>6 DEF ConnectionUp, peerVars
    <3> QED
      BY <2>2, <2>3, <3>1, <3>2, <3>3 DEF TypeOK
<1>7. ASSUME NEW s \in Sides, NEW why, NEW other \in BOOLEAN, NEW over \in BOOLEAN,
             ConnectionFails(s, why, other, over)
      PROVE TypeOK'
  BY <1>7, ZenonT(60) DEF TypeOK, ConnectionFails, ForgetCall, ListenAgain, Schedule, Settled,
     scanVars, peerVars
<1>8. ASSUME NEW s \in Sides, NEW h \in Handles(s), LinkDown(s, h) PROVE TypeOK'
  BY <1>8, ZenonT(60) DEF TypeOK, LinkDown, Unlink, EagerAgain, Schedule, peerVars, ctrlVars
<1>9. CASE ConnectToConsole
  <2>1. "console" \in Sides
    BY DEF Sides
  <2>2. /\ paging' \in [Sides -> BOOLEAN] /\ crossed' \in [Sides -> BOOLEAN]
        /\ refused' \in [Sides -> {"none", "exists", "other"}]
    BY <1>9, <2>1, CreateConnectionType DEF ConnectToConsole
  <2>3. addr' \in [Sides -> BOOLEAN] /\ expected' \in [Sides -> BOOLEAN]
    BY <1>9 DEF TypeOK, ConnectToConsole
  <2>4. scan' \in BOOLEAN /\ handover' \in BOOLEAN
    BY <1>9, Zenon DEF ConnectToConsole
  <2> QED
    BY <1>9, <2>2, <2>3, <2>4 DEF TypeOK, ConnectToConsole
<1>10. CASE FirstOutput
  BY <1>10 DEF TypeOK, FirstOutput, scanVars, peerVars, ctrlVars, Sides
<1>11. CASE UNCHANGED vars
  BY <1>11 DEF TypeOK, vars, linkVars, scanVars, peerVars, ctrlVars
<1> QED
  BY <1>1, <1>2, <1>3, <1>4, <1>5, <1>6, <1>7, <1>8, <1>9, <1>10, <1>11
     DEF Next, PageEnds, CallEnds

\* Every reachable state of the two handlers is well typed, and the current
\* link of each (connection_handle_) is one of its open ones (open_handles_).
THEOREM LinksTypeCorrect == Spec => []TypeOK
BY InitLinks, NextLinks, PTL DEF Spec

-----------------------------------------------------------------------------
\* Deaf only under the flag holds at first and after every step.
LEMMA InitDeaf == Init => DeafOnlyUnderFlag
<1> SUFFICES ASSUME Init PROVE ~setup["console"]
    BY DEF DeafOnlyUnderFlag
<1>1. setup = [s \in Sides |-> FALSE] /\ "console" \in Sides
  BY DEF Init, Sides
<1> QED
  BY <1>1

\* The flag is set with every silencing of the radio, and cleared only where
\* the radio is woken.
LEMMA NextDeaf == TypeOK /\ DeafOnlyUnderFlag /\ [Next]_vars => DeafOnlyUnderFlag'
<1> SUFFICES ASSUME TypeOK, DeafOnlyUnderFlag, [Next]_vars PROVE DeafOnlyUnderFlag'
    OBVIOUS
<1> USE DEF TypeOK, DeafOnlyUnderFlag
<1>1. ASSUME NEW s \in Sides, SetUp(s) PROVE DeafOnlyUnderFlag'
  BY <1>1 DEF SetUp, Deafen, scanVars, Sides
<1>2. ASSUME NEW s \in Sides, ReconnectFires(s) PROVE DeafOnlyUnderFlag'
  BY <1>2 DEF ReconnectFires, Deafen, scanVars, peerVars
<1>3. ASSUME NEW s \in Sides, CmdStatus(s) PROVE DeafOnlyUnderFlag'
  BY <1>3 DEF CmdStatus, scanVars
<1>4. ASSUME NEW s \in Sides, PeerCalls(s) PROVE DeafOnlyUnderFlag'
  BY <1>4 DEF PeerCalls, scanVars, peerVars
<1>5. ASSUME NEW s \in Sides, StrangerCalls(s) PROVE DeafOnlyUnderFlag'
  BY <1>5 DEF StrangerCalls, scanVars, peerVars
<1>6. ASSUME NEW s \in Sides, NEW h \in Handles(s), NEW d \in BOOLEAN, ConnectionUp(s, h, d)
      PROVE DeafOnlyUnderFlag'
  BY <1>6 DEF ConnectionUp, ListenAgain, scanVars, peerVars
<1>7. ASSUME NEW s \in Sides, NEW why, NEW other \in BOOLEAN, NEW over \in BOOLEAN,
             ConnectionFails(s, why, other, over)
      PROVE DeafOnlyUnderFlag'
  BY <1>7 DEF ConnectionFails, ListenAgain, scanVars, peerVars
<1>8. ASSUME NEW s \in Sides, NEW h \in Handles(s), LinkDown(s, h) PROVE DeafOnlyUnderFlag'
  BY <1>8 DEF LinkDown, peerVars
<1>9. CASE ConnectToConsole
  BY <1>9 DEF ConnectToConsole
<1>10. CASE FirstOutput
  BY <1>10 DEF FirstOutput, scanVars, peerVars
<1>11. CASE UNCHANGED vars
  BY <1>11 DEF vars, scanVars, peerVars
<1> HIDE DEF TypeOK, DeafOnlyUnderFlag
<1> QED
  BY <1>1, <1>2, <1>3, <1>4, <1>5, <1>6, <1>7, <1>8, <1>9, <1>10, <1>11
     DEF Next, PageEnds, CallEnds

\* Whichever of the two handlers spoke to the console-facing radio last, it is
\* never left deaf without scan_suppressed_, the flag by which the end of a page
\* wakes it again.
THEOREM NeverDeafUnflagged == Spec => []DeafOnlyUnderFlag
<1>1. Spec => []TypeOK
  BY LinksTypeCorrect
<1> QED
  BY <1>1, InitDeaf, NextDeaf, PTL DEF Spec

-----------------------------------------------------------------------------
\* No link, eager windows, no play link: the property and the fact it rests on
\* hold at first.
LEMMA InitEager == Init => EagerWhenUnlinked /\ PlayIsLinked
<1> SUFFICES ASSUME Init PROVE EagerWhenUnlinked /\ PlayIsLinked
    OBVIOUS
<1>1. window = [s \in Sides |-> "eager"] /\ onPlay = FALSE
  BY DEF Init
<1> QED
  BY <1>1 DEF EagerWhenUnlinked, PlayIsLinked

\* The window is eased off only together with, or after, a link, and is eager
\* again with the loss of that link.
LEMMA NextEager ==
    TypeOK /\ EagerWhenUnlinked /\ PlayIsLinked /\ [Next]_vars
        => EagerWhenUnlinked' /\ PlayIsLinked'
<1> SUFFICES ASSUME TypeOK, EagerWhenUnlinked, PlayIsLinked, [Next]_vars
             PROVE  EagerWhenUnlinked' /\ PlayIsLinked'
    OBVIOUS
<1> USE DEF TypeOK, EagerWhenUnlinked, PlayIsLinked, Linked
<1>1. ASSUME NEW s \in Sides, SetUp(s) PROVE EagerWhenUnlinked' /\ PlayIsLinked'
  BY <1>1 DEF SetUp, linkVars
<1>2. ASSUME NEW s \in Sides, ReconnectFires(s) PROVE EagerWhenUnlinked' /\ PlayIsLinked'
  BY <1>2 DEF ReconnectFires, linkVars
<1>3. ASSUME NEW s \in Sides, CmdStatus(s) PROVE EagerWhenUnlinked' /\ PlayIsLinked'
  BY <1>3 DEF CmdStatus, linkVars
<1>4. ASSUME NEW s \in Sides, PeerCalls(s) PROVE EagerWhenUnlinked' /\ PlayIsLinked'
  BY <1>4 DEF PeerCalls
<1>5. ASSUME NEW s \in Sides, StrangerCalls(s) PROVE EagerWhenUnlinked' /\ PlayIsLinked'
  BY <1>5 DEF StrangerCalls, linkVars
<1>6. ASSUME NEW s \in Sides, NEW h \in Handles(s), NEW d \in BOOLEAN, ConnectionUp(s, h, d)
      PROVE EagerWhenUnlinked' /\ PlayIsLinked'
  <2>1. h # NoLink
    BY HandlesAssumption DEF Handles
  <2>2. handle' = [handle EXCEPT ![s] = h]
    BY <1>6 DEF ConnectionUp
  <2>3. \A r \in Sides : handle[r] # NoLink => handle'[r] # NoLink
    BY <2>1, <2>2
  <2>4. EagerWhenUnlinked'
    BY <1>6, <2>1, <2>2 DEF ConnectionUp
  <2>5. "console" \in Sides
    BY DEF Sides
  <2>6. onPlay' => onPlay \/ handle["console"] # NoLink
    BY <1>6 DEF ConnectionUp
  <2> QED
    BY <2>3, <2>4, <2>5, <2>6
<1>7. ASSUME NEW s \in Sides, NEW why, NEW other \in BOOLEAN, NEW over \in BOOLEAN,
             ConnectionFails(s, why, other, over)
      PROVE EagerWhenUnlinked' /\ PlayIsLinked'
  BY <1>7 DEF ConnectionFails
<1>8. ASSUME NEW s \in Sides, NEW h \in Handles(s), LinkDown(s, h)
      PROVE EagerWhenUnlinked' /\ PlayIsLinked'
  <2>1. CASE h = handle[s]
    <3>1. handle' = [handle EXCEPT ![s] = NoLink] /\ window' = [window EXCEPT ![s] = "eager"]
      BY <1>8, <2>1 DEF LinkDown, Unlink, EagerAgain
    <3>2. EagerWhenUnlinked'
      BY <3>1
    <3>3. CASE s = "console"
      BY <1>8, <2>1, <3>2, <3>3 DEF LinkDown
    <3>4. CASE s # "console"
      BY <1>8, <2>1, <3>1, <3>2, <3>4 DEF LinkDown
    <3> QED
      BY <3>3, <3>4
  <2>2. CASE h # handle[s]
    BY <1>8, <2>2 DEF LinkDown
  <2> QED
    BY <2>1, <2>2
<1>9. CASE ConnectToConsole
  BY <1>9 DEF ConnectToConsole
<1>10. CASE FirstOutput
  BY <1>10 DEF FirstOutput, Sides
<1>11. CASE UNCHANGED vars
  BY <1>11 DEF vars, linkVars
<1> HIDE DEF TypeOK, EagerWhenUnlinked, PlayIsLinked, Linked
<1> QED
  BY <1>1, <1>2, <1>3, <1>4, <1>5, <1>6, <1>7, <1>8, <1>9, <1>10, <1>11
     DEF Next, PageEnds, CallEnds

\* An adapter that has no link is listening with the eager page-scan window,
\* after any sequence of links, moves to the play link and losses.
THEOREM UnlinkedListensEagerly == Spec => []EagerWhenUnlinked
<1>1. Spec => []TypeOK
  BY LinksTypeCorrect
<1> QED
  BY <1>1, InitEager, NextEager, PTL DEF Spec

-----------------------------------------------------------------------------
\* Nothing is under way at first.
LEMMA InitFlag == Init => FlagTells
<1> SUFFICES ASSUME Init PROVE FlagTells
    OBVIOUS
<1>1. /\ accepted = [s \in Sides |-> FALSE] /\ answering = [s \in Sides |-> FALSE]
      /\ paging = [s \in Sides |-> FALSE]
  BY DEF Init
<1> QED
  BY <1>1 DEF FlagTells

\* A new page keeps what the flag tells.
LEMMA CreateConnectionFlag ==
    ASSUME TypeOK, FlagTells, NEW s \in Sides, CreateConnection(s),
           UNCHANGED <<accepted, answering, rejecting>>
    PROVE  FlagTells'
BY DEF TypeOK, FlagTells, CreateConnection, Crossing

\* Every step keeps what the flag tells of the attempts under way.
LEMMA NextFlag == TypeOK /\ FlagTells /\ [Next]_vars => FlagTells'
<1> SUFFICES ASSUME TypeOK, FlagTells, [Next]_vars PROVE FlagTells'
    OBVIOUS
<1>0. ASSUME UNCHANGED <<accepted, answering, rejecting, paging, crossed>> PROVE FlagTells'
  BY <1>0 DEF FlagTells
<1>1. ASSUME NEW s \in Sides, SetUp(s) PROVE FlagTells'
  BY <1>0, <1>1, CreateConnectionFlag DEF SetUp, linkVars
<1>2. ASSUME NEW s \in Sides, ReconnectFires(s) PROVE FlagTells'
  BY <1>0, <1>2, CreateConnectionFlag DEF ReconnectFires, linkVars
<1>3. ASSUME NEW s \in Sides, CmdStatus(s) PROVE FlagTells'
  BY <1>0, <1>3 DEF CmdStatus, linkVars
<1>4. ASSUME NEW s \in Sides, PeerCalls(s) PROVE FlagTells'
  BY <1>4 DEF TypeOK, FlagTells, PeerCalls, Crossing
<1>5. ASSUME NEW s \in Sides, StrangerCalls(s) PROVE FlagTells'
  BY <1>5 DEF TypeOK, FlagTells, StrangerCalls, Crossing, linkVars
<1>6. ASSUME NEW s \in Sides, NEW h \in Handles(s), NEW d \in BOOLEAN, ConnectionUp(s, h, d)
      PROVE FlagTells'
  BY <1>6 DEF TypeOK, FlagTells, ConnectionUp, Settled
<1>7. ASSUME NEW s \in Sides, NEW why, NEW other \in BOOLEAN, NEW over \in BOOLEAN,
             ConnectionFails(s, why, other, over)
      PROVE FlagTells'
  <2>1. /\ accepted \in [Sides -> BOOLEAN] /\ answering \in [Sides -> BOOLEAN]
        /\ rejecting \in [Sides -> BOOLEAN] /\ paging \in [Sides -> BOOLEAN]
        /\ crossed \in [Sides -> BOOLEAN]
    BY DEF TypeOK
  <2>2. \A t \in Sides : accepted'[t] = (accepted[t] /\ t # s)
    <3>1. accepted' = IF accepted[s] THEN [accepted EXCEPT ![s] = FALSE] ELSE accepted
      BY <1>7 DEF ConnectionFails, ForgetCall
    <3> QED
      BY <2>1, <3>1
  <2>3. crossed' = [crossed EXCEPT ![s] = @ /\ (paging'[s] \/ answering'[s] \/ rejecting'[s])]
    BY <1>7 DEF ConnectionFails, Settled
  <2>4. CASE why = "call"
    <3>1. answering' = [answering EXCEPT ![s] = FALSE] /\ UNCHANGED <<paging, rejecting>>
      BY <1>7, <2>4 DEF ConnectionFails
    <3> QED
      BY <2>1, <2>2, <2>3, <3>1 DEF FlagTells
  <2>5. CASE why = "rejected"
    <3>1. /\ rejecting[s] /\ rejecting' = [rejecting EXCEPT ![s] = FALSE]
          /\ UNCHANGED <<paging, answering>>
      BY <1>7, <2>5 DEF ConnectionFails
    <3> QED
      BY <2>1, <2>2, <2>3, <3>1 DEF FlagTells
  <2>6. CASE why \notin {"call", "rejected"}
    <3>1. /\ paging[s] /\ paging' = [paging EXCEPT ![s] = FALSE]
          /\ UNCHANGED <<answering, rejecting>>
      BY <1>7, <2>6 DEF ConnectionFails
    <3> QED
      BY <2>1, <2>2, <2>3, <3>1 DEF FlagTells
  <2> QED
    BY <2>4, <2>5, <2>6
<1>8. ASSUME NEW s \in Sides, NEW h \in Handles(s), LinkDown(s, h) PROVE FlagTells'
  BY <1>0, <1>8 DEF LinkDown, ctrlVars
<1>9. CASE ConnectToConsole
  <2>1. "console" \in Sides
    BY DEF Sides
  <2> QED
    BY <1>9, <2>1, CreateConnectionFlag DEF ConnectToConsole
<1>10. CASE FirstOutput
  BY <1>0, <1>10 DEF FirstOutput, ctrlVars
<1>11. CASE UNCHANGED vars
  BY <1>0, <1>11 DEF vars, linkVars, ctrlVars
<1> QED
  BY <1>1, <1>2, <1>3, <1>4, <1>5, <1>6, <1>7, <1>8, <1>9, <1>10, <1>11
     DEF Next, PageEnds, CallEnds

\* A link comes up with the flag set exactly if a call has become it, unless
\* attempts crossed.
LEMMA StepAuthenticates ==
    ASSUME TypeOK, FlagTells, [Next]_vars, NEW s \in Sides,
           handle'[s] \notin {handle[s], NoLink}, ~crossed[s]
    PROVE  accepted[s] <=> CallAnswered(s)
<1>1. ASSUME NEW r \in Sides, NEW h \in Handles(r), NEW d \in BOOLEAN, ConnectionUp(r, h, d)
      PROVE accepted[s] <=> CallAnswered(s)
  <2>1. r = s
    BY <1>1 DEF ConnectionUp, TypeOK
  <2>2. CASE d
    BY <1>1, <2>1, <2>2 DEF ConnectionUp, FlagTells, TypeOK, CallAnswered
  <2>3. CASE ~d
    BY <1>1, <2>1, <2>3 DEF ConnectionUp, FlagTells, TypeOK, CallAnswered
  <2> QED
    BY <2>2, <2>3
<1>2. ASSUME NEW r \in Sides, NEW h \in Handles(r), LinkDown(r, h) PROVE FALSE
  BY <1>2 DEF LinkDown, Unlink, TypeOK
<1>3. ASSUME handle' = handle PROVE FALSE
  BY <1>3
<1>4. CASE \E r \in Sides : SetUp(r) \/ ReconnectFires(r) \/ CmdStatus(r) \/ StrangerCalls(r)
  BY <1>3, <1>4 DEF SetUp, ReconnectFires, CmdStatus, StrangerCalls, linkVars
<1>5. CASE \E r \in Sides : PeerCalls(r)
  BY <1>3, <1>5 DEF PeerCalls
<1>6. CASE \E r \in Sides, why \in Failures, other, over \in BOOLEAN :
              ConnectionFails(r, why, other, over)
  BY <1>3, <1>6 DEF ConnectionFails
<1>7. CASE ConnectToConsole \/ FirstOutput
  BY <1>3, <1>7 DEF ConnectToConsole, FirstOutput
<1>8. CASE UNCHANGED vars
  BY <1>3, <1>8 DEF vars, linkVars
<1> QED
  BY <1>1, <1>2, <1>4, <1>5, <1>6, <1>7, <1>8 DEF Next, PageEnds, CallEnds, Failures

\* However many calls came and failed before it, a link is authenticated by
\* exactly the end that dialled it, unless two attempts were under way at once:
\* accepted_incoming_ never outlives the call it was set for.
THEOREM DiallerAuthenticates == Spec => OneEndAuthenticates
<1>1. Spec => []TypeOK
  BY LinksTypeCorrect
<1>2. TypeOK /\ FlagTells /\ [Next]_vars
        => [\A s \in Sides : (handle'[s] \notin {handle[s], NoLink} /\ ~crossed[s])
                                => (accepted[s] <=> CallAnswered(s))]_vars
  BY StepAuthenticates
<1> QED
  BY <1>1, <1>2, InitFlag, NextFlag, PTL DEF Spec, OneEndAuthenticates

(***************************************************************************)
(* Bonds.  Neither property is inductive: what a run does depends on what  *)
(* an earlier one left on file.  The invariant relates each file to the    *)
(* peer's copy of the key and each copy in memory to its file.             *)
(***************************************************************************)

\* A process that is not running has nothing in memory.
DownForgets == ~up => padKey = 0 /\ padLink = "down"

\* The pad's key in memory is the one on file, for the pad of this run.
PadKeyIsSaved == padKey # 0 => padFile.ok /\ padFile.key = padKey /\ padFile.pad = pad

\* While an authentication is out, the pad was told what is in memory.
ToldWhatWeHave == padLink = "answered" => told = padKey

\* A pairing on file is the one the console holds for that controller, or a
\* newer one could not be saved.
FileIsIssued ==
    consoleFile.ok => \/ consoleFile.key = issued[consoleFile.pad]
                      \/ consoleFile.pad \in unsaved

\* So is the captured one, until the two agree on another over the air.
CapturedIsIssued ==
    up /\ seen /\ ~aired => capturedKey = issued[pad] \/ pad \in unsaved

\* The inductive invariant.
BondsInv ==
    /\ BondsTypeOK
    /\ DownForgets /\ PadKeyIsSaved /\ ToldWhatWeHave
    /\ FileIsIssued /\ CapturedIsIssued
    /\ HandoverUsesIssuedKey

-----------------------------------------------------------------------------
(* The parts of the type invariant.                                        *)

FilesOK ==
    /\ padFile \in [ok : BOOLEAN, pad : Pads, key : 0..MaxKeys]
    /\ consoleFile \in [ok : BOOLEAN, pad : Pads, key : 0..MaxKeys, addr : BOOLEAN]
    /\ padFile.ok <=> padFile.key # 0
    /\ consoleFile.ok <=> consoleFile.key # 0

KeysOK ==
    /\ pad \in Pads /\ padKey \in 0..MaxKeys /\ told \in 0..MaxKeys
    /\ padLink \in {"down", "answered", "paired"}
    /\ capturedKey \in 0..MaxKeys /\ consoleKey \in 0..MaxKeys
    /\ unsaved \subseteq Pads /\ wrongKeys \subseteq {"aired", "unsaved", "stale"}

RunOK == \A b \in {up, seen, known, detached, expects, calls, aired} : b \in BOOLEAN

PeersOK ==
    /\ padHolds \in [Pads -> 0..MaxKeys] /\ issued \in [Pads -> 0..MaxKeys]
    /\ made \in 0..MaxKeys

\* BondsTypeOK is its parts.
LEMMA BondsTypeParts == BondsTypeOK <=> FilesOK /\ KeysOK /\ RunOK /\ PeersOK
BY Zenon DEF BondsTypeOK, FilesOK, KeysOK, RunOK, PeersOK

\* The same of the next state.
LEMMA BondsTypeJoin == FilesOK' /\ KeysOK' /\ RunOK' /\ PeersOK' => BondsTypeOK'
BY Zenon DEF BondsTypeOK, FilesOK, KeysOK, RunOK, PeersOK

\* A file that is gone has the type of one that is there.
LEMMA NoFiles ==
  ASSUME NEW p \in Pads
  PROVE  /\ NoPadFile \in [ok : BOOLEAN, pad : Pads, key : 0..MaxKeys]
         /\ NoConsoleFile \in [ok : BOOLEAN, pad : Pads, key : 0..MaxKeys, addr : BOOLEAN]
         /\ ~NoPadFile.ok /\ NoPadFile.key = 0
         /\ ~NoConsoleFile.ok /\ NoConsoleFile.key = 0
<1>1. (CHOOSE q \in Pads : TRUE) \in Pads
  OBVIOUS
<1> QED BY <1>1, MaxKeysAssumption DEF NoPadFile, NoConsoleFile

-----------------------------------------------------------------------------
LEMMA InitBonds == BondsInit => BondsInv
<1> SUFFICES ASSUME BondsInit PROVE BondsInv
  OBVIOUS
<1>1. pad \in Pads
  BY DEF BondsInit
<1>2. FilesOK
  BY <1>1, NoFiles DEF BondsInit, FilesOK
<1>3. KeysOK
  BY <1>1, MaxKeysAssumption DEF BondsInit, KeysOK
<1>4. RunOK
  BY DEF BondsInit, RunOK
<1>5. PeersOK
  BY MaxKeysAssumption DEF BondsInit, PeersOK
<1>6. DownForgets /\ PadKeyIsSaved /\ ToldWhatWeHave /\ CapturedIsIssued /\ HandoverUsesIssuedKey
  BY DEF BondsInit, DownForgets, PadKeyIsSaved, ToldWhatWeHave, CapturedIsIssued, HandoverUsesIssuedKey
<1>7. FileIsIssued
  BY <1>1, NoFiles DEF BondsInit, FileIsIssued
<1> QED BY <1>2, <1>3, <1>4, <1>5, <1>6, <1>7, BondsTypeParts DEF BondsInv

-----------------------------------------------------------------------------
(* Every operation, one lemma each.                                        *)

LEMMA StartInv == ASSUME BondsInv, NEW p \in Pads, Start(p) PROVE BondsInv'
<1> USE DEF BondsInv
<1>0. FilesOK /\ KeysOK /\ RunOK /\ PeersOK
  BY BondsTypeParts
<1>1. FilesOK'
  BY <1>0 DEF Start, files, FilesOK
<1>2. KeysOK'
  BY <1>0, MaxKeysAssumption DEF Start, FilesOK, KeysOK
<1>3. RunOK'
  BY <1>0 DEF Start, Matches, FilesOK, RunOK
<1>4. PeersOK'
  BY <1>0 DEF Start, peers, PeersOK
<1>5. DownForgets' /\ ToldWhatWeHave' /\ HandoverUsesIssuedKey'
  BY DEF Start, DownForgets, ToldWhatWeHave, HandoverUsesIssuedKey
<1>6. PadKeyIsSaved'
  BY <1>0 DEF Start, files, FilesOK, PadKeyIsSaved
<1>7. FileIsIssued'
  BY DEF Start, files, peers, FileIsIssued
<1>8. CapturedIsIssued'
  BY <1>0 DEF Start, peers, Matches, FileIsIssued, CapturedIsIssued
<1> QED BY <1>1, <1>2, <1>3, <1>4, <1>5, <1>6, <1>7, <1>8, BondsTypeJoin

\* What a process that ends leaves true of its memory.
LEMMA ForgetInv ==
  ASSUME BondsInv, Forget
  PROVE  /\ pad' \in Pads /\ padKey' \in 0..MaxKeys /\ told' \in 0..MaxKeys
         /\ padLink' \in {"down", "answered", "paired"}
         /\ capturedKey' \in 0..MaxKeys /\ consoleKey' \in 0..MaxKeys
         /\ RunOK'
         /\ DownForgets' /\ PadKeyIsSaved' /\ ToldWhatWeHave' /\ CapturedIsIssued'
<1>0. KeysOK
  BY BondsTypeParts DEF BondsInv
<1>1. /\ pad' \in Pads /\ padKey' \in 0..MaxKeys /\ told' \in 0..MaxKeys
      /\ padLink' \in {"down", "answered", "paired"}
      /\ capturedKey' \in 0..MaxKeys /\ consoleKey' \in 0..MaxKeys
  BY <1>0, MaxKeysAssumption DEF Forget, KeysOK
<1>2. RunOK'
  BY DEF Forget, RunOK
<1>3. DownForgets' /\ PadKeyIsSaved' /\ ToldWhatWeHave' /\ CapturedIsIssued'
  BY DEF Forget, DownForgets, PadKeyIsSaved, ToldWhatWeHave, CapturedIsIssued
<1> QED BY <1>1, <1>2, <1>3

LEMMA StopInv == ASSUME BondsInv, Stop PROVE BondsInv'
<1> USE DEF BondsInv
<1>0. FilesOK /\ KeysOK /\ RunOK /\ PeersOK
  BY BondsTypeParts
<1>1. Forget
  BY DEF Stop
<1>2. FilesOK' /\ PeersOK'
  BY <1>0 DEF Stop, files, peers, FilesOK, PeersOK
<1>3. KeysOK'
  BY <1>0, <1>1, ForgetInv DEF Stop, KeysOK
<1>4. FileIsIssued' /\ HandoverUsesIssuedKey'
  BY DEF Stop, files, peers, FileIsIssued, HandoverUsesIssuedKey
<1> QED BY <1>1, <1>2, <1>3, <1>4, ForgetInv, BondsTypeJoin

LEMMA FreshPairingInv == ASSUME BondsInv, FreshPairing PROVE BondsInv'
<1> USE DEF BondsInv
<1>0. FilesOK /\ KeysOK /\ RunOK /\ PeersOK
  BY BondsTypeParts
<1>1. FilesOK'
  BY <1>0, NoFiles DEF FreshPairing, FilesOK, KeysOK
<1>2. KeysOK' /\ PeersOK'
  BY <1>0 DEF FreshPairing, padSide, consoleSide, peers, history, KeysOK, PeersOK
<1>3. RunOK'
  BY <1>0 DEF FreshPairing, consoleSide, history, RunOK
<1>4. DownForgets' /\ PadKeyIsSaved' /\ ToldWhatWeHave'
  BY DEF FreshPairing, padSide, DownForgets, PadKeyIsSaved, ToldWhatWeHave
<1>5. FileIsIssued' /\ CapturedIsIssued' /\ HandoverUsesIssuedKey'
  BY DEF FreshPairing, padSide, consoleSide, peers, history, FileIsIssued, CapturedIsIssued,
         HandoverUsesIssuedKey
<1> QED BY <1>1, <1>2, <1>3, <1>4, <1>5, BondsTypeJoin

\* The steps that move only the pad's link, and the key in memory with it.
LEMMA PadLinkInv ==
  ASSUME BondsInv, PadAsksForKey \/ PadAuthFails \/ PadLinkEnds
  PROVE  BondsInv'
<1> USE DEF BondsInv
<1>0. FilesOK /\ KeysOK /\ RunOK /\ PeersOK
  BY BondsTypeParts
<1>1. UNCHANGED <<consoleFile, up, pad, consoleSide, peers, aired, unsaved, wrongKeys>>
  BY DEF PadAsksForKey, PadAuthFails, PadLinkEnds, files, history
<1>2. /\ padFile' = padFile \/ (padFile' = NoPadFile /\ padKey' = 0)
      /\ padKey' = padKey \/ padKey' = 0
      /\ told' = padKey \/ told' = told
      /\ padLink' = "down" \/ (padLink' = "answered" /\ told' = padKey /\ padKey' = padKey)
  BY DEF PadAsksForKey, PadAuthFails, PadLinkEnds, files
<1>3. up
  BY DEF PadAsksForKey, PadAuthFails, PadLinkEnds
<1>4. FilesOK'
  BY <1>0, <1>1, <1>2, NoFiles DEF FilesOK, KeysOK
<1>5. KeysOK'
  BY <1>0, <1>1, <1>2, MaxKeysAssumption DEF consoleSide, KeysOK
<1>6. RunOK' /\ PeersOK'
  BY <1>0, <1>1 DEF consoleSide, peers, RunOK, PeersOK
<1>7. DownForgets' /\ ToldWhatWeHave'
  BY <1>1, <1>2, <1>3 DEF DownForgets, ToldWhatWeHave
<1>8. PadKeyIsSaved'
  BY <1>1, <1>2 DEF PadKeyIsSaved
<1>9. FileIsIssued' /\ CapturedIsIssued' /\ HandoverUsesIssuedKey'
  BY <1>1 DEF consoleSide, peers, FileIsIssued, CapturedIsIssued, HandoverUsesIssuedKey
<1> QED BY <1>4, <1>5, <1>6, <1>7, <1>8, <1>9, BondsTypeJoin

\* A pad is paired only after it was told there is no key: there is none in
\* memory that the new file could contradict.
LEMMA PadPairsInv == ASSUME BondsInv, NEW save \in Saves, PadPairs(save) PROVE BondsInv'
<1> USE DEF BondsInv
<1>0. FilesOK /\ KeysOK /\ RunOK /\ PeersOK
  BY BondsTypeParts
<1>1. /\ consoleFile' = consoleFile /\ issued' = issued
      /\ unsaved' = unsaved /\ wrongKeys' = wrongKeys
      /\ made \in Nat /\ made < MaxKeys /\ made' = made + 1
      /\ padHolds' = [padHolds EXCEPT ![pad] = made + 1]
      /\ up /\ padKey = 0 /\ pad \in Pads
  BY <1>0 DEF PadPairs, KeysOK, PeersOK, ToldWhatWeHave
<1>2. PeersOK'
  BY <1>0, <1>1, MaxKeysAssumption DEF PeersOK
<1>3. FileIsIssued' /\ HandoverUsesIssuedKey'
  BY <1>1 DEF FileIsIssued, HandoverUsesIssuedKey
<1>4. FilesOK'
  <2>1. padFile' \in {padFile, NoPadFile, [ok |-> TRUE, pad |-> pad, key |-> made + 1]}
    BY DEF PadPairs, FileAfter
  <2>2. CASE padFile' = padFile
    BY <1>0, <1>1, <2>2 DEF FilesOK
  <2>3. CASE padFile' = NoPadFile
    BY <1>0, <1>1, <2>3, NoFiles DEF FilesOK
  <2>4. CASE padFile' = [ok |-> TRUE, pad |-> pad, key |-> made + 1]
    BY <1>0, <1>1, <2>4, MaxKeysAssumption DEF FilesOK
  <2> QED BY <2>1, <2>2, <2>3, <2>4
<1>5. CASE ~Survives(save)
  <2>1. Forget
    BY <1>5 DEF PadPairs
  <2>2. KeysOK'
    BY <1>0, <1>1, <2>1, ForgetInv DEF KeysOK
  <2> QED BY <1>2, <1>3, <1>4, <2>1, <2>2, ForgetInv, BondsTypeJoin
<1>6. CASE Survives(save)
  <2>1. padLink' = "paired" /\ UNCHANGED <<up, pad, padKey, told, consoleSide, aired>>
    BY <1>6 DEF PadPairs
  <2>2. KeysOK'
    BY <1>0, <1>1, <2>1 DEF KeysOK, consoleSide
  <2>3. RunOK'
    BY <1>0, <2>1 DEF RunOK, consoleSide
  <2>4. DownForgets' /\ PadKeyIsSaved' /\ ToldWhatWeHave'
    BY <1>1, <2>1 DEF DownForgets, PadKeyIsSaved, ToldWhatWeHave
  <2>5. CapturedIsIssued'
    BY <1>1, <2>1 DEF CapturedIsIssued, consoleSide
  <2> QED BY <1>2, <1>3, <1>4, <2>2, <2>3, <2>4, <2>5, BondsTypeJoin
<1> QED BY <1>5, <1>6

LEMMA PadForgetsInv == ASSUME BondsInv, NEW p \in Pads, PadForgets(p) PROVE BondsInv'
<1> USE DEF BondsInv
<1>0. FilesOK /\ KeysOK /\ RunOK /\ PeersOK
  BY BondsTypeParts
<1>1. FilesOK' /\ KeysOK'
  BY <1>0 DEF PadForgets, files, padSide, consoleSide, history, FilesOK, KeysOK
<1>2. RunOK'
  BY <1>0 DEF PadForgets, consoleSide, history, RunOK
<1>3. PeersOK'
  BY <1>0, MaxKeysAssumption DEF PadForgets, PeersOK
<1>4. DownForgets' /\ PadKeyIsSaved' /\ ToldWhatWeHave'
  BY DEF PadForgets, files, padSide, DownForgets, PadKeyIsSaved, ToldWhatWeHave
<1>5. FileIsIssued' /\ CapturedIsIssued' /\ HandoverUsesIssuedKey'
  BY DEF PadForgets, files, padSide, consoleSide, history, FileIsIssued, CapturedIsIssued,
         HandoverUsesIssuedKey
<1> QED BY <1>1, <1>2, <1>3, <1>4, <1>5, BondsTypeJoin

\* A key agreed on with the console replaces, on file and at the console at
\* once, whatever pairing the file held; torn, the file holds none; refused or
\* killed before, it holds what it held, and the controller is unsaved.
LEMMA ConsolePairsInv == ASSUME BondsInv, NEW save \in Saves, ConsolePairs(save) PROVE BondsInv'
<1> USE DEF BondsInv
<1>0. FilesOK /\ KeysOK /\ RunOK /\ PeersOK
  BY BondsTypeParts
<1>1. /\ padFile' = padFile /\ padHolds' = padHolds /\ wrongKeys' = wrongKeys
      /\ made \in Nat /\ made < MaxKeys /\ made' = made + 1
      /\ issued' = [issued EXCEPT ![pad] = made + 1]
      /\ pad \in Pads /\ unsaved' \subseteq Pads
  BY <1>0 DEF ConsolePairs, PeersOK, KeysOK
<1>2. PeersOK'
  BY <1>0, <1>1, MaxKeysAssumption DEF PeersOK
<1>3. HandoverUsesIssuedKey'
  BY <1>1 DEF HandoverUsesIssuedKey
<1>4. issued'[pad] = made + 1 /\ \A p \in Pads : p # pad => issued'[p] = issued[p]
  BY <1>0, <1>1 DEF PeersOK
<1>5. \/ /\ save = "done" /\ consoleFile' = [ok |-> TRUE, pad |-> pad, key |-> made + 1, addr |-> calls]
      \/ save = "torn" /\ consoleFile' = NoConsoleFile
      \/ save \in {"refused", "killed"} /\ consoleFile' = consoleFile /\ unsaved' = unsaved \cup {pad}
  BY DEF ConsolePairs, SavePairing, FileAfter, Saves, KeepsOld
<1>6. FilesOK'
  <2>1. calls \in BOOLEAN
    BY <1>0 DEF RunOK
  <2>2. CASE consoleFile' = consoleFile
    BY <1>0, <1>1, <2>2 DEF FilesOK
  <2>3. CASE consoleFile' = NoConsoleFile
    BY <1>0, <1>1, <2>3, NoFiles DEF FilesOK
  <2>4. CASE consoleFile' = [ok |-> TRUE, pad |-> pad, key |-> made + 1, addr |-> calls]
    BY <1>0, <1>1, <2>1, <2>4, MaxKeysAssumption DEF FilesOK
  <2> QED BY <1>5, <2>2, <2>3, <2>4
<1>7. FileIsIssued'
  <2>1. CASE consoleFile' = [ok |-> TRUE, pad |-> pad, key |-> made + 1, addr |-> calls]
    BY <1>4, <2>1 DEF FileIsIssued
  <2>2. CASE consoleFile' = NoConsoleFile
    BY <1>1, <2>2, NoFiles DEF FileIsIssued
  <2>3. CASE consoleFile' = consoleFile /\ unsaved' = unsaved \cup {pad}
    BY <1>0, <1>4, <2>3 DEF FileIsIssued, FilesOK
  <2> QED BY <1>5, <2>1, <2>2, <2>3
<1>8. CASE ~Survives(save)
  <2>1. Forget
    BY <1>8 DEF ConsolePairs
  <2>2. KeysOK'
    BY <1>0, <1>1, <2>1, ForgetInv DEF KeysOK
  <2> QED BY <1>2, <1>3, <1>6, <1>7, <2>1, <2>2, ForgetInv, BondsTypeJoin
<1>9. CASE Survives(save)
  <2>1. aired' = TRUE /\ UNCHANGED <<up, padSide, consoleSide>>
    BY <1>9 DEF ConsolePairs
  <2>2. KeysOK'
    BY <1>0, <1>1, <2>1 DEF KeysOK, padSide, consoleSide
  <2>3. RunOK'
    BY <1>0, <2>1 DEF RunOK, consoleSide
  <2>4. DownForgets' /\ PadKeyIsSaved' /\ ToldWhatWeHave'
    BY <1>1, <2>1 DEF DownForgets, PadKeyIsSaved, ToldWhatWeHave, padSide
  <2>5. CapturedIsIssued'
    BY <2>1 DEF CapturedIsIssued
  <2> QED BY <1>2, <1>3, <1>6, <1>7, <2>2, <2>3, <2>4, <2>5, BondsTypeJoin
<1> QED BY <1>8, <1>9

LEMMA PairingSetInv ==
  ASSUME BondsInv, NEW key \in 0..MaxKeys, NEW save \in Saves, PairingSet(key, save)
  PROVE  BondsInv'
<1> USE DEF BondsInv
<1>0. FilesOK /\ KeysOK /\ RunOK /\ PeersOK
  BY BondsTypeParts
<1>1. /\ padFile' = padFile /\ padHolds' = padHolds
      /\ unsaved' = unsaved /\ wrongKeys' = wrongKeys
      /\ pad \in Pads /\ made \in Nat
  BY <1>0 DEF PairingSet, KeysOK, PeersOK
<1>2. HandoverUsesIssuedKey'
  BY <1>1 DEF HandoverUsesIssuedKey
\* zeros: the console issued a key for this controller before
<1>3. CASE key = 0
  <2>1. UNCHANGED <<made, issued>>
    BY <1>1, <1>3 DEF PairingSet
  <2>2. /\ known' = (known \/ seen)
        /\ UNCHANGED <<consoleFile, up, padSide, seen, capturedKey, detached, expects, calls,
                       consoleKey, aired>>
    BY <1>3 DEF PairingSet, IsKey
  <2>3. FilesOK' /\ KeysOK' /\ PeersOK'
    BY <1>0, <1>1, <2>1, <2>2 DEF FilesOK, KeysOK, PeersOK, padSide
  <2>4. RunOK'
    BY <1>0, <2>2 DEF RunOK
  <2>5. DownForgets' /\ PadKeyIsSaved' /\ ToldWhatWeHave'
    BY <1>1, <2>2 DEF DownForgets, PadKeyIsSaved, ToldWhatWeHave, padSide
  <2>6. FileIsIssued' /\ CapturedIsIssued'
    BY <1>1, <2>1, <2>2 DEF FileIsIssued, CapturedIsIssued, padSide
  <2> QED BY <1>2, <2>3, <2>4, <2>5, <2>6, BondsTypeJoin
\* a key: the first the console issues for it, so no pairing of it is on file
<1>4. CASE key # 0
  <2>1. /\ made' \in 0..MaxKeys /\ issued' = [issued EXCEPT ![pad] = key]
        /\ issued[pad] = 0
    BY <1>1, <1>4, MaxKeysAssumption DEF PairingSet
  <2>2. PeersOK'
    BY <1>0, <1>1, <2>1 DEF PeersOK
  <2>3. issued'[pad] = key /\ \A p \in Pads : p # pad => issued'[p] = issued[p]
    BY <1>0, <1>1, <2>1 DEF PeersOK
  <2>4. consoleFile' \in {consoleFile, NoConsoleFile,
                          [ok |-> TRUE, pad |-> pad, key |-> key, addr |-> TRUE]}
    BY <1>4 DEF PairingSet, IsKey, SavePairing, FileAfter
  <2>5. FilesOK'
    <3>1. CASE consoleFile' = consoleFile
      BY <1>0, <1>1, <3>1 DEF FilesOK
    <3>2. CASE consoleFile' = NoConsoleFile
      BY <1>0, <1>1, <3>2, NoFiles DEF FilesOK
    <3>3. CASE consoleFile' = [ok |-> TRUE, pad |-> pad, key |-> key, addr |-> TRUE]
      BY <1>0, <1>1, <1>4, <3>3 DEF FilesOK
    <3> QED BY <2>4, <3>1, <3>2, <3>3
  <2>6. FileIsIssued'
    <3>1. CASE consoleFile' = [ok |-> TRUE, pad |-> pad, key |-> key, addr |-> TRUE]
      BY <2>3, <3>1 DEF FileIsIssued
    <3>2. CASE consoleFile' = NoConsoleFile
      BY <1>1, <3>2, NoFiles DEF FileIsIssued
    <3>3. CASE consoleFile' = consoleFile
      BY <1>0, <1>1, <2>1, <2>3, <3>3 DEF FileIsIssued, FilesOK
    <3> QED BY <2>4, <3>1, <3>2, <3>3
  <2>7. CASE ~Survives(save)
    <3>1. Forget
      BY <1>4, <2>7 DEF PairingSet, IsKey
    <3>2. KeysOK'
      BY <1>0, <1>1, <3>1, ForgetInv DEF KeysOK
    <3> QED BY <1>2, <2>2, <2>5, <2>6, <3>1, <3>2, ForgetInv, BondsTypeJoin
  <2>8. CASE Survives(save)
    <3>1. /\ seen' = TRUE /\ capturedKey' = key /\ known' = TRUE
          /\ UNCHANGED <<up, padSide, detached, expects, calls, consoleKey, aired>>
      BY <1>4, <2>8 DEF PairingSet, IsKey
    <3>2. KeysOK'
      BY <1>0, <1>1, <3>1 DEF KeysOK, padSide
    <3>3. RunOK'
      BY <1>0, <3>1 DEF RunOK
    <3>4. DownForgets' /\ PadKeyIsSaved' /\ ToldWhatWeHave'
      BY <1>1, <3>1 DEF DownForgets, PadKeyIsSaved, ToldWhatWeHave, padSide
    <3>5. CapturedIsIssued'
      BY <2>3, <3>1 DEF CapturedIsIssued, padSide
    <3> QED BY <1>2, <2>2, <2>5, <2>6, <3>2, <3>3, <3>4, <3>5, BondsTypeJoin
  <2> QED BY <2>7, <2>8
<1> QED BY <1>3, <1>4

\* The handover itself, and a failure of the authentication after it.
LEMMA HandoverInv ==
  ASSUME BondsInv, NEW linked \in BOOLEAN, PairCommand(linked) \/ ConsoleAuthFails
  PROVE  BondsInv'
<1> USE DEF BondsInv
<1>0. FilesOK /\ KeysOK /\ RunOK /\ PeersOK
  BY BondsTypeParts
<1>1. UNCHANGED <<files, up, padSide, seen, capturedKey, known, peers, aired, unsaved>>
  BY DEF PairCommand, ConsoleAuthFails, history
<1>2. /\ consoleKey' \in {consoleKey, capturedKey, 0}
      /\ calls' \in {calls, known} /\ expects' \in {expects, known}
      /\ detached' \in {detached, TRUE}
  BY DEF PairCommand, ConsoleAuthFails
<1>3. /\ wrongKeys' \subseteq {"aired", "unsaved", "stale"}
      /\ "stale" \notin wrongKeys'
  <2>1. CASE ConsoleAuthFails
    BY <1>0, <2>1 DEF ConsoleAuthFails, history, KeysOK, HandoverUsesIssuedKey
  <2>2. CASE PairCommand(linked)
    <3>1. up /\ seen
      BY <2>2 DEF PairCommand
    <3>2. \/ wrongKeys' = wrongKeys
          \/ wrongKeys' = wrongKeys \cup {"aired"} \/ wrongKeys' = wrongKeys \cup {"unsaved"}
      BY <2>2, <3>1 DEF PairCommand, CapturedIsIssued, Excuse
    <3> QED BY <1>0, <3>2 DEF KeysOK, HandoverUsesIssuedKey
  <2> QED BY <2>1, <2>2
<1>4. FilesOK' /\ PeersOK'
  BY <1>0, <1>1 DEF FilesOK, PeersOK, files, peers
<1>5. KeysOK'
  BY <1>0, <1>1, <1>2, <1>3, MaxKeysAssumption DEF KeysOK, padSide
<1>6. RunOK'
  BY <1>0, <1>1, <1>2 DEF RunOK
<1>7. DownForgets' /\ PadKeyIsSaved' /\ ToldWhatWeHave'
  BY <1>1 DEF DownForgets, PadKeyIsSaved, ToldWhatWeHave, padSide, files
<1>8. FileIsIssued' /\ CapturedIsIssued' /\ HandoverUsesIssuedKey'
  BY <1>1, <1>3 DEF FileIsIssued, CapturedIsIssued, HandoverUsesIssuedKey, padSide, files, peers
<1> QED BY <1>4, <1>5, <1>6, <1>7, <1>8, BondsTypeJoin

LEMMA StutterInv == ASSUME BondsInv, UNCHANGED bondsVars PROVE BondsInv'
<1> USE DEF BondsInv
<1>0. FilesOK /\ KeysOK /\ RunOK /\ PeersOK
  BY BondsTypeParts
<1>1. FilesOK' /\ KeysOK' /\ PeersOK'
  BY <1>0 DEF bondsVars, files, padSide, consoleSide, peers, history, FilesOK, KeysOK, PeersOK
<1>2. RunOK'
  BY <1>0 DEF bondsVars, consoleSide, history, RunOK
<1>3. DownForgets' /\ PadKeyIsSaved' /\ ToldWhatWeHave'
  BY DEF bondsVars, files, padSide, DownForgets, PadKeyIsSaved, ToldWhatWeHave
<1>4. FileIsIssued' /\ CapturedIsIssued' /\ HandoverUsesIssuedKey'
  BY DEF bondsVars, files, padSide, consoleSide, peers, history, FileIsIssued, CapturedIsIssued,
         HandoverUsesIssuedKey
<1> QED BY <1>1, <1>2, <1>3, <1>4, BondsTypeJoin

\* Every step keeps the invariant.
LEMMA NextBonds == BondsInv /\ [BondsNext]_bondsVars => BondsInv'
<1> SUFFICES ASSUME BondsInv, [BondsNext]_bondsVars PROVE BondsInv'
  OBVIOUS
<1>1. ASSUME NEW p \in Pads, Start(p) PROVE BondsInv'
  BY <1>1, StartInv
<1>2. ASSUME NEW p \in Pads, PadForgets(p) PROVE BondsInv'
  BY <1>2, PadForgetsInv
<1>3. ASSUME NEW save \in Saves, PadPairs(save) PROVE BondsInv'
  BY <1>3, PadPairsInv
<1>4. ASSUME NEW save \in Saves, ConsolePairs(save) PROVE BondsInv'
  BY <1>4, ConsolePairsInv
<1>5. ASSUME NEW key \in 0..MaxKeys, NEW save \in Saves, PairingSet(key, save) PROVE BondsInv'
  BY <1>5, PairingSetInv
<1>6. ASSUME NEW linked \in BOOLEAN, PairCommand(linked) PROVE BondsInv'
  BY <1>6, HandoverInv
<1>7. CASE ConsoleAuthFails
  BY <1>7, HandoverInv
<1>8. CASE PadAsksForKey \/ PadAuthFails \/ PadLinkEnds
  BY <1>8, PadLinkInv
<1> QED
  BY <1>1, <1>2, <1>3, <1>4, <1>5, <1>6, <1>7, <1>8, StopInv, FreshPairingInv, StutterInv DEF BondsNext

-----------------------------------------------------------------------------
(* The theorems.                                                           *)

\* Every variable keeps its type, and a file that loads holds a key.
THEOREM BondsTypeCorrect == BondsSpec => []BondsTypeOK
<1>1. BondsInv => BondsTypeOK
  BY DEF BondsInv
<1> QED BY <1>1, InitBonds, NextBonds, PTL DEF BondsSpec

\* However many runs and controllers there are, and wherever saves are refused,
\* torn or cut off, the console is met with the key it holds for this controller,
\* unless the two agreed on another over the air in this run, or in an earlier
\* one that could not save it (connect_to_console(), and what
\* load_console_pairing() and the pairing reports left for it).
THEOREM HandoverAlwaysUsesIssuedKey == BondsSpec => []HandoverUsesIssuedKey
<1>1. BondsInv => HandoverUsesIssuedKey
  BY DEF BondsInv
<1> QED BY <1>1, InitBonds, NextBonds, PTL DEF BondsSpec

\* A failed authentication never costs the file whose key the pad honours: the
\* key in memory is the one on file, so a key that fails is not the pad's.
LEMMA StepKeepsGoodKey ==
  ASSUME BondsInv, [BondsNext]_bondsVars, up, padFile.ok, padFile.pad = pad, padFile.key = padHolds[pad]
  PROVE  padFile' = padFile \/ made' # made
<1>1. CASE PadAuthFails
  <2>1. padKey = 0
    BY <1>1 DEF PadAuthFails, BondsInv, ToldWhatWeHave, PadKeyIsSaved
  <2> QED BY <1>1, <2>1 DEF PadAuthFails, KeyRejected
<1>2. ASSUME NEW save \in Saves, PadPairs(save) PROVE made' # made
  BY <1>2 DEF PadPairs, BondsInv, BondsTypeOK
<1>3. ASSUME NEW p \in Pads, Start(p) \/ PadForgets(p) PROVE padFile' = padFile
  BY <1>3 DEF Start, PadForgets, files
<1>4. ASSUME NEW save \in Saves, ConsolePairs(save) PROVE padFile' = padFile
  BY <1>4 DEF ConsolePairs
<1>5. ASSUME NEW key \in 0..MaxKeys, NEW save \in Saves, PairingSet(key, save)
      PROVE  padFile' = padFile
  BY <1>5 DEF PairingSet
<1>6. ASSUME NEW linked \in BOOLEAN, PairCommand(linked) PROVE padFile' = padFile
  BY <1>6 DEF PairCommand, files
<1>7. CASE Stop \/ PadAsksForKey \/ PadLinkEnds \/ ConsoleAuthFails \/ UNCHANGED bondsVars
  BY <1>7 DEF Stop, PadAsksForKey, PadLinkEnds, ConsoleAuthFails, bondsVars, files
<1>8. ~FreshPairing
  BY DEF FreshPairing
<1> QED BY <1>1, <1>2, <1>3, <1>4, <1>5, <1>6, <1>7, <1>8 DEF BondsNext

\* The file with the key the pad of this run honours is lost only to pairing
\* again, whatever authentications fail meanwhile (handle_auth_complete()).
THEOREM GoodKeyAlwaysKept == BondsSpec => GoodKeyKept
<1>1. BondsInv /\ [BondsNext]_bondsVars
        => [(up /\ padFile.ok /\ padFile.pad = pad /\ padFile.key = padHolds[pad])
              => (padFile' = padFile \/ made' # made)]_bondsVars
  BY StepKeepsGoodKey
<1> QED BY <1>1, InitBonds, NextBonds, PTL DEF BondsSpec, GoodKeyKept

=============================================================================
