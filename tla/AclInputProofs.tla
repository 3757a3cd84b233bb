---------------------------- MODULE AclInputProofs ----------------------------
(***************************************************************************)
(* Proofs about AclInput, for any handles, PDUs, links and runs of the     *)
(* process: no link of an earlier run is served, Ctrl+C tells every open   *)
(* link, and only whole PDUs are routed.                                   *)
(*                                                                         *)
(* The packets of one handle share the socket with those of the others.    *)
(* What is said of them is said of neighbours: two packets of a handle     *)
(* with none of it between them, where position 0 stands for what the      *)
(* program has of the handle and the position after the last packet for    *)
(* what its peer is about to send.  Reading, sending and losing a packet   *)
(* each change one pair of neighbours, so nothing has to be followed       *)
(* through the socket by induction.                                        *)
(***************************************************************************)
EXTENDS AclInput, FiniteSetTheorems, SequenceTheorems, TLAPS

-----------------------------------------------------------------------------
(* Types.                                                                  *)

Fragments ==
    {f \in [type : {"acl"}, handle : Handles, link : Nat \ {0}, pb : {"start", "cont"},
            pdu : Nat, len : Nat \ {0}, from : Nat \ {0}, to : Nat] :
        /\ f.to <= f.len
        /\ f.pb = "start" => f.from = 1
        /\ f.pb = "cont" => f.from <= f.to}
UpPackets == [type : {"up"}, handle : Handles, link : Nat \ {0}]
DownPackets == [type : {"down"}, handle : Handles]
Packets == Fragments \cup UpPackets \cup DownPackets \cup [type : {"answer"}]
Commands == [handle : Handles, link : Nat]
Bytes == [link : Nat, pdu : Nat, unit : Nat]
Places == [pdu : Nat, len : Nat, done : Nat]

\* The program's side.
ProgOK ==
    /\ phase \in {"off", "reset", "serving", "closing"}
    /\ openHandles \subseteq Handles /\ IsFiniteSet(openHandles)
    /\ ghosts \subseteq Handles
    /\ reasm \in [Handles -> [expected : Nat, buf : Seq(Bytes)]]
    /\ cmds \in Seq(Commands) /\ unanswered \in BOOLEAN /\ old \in BOOLEAN
    /\ known \in [Handles -> Nat]

\* The controller's, the socket's and the peers'.
CtrlOK ==
    /\ up \in [Handles -> Nat] /\ inside \in Seq(Commands) /\ resetDue \in BOOLEAN
    /\ sending \in [Handles -> Places]
    /\ \A h \in Handles : sending[h].done <= sending[h].len
    /\ rx \in Seq(Packets)
    /\ links \in Nat /\ pdus \in Nat /\ runs \in Nat /\ losses \in Nat

HistOK ==
    /\ abandoned \in BOOLEAN /\ torn \in BOOLEAN /\ intruder \in BOOLEAN /\ untold \in BOOLEAN

TypeOK == ProgOK /\ CtrlOK /\ HistOK

-----------------------------------------------------------------------------
(* What the program has of a handle and what the controller has.           *)

\* A process that is off has no socket, and one that has not begun to serve
\* knows of no link.
KnowsNothingYet ==
    /\ phase = "off" => rx = <<>>
    /\ phase \in {"off", "reset"} => openHandles = {}

\* The open handles are the ones a link is known on, and only they have a PDU
\* open.
OpenIsKnown ==
    \A h \in Handles :
        /\ h \in openHandles <=> known[h] # 0
        /\ h \notin openHandles => reasm[h] = Closed

\* Nobody sends without a link.
SilentWhenDown == \A h \in Handles : up[h] = 0 => sending[h] = Silent

BaseInv == TypeOK /\ KnowsNothingYet /\ OpenIsKnown /\ SilentWhenDown

-----------------------------------------------------------------------------
(* Neighbours in the socket.                                               *)

IsOf(p, h) == p.type # "answer" /\ p.handle = h

\* Positions i and k of s hold neighbouring packets of h.
Neighbours(s, h, i, k) ==
    /\ i \in 0..Len(s) /\ k \in 1..(Len(s) + 1) /\ i < k
    /\ i # 0 => IsOf(s[i], h)
    /\ k # Len(s) + 1 => IsOf(s[k], h)
    /\ \A j \in (i + 1)..(k - 1) : ~IsOf(s[j], h)

\* The link a packet leaves its handle to, 0 for none, and the link it comes from,
\* 0 if it does not matter.
LinkAfter(p) == IF p.type = "down" THEN 0 ELSE p.link
LinkBefore(p) == IF p.type = "acl" THEN p.link ELSE 0

\* Traffic of a link follows its Connection Complete, other traffic of it, or
\* nothing the program could take for the start of another link: s holds the
\* packets, first the links before them and last the links after them.
Ordered(s, first, last) ==
    \A h \in Handles : \A i, k \in Nat :
        Neighbours(s, h, i, k) =>
            LET l == IF i = 0 THEN first[h] ELSE LinkAfter(s[i])
                n == IF k = Len(s) + 1 THEN last[h] ELSE LinkBefore(s[k])
            IN  l = 0 \/ n \in {0, l}

LinksInOrder == Ordered(rx, known, up)

GhostInv == BaseInv /\ LinksInOrder /\ GhostsNeverServed

-----------------------------------------------------------------------------
(* Ctrl+C.                                                                 *)

\* Every link that was open at the signal has its Disconnect written or queued,
\* and a queue that is not empty waits for an answer.
EveryoneIsTold ==
    /\ cmds # <<>> => unanswered
    /\ phase = "closing" =>
          \A l \in atSignal : l \in told \/ \E i \in 1..Len(cmds) : cmds[i].link = l

ShutdownInv == BaseInv /\ EveryoneIsTold /\ ShutdownTells

-----------------------------------------------------------------------------
(* Reassembly.                                                             *)

\* How far a peer is in a PDU: d of n units, or between two PDUs.
Between == [link |-> 0, pdu |-> 0, done |-> 0, len |-> 0]
Place(l, p, d, n) ==
    IF d < n THEN [link |-> l, pdu |-> p, done |-> d, len |-> n] ELSE Between

\* Where its sender is after packet p, and before it.
After(p) == IF p.type = "acl" THEN Place(p.link, p.pdu, p.to, p.len) ELSE Between
Before(p) ==
    IF p.type = "acl" /\ p.pb = "cont" THEN Place(p.link, p.pdu, p.from - 1, p.len) ELSE Between

\* Where the peer on h is, which is what the next packet will find.
Ends == [h \in Handles |-> Place(up[h], sending[h].pdu, sending[h].done, sending[h].len)]

\* A packet that leaves its sender at v is followed by one that finds it at w: it
\* is where it was, or has given a PDU up (gave), or the one packet of m was lost.
Follows(v, w, m, gave) ==
    \/ v = w
    \/ w = Between /\ gave
    \/ \E x \in m : v = Before(x) /\ w = After(x)

\* What the program may have of a PDU whose sender is at w: nothing, all of it so
\* far, too little of it ever to be whole, or a rest that only a start can follow.
MayHold(r, w, m, gave) ==
    \/ r = Closed
    \/ w # Between /\ r = [expected |-> w.len, buf |-> Units(w.link, w.pdu, 1, w.done)]
    \/ /\ w # Between /\ r.expected = w.len /\ Len(r.buf) < w.done
       /\ \E x \in m : x.pb = "cont"
    \/ w = Between /\ (gave \/ \E x \in m : x.pb = "cont")

\* Every packet of s but a Disconnection Complete, which may come anywhere, finds
\* its sender where the one before it left it, and the program with no more of
\* its PDU than that; held is what the program has, last where the peers are.
Streamed(s, held, last, m, gave) ==
    \A h \in Handles : \A i, k \in Nat :
        Neighbours(s, h, i, k) /\ (k # Len(s) + 1 => s[k].type # "down") =>
            LET w == IF k = Len(s) + 1 THEN last[h] ELSE Before(s[k])
            IN  IF i = 0 THEN MayHold(held[h], w, m, gave) ELSE Follows(After(s[i]), w, m, gave)

\* m is what the socket has lost, nothing or one fragment.
IsLost(m) == IF losses = 0 THEN m = {} ELSE \E x \in Fragments : m = {x}

\* As long as RoutedWhole says anything:
Excused == losses > 0 /\ (abandoned \/ losses > 1)
RouteInv ==
    BaseInv /\ (Excused \/ (~torn /\ \E m \in SUBSET Fragments :
                                        IsLost(m) /\ Streamed(rx, reasm, Ends, m, abandoned)))

-----------------------------------------------------------------------------
(* Lemmas about packets, commands and sets of them.                        *)

LEMMA PacketFacts ==
    ASSUME NEW p \in Packets
    PROVE  /\ p.type \in {"acl", "up", "down", "answer"}
           /\ p.type = "acl" => p \in Fragments
           /\ p.type = "up" => p \in UpPackets
           /\ p.type = "down" => p \in DownPackets
           /\ p.type # "answer" => p.handle \in Handles
  BY DEF Packets, Fragments, UpPackets, DownPackets

LEMMA FragmentFacts ==
    ASSUME NEW f \in Fragments
    PROVE  /\ f.type = "acl" /\ f.handle \in Handles /\ f.link \in Nat \ {0}
           /\ f.pb \in {"start", "cont"} /\ f.pdu \in Nat /\ f.len \in Nat \ {0}
           /\ f.from \in Nat \ {0} /\ f.to \in Nat /\ f.to <= f.len
           /\ f.pb = "start" => f.from = 1
           /\ f.pb = "cont" => f.from <= f.to
           /\ f \in Packets
  BY DEF Fragments, Packets

LEMMA FragmentIs ==
    ASSUME NEW h \in Handles, NEW l \in Nat \ {0}, NEW pb \in {"start", "cont"}, NEW p \in Nat,
           NEW n \in Nat \ {0}, NEW a \in Nat \ {0}, NEW b \in Nat,
           b <= n, pb = "start" => a = 1, pb = "cont" => a <= b
    PROVE  /\ Fragment(h, l, pb, p, n, a, b) \in Fragments
           /\ Fragment(h, l, pb, p, n, a, b).handle = h
           /\ Fragment(h, l, pb, p, n, a, b).link = l
           /\ Fragment(h, l, pb, p, n, a, b).pb = pb
           /\ Fragment(h, l, pb, p, n, a, b).pdu = p
           /\ Fragment(h, l, pb, p, n, a, b).len = n
           /\ Fragment(h, l, pb, p, n, a, b).from = a
           /\ Fragment(h, l, pb, p, n, a, b).to = b
  BY DEF Fragment, Fragments

\* The bytes of some units are a sequence; taken together with the ones that
\* follow they are the bytes of both.
LEMMA UnitsAre ==
    ASSUME NEW l \in Nat, NEW p \in Nat, NEW a \in Nat \ {0}, NEW b \in Nat, a <= b + 1
    PROVE  /\ Units(l, p, a, b) \in Seq(Bytes)
           /\ Len(Units(l, p, a, b)) = b - a + 1
           /\ Units(l, p, a, b) = <<>> <=> b < a
<1>1. b - a + 1 \in Nat
  OBVIOUS
<1>2. \A i \in 1..(b - a + 1) : [link |-> l, pdu |-> p, unit |-> a + i - 1] \in Bytes
  BY DEF Bytes
<1>3. Units(l, p, a, b) \in Seq(Bytes) /\ Len(Units(l, p, a, b)) = b - a + 1
  BY <1>1, <1>2 DEF Units
<1> HIDE DEF Units
<1> QED
  BY <1>1, <1>3

LEMMA UnitsJoin ==
    ASSUME NEW l \in Nat, NEW p \in Nat, NEW a \in Nat \ {0}, NEW b \in Nat, a <= b
    PROVE  Units(l, p, 1, a - 1) \o Units(l, p, a, b) = Units(l, p, 1, b)
<1> DEFINE u == Units(l, p, 1, a - 1)
           v == Units(l, p, a, b)
           w == Units(l, p, 1, b)
<1>1. /\ u \in Seq(Bytes) /\ Len(u) = a - 1 /\ v \in Seq(Bytes) /\ Len(v) = b - a + 1
      /\ w \in Seq(Bytes) /\ Len(w) = b
  <2>1. a - 1 \in Nat /\ 1 <= (a - 1) + 1 /\ (a - 1) - 1 + 1 = a - 1 /\ 1 \in Nat \ {0}
    OBVIOUS
  <2>2. u \in Seq(Bytes) /\ Len(u) = a - 1
    BY <2>1, UnitsAre
  <2>3. v \in Seq(Bytes) /\ Len(v) = b - a + 1
    <3>1. a <= b + 1
      OBVIOUS
    <3> QED
      BY <3>1, UnitsAre
  <2>4. w \in Seq(Bytes) /\ Len(w) = b
    <3>1. 1 <= b + 1 /\ 1 \in Nat \ {0} /\ b - 1 + 1 = b
      OBVIOUS
    <3> QED
      BY <3>1, UnitsAre, ZenonT(60)
  <2> QED
    BY <2>2, <2>3, <2>4
<1>2. /\ \A i \in 1..(a - 1) : u[i] = [link |-> l, pdu |-> p, unit |-> i]
      /\ \A i \in 1..b : w[i] = [link |-> l, pdu |-> p, unit |-> i]
      /\ \A i \in 1..(b - a + 1) : v[i] = [link |-> l, pdu |-> p, unit |-> a + i - 1]
  BY DEF Units
<1> HIDE DEF u, v, w
<1>3. /\ u \o v \in Seq(Bytes) /\ Len(u \o v) = Len(u) + Len(v)
      /\ \A i \in 1..Len(u) + Len(v) : (u \o v)[i] = IF i <= Len(u) THEN u[i] ELSE v[i - Len(u)]
  BY <1>1, ConcatProperties, Zenon
<1>4. Len(u \o v) = b
  BY <1>1, <1>3
<1>5. ASSUME NEW i \in 1..b PROVE (u \o v)[i] = w[i]
  <2>1. CASE i <= a - 1
    <3>1. i \in 1..(a - 1) /\ i \in 1..Len(u) + Len(v) /\ i <= Len(u)
      BY <2>1, <1>1
    <3> QED
      BY <3>1, <1>2, <1>3
  <2>2. CASE ~(i <= a - 1)
    <3>1. /\ i - (a - 1) \in 1..(b - a + 1) /\ i \in 1..Len(u) + Len(v) /\ ~(i <= Len(u))
          /\ a + (i - (a - 1)) - 1 = i
      BY <2>2, <1>1
    <3>2. (u \o v)[i] = v[i - (a - 1)]
      BY <3>1, <1>1, <1>3
    <3>3. v[i - (a - 1)] = [link |-> l, pdu |-> p, unit |-> i]
      BY <3>1, <1>2
    <3> QED
      BY <3>2, <3>3, <1>2
  <2> QED
    BY <2>1, <2>2
<1>6. u \o v = w
  BY <1>1, <1>3, <1>4, <1>5, SeqEqual
<1> QED
  BY <1>6 DEF u, v, w

LEMMA RemoveAtIs ==
    ASSUME NEW S, NEW s \in Seq(S), NEW r \in 1..Len(s)
    PROVE  /\ RemoveAt(s, r) \in Seq(S) /\ Len(RemoveAt(s, r)) = Len(s) - 1
           /\ \A i \in 1..(Len(s) - 1) : RemoveAt(s, r)[i] = s[IF i < r THEN i ELSE i + 1]
<1> DEFINE u == SubSeq(s, 1, r - 1)
           v == SubSeq(s, r + 1, Len(s))
<1>0. Len(s) \in Nat
  OBVIOUS
<1>1. /\ u \in Seq(S) /\ Len(u) = r - 1
      /\ \A i \in 1..(r - 1) : u[i] = s[i]
  OBVIOUS
<1>2. /\ v \in Seq(S) /\ Len(v) = Len(s) - r
      /\ \A i \in 1..(Len(s) - r) : v[i] = s[r + i]
  OBVIOUS
<1> HIDE DEF u, v
<1>3. /\ u \o v \in Seq(S) /\ Len(u \o v) = Len(u) + Len(v)
      /\ \A i \in 1..Len(u) + Len(v) : (u \o v)[i] = IF i <= Len(u) THEN u[i] ELSE v[i - Len(u)]
  BY <1>1, <1>2, ConcatProperties, Zenon
<1>4. ASSUME NEW i \in 1..(Len(s) - 1) PROVE (u \o v)[i] = s[IF i < r THEN i ELSE i + 1]
  <2>1. i \in 1..Len(u) + Len(v)
    BY <1>0, <1>1, <1>2
  <2>2. CASE i < r
    <3>1. i <= Len(u) /\ i \in 1..(r - 1)
      BY <2>2, <1>0, <1>1
    <3> QED
      BY <3>1, <2>1, <2>2, <1>1, <1>3
  <2>3. CASE ~(i < r)
    <3>1. ~(i <= Len(u)) /\ i - (r - 1) \in 1..(Len(s) - r) /\ r + (i - (r - 1)) = i + 1
      BY <2>3, <1>0, <1>1
    <3>2. (u \o v)[i] = v[i - (r - 1)]
      BY <3>1, <2>1, <1>1, <1>3
    <3> QED
      BY <3>1, <3>2, <2>3, <1>2
  <2> QED
    BY <2>2, <2>3
<1>5. Len(u \o v) = Len(s) - 1
  BY <1>0, <1>1, <1>2, <1>3
<1> QED
  BY <1>3, <1>4, <1>5 DEF RemoveAt, u, v

\* SetToSeq() of a finite set leaves nothing of it out.
LEMMA SetToSeqIs ==
    ASSUME NEW S, IsFiniteSet(S)
    PROVE  /\ SetToSeq(S) \in Seq(S)
           /\ \A x \in S : \E i \in 1..Len(SetToSeq(S)) : SetToSeq(S)[i] = x
<1> DEFINE n == Cardinality(S)
           f == SetToSeq(S)
<1>1. n \in Nat /\ ExistsBijection(1..n, S)
  BY FS_CardinalityType
<1>2. PICK g \in Bijection(1..n, S) : TRUE
  BY <1>1 DEF ExistsBijection
<1>3. g \in [1..n -> S] /\ IsInjective(g)
  BY <1>2 DEF Bijection, Injection, IsInjective
<1>4. f \in [1..n -> S] /\ IsInjective(f)
  BY <1>3 DEF SetToSeq
<1> HIDE DEF f
<1>5. f \in Seq(S) /\ Len(f) = n
  BY <1>1, <1>4
<1>6. f \in Injection(1..n, S)
  BY <1>4 DEF Injection, IsInjective
<1>7. Cardinality(1..n) = n
  BY <1>1, FS_Interval
<1>8. f \in Surjection(1..n, S)
  BY <1>6, <1>7, FS_Injection
<1>9. \A x \in S : \E i \in 1..n : f[i] = x
  BY <1>8 DEF Surjection
<1> QED
  BY <1>5, <1>9 DEF f

LEMMA ConcatHolds ==
    ASSUME NEW S, NEW s \in Seq(S), NEW t \in Seq(S)
    PROVE  /\ s \o t \in Seq(S)
           /\ \A i \in 1..Len(s) : \E j \in 1..Len(s \o t) : (s \o t)[j] = s[i]
           /\ \A i \in 1..Len(t) : \E j \in 1..Len(s \o t) : (s \o t)[j] = t[i]
<1>1. /\ s \o t \in Seq(S) /\ Len(s \o t) = Len(s) + Len(t)
      /\ \A i \in 1..Len(s) + Len(t) : (s \o t)[i] = IF i <= Len(s) THEN s[i] ELSE t[i - Len(s)]
  BY ConcatProperties, Zenon
<1>2. Len(s) \in Nat /\ Len(t) \in Nat
  OBVIOUS
<1>3. ASSUME NEW i \in 1..Len(s) PROVE \E j \in 1..Len(s \o t) : (s \o t)[j] = s[i]
  <2>1. i \in 1..Len(s) + Len(t) /\ i <= Len(s)
    BY <1>2
  <2> QED
    BY <1>1, <2>1
<1>4. ASSUME NEW i \in 1..Len(t) PROVE \E j \in 1..Len(s \o t) : (s \o t)[j] = t[i]
  <2>1. i + Len(s) \in 1..Len(s) + Len(t) /\ ~(i + Len(s) <= Len(s)) /\ (i + Len(s)) - Len(s) = i
    BY <1>2
  <2> QED
    BY <1>1, <2>1
<1> QED
  BY <1>1, <1>3, <1>4

\* The links a sequence of commands is about.
About(q, l) == \E i \in 1..Len(q) : q[i].link = l

\* A pump: whatever a queued command is about is written or still queued, and
\* what is still queued waits for an answer.
LEMMA PumpIs ==
    ASSUME NEW q \in Seq(Commands), NEW busy \in BOOLEAN, inside \in Seq(Commands), Pump(q, busy)
    PROVE  /\ cmds' \in Seq(Commands) /\ unanswered' \in BOOLEAN /\ inside' \in Seq(Commands)
           /\ cmds' # <<>> => unanswered'
           /\ \A l : l \in told \/ About(q, l) => l \in told' \/ About(cmds', l)
<1>1. CASE busy \/ q = <<>>
  BY <1>1 DEF Pump
<1>2. CASE ~(busy \/ q = <<>>)
  <2>1. /\ cmds' = Tail(q) /\ unanswered' = TRUE
        /\ inside' = Append(inside, Head(q)) /\ told' = told \cup {Head(q).link}
    BY <1>2 DEF Pump
  <2>2. /\ Head(q) \in Commands /\ Tail(q) \in Seq(Commands) /\ Len(Tail(q)) = Len(q) - 1
        /\ \A i \in 1..Len(Tail(q)) : Tail(q)[i] = q[i + 1]
    BY <1>2, HeadTailProperties
  <2>3. ASSUME NEW l, NEW i \in 1..Len(q), q[i].link = l PROVE l \in told' \/ About(cmds', l)
    <3>1. CASE i = 1
      BY <3>1, <2>1, <2>3
    <3>2. CASE i # 1
      <4>1. i - 1 \in 1..Len(Tail(q)) /\ (i - 1) + 1 = i
        BY <3>2, <2>2
      <4> QED
        BY <4>1, <2>1, <2>2, <2>3 DEF About
    <3> QED
      BY <3>1, <3>2
  <2>4. inside' \in Seq(Commands)
    BY <2>1, <2>2
  <2> QED
    BY <2>1, <2>2, <2>3, <2>4 DEF About
<1> QED
  BY <1>1, <1>2

-----------------------------------------------------------------------------
(* The base: types, and who knows of which link.                           *)

LEMMA RxHead ==
    ASSUME rx \in Seq(Packets), rx # <<>>
    PROVE  /\ Head(rx) \in Packets /\ Head(rx) = rx[1] /\ Tail(rx) \in Seq(Packets)
           /\ Len(Tail(rx)) = Len(rx) - 1 /\ Len(rx) \in Nat \ {0}
           /\ \A i \in 1..(Len(rx) - 1) : Tail(rx)[i] = rx[i + 1]
  BY HeadTailProperties

LEMMA DeliveredIs ==
    ASSUME NEW ps \in Seq(Packets), rx \in Seq(Packets), Delivered(ps)
    PROVE  rx' \in Seq(Packets) /\ (phase = "off" => rx' = rx) /\ (phase # "off" => rx' = rx \o ps)
  BY ConcatProperties DEF Delivered

LEMMA InitBase == Init => BaseInv
<1> SUFFICES ASSUME Init PROVE BaseInv
    OBVIOUS
<1>1. ProgOK
  <2>1. Closed \in [expected : Nat, buf : Seq(Bytes)]
    BY DEF Closed
  <2>2. reasm \in [Handles -> [expected : Nat, buf : Seq(Bytes)]]
    BY <2>1 DEF Init
  <2>3. IsFiniteSet(openHandles)
    BY FS_EmptySet DEF Init
  <2>4. known \in [Handles -> Nat]
    BY DEF Init, NoLinks
  <2>5. /\ phase \in {"off", "reset", "serving", "closing"}
        /\ openHandles \subseteq Handles /\ ghosts \subseteq Handles
        /\ cmds \in Seq(Commands) /\ unanswered \in BOOLEAN /\ old \in BOOLEAN
    BY EmptySeq DEF Init
  <2> QED
    BY <2>2, <2>3, <2>4, <2>5 DEF ProgOK
<1>2. CtrlOK
  <2>1. Silent \in Places /\ Silent.done <= Silent.len
    BY DEF Silent, Places
  <2>2. sending \in [Handles -> Places] /\ \A h \in Handles : sending[h].done <= sending[h].len
    BY <2>1 DEF Init
  <2>3. up \in [Handles -> Nat]
    BY DEF Init, NoLinks
  <2>4. /\ inside \in Seq(Commands) /\ resetDue \in BOOLEAN /\ rx \in Seq(Packets)
        /\ links \in Nat /\ pdus \in Nat /\ runs \in Nat /\ losses \in Nat
    BY EmptySeq DEF Init
  <2> QED
    BY <2>2, <2>3, <2>4 DEF CtrlOK
<1>3. HistOK
  BY DEF Init, HistOK
<1>4. KnowsNothingYet /\ OpenIsKnown /\ SilentWhenDown
  BY DEF Init, KnowsNothingYet, OpenIsKnown, SilentWhenDown, NoLinks
<1> QED
  BY <1>1, <1>2, <1>3, <1>4 DEF BaseInv, TypeOK

LEMMA BaseReadLinks ==
    ASSUME BaseInv, OnLinkUp \/ OnLinkDown
    PROVE  BaseInv'
<1> DEFINE p == Head(rx)
           h == Head(rx).handle
<1>1. rx \in Seq(Packets) /\ rx # <<>> /\ phase \in {"serving", "closing"} /\ p.type \in {"up", "down"}
  BY DEF OnLinkUp, OnLinkDown, Reads, BaseInv, TypeOK, CtrlOK
<1>2. p \in Packets /\ Tail(rx) \in Seq(Packets)
  BY <1>1, RxHead
<1>3. h \in Handles /\ (p.type = "up" => p.link \in Nat \ {0})
  BY <1>1, <1>2, PacketFacts DEF UpPackets
<1> HIDE DEF h
<1>4. rx' = Tail(rx) /\ UNCHANGED <<phase, cmds, unanswered, old, ctrlVars, countVars, pduHist, untold>>
  BY DEF OnLinkUp, OnLinkDown
<1>5. CtrlOK' /\ HistOK' /\ KnowsNothingYet' /\ SilentWhenDown'
  BY <1>1, <1>2, <1>4 DEF BaseInv, TypeOK, CtrlOK, HistOK, KnowsNothingYet, SilentWhenDown,
     ctrlVars, countVars, pduHist
<1>6. CASE OnLinkUp
  <2>1. /\ openHandles' = openHandles \cup {h} /\ known' = [known EXCEPT ![h] = p.link]
        /\ ghosts' = ghosts /\ reasm' = reasm /\ p.type = "up"
    BY <1>6 DEF OnLinkUp, h, Reads
  <2>2. IsFiniteSet(openHandles')
    BY <2>1, FS_AddElement DEF BaseInv, TypeOK, ProgOK
  <2>3. ProgOK'
    BY <1>3, <1>4, <2>1, <2>2 DEF BaseInv, TypeOK, ProgOK
  <2>4. OpenIsKnown'
    BY <1>3, <2>1 DEF BaseInv, TypeOK, ProgOK, OpenIsKnown
  <2> QED
    BY <1>5, <2>3, <2>4 DEF BaseInv, TypeOK
<1>7. CASE OnLinkDown
  <2>1. /\ openHandles' = openHandles \ {h} /\ known' = [known EXCEPT ![h] = 0]
        /\ ghosts' = ghosts \ {h} /\ reasm' = [reasm EXCEPT ![h] = Closed]
    BY <1>7 DEF OnLinkDown, Dropped, h
  <2>2. IsFiniteSet(openHandles')
    BY <2>1, FS_RemoveElement DEF BaseInv, TypeOK, ProgOK
  <2>3. Closed \in [expected : Nat, buf : Seq(Bytes)]
    BY DEF Closed
  <2>4. ProgOK'
    BY <1>3, <1>4, <2>1, <2>2, <2>3 DEF BaseInv, TypeOK, ProgOK
  <2>5. OpenIsKnown'
    BY <1>3, <2>1 DEF BaseInv, TypeOK, ProgOK, OpenIsKnown
  <2> QED
    BY <1>5, <2>4, <2>5 DEF BaseInv, TypeOK
<1> QED
  BY <1>6, <1>7

\* The other things that go through the command path.
LEMMA BaseCommands ==
    ASSUME BaseInv, OnAnswer \/ GiveUp \/ OnGhostTraffic \/ Signal
    PROVE  BaseInv'
<1>0. /\ cmds \in Seq(Commands) /\ inside \in Seq(Commands) /\ unanswered \in BOOLEAN
      /\ rx \in Seq(Packets) /\ known \in [Handles -> Nat] /\ phase \in {"serving", "closing"}
      /\ openHandles \subseteq Handles /\ IsFiniteSet(openHandles)
  BY DEF BaseInv, TypeOK, ProgOK, CtrlOK, OnAnswer, GiveUp, OnGhostTraffic, Signal, Reads
<1>1. /\ cmds' \in Seq(Commands) /\ inside' \in Seq(Commands) /\ unanswered' \in BOOLEAN
      /\ ghosts' \subseteq Handles /\ rx' \in Seq(Packets)
      /\ old' \in BOOLEAN /\ phase' \in {"serving", "closing"}
  <2>0. ghosts \subseteq Handles /\ old \in BOOLEAN
    BY DEF BaseInv, TypeOK, ProgOK
  <2>1. CASE OnAnswer
    <3>1. Pump(cmds, FALSE) /\ rx # <<>> /\ rx' = Tail(rx) /\ ghosts' = ghosts /\ old' = FALSE /\ phase' = phase
      BY <2>1 DEF OnAnswer, Reads
    <3> QED
      BY <3>1, <1>0, <2>0, PumpIs, RxHead
  <2>2. CASE GiveUp
    <3>1. Pump(cmds, FALSE) /\ rx' = rx /\ ghosts' = ghosts /\ old' = FALSE /\ phase' = phase
      BY <2>2 DEF GiveUp
    <3> QED
      BY <3>1, <1>0, <2>0, PumpIs
  <2>3. CASE OnGhostTraffic
    <3> DEFINE p == Head(rx)
               q == IF AsksNow(p.handle) THEN <<Disconnect(p.handle, p.link)>> ELSE <<>>
    <3>1. /\ Pump(cmds \o q, unanswered) /\ rx # <<>> /\ rx' = Tail(rx) /\ p.type = "acl"
          /\ ghosts' = ghosts \cup {p.handle} /\ old' = old /\ phase' = phase
      BY <2>3 DEF OnGhostTraffic, Send, Reads
    <3>2. p \in Packets /\ Tail(rx) \in Seq(Packets)
      BY <1>0, <3>1, RxHead
    <3>3. p.handle \in Handles /\ p.link \in Nat
      BY <3>1, <3>2, PacketFacts, FragmentFacts
    <3>4. Disconnect(p.handle, p.link) \in Commands
      BY <3>3 DEF Disconnect, Commands
    <3>5. q \in Seq(Commands)
      BY <3>4
    <3> HIDE DEF q
    <3>6. cmds \o q \in Seq(Commands)
      BY <1>0, <3>5, ConcatProperties
    <3> QED
      BY <3>1, <3>2, <3>3, <3>6, <1>0, <2>0, PumpIs
  <2>4. CASE Signal
    <3> DEFINE D == {Disconnect(g, known[g]) : g \in openHandles}
    <3>1. /\ Pump(cmds \o SetToSeq(D), unanswered) /\ rx' = rx /\ ghosts' = ghosts
          /\ old' = unanswered /\ phase' = "closing"
      BY <2>4 DEF Signal, Send, ToClose
    <3>2. IsFiniteSet(D)
      <4> DEFINE f == [g \in openHandles |-> Disconnect(g, known[g])]
      <4>1. f \in Surjection(openHandles, D)
        BY DEF Surjection
      <4> QED
        BY <4>1, <1>0, FS_Surjection
    <3>3. D \subseteq Commands
      BY <1>0 DEF Disconnect, Commands
    <3>4. SetToSeq(D) \in Seq(Commands)
      <4>1. SetToSeq(D) \in Seq(D)
        BY <3>2, SetToSeqIs
      <4> HIDE DEF D
      <4> QED
        BY <4>1, <3>3
    <3> HIDE DEF D
    <3>5. cmds \o SetToSeq(D) \in Seq(Commands)
      BY <1>0, <3>4, ConcatProperties
    <3> QED
      BY <3>1, <3>5, <1>0, <2>0, PumpIs
  <2> QED
    BY <2>1, <2>2, <2>3, <2>4
<1>2. /\ UNCHANGED <<openHandles, reasm, up, resetDue, sending, known, untold>>
      /\ UNCHANGED <<links, pdus, runs, losses, abandoned, torn, intruder>>
  BY DEF OnAnswer, GiveUp, OnGhostTraffic, Signal, countVars, pduHist
<1>3. ProgOK'
  BY <1>1, <1>2 DEF BaseInv, TypeOK, ProgOK
<1>4. CtrlOK' /\ HistOK'
  BY <1>1, <1>2 DEF BaseInv, TypeOK, CtrlOK, HistOK
<1>5. KnowsNothingYet' /\ OpenIsKnown' /\ SilentWhenDown'
  BY <1>1, <1>2 DEF BaseInv, KnowsNothingYet, OpenIsKnown, SilentWhenDown
<1> QED
  BY <1>3, <1>4, <1>5 DEF BaseInv, TypeOK

\* A start and a continuation, as what they do to the PDUs that are open.
LEMMA BaseFragments ==
    ASSUME BaseInv, OnStart \/ OnContinuation
    PROVE  BaseInv'
<1> DEFINE p == Head(rx)
           h == Head(rx).handle
           r == reasm[h]
<1>1. /\ rx \in Seq(Packets) /\ rx # <<>> /\ phase \in {"serving", "closing"} /\ p.type = "acl"
      /\ h \in openHandles /\ rx' = Tail(rx)
      /\ reasm \in [Handles -> [expected : Nat, buf : Seq(Bytes)]] /\ known \in [Handles -> Nat]
  BY DEF OnStart, OnContinuation, Reads, IsGhost, BaseInv, TypeOK, ProgOK, CtrlOK
<1>2. p \in Packets /\ Tail(rx) \in Seq(Packets)
  BY <1>1, RxHead
<1>3. p \in Fragments
  BY <1>1, <1>2, PacketFacts
<1>4. h \in Handles /\ Data(p) \in Seq(Bytes) /\ p.len \in Nat
  <2>1. /\ p.link \in Nat /\ p.pdu \in Nat /\ p.from \in Nat \ {0} /\ p.to \in Nat /\ p.from <= p.to + 1
        /\ h \in Handles /\ p.len \in Nat
    BY <1>3, FragmentFacts
  <2> QED
    BY <2>1, UnitsAre DEF Data
<1>5. torn' \in BOOLEAN /\ intruder' \in BOOLEAN
  <2>1. torn \in BOOLEAN /\ intruder \in BOOLEAN
    BY DEF BaseInv, TypeOK, HistOK
  <2>2. (torn' = torn \/ \E buf : Route(buf)) /\ Taken(p)
    BY DEF OnStart, OnContinuation
  <2> QED
    BY <2>1, <2>2 DEF Route, Taken
<1>6. /\ UNCHANGED <<phase, openHandles, ghosts, cmds, unanswered, old, up, inside, resetDue, sending>>
      /\ UNCHANGED <<links, pdus, runs, losses, abandoned, known, untold>>
  BY DEF OnStart, OnContinuation, ctrlVars, countVars, linkHist
<1>7. \E x \in [expected : Nat, buf : Seq(Bytes)] : reasm' = [reasm EXCEPT ![h] = x]
  <2>1. Closed \in [expected : Nat, buf : Seq(Bytes)]
    BY DEF Closed
  <2>2. [expected |-> p.len, buf |-> Data(p)] \in [expected : Nat, buf : Seq(Bytes)]
    BY <1>4
  <2>3. CASE OnStart
    <3>1. reasm' = [reasm EXCEPT ![h] = Closed] \/ reasm' = [reasm EXCEPT ![h] = [expected |-> p.len, buf |-> Data(p)]]
      BY <2>3 DEF OnStart, Hold
    <3> QED
      BY <3>1, <2>1, <2>2
  <2>4. CASE OnContinuation
    <3>1. \/ reasm' = [reasm EXCEPT ![h] = Closed] \/ reasm' = reasm
          \/ reasm' = [reasm EXCEPT ![h].buf = r.buf \o Data(p)]
      BY <2>4 DEF OnContinuation
    <3>2. r \in [expected : Nat, buf : Seq(Bytes)]
      BY <1>1, <1>4
    <3>3. r.buf \o Data(p) \in Seq(Bytes)
      BY <3>2, <1>4, ConcatProperties
    <3>4. [r EXCEPT !.buf = r.buf \o Data(p)] \in [expected : Nat, buf : Seq(Bytes)]
      BY <3>2, <3>3
    <3>5. reasm = [reasm EXCEPT ![h] = r]
      BY <1>1
    <3>6. [reasm EXCEPT ![h].buf = r.buf \o Data(p)] = [reasm EXCEPT ![h] = [r EXCEPT !.buf = r.buf \o Data(p)]]
      OBVIOUS
    <3> QED
      BY <3>1, <3>2, <3>4, <3>5, <3>6, <2>1, SMTT(40)
  <2> QED
    BY <2>3, <2>4
<1> HIDE DEF h, r
<1>8. ProgOK'
  BY <1>1, <1>4, <1>6, <1>7 DEF BaseInv, TypeOK, ProgOK
<1>9. CtrlOK' /\ HistOK'
  BY <1>1, <1>2, <1>5, <1>6 DEF BaseInv, TypeOK, CtrlOK, HistOK
<1>10. KnowsNothingYet' /\ OpenIsKnown' /\ SilentWhenDown'
  BY <1>1, <1>4, <1>6, <1>7, SMTT(40) DEF BaseInv, KnowsNothingYet, OpenIsKnown, SilentWhenDown
<1> QED
  BY <1>8, <1>9, <1>10 DEF BaseInv, TypeOK

LEMMA BaseRuns ==
    ASSUME BaseInv,
           \/ StartRun \/ DiscardDuringReset \/ ResetConfirmed \/ ResetUnconfirmed
           \/ Exit \/ Kill
    PROVE  BaseInv'
<1>1. CASE StartRun
  BY <1>1 DEF StartRun, BaseInv, TypeOK, ProgOK, CtrlOK, HistOK, KnowsNothingYet, OpenIsKnown,
     SilentWhenDown, ctrlVars, pduHist, linkHist
<1>2. CASE DiscardDuringReset
  <2>1. rx \in Seq(Packets) /\ rx # <<>> /\ rx' = Tail(rx) /\ phase = "reset"
    BY <1>2 DEF DiscardDuringReset, BaseInv, TypeOK, CtrlOK
  <2>2. rx' \in Seq(Packets)
    BY <2>1, RxHead
  <2> QED
    BY <1>2, <2>1, <2>2 DEF DiscardDuringReset, BaseInv, TypeOK, ProgOK, CtrlOK, HistOK,
       KnowsNothingYet, OpenIsKnown, SilentWhenDown, progVars, ctrlVars, countVars, pduHist, linkHist
<1>3. CASE ResetConfirmed
  <2>1. Silent \in Places /\ Silent.done <= Silent.len
    BY DEF Silent, Places
  <2>2. /\ up' \in [Handles -> Nat] /\ sending' \in [Handles -> Places]
        /\ \A h \in Handles : sending'[h].done <= sending'[h].len
        /\ \A h \in Handles : sending'[h] = Silent
    BY <1>3, <2>1 DEF ResetConfirmed, NoLinks
  <2>3. inside' = <<>> /\ rx' = <<>> /\ resetDue' = FALSE /\ phase' = "serving"
    BY <1>3 DEF ResetConfirmed
  <2>4. /\ UNCHANGED <<openHandles, ghosts, reasm, cmds, unanswered, old, known, untold>>
        /\ UNCHANGED <<links, pdus, runs, losses, abandoned, torn, intruder>>
    BY <1>3 DEF ResetConfirmed, countVars, pduHist, linkHist
  <2>5. ProgOK' /\ HistOK'
    BY <2>3, <2>4 DEF BaseInv, TypeOK, ProgOK, HistOK
  <2>6. inside' \in Seq(Commands) /\ rx' \in Seq(Packets) /\ resetDue' \in BOOLEAN
    <3>1. <<>> \in Seq(Commands) /\ <<>> \in Seq(Packets)
      BY EmptySeq
    <3> QED
      BY <2>3, <3>1
  <2>7. CtrlOK'
    BY <2>2, <2>4, <2>6 DEF BaseInv, TypeOK, CtrlOK
  <2> QED
    BY <2>2, <2>3, <2>4, <2>5, <2>7 DEF BaseInv, TypeOK, KnowsNothingYet, OpenIsKnown, SilentWhenDown
<1>4. CASE ResetUnconfirmed
  BY <1>4 DEF ResetUnconfirmed, BaseInv, TypeOK, ProgOK, CtrlOK, HistOK, KnowsNothingYet,
     OpenIsKnown, SilentWhenDown, countVars, pduHist, linkHist
<1>5. CASE Exit \/ Kill
  <2>1. /\ phase' = "off" /\ openHandles' = {} /\ ghosts' = {} /\ reasm' = [h \in Handles |-> Closed]
        /\ cmds' = <<>> /\ unanswered' = FALSE /\ old' = FALSE /\ rx' = <<>> /\ known' = NoLinks
    BY <1>5 DEF Exit, Kill, Gone
  <2>2. UNCHANGED <<up, inside, resetDue, sending, links, pdus, runs, losses, abandoned, torn, intruder>>
    BY <1>5 DEF Exit, Kill, ctrlVars, countVars, pduHist
  <2>3. untold' \in BOOLEAN
    BY <1>5 DEF Exit, Kill, BaseInv, TypeOK, HistOK
  <2>4. Closed \in [expected : Nat, buf : Seq(Bytes)]
    BY DEF Closed
  <2>5. /\ reasm' \in [Handles -> [expected : Nat, buf : Seq(Bytes)]] /\ known' \in [Handles -> Nat]
        /\ \A h \in Handles : known'[h] = 0 /\ reasm'[h] = Closed
    BY <2>1, <2>4 DEF NoLinks
  <2>6. cmds' \in Seq(Commands) /\ rx' \in Seq(Packets) /\ IsFiniteSet(openHandles')
    <3>1. <<>> \in Seq(Commands) /\ <<>> \in Seq(Packets)
      BY EmptySeq
    <3>2. IsFiniteSet({})
      BY FS_EmptySet
    <3> QED
      BY <2>1, <3>1, <3>2
  <2>7. ProgOK'
    BY <2>1, <2>5, <2>6 DEF ProgOK
  <2>8. CtrlOK' /\ HistOK'
    BY <2>2, <2>3, <2>6 DEF BaseInv, TypeOK, CtrlOK, HistOK
  <2> QED
    BY <2>1, <2>2, <2>5, <2>7, <2>8 DEF BaseInv, TypeOK, KnowsNothingYet, OpenIsKnown, SilentWhenDown
<1> QED
  BY <1>1, <1>2, <1>3, <1>4, <1>5

\* What the controller and the peers do to the program: nothing but packets.
LEMMA ControllerFrame ==
    ASSUME NEW h \in Handles, BaseInv,
           \/ LinkUp(h) \/ LinkDown(h) \/ PduBegins(h) \/ PduContinues(h)
           \/ ControllerExecutes \/ ControllerLoses \/ LateReset \/ FragmentLost
    PROVE  /\ UNCHANGED <<phase, current, openHandles, ghosts, reasm, cmds, unanswered, old>>
           /\ UNCHANGED <<known, told, atSignal, untold, torn, intruder, runs>>
           /\ ProgOK' /\ OpenIsKnown'
<1>1. /\ UNCHANGED <<phase, current, openHandles, ghosts, reasm, cmds, unanswered, old>>
      /\ UNCHANGED <<known, told, atSignal, untold, torn, intruder, runs>>
  BY DEF LinkUp, LinkDown, PduBegins, PduContinues, ControllerExecutes, ControllerLoses, LateReset,
     FragmentLost, progVars, linkHist, pduHist, countVars
<1> QED
  BY <1>1 DEF BaseInv, TypeOK, ProgOK, OpenIsKnown

\* A link comes up, or goes.
LEMMA BaseLinks ==
    ASSUME NEW h \in Handles, BaseInv, LinkUp(h) \/ LinkDown(h)
    PROVE  BaseInv'
<1>0. /\ up \in [Handles -> Nat] /\ sending \in [Handles -> Places] /\ rx \in Seq(Packets) /\ links \in Nat
      /\ \A g \in Handles : sending[g].done <= sending[g].len
  BY DEF BaseInv, TypeOK, CtrlOK
<1>1. ProgOK' /\ OpenIsKnown' /\ UNCHANGED <<phase, openHandles, untold, torn, intruder>>
  BY ControllerFrame
<1>2. UNCHANGED <<inside, resetDue, pdus, runs, losses, abandoned>>
  BY DEF LinkUp, LinkDown, countVars, pduHist
<1>3. /\ links' \in Nat /\ rx' \in Seq(Packets) /\ (phase = "off" => rx' = rx)
      /\ \E l \in Nat : up' = [up EXCEPT ![h] = l]
      /\ sending' = [sending EXCEPT ![h] = Silent]
  <2>1. CASE LinkUp(h)
    <3>1. /\ links' = links + 1 /\ up' = [up EXCEPT ![h] = links + 1] /\ sending' = sending
          /\ Delivered(<<[type |-> "up", handle |-> h, link |-> links + 1]>>) /\ up[h] = 0
      BY <2>1 DEF LinkUp
    <3>2. links + 1 \in Nat \ {0}
      BY <1>0
    <3>3. <<[type |-> "up", handle |-> h, link |-> links + 1]>> \in Seq(Packets)
      <4>1. [type |-> "up", handle |-> h, link |-> links + 1] \in Packets
        BY <3>2 DEF Packets, UpPackets
      <4> QED
        BY <4>1
    <3>4. sending[h] = Silent
      BY <3>1 DEF BaseInv, SilentWhenDown
    <3>5. rx' \in Seq(Packets) /\ (phase = "off" => rx' = rx)
      BY <1>0, <3>1, <3>3, DeliveredIs
    <3> QED
      BY <1>0, <3>1, <3>2, <3>4, <3>5
  <2>2. CASE LinkDown(h)
    <3>1. /\ links' = links /\ up' = [up EXCEPT ![h] = 0] /\ sending' = [sending EXCEPT ![h] = Silent]
          /\ Delivered(<<[type |-> "down", handle |-> h]>>)
      BY <2>2 DEF LinkDown, countVars
    <3>2. <<[type |-> "down", handle |-> h]>> \in Seq(Packets)
      <4>1. [type |-> "down", handle |-> h] \in Packets
        BY DEF Packets, DownPackets
      <4> QED
        BY <4>1
    <3>3. rx' \in Seq(Packets) /\ (phase = "off" => rx' = rx)
      BY <1>0, <3>1, <3>2, DeliveredIs
    <3> QED
      BY <1>0, <3>1, <3>3
  <2> QED
    BY <2>1, <2>2
<1>4. /\ up' \in [Handles -> Nat] /\ sending' \in [Handles -> Places]
      /\ \A g \in Handles : sending'[g].done <= sending'[g].len
      /\ \A g \in Handles : (g = h => sending'[g] = Silent) /\ (g # h => sending'[g] = sending[g] /\ up'[g] = up[g])
  <2>1. Silent \in Places /\ Silent.done <= Silent.len
    BY DEF Silent, Places
  <2> QED
    BY <1>0, <1>3, <2>1
<1>5. CtrlOK' /\ HistOK'
  BY <1>1, <1>2, <1>3, <1>4 DEF BaseInv, TypeOK, CtrlOK, HistOK
<1>6. KnowsNothingYet'
  BY <1>1, <1>3 DEF BaseInv, KnowsNothingYet
<1>7. SilentWhenDown'
  BY <1>4 DEF BaseInv, SilentWhenDown
<1> QED
  BY <1>1, <1>5, <1>6, <1>7 DEF BaseInv, TypeOK

\* The controller deals with a command, or with a Reset.
LEMMA BaseController ==
    ASSUME BaseInv, ControllerExecutes \/ ControllerLoses \/ LateReset
    PROVE  BaseInv'
<1>0. /\ up \in [Handles -> Nat] /\ sending \in [Handles -> Places] /\ rx \in Seq(Packets)
      /\ inside \in Seq(Commands) /\ \A g \in Handles : sending[g].done <= sending[g].len
  BY DEF BaseInv, TypeOK, CtrlOK
<1>1. ProgOK' /\ OpenIsKnown' /\ UNCHANGED <<phase, openHandles, untold, torn, intruder>>
  <2>1. CASE Handles = {}
    <3>1. UNCHANGED <<phase, openHandles, ghosts, reasm, cmds, unanswered, old, known, untold, torn, intruder>>
      BY DEF ControllerExecutes, ControllerLoses, LateReset, progVars, linkHist, pduHist
    <3> QED
      BY <3>1 DEF BaseInv, TypeOK, ProgOK, OpenIsKnown
  <2>2. CASE Handles # {}
    BY <2>2, ControllerFrame
  <2> QED
    BY <2>1, <2>2
<1>2. UNCHANGED <<links, pdus, runs, losses>> /\ resetDue' \in BOOLEAN /\ abandoned' \in BOOLEAN
  BY DEF ControllerExecutes, ControllerLoses, LateReset, countVars, pduHist, BaseInv, TypeOK, CtrlOK, HistOK
<1>3. /\ inside' \in Seq(Commands) /\ rx' \in Seq(Packets) /\ (phase = "off" => rx' = rx)
      /\ up' \in [Handles -> Nat] /\ sending' \in [Handles -> Places]
      /\ \A g \in Handles : \/ sending'[g] = Silent
                            \/ sending'[g] = sending[g] /\ up'[g] = up[g]
  <2>0. Silent \in Places /\ [type |-> "answer"] \in Packets
    BY DEF Silent, Places, Packets
  <2>1. CASE ControllerExecutes
    <3> DEFINE h == Head(inside).handle
               closes == up[h] # 0
    <3>1. /\ inside # <<>> /\ inside' = Tail(inside)
          /\ up' = IF closes THEN [up EXCEPT ![h] = 0] ELSE up
          /\ sending' = IF closes THEN [sending EXCEPT ![h] = Silent] ELSE sending
          /\ Delivered(IF closes THEN <<[type |-> "answer"], [type |-> "down", handle |-> h]>>
                                 ELSE <<[type |-> "answer"]>>)
      BY <2>1 DEF ControllerExecutes
    <3>2. Head(inside) \in Commands /\ Tail(inside) \in Seq(Commands)
      BY <1>0, <3>1, HeadTailProperties
    <3>3. h \in Handles
      BY <3>2 DEF Commands
    <3> HIDE DEF h
    <3>4. [type |-> "down", handle |-> h] \in Packets
      BY <3>3 DEF Packets, DownPackets
    <3>5. (IF closes THEN <<[type |-> "answer"], [type |-> "down", handle |-> h]>>
                     ELSE <<[type |-> "answer"]>>) \in Seq(Packets)
      BY <2>0, <3>4
    <3>6. rx' \in Seq(Packets) /\ (phase = "off" => rx' = rx)
      BY <1>0, <3>1, <3>5, DeliveredIs
    <3> QED
      BY <1>0, <2>0, <3>1, <3>2, <3>3, <3>6
  <2>2. CASE ControllerLoses
    <3>1. inside # <<>> /\ inside' = Tail(inside) /\ UNCHANGED <<up, sending, rx>>
      BY <2>2 DEF ControllerLoses
    <3>2. Tail(inside) \in Seq(Commands)
      BY <1>0, <3>1, HeadTailProperties
    <3> QED
      BY <1>0, <3>1, <3>2
  <2>3. CASE LateReset
    <3>1. /\ inside' = <<>> /\ up' = NoLinks /\ sending' = [g \in Handles |-> Silent]
          /\ Delivered(<<[type |-> "answer"]>>)
      BY <2>3 DEF LateReset
    <3>2. <<[type |-> "answer"]>> \in Seq(Packets)
      BY <2>0
    <3>3. rx' \in Seq(Packets) /\ (phase = "off" => rx' = rx)
      BY <1>0, <3>1, <3>2, DeliveredIs
    <3>4. inside' \in Seq(Commands)
      BY <3>1, EmptySeq
    <3>5. up' \in [Handles -> Nat] /\ sending' \in [Handles -> Places] /\ \A g \in Handles : sending'[g] = Silent
      BY <2>0, <3>1 DEF NoLinks
    <3> QED
      BY <3>3, <3>4, <3>5
  <2> QED
    BY <2>1, <2>2, <2>3
<1>4. \A g \in Handles : sending'[g].done <= sending'[g].len
  <2>1. Silent.done <= Silent.len
    BY DEF Silent
  <2> QED
    BY <1>0, <1>3, <2>1
<1>5. CtrlOK' /\ HistOK'
  BY <1>1, <1>2, <1>3, <1>4 DEF BaseInv, TypeOK, CtrlOK, HistOK
<1>6. KnowsNothingYet'
  BY <1>1, <1>3 DEF BaseInv, KnowsNothingYet
<1>7. SilentWhenDown'
  BY <1>3 DEF BaseInv, SilentWhenDown
<1> QED
  BY <1>1, <1>5, <1>6, <1>7 DEF BaseInv, TypeOK

\* A peer sends a fragment, or the socket loses one.
LEMMA BasePdus ==
    ASSUME NEW h \in Handles, BaseInv, PduBegins(h) \/ PduContinues(h) \/ FragmentLost
    PROVE  BaseInv'
<1>0. /\ up \in [Handles -> Nat] /\ sending \in [Handles -> Places] /\ rx \in Seq(Packets)
      /\ pdus \in Nat /\ losses \in Nat /\ \A g \in Handles : sending[g].done <= sending[g].len
  BY DEF BaseInv, TypeOK, CtrlOK
<1>1. ProgOK' /\ OpenIsKnown' /\ UNCHANGED <<phase, openHandles, untold, torn, intruder>>
  BY ControllerFrame
<1>2. UNCHANGED <<up, inside, resetDue, links, runs>> /\ abandoned' \in BOOLEAN
  BY DEF PduBegins, PduContinues, FragmentLost, ctrlVars, countVars, pduHist, BaseInv, TypeOK, HistOK
<1>3. /\ rx' \in Seq(Packets) /\ (phase = "off" => rx' = rx) /\ pdus' \in Nat /\ losses' \in Nat
      /\ \E x \in Places : /\ x.done <= x.len /\ sending' = [sending EXCEPT ![h] = x]
                           /\ up[h] = 0 => x = Silent
  <2>1. CASE PduBegins(h)
    <3>1. PICK n \in Lengths : \E k \in 0..n :
             /\ sending' = [sending EXCEPT ![h] = [pdu |-> pdus + 1, len |-> n, done |-> k]]
             /\ Delivered(<<Fragment(h, up[h], "start", pdus + 1, n, 1, k)>>)
      BY <2>1 DEF PduBegins
    <3>2. PICK k \in 0..n :
             /\ sending' = [sending EXCEPT ![h] = [pdu |-> pdus + 1, len |-> n, done |-> k]]
             /\ Delivered(<<Fragment(h, up[h], "start", pdus + 1, n, 1, k)>>)
      BY <3>1
    <3>3. up[h] \in Nat \ {0} /\ n \in Nat \ {0} /\ k \in Nat /\ k <= n /\ pdus' = pdus + 1 /\ losses' = losses
      BY <1>0, <2>1, LengthsAssumption DEF PduBegins
    <3>4. Fragment(h, up[h], "start", pdus + 1, n, 1, k) \in Packets
      <4>1. pdus + 1 \in Nat /\ 1 \in Nat \ {0}
        BY <1>0
      <4>2. Fragment(h, up[h], "start", pdus + 1, n, 1, k) \in Fragments
        BY <3>3, <4>1, FragmentIs, ZenonT(60)
      <4> QED
        BY <4>2 DEF Packets
    <3>5. <<Fragment(h, up[h], "start", pdus + 1, n, 1, k)>> \in Seq(Packets)
      BY <3>4
    <3>6. rx' \in Seq(Packets) /\ (phase = "off" => rx' = rx)
      BY <1>0, <3>2, <3>5, DeliveredIs
    <3> DEFINE at == [pdu |-> pdus + 1, len |-> n, done |-> k]
    <3>7. at \in Places /\ at.done <= at.len /\ sending' = [sending EXCEPT ![h] = at]
      BY <1>0, <3>2, <3>3 DEF Places
    <3> HIDE DEF at
    <3>8. \E x \in Places : /\ x.done <= x.len /\ sending' = [sending EXCEPT ![h] = x]
                            /\ up[h] = 0 => x = Silent
      <4>1. up[h] # 0
        BY <3>3
      <4> QED
        BY <3>7, <4>1
    <3>9. pdus' \in Nat /\ losses' \in Nat
      BY <1>0, <3>3
    <3> QED
      BY <3>6, <3>8, <3>9
  <2>2. CASE PduContinues(h)
    <3> DEFINE z == sending[h]
    <3>1. PICK k \in z.done + 1 .. z.len :
             /\ sending' = [sending EXCEPT ![h].done = k]
             /\ Delivered(<<Fragment(h, up[h], "cont", z.pdu, z.len, z.done + 1, k)>>)
      BY <2>2 DEF PduContinues
    <3>2. /\ z \in Places /\ z.done < z.len /\ pdus' = pdus /\ losses' = losses
      BY <1>0, <2>2 DEF PduContinues, countVars
    <3>3. up[h] # 0
      BY <3>2 DEF BaseInv, SilentWhenDown, Silent
    <3>4. /\ up[h] \in Nat \ {0} /\ z.pdu \in Nat /\ z.len \in Nat \ {0} /\ z.done + 1 \in Nat \ {0}
          /\ k \in Nat /\ k <= z.len /\ z.done + 1 <= k
      BY <1>0, <3>1, <3>2, <3>3 DEF Places
    <3>5. Fragment(h, up[h], "cont", z.pdu, z.len, z.done + 1, k) \in Packets
      <4> DEFINE l == up[h]
                 p == z.pdu
                 n == z.len
                 a == z.done + 1
      <4>1. /\ l \in Nat \ {0} /\ p \in Nat /\ n \in Nat \ {0} /\ a \in Nat \ {0}
            /\ k \in Nat /\ k <= n /\ a <= k
        BY <3>4
      <4> HIDE DEF l, p, n, a
      <4>2. Fragment(h, l, "cont", p, n, a, k) \in Fragments
        BY <4>1, FragmentIs, ZenonT(60)
      <4>3. Fragment(h, l, "cont", p, n, a, k) \in Packets
        BY <4>2 DEF Packets
      <4> QED
        BY <4>3 DEF l, p, n, a
    <3>6. <<Fragment(h, up[h], "cont", z.pdu, z.len, z.done + 1, k)>> \in Seq(Packets)
      BY <3>5
    <3>7. rx' \in Seq(Packets) /\ (phase = "off" => rx' = rx)
      BY <1>0, <3>1, <3>6, DeliveredIs
    <3>8. [z EXCEPT !.done = k] \in Places /\ [z EXCEPT !.done = k].done <= [z EXCEPT !.done = k].len
      BY <3>2, <3>4 DEF Places
    <3>9. sending' = [sending EXCEPT ![h] = [z EXCEPT !.done = k]]
      BY <3>1
    <3> QED
      BY <1>0, <3>2, <3>3, <3>7, <3>8, <3>9
  <2>3. CASE FragmentLost
    <3>1. PICK i \in DOMAIN rx : rx' = RemoveAt(rx, i)
      BY <2>3 DEF FragmentLost
    <3>2. i \in 1..Len(rx)
      BY <1>0, <3>1
    <3>3. rx' \in Seq(Packets)
      BY <1>0, <3>1, <3>2, RemoveAtIs
    <3>4. phase # "off"
      BY <1>0, <3>2 DEF BaseInv, KnowsNothingYet
    <3>5. losses' = losses + 1 /\ pdus' = pdus /\ sending' = sending
      BY <2>3 DEF FragmentLost, ctrlVars
    <3>6. sending = [sending EXCEPT ![h] = sending[h]] /\ sending[h] \in Places
      BY <1>0
    <3> QED
      BY <1>0, <3>3, <3>4, <3>5, <3>6 DEF BaseInv, SilentWhenDown
  <2> QED
    BY <2>1, <2>2, <2>3
<1>4. /\ sending' \in [Handles -> Places] /\ \A g \in Handles : sending'[g].done <= sending'[g].len
  BY <1>0, <1>3
<1>5. CtrlOK' /\ HistOK'
  BY <1>1, <1>2, <1>3, <1>4 DEF BaseInv, TypeOK, CtrlOK, HistOK
<1>6. KnowsNothingYet'
  BY <1>1, <1>3 DEF BaseInv, KnowsNothingYet
<1>7. SilentWhenDown'
  BY <1>0, <1>2, <1>3 DEF BaseInv, SilentWhenDown
<1> QED
  BY <1>1, <1>5, <1>6, <1>7 DEF BaseInv, TypeOK

LEMMA NextBase == BaseInv /\ [Next]_vars => BaseInv'
<1> SUFFICES ASSUME BaseInv, [Next]_vars PROVE BaseInv'
    OBVIOUS
<1>1. CASE OnLinkUp \/ OnLinkDown
  BY <1>1, BaseReadLinks
<1>2. CASE OnAnswer \/ GiveUp \/ OnGhostTraffic \/ Signal
  BY <1>2, BaseCommands
<1>3. CASE OnStart \/ OnContinuation
  BY <1>3, BaseFragments
<1>4. CASE StartRun \/ DiscardDuringReset \/ ResetConfirmed \/ ResetUnconfirmed \/ Exit \/ Kill
  BY <1>4, BaseRuns
<1>5. CASE ControllerExecutes \/ ControllerLoses \/ LateReset
  BY <1>5, BaseController
<1>6. CASE \E h \in Handles : LinkUp(h) \/ LinkDown(h)
  BY <1>6, BaseLinks
<1>7. CASE FragmentLost
  <2>1. rx # <<>> /\ rx[1] = rx[1] /\ \E i \in DOMAIN rx : rx[i].type = "acl"
    BY <1>7 DEF FragmentLost, BaseInv, TypeOK, CtrlOK
  <2>2. PICK i \in DOMAIN rx : rx[i].type = "acl"
    BY <2>1
  <2>3. rx[i] \in Packets
    BY <2>2 DEF BaseInv, TypeOK, CtrlOK
  <2>4. rx[i].handle \in Handles
    BY <2>2, <2>3, PacketFacts
  <2> QED
    BY <1>7, <2>4, BasePdus
<1>8. CASE \E h \in Handles : PduBegins(h) \/ PduContinues(h)
  BY <1>8, BasePdus
<1>9. CASE UNCHANGED vars
  BY <1>9 DEF vars, progVars, ctrlVars, countVars, pduHist, linkHist, BaseInv, TypeOK, ProgOK,
     CtrlOK, HistOK, KnowsNothingYet, OpenIsKnown, SilentWhenDown
<1> QED
  BY <1>1, <1>2, <1>3, <1>4, <1>5, <1>6, <1>7, <1>8, <1>9 DEF Next, ReadsOn

\* The types, with what the program knows of each handle.
THEOREM TypeCorrect == Spec => []TypeOK
<1>1. BaseInv => TypeOK
  BY DEF BaseInv
<1> QED
  BY InitBase, NextBase, <1>1, PTL DEF Spec

-----------------------------------------------------------------------------
(* Ctrl+C.                                                                 *)

\* A step that goes through the command path.
LEMMA ToldCommands ==
    ASSUME ShutdownInv, OnAnswer \/ GiveUp \/ OnGhostTraffic \/ Signal
    PROVE  EveryoneIsTold'
<1>0. /\ cmds \in Seq(Commands) /\ inside \in Seq(Commands) /\ unanswered \in BOOLEAN
      /\ rx \in Seq(Packets) /\ known \in [Handles -> Nat]
      /\ openHandles \subseteq Handles /\ IsFiniteSet(openHandles)
  BY DEF ShutdownInv, BaseInv, TypeOK, ProgOK, CtrlOK
<1>1. CASE OnAnswer \/ GiveUp
  <2>1. Pump(cmds, FALSE) /\ phase' = phase /\ atSignal' = atSignal
    BY <1>1 DEF OnAnswer, GiveUp
  <2>2. /\ cmds' # <<>> => unanswered'
        /\ \A l : l \in told \/ About(cmds, l) => l \in told' \/ About(cmds', l)
    BY <2>1, <1>0, PumpIs
  <2> QED
    BY <2>1, <2>2 DEF ShutdownInv, EveryoneIsTold, About
<1>2. CASE OnGhostTraffic
  <2> DEFINE p == Head(rx)
             q == IF AsksNow(p.handle) THEN <<Disconnect(p.handle, p.link)>> ELSE <<>>
  <2>1. /\ Pump(cmds \o q, unanswered) /\ rx # <<>> /\ p.type = "acl"
        /\ phase' = phase /\ atSignal' = atSignal
    BY <1>2 DEF OnGhostTraffic, Send, Reads
  <2>2. p \in Packets
    BY <1>0, <2>1, RxHead
  <2>3. p.handle \in Handles /\ p.link \in Nat
    BY <2>1, <2>2, PacketFacts, FragmentFacts
  <2>4. Disconnect(p.handle, p.link) \in Commands
    BY <2>3 DEF Disconnect, Commands
  <2>5. q \in Seq(Commands)
    BY <2>4
  <2> HIDE DEF q
  <2>6. /\ cmds \o q \in Seq(Commands)
        /\ \A l : About(cmds, l) => About(cmds \o q, l)
    <3>1. /\ cmds \o q \in Seq(Commands)
          /\ \A i \in 1..Len(cmds) : \E j \in 1..Len(cmds \o q) : (cmds \o q)[j] = cmds[i]
          /\ \A i \in 1..Len(q) : \E j \in 1..Len(cmds \o q) : (cmds \o q)[j] = q[i]
      <4>1. cmds \in Seq(Commands)
        BY <1>0
      <4> QED
        BY <4>1, <2>5, ConcatHolds, SMTT(40)
    <3>2. ASSUME NEW l, About(cmds, l) PROVE About(cmds \o q, l)
      <4>1. PICK i \in 1..Len(cmds) : cmds[i].link = l
        BY <3>2 DEF About
      <4>2. PICK j \in 1..Len(cmds \o q) : (cmds \o q)[j] = cmds[i]
        BY <3>1
      <4> QED
        BY <4>1, <4>2 DEF About
    <3> QED
      BY <3>1, <3>2
  <2>7. /\ cmds' # <<>> => unanswered'
        /\ \A l : l \in told \/ About(cmds \o q, l) => l \in told' \/ About(cmds', l)
    BY <2>1, <2>6, <1>0, PumpIs
  <2>8. \A l : l \in told \/ About(cmds, l) => l \in told' \/ About(cmds', l)
    BY <2>6, <2>7
  <2> QED
    BY <2>1, <2>7, <2>8 DEF ShutdownInv, EveryoneIsTold, About
<1>3. CASE Signal
  <2> DEFINE D == {Disconnect(g, known[g]) : g \in openHandles}
             q == SetToSeq(D)
  <2>1. /\ Pump(cmds \o q, unanswered) /\ atSignal' = {known[g] : g \in openHandles}
    BY <1>3 DEF Signal, Send, ToClose
  <2>2. IsFiniteSet(D)
    <3> DEFINE f == [g \in openHandles |-> Disconnect(g, known[g])]
    <3>1. f \in Surjection(openHandles, D)
      BY DEF Surjection
    <3> QED
      BY <3>1, <1>0, FS_Surjection
  <2>3. D \subseteq Commands
    BY <1>0 DEF Disconnect, Commands
  <2>4. \A g \in openHandles : Disconnect(g, known[g]) \in D
    OBVIOUS
  <2> HIDE DEF D
  <2>5. q \in Seq(D) /\ \A x \in D : \E i \in 1..Len(q) : q[i] = x
    BY <2>2, SetToSeqIs
  <2> HIDE DEF q
  <2>6. q \in Seq(Commands)
    BY <2>5, <2>3
  <2>7. /\ cmds \o q \in Seq(Commands)
        /\ \A i \in 1..Len(q) : \E j \in 1..Len(cmds \o q) : (cmds \o q)[j] = q[i]
    <3>1. cmds \in Seq(Commands)
      BY <1>0
    <3> HIDE DEF Commands
    <3>2. /\ cmds \o q \in Seq(Commands)
          /\ \A i \in 1..Len(cmds) : \E j \in 1..Len(cmds \o q) : (cmds \o q)[j] = cmds[i]
          /\ \A i \in 1..Len(q) : \E j \in 1..Len(cmds \o q) : (cmds \o q)[j] = q[i]
      BY <3>1, <2>6, ConcatHolds
    <3> QED
      BY <3>2
  <2>8. ASSUME NEW g \in openHandles PROVE About(cmds \o q, known[g])
    <3>1. PICK i \in 1..Len(q) : q[i] = Disconnect(g, known[g])
      BY <2>4, <2>5
    <3>2. PICK j \in 1..Len(cmds \o q) : (cmds \o q)[j] = q[i]
      BY <2>7
    <3>3. (cmds \o q)[j].link = known[g]
      BY <3>1, <3>2 DEF Disconnect
    <3> QED
      BY <3>3 DEF About
  <2>9. /\ cmds' # <<>> => unanswered'
        /\ \A l : l \in told \/ About(cmds \o q, l) => l \in told' \/ About(cmds', l)
    BY <2>1, <2>7, <1>0, PumpIs
  <2>10. \A l \in atSignal' : l \in told' \/ About(cmds', l)
    BY <2>1, <2>8, <2>9
  <2> QED
    BY <2>9, <2>10 DEF EveryoneIsTold, About
<1> QED
  BY <1>1, <1>2, <1>3

LEMMA NextShutdown == ShutdownInv /\ [Next]_vars => ShutdownInv'
<1> SUFFICES ASSUME ShutdownInv, [Next]_vars PROVE ShutdownInv'
    OBVIOUS
<1>0. BaseInv'
  BY NextBase DEF ShutdownInv
<1>1. CASE OnAnswer \/ GiveUp \/ OnGhostTraffic \/ Signal
  <2>1. EveryoneIsTold'
    BY <1>1, ToldCommands
  <2>2. untold' = untold
    BY <1>1 DEF OnAnswer, GiveUp, OnGhostTraffic, Signal
  <2> QED
    BY <1>0, <2>1, <2>2 DEF ShutdownInv, ShutdownTells
\* The run ends: whoever was not told is stuck behind a command.
<1>2. CASE Exit
  <2>1. ASSUME NEW h \in Handles, up[h] \in atSignal \ told PROVE Stuck(up[h])
    <3>1. cmds \in Seq(Commands) /\ phase = "closing"
      BY <1>2 DEF Exit, ShutdownInv, BaseInv, TypeOK, ProgOK
    <3>2. PICK i \in 1..Len(cmds) : cmds[i].link = up[h]
      BY <2>1, <3>1 DEF ShutdownInv, EveryoneIsTold
    <3>3. cmds # <<>> /\ i \in DOMAIN cmds
      BY <3>1, <3>2
    <3>4. unanswered
      BY <3>3 DEF ShutdownInv, EveryoneIsTold
    <3> QED
      BY <3>2, <3>3, <3>4 DEF Stuck
  <2>2. ~untold'
    BY <1>2, <2>1 DEF Exit, ShutdownInv, ShutdownTells
  <2>3. cmds' = <<>> /\ phase' = "off"
    BY <1>2 DEF Exit, Gone
  <2> QED
    BY <1>0, <2>2, <2>3 DEF ShutdownInv, ShutdownTells, EveryoneIsTold
<1>3. CASE Kill
  <2>1. untold' = untold /\ cmds' = <<>> /\ phase' = "off"
    BY <1>3 DEF Kill, Gone
  <2> QED
    BY <1>0, <2>1 DEF ShutdownInv, ShutdownTells, EveryoneIsTold
<1>4. CASE UNCHANGED <<cmds, unanswered, told, atSignal, untold>> /\ (phase' = phase \/ phase' # "closing")
  BY <1>0, <1>4 DEF ShutdownInv, ShutdownTells, EveryoneIsTold
<1>5. CASE \/ OnLinkUp \/ OnLinkDown \/ OnStart \/ OnContinuation
           \/ StartRun \/ DiscardDuringReset \/ ResetConfirmed \/ ResetUnconfirmed
  <2>1. UNCHANGED <<cmds, unanswered, told, atSignal, untold>> /\ (phase' = phase \/ phase' # "closing")
    BY <1>5
       DEF OnLinkUp, OnLinkDown, OnStart, OnContinuation, StartRun, DiscardDuringReset,
           ResetConfirmed, ResetUnconfirmed, progVars, linkHist
  <2> QED
    BY <1>4, <2>1, SMTT(40)
<1>6. CASE \/ ControllerExecutes \/ ControllerLoses \/ LateReset \/ FragmentLost
           \/ \E h \in Handles : LinkUp(h) \/ LinkDown(h) \/ PduBegins(h) \/ PduContinues(h)
  <2>1. UNCHANGED <<cmds, unanswered, told, atSignal, untold>> /\ phase' = phase
    BY <1>6 DEF LinkUp, LinkDown, PduBegins, PduContinues, ControllerExecutes, ControllerLoses,
       LateReset, FragmentLost, progVars, linkHist
  <2> QED
    BY <1>4, <2>1
<1>7. CASE UNCHANGED vars
  BY <1>4, <1>7 DEF vars, progVars, linkHist
<1> QED
  BY <1>1, <1>2, <1>3, <1>5, <1>6, <1>7 DEF Next, ReadsOn

\* "Ctrl+C has to close the links, not just kill the process" (disconnect_link()
\* and the 300 ms of main.cpp): however many links are open, whatever commands
\* were queued before the signal and whatever the controller does with them.
THEOREM ShutdownTellsTheorem == Spec => []ShutdownTells
<1>1. Init => EveryoneIsTold /\ ShutdownTells
  BY DEF Init, EveryoneIsTold, ShutdownTells
<1>2. Init => ShutdownInv
  BY <1>1, InitBase DEF ShutdownInv
<1>3. ShutdownInv => ShutdownTells
  BY DEF ShutdownInv
<1> QED
  BY <1>2, <1>3, NextShutdown, PTL DEF Spec

-----------------------------------------------------------------------------
(* Neighbours after a packet is read, sent or lost.                        *)

LEMMA NeighboursFirst ==
    ASSUME NEW s \in Seq(Packets), s # <<>>, NEW h, IsOf(s[1], h)
    PROVE  Neighbours(s, h, 0, 1)
<1>1. Len(s) \in Nat \ {0}
  BY EmptySeq
<1> QED
  BY <1>1 DEF Neighbours

LEMMA NeighboursNone ==
    ASSUME NEW h, NEW i \in Nat, NEW k \in Nat, Neighbours(<<>>, h, i, k)
    PROVE  i = 0 /\ k = Len(<<>>) + 1
  BY DEF Neighbours

\* The first packet is read.
LEMMA NeighboursTail ==
    ASSUME NEW s \in Seq(Packets), s # <<>>, NEW h, NEW i \in Nat, NEW k \in Nat,
           Neighbours(Tail(s), h, i, k)
    PROVE  /\ i # 0 => Neighbours(s, h, i + 1, k + 1) /\ Tail(s)[i] = s[i + 1]
           /\ i = 0 /\ IsOf(s[1], h) => Neighbours(s, h, 1, k + 1)
           /\ i = 0 /\ ~IsOf(s[1], h) => Neighbours(s, h, 0, k + 1)
           /\ k = Len(Tail(s)) + 1 <=> k + 1 = Len(s) + 1
           /\ k # Len(Tail(s)) + 1 => Tail(s)[k] = s[k + 1]
<1>1. /\ Len(s) \in Nat \ {0} /\ Len(Tail(s)) = Len(s) - 1
      /\ \A j \in 1..(Len(s) - 1) : Tail(s)[j] = s[j + 1]
  <2>1. Len(s) \in Nat \ {0}
    BY EmptySeq
  <2> QED
    BY <2>1, HeadTailProperties
<1> DEFINE t == Tail(s)
           n == Len(s)
<1>2. /\ n \in Nat \ {0} /\ Len(t) = n - 1 /\ \A j \in 1..(n - 1) : t[j] = s[j + 1]
  BY <1>1
<1>3. /\ i \in 0..(n - 1) /\ k \in 1..n /\ i < k
      /\ i # 0 => IsOf(t[i], h)
      /\ k # n => IsOf(t[k], h)
      /\ \A j \in (i + 1)..(k - 1) : ~IsOf(t[j], h)
  BY <1>2 DEF Neighbours
<1> HIDE DEF t, n
<1>4. k # n => t[k] = s[k + 1] /\ IsOf(s[k + 1], h)
  <2>1. ASSUME k # n PROVE t[k] = s[k + 1] /\ IsOf(s[k + 1], h)
    <3>1. k \in 1..(n - 1)
      BY <2>1, <1>2, <1>3
    <3> QED
      BY <2>1, <3>1, <1>2, <1>3
  <2> QED
    BY <2>1
<1>5. i # 0 => t[i] = s[i + 1] /\ IsOf(s[i + 1], h)
  <2>1. ASSUME i # 0 PROVE t[i] = s[i + 1] /\ IsOf(s[i + 1], h)
    <3>1. i \in 1..(n - 1)
      BY <2>1, <1>2, <1>3
    <3> QED
      BY <2>1, <3>1, <1>2, <1>3
  <2> QED
    BY <2>1
<1>6. ASSUME NEW j \in (i + 2)..k PROVE ~IsOf(s[j], h)
  <2>1. j - 1 \in (i + 1)..(k - 1) /\ j - 1 \in 1..(n - 1) /\ (j - 1) + 1 = j
    BY <1>2, <1>3
  <2>2. t[j - 1] = s[j]
    BY <2>1, <1>2
  <2> QED
    BY <2>1, <2>2, <1>3
<1>7. ASSUME NEW a \in {i + 1, 0}, a = 0 => i = 0 /\ ~IsOf(s[1], h),
             a = 1 /\ i = 0 => IsOf(s[1], h)
      PROVE  Neighbours(s, h, a, k + 1)
  <2>1. a \in 0..n /\ k + 1 \in 1..(n + 1) /\ a < k + 1
    BY <1>2, <1>3
  <2>2. a # 0 => IsOf(s[a], h)
    <3>1. CASE i = 0
      BY <3>1, <1>7
    <3>2. CASE i # 0
      BY <3>2, <1>5, <1>7
    <3> QED
      BY <3>1, <3>2
  <2>3. k + 1 # n + 1 => IsOf(s[k + 1], h)
    BY <1>2, <1>3, <1>4
  <2>4. ASSUME NEW j \in (a + 1)..((k + 1) - 1) PROVE ~IsOf(s[j], h)
    <3>1. CASE j = 1
      <4>1. a = 0
        BY <3>1, <1>3, <1>7
      <4> QED
        BY <4>1, <3>1, <1>7
    <3>2. CASE j # 1
      <4>1. j \in (i + 2)..k
        BY <3>2, <1>2, <1>3, <1>7
      <4> QED
        BY <4>1, <1>6
    <3> QED
      BY <3>1, <3>2
  <2> QED
    BY <2>1, <2>2, <2>3, <2>4 DEF Neighbours, n
<1>8. i # 0 => Neighbours(s, h, i + 1, k + 1)
  <2>1. i # 0 => i + 1 # 0 /\ i + 1 # 1
    BY <1>3
  <2> QED
    BY <2>1, <1>7
<1>9. i = 0 /\ IsOf(s[1], h) => Neighbours(s, h, 1, k + 1)
  <2>1. i = 0 => 1 = i + 1
    OBVIOUS
  <2> QED
    BY <2>1, <1>7
<1>10. i = 0 /\ ~IsOf(s[1], h) => Neighbours(s, h, 0, k + 1)
  BY <1>7
<1>11. (k = Len(t) + 1 <=> k + 1 = n + 1) /\ (k = n <=> k = Len(t) + 1)
  BY <1>2, <1>3
<1> QED
  BY <1>4, <1>5, <1>8, <1>9, <1>10, <1>11 DEF t, n

\* A packet p is sent.
LEMMA NeighboursAppend ==
    ASSUME NEW s \in Seq(Packets), NEW p \in Packets, NEW h, NEW i \in Nat, NEW k \in Nat,
           Neighbours(Append(s, p), h, i, k)
    PROVE  /\ i # 0 /\ i <= Len(s) => Append(s, p)[i] = s[i]
           /\ k <= Len(s) => Append(s, p)[k] = s[k] /\ Neighbours(s, h, i, k)
           /\ IsOf(p, h) =>
                \/ k <= Len(s) + 1 /\ i <= Len(s) /\ Neighbours(s, h, i, k)
                \/ i = Len(s) + 1 /\ k = Len(s) + 2
           /\ ~IsOf(p, h) =>
                /\ i <= Len(s)
                /\ k <= Len(s) \/ (k = Len(s) + 2 /\ Neighbours(s, h, i, Len(s) + 1))
           /\ i = Len(s) + 1 => Append(s, p)[i] = p
           /\ k = Len(s) + 1 => Append(s, p)[k] = p
           /\ k <= Len(s) + 2
<1> DEFINE t == Append(s, p)
           n == Len(s)
<1>1. /\ n \in Nat /\ Len(t) = n + 1 /\ t[n + 1] = p
      /\ \A j \in 1..n : t[j] = s[j]
  BY AppendProperties
<1>2. /\ i \in 0..(n + 1) /\ k \in 1..(n + 2) /\ i < k
      /\ i # 0 => IsOf(t[i], h)
      /\ k # n + 2 => IsOf(t[k], h)
      /\ \A j \in (i + 1)..(k - 1) : ~IsOf(t[j], h)
  <2>1. Len(t) + 1 = n + 2
    BY <1>1
  <2> HIDE DEF t
  <2> QED
    BY <1>1, <2>1 DEF Neighbours, t
<1> HIDE DEF t, n
<1>3. ASSUME NEW c \in Nat, c <= k, c <= n + 1, i < c, c # n + 1 => c = k
      PROVE  Neighbours(s, h, i, c)
  <2>1. i \in 0..n /\ c \in 1..(n + 1) /\ i < c
    BY <1>1, <1>2, <1>3
  <2>2. i # 0 => IsOf(s[i], h)
    <3>1. i # 0 => i \in 1..n
      BY <2>1
    <3> QED
      BY <3>1, <1>1, <1>2
  <2>3. c # n + 1 => IsOf(s[c], h)
    <3>1. c # n + 1 => c \in 1..n /\ k # n + 2 /\ c = k
      BY <2>1, <1>1, <1>2, <1>3
    <3> QED
      BY <3>1, <1>1, <1>2
  <2>4. ASSUME NEW j \in (i + 1)..(c - 1) PROVE ~IsOf(s[j], h)
    <3>1. j \in 1..n /\ j \in (i + 1)..(k - 1)
      BY <2>1, <1>1, <1>2, <1>3
    <3> QED
      BY <3>1, <1>1, <1>2
  <2> QED
    BY <2>1, <2>2, <2>3, <2>4 DEF Neighbours, n
<1>4. k <= n => t[k] = s[k] /\ Neighbours(s, h, i, k)
  <2>1. k <= n => k \in 1..n /\ k <= k /\ k <= n + 1 /\ i < k
    BY <1>1, <1>2
  <2> QED
    BY <2>1, <1>1, <1>3
<1>5. i # 0 /\ i <= n => t[i] = s[i]
  <2>1. i # 0 /\ i <= n => i \in 1..n
    BY <1>1, <1>2
  <2> QED
    BY <2>1, <1>1
<1>6. ASSUME IsOf(p, h)
      PROVE  \/ k <= n + 1 /\ i <= n /\ Neighbours(s, h, i, k)
             \/ i = n + 1 /\ k = n + 2
  <2>1. CASE k <= n + 1
    <3>1. k <= k /\ i < k /\ i <= n /\ (k # n + 1 => k = k)
      BY <2>1, <1>1, <1>2
    <3> QED
      BY <2>1, <3>1, <1>3
  <2>2. CASE ~(k <= n + 1)
    <3>1. k = n + 2
      BY <2>2, <1>1, <1>2
    <3>2. ~(n + 1 \in (i + 1)..(k - 1))
      BY <1>1, <1>2, <1>6
    <3> QED
      BY <3>1, <3>2, <1>1, <1>2
  <2> QED
    BY <2>1, <2>2
<1>7. ASSUME ~IsOf(p, h)
      PROVE  i <= n /\ (k <= n \/ (k = n + 2 /\ Neighbours(s, h, i, n + 1)))
  <2>1. i # n + 1 /\ k # n + 1
    BY <1>1, <1>2, <1>7
  <2>2. i <= n /\ (k <= n \/ k = n + 2)
    BY <2>1, <1>1, <1>2
  <2>3. k = n + 2 => n + 1 \in Nat /\ n + 1 <= k /\ n + 1 <= n + 1 /\ i < n + 1
    BY <2>2, <1>1, <1>2
  <2> QED
    BY <2>2, <2>3, <1>3
<1>8. k <= n + 2 /\ (i = n + 1 => t[i] = p) /\ (k = n + 1 => t[k] = p)
  BY <1>1, <1>2
<1> QED
  BY <1>4, <1>5, <1>6, <1>7, <1>8 DEF t, n

\* The packet at r is lost.
LEMMA NeighboursRemove ==
    ASSUME NEW s \in Seq(Packets), NEW r \in 1..Len(s), NEW h, NEW i \in Nat, NEW k \in Nat,
           Neighbours(RemoveAt(s, r), h, i, k)
    PROVE  \E a \in Nat, c \in Nat :
             /\ i = 0 <=> a = 0
             /\ i # 0 => RemoveAt(s, r)[i] = s[a]
             /\ k = Len(RemoveAt(s, r)) + 1 <=> c = Len(s) + 1
             /\ k # Len(RemoveAt(s, r)) + 1 => RemoveAt(s, r)[k] = s[c]
             /\ \/ Neighbours(s, h, a, c)
                \/ Neighbours(s, h, a, r) /\ Neighbours(s, h, r, c)
<1> DEFINE t == RemoveAt(s, r)
           n == Len(s)
           f(j) == IF j < r THEN j ELSE j + 1
<1>1. /\ n \in Nat \ {0} /\ Len(t) = n - 1 /\ r \in 1..n
      /\ \A j \in 1..(n - 1) : t[j] = s[f(j)]
  <2>1. n \in Nat /\ r \in 1..n
    OBVIOUS
  <2> QED
    BY <2>1, RemoveAtIs
<1>2. /\ i \in 0..(n - 1) /\ k \in 1..n /\ i < k
      /\ i # 0 => IsOf(t[i], h)
      /\ k # n => IsOf(t[k], h)
      /\ \A j \in (i + 1)..(k - 1) : ~IsOf(t[j], h)
      /\ k = Len(t) + 1 <=> k = n
  <2> HIDE DEF t
  <2> QED
    BY <1>1 DEF Neighbours, t
<1> HIDE DEF t, n
<1> DEFINE a == f(i)
           c == f(k)
<1>3. /\ a \in 0..n /\ c \in 1..(n + 1) /\ a < c /\ (i = 0 <=> a = 0) /\ (k = n <=> c = n + 1)
      /\ a # r /\ c # r
  BY <1>1, <1>2
<1>4. (i # 0 => t[i] = s[a]) /\ (k # n => t[k] = s[c])
  <2>1. (i # 0 => i \in 1..(n - 1)) /\ (k # n => k \in 1..(n - 1))
    BY <1>1, <1>2
  <2> HIDE DEF f
  <2> QED
    BY <2>1, <1>1
<1>5. (a # 0 => IsOf(s[a], h)) /\ (c # n + 1 => IsOf(s[c], h))
  BY <1>2, <1>3, <1>4
<1>6. ASSUME NEW j \in (a + 1)..(c - 1), j # r PROVE ~IsOf(s[j], h)
  <2> DEFINE e == IF j < r THEN j ELSE j - 1
  <2>1. e \in (i + 1)..(k - 1) /\ e \in 1..(n - 1) /\ f(e) = j
    BY <1>1, <1>2, <1>6
  <2> HIDE DEF e, f
  <2>2. t[e] = s[j]
    BY <2>1, <1>1
  <2> QED
    BY <2>1, <2>2, <1>2
<1> HIDE DEF a, c
<1>7. \/ Neighbours(s, h, a, c)
      \/ Neighbours(s, h, a, r) /\ Neighbours(s, h, r, c)
  <2>1. CASE a < r /\ r < c /\ IsOf(s[r], h)
    <3>1. Neighbours(s, h, a, r)
      <4>1. a \in 0..n /\ r \in 1..(n + 1) /\ a < r
        BY <2>1, <1>1, <1>3
      <4>2. ASSUME NEW j \in (a + 1)..(r - 1) PROVE ~IsOf(s[j], h)
        <5>1. j \in (a + 1)..(c - 1) /\ j # r
          BY <2>1, <1>1, <1>3
        <5> QED
          BY <5>1, <1>6
      <4> QED
        BY <4>1, <4>2, <2>1, <1>5 DEF Neighbours, n
    <3>2. Neighbours(s, h, r, c)
      <4>1. r \in 0..n /\ c \in 1..(n + 1) /\ r < c
        BY <2>1, <1>1, <1>3
      <4>2. ASSUME NEW j \in (r + 1)..(c - 1) PROVE ~IsOf(s[j], h)
        <5>1. j \in (a + 1)..(c - 1) /\ j # r
          BY <2>1, <1>1, <1>3
        <5> QED
          BY <5>1, <1>6
      <4> QED
        BY <4>1, <4>2, <2>1, <1>5 DEF Neighbours, n
    <3> QED
      BY <3>1, <3>2
  <2>2. CASE ~(a < r /\ r < c /\ IsOf(s[r], h))
    <3>1. ASSUME NEW j \in (a + 1)..(c - 1) PROVE ~IsOf(s[j], h)
      <4>1. CASE j = r
        <5>1. a < r /\ r < c
          BY <4>1, <1>1, <1>3
        <5> QED
          BY <5>1, <4>1, <2>2
      <4>2. CASE j # r
        BY <4>2, <1>6
      <4> QED
        BY <4>1, <4>2
    <3> QED
      BY <3>1, <1>3, <1>5 DEF Neighbours, n
  <2> QED
    BY <2>1, <2>2
<1>8. a \in Nat /\ c \in Nat
  BY <1>1, <1>3
<1>9. k = Len(t) + 1 <=> c = n + 1
  BY <1>2, <1>3
<1> QED
  BY <1>2, <1>3, <1>4, <1>7, <1>8, <1>9 DEF t, n

\* What a peer sends while a process listens: the fragment of its place.
LEMMA FragmentSent ==
    ASSUME NEW h \in Handles, BaseInv, phase # "off", PduBegins(h) \/ PduContinues(h)
    PROVE  \E p \in Fragments :
             /\ p.handle = h /\ p.link = up[h] /\ rx' = rx \o <<p>>
             /\ up' = up
             /\ sending' = [sending EXCEPT ![h] = [pdu |-> p.pdu, len |-> p.len, done |-> p.to]]
             /\ p.pb = "start" => abandoned' = (abandoned \/ sending[h].done < sending[h].len)
             /\ p.pb = "cont" => /\ p.pdu = sending[h].pdu /\ p.len = sending[h].len
                                 /\ p.from = sending[h].done + 1 /\ abandoned' = abandoned
<1>0. /\ up \in [Handles -> Nat] /\ sending \in [Handles -> Places] /\ rx \in Seq(Packets)
      /\ pdus \in Nat
  BY DEF BaseInv, TypeOK, CtrlOK
<1>1. CASE PduBegins(h)
  <2>1. PICK n \in Lengths : \E k \in 0..n :
           /\ sending' = [sending EXCEPT ![h] = [pdu |-> pdus + 1, len |-> n, done |-> k]]
           /\ Delivered(<<Fragment(h, up[h], "start", pdus + 1, n, 1, k)>>)
    BY <1>1 DEF PduBegins
  <2>2. PICK k \in 0..n :
           /\ sending' = [sending EXCEPT ![h] = [pdu |-> pdus + 1, len |-> n, done |-> k]]
           /\ Delivered(<<Fragment(h, up[h], "start", pdus + 1, n, 1, k)>>)
    BY <2>1
  <2>3. /\ up[h] \in Nat \ {0} /\ n \in Nat \ {0} /\ k \in Nat /\ k <= n
        /\ pdus + 1 \in Nat /\ 1 \in Nat \ {0}
    BY <1>0, <1>1, LengthsAssumption DEF PduBegins
  <2> DEFINE p == Fragment(h, up[h], "start", pdus + 1, n, 1, k)
  <2>4. /\ p \in Fragments /\ p.handle = h /\ p.link = up[h] /\ p.pb = "start"
        /\ p.pdu = pdus + 1 /\ p.len = n /\ p.to = k
    <3>1. p \in Fragments
      BY <2>3, FragmentIs
    <3> QED
      BY <3>1 DEF Fragment
  <2>5. rx' = rx \o <<p>>
    BY <2>2 DEF Delivered
  <2>6. up' = up /\ abandoned' = (abandoned \/ sending[h].done < sending[h].len)
    BY <1>1 DEF PduBegins
  <2> HIDE DEF p
  <2>7. sending' = [sending EXCEPT ![h] = [pdu |-> p.pdu, len |-> p.len, done |-> p.to]]
    BY <2>2, <2>4
  <2>8. p.pb # "cont"
    BY <2>4
  <2> QED
    BY <2>4, <2>5, <2>6, <2>7, <2>8
<1>2. CASE PduContinues(h)
  <2> DEFINE z == sending[h]
  <2>1. PICK k \in z.done + 1 .. z.len :
           /\ sending' = [sending EXCEPT ![h].done = k]
           /\ Delivered(<<Fragment(h, up[h], "cont", z.pdu, z.len, z.done + 1, k)>>)
    BY <1>2 DEF PduContinues
  <2>2. z \in Places /\ z.done < z.len /\ up' = up /\ abandoned' = abandoned
    BY <1>0, <1>2 DEF PduContinues, pduHist
  <2>3. up[h] # 0
    BY <2>2 DEF BaseInv, SilentWhenDown, Silent
  <2>4. /\ up[h] \in Nat \ {0} /\ z.pdu \in Nat /\ z.len \in Nat \ {0} /\ z.done + 1 \in Nat \ {0}
        /\ k \in Nat /\ k <= z.len /\ z.done + 1 <= k
    BY <1>0, <2>1, <2>2, <2>3 DEF Places
  <2> DEFINE p == Fragment(h, up[h], "cont", z.pdu, z.len, z.done + 1, k)
  <2>5. /\ p \in Fragments /\ p.handle = h /\ p.link = up[h] /\ p.pb = "cont"
        /\ p.pdu = z.pdu /\ p.len = z.len /\ p.from = z.done + 1 /\ p.to = k
    <3>1. p \in Fragments
      BY <2>4 DEF Fragment, Fragments
    <3> QED
      BY <3>1 DEF Fragment
  <2>6. rx' = rx \o <<p>>
    BY <2>1 DEF Delivered
  <2>7. sending' = [sending EXCEPT ![h] = [pdu |-> z.pdu, len |-> z.len, done |-> k]]
    <3>1. [z EXCEPT !.done = k] = [pdu |-> z.pdu, len |-> z.len, done |-> k]
      BY <2>2 DEF Places
    <3>2. sending' = [sending EXCEPT ![h] = [z EXCEPT !.done = k]]
      BY <2>1
    <3> QED
      BY <3>1, <3>2
  <2> HIDE DEF p
  <2>8. sending' = [sending EXCEPT ![h] = [pdu |-> p.pdu, len |-> p.len, done |-> p.to]]
    BY <2>5, <2>7
  <2>9. p.pb # "start"
    BY <2>5
  <2> QED
    BY <2>2, <2>5, <2>6, <2>8, <2>9
<1> QED
  BY <1>1, <1>2

-----------------------------------------------------------------------------
(* Ghost links.                                                            *)

LEMMA OrderedNone ==
    ASSUME NEW first, NEW last, \A h \in Handles : first[h] = 0
    PROVE  Ordered(<<>>, first, last)
<1>1. SUFFICES ASSUME NEW h \in Handles, NEW i \in Nat, NEW k \in Nat, Neighbours(<<>>, h, i, k)
               PROVE  i = 0
  BY DEF Ordered
<1> QED
  BY <1>1, NeighboursNone

\* The first packet is read: it is what now comes before the next one, or nothing
\* does.
LEMMA OrderedTail ==
    ASSUME NEW s \in Seq(Packets), s # <<>>, NEW first, NEW new, NEW last, Ordered(s, first, last),
           \A h \in Handles : new[h] = 0 \/ new[h] = IF IsOf(s[1], h) THEN LinkAfter(s[1]) ELSE first[h]
    PROVE  Ordered(Tail(s), new, last)
<1> DEFINE L(i, h) == IF i = 0 THEN first[h] ELSE LinkAfter(s[i])
           N(k, h) == IF k = Len(s) + 1 THEN last[h] ELSE LinkBefore(s[k])
<1>1. ASSUME NEW h \in Handles, NEW i \in Nat, NEW k \in Nat, Neighbours(s, h, i, k)
      PROVE  L(i, h) = 0 \/ N(k, h) \in {0, L(i, h)}
  BY <1>1 DEF Ordered
<1>2. SUFFICES ASSUME NEW h \in Handles, NEW i \in Nat, NEW k \in Nat, Neighbours(Tail(s), h, i, k)
               PROVE  LET l == IF i = 0 THEN new[h] ELSE LinkAfter(Tail(s)[i])
                          n == IF k = Len(Tail(s)) + 1 THEN last[h] ELSE LinkBefore(Tail(s)[k])
                      IN  l = 0 \/ n \in {0, l}
  BY DEF Ordered
<1>3. /\ i # 0 => Neighbours(s, h, i + 1, k + 1) /\ Tail(s)[i] = s[i + 1]
      /\ i = 0 /\ IsOf(s[1], h) => Neighbours(s, h, 1, k + 1)
      /\ i = 0 /\ ~IsOf(s[1], h) => Neighbours(s, h, 0, k + 1)
      /\ k = Len(Tail(s)) + 1 <=> k + 1 = Len(s) + 1
      /\ k # Len(Tail(s)) + 1 => Tail(s)[k] = s[k + 1]
  <2> HIDE DEF L, N
  <2> QED
    BY <1>2, NeighboursTail, ZenonT(60)
<1>4. (IF k = Len(Tail(s)) + 1 THEN last[h] ELSE LinkBefore(Tail(s)[k])) = N(k + 1, h)
  BY <1>3
<1>5. i + 1 \in Nat /\ k + 1 \in Nat /\ 1 \in Nat /\ 0 \in Nat /\ i + 1 # 0
  OBVIOUS
<1>6. CASE i # 0
  <2>1. L(i + 1, h) = LinkAfter(Tail(s)[i])
    BY <1>3, <1>5, <1>6
  <2>2. L(i + 1, h) = 0 \/ N(k + 1, h) \in {0, L(i + 1, h)}
    BY <1>1, <1>3, <1>5, <1>6
  <2> HIDE DEF L, N
  <2> QED
    BY <1>4, <1>6, <2>1, <2>2
<1>7. CASE i = 0 /\ IsOf(s[1], h)
  <2>1. L(1, h) = LinkAfter(s[1])
    OBVIOUS
  <2>2. L(1, h) = 0 \/ N(k + 1, h) \in {0, L(1, h)}
    BY <1>1, <1>3, <1>5, <1>7
  <2> HIDE DEF L, N
  <2> QED
    BY <1>4, <1>7, <2>1, <2>2
<1>8. CASE i = 0 /\ ~IsOf(s[1], h)
  <2>1. L(0, h) = first[h]
    OBVIOUS
  <2>2. L(0, h) = 0 \/ N(k + 1, h) \in {0, L(0, h)}
    BY <1>1, <1>3, <1>5, <1>8
  <2> HIDE DEF L, N
  <2> QED
    BY <1>4, <1>8, <2>1, <2>2
<1> QED
  BY <1>6, <1>7, <1>8

\* A packet is sent, by the link that was up; the links that are up after it are
\* the one it stands for and the others as they were, or gone.
LEMMA OrderedAppend ==
    ASSUME NEW s \in Seq(Packets), NEW p \in Packets, NEW first, NEW last, NEW new,
           Ordered(s, first, last),
           \A h \in Handles :
             /\ IsOf(p, h) => /\ LinkBefore(p) \in {0, last[h]}
                              /\ new[h] \in {0, LinkAfter(p)} \/ LinkAfter(p) = 0
             /\ ~IsOf(p, h) => new[h] \in {0, last[h]}
    PROVE  Ordered(Append(s, p), first, new)
<1> DEFINE t == Append(s, p)
           L(i, h) == IF i = 0 THEN first[h] ELSE LinkAfter(s[i])
           N(k, h) == IF k = Len(s) + 1 THEN last[h] ELSE LinkBefore(s[k])
<1>1. ASSUME NEW h \in Handles, NEW i \in Nat, NEW k \in Nat, Neighbours(s, h, i, k)
      PROVE  L(i, h) = 0 \/ N(k, h) \in {0, L(i, h)}
  BY <1>1 DEF Ordered
<1>2. SUFFICES ASSUME NEW h \in Handles, NEW i \in Nat, NEW k \in Nat, Neighbours(t, h, i, k)
               PROVE  LET l == IF i = 0 THEN first[h] ELSE LinkAfter(t[i])
                          n == IF k = Len(t) + 1 THEN new[h] ELSE LinkBefore(t[k])
                      IN  l = 0 \/ n \in {0, l}
  BY DEF Ordered
<1>3. /\ i # 0 /\ i <= Len(s) => t[i] = s[i]
      /\ k <= Len(s) => t[k] = s[k] /\ Neighbours(s, h, i, k)
      /\ IsOf(p, h) =>
           \/ k <= Len(s) + 1 /\ i <= Len(s) /\ Neighbours(s, h, i, k)
           \/ i = Len(s) + 1 /\ k = Len(s) + 2
      /\ ~IsOf(p, h) =>
           /\ i <= Len(s)
           /\ k <= Len(s) \/ (k = Len(s) + 2 /\ Neighbours(s, h, i, Len(s) + 1))
      /\ i = Len(s) + 1 => t[i] = p
      /\ k = Len(s) + 1 => t[k] = p
      /\ k <= Len(s) + 2
  BY <1>2, NeighboursAppend
<1>4. Len(t) = Len(s) + 1 /\ Len(s) \in Nat
  BY AppendProperties
<1> HIDE DEF t
<1>5. CASE k <= Len(s)
  <2>1. i <= Len(s)
    BY <1>3, <1>4, <1>5 DEF Neighbours
  <2>2. (IF i = 0 THEN first[h] ELSE LinkAfter(t[i])) = L(i, h)
    BY <2>1, <1>3
  <2>3. (IF k = Len(t) + 1 THEN new[h] ELSE LinkBefore(t[k])) = N(k, h)
    BY <1>3, <1>4, <1>5
  <2>4. L(i, h) = 0 \/ N(k, h) \in {0, L(i, h)}
    BY <1>1, <1>3, <1>5
  <2> HIDE DEF L, N
  <2> QED
    BY <2>2, <2>3, <2>4
<1>6. CASE IsOf(p, h) /\ k = Len(s) + 1
  <2>1. i <= Len(s) /\ Neighbours(s, h, i, k)
    BY <1>3, <1>4, <1>6
  <2>2. (IF i = 0 THEN first[h] ELSE LinkAfter(t[i])) = L(i, h)
    BY <2>1, <1>3
  <2>3. (IF k = Len(t) + 1 THEN new[h] ELSE LinkBefore(t[k])) \in {0, N(k, h)}
    BY <1>3, <1>4, <1>6
  <2>4. L(i, h) = 0 \/ N(k, h) \in {0, L(i, h)}
    BY <1>1, <2>1
  <2> HIDE DEF L, N
  <2> QED
    BY <2>2, <2>3, <2>4
<1>7. CASE IsOf(p, h) /\ i = Len(s) + 1 /\ k = Len(s) + 2
  <2>1. i # 0 /\ t[i] = p /\ k = Len(t) + 1
    BY <1>3, <1>4, <1>7
  <2> QED
    BY <2>1, <1>7
<1>8. CASE ~IsOf(p, h) /\ k = Len(s) + 2
  <2>1. i <= Len(s) /\ Neighbours(s, h, i, Len(s) + 1) /\ Len(s) + 1 \in Nat /\ k = Len(t) + 1
    BY <1>3, <1>4, <1>8
  <2>2. (IF i = 0 THEN first[h] ELSE LinkAfter(t[i])) = L(i, h)
    BY <2>1, <1>3
  <2>3. L(i, h) = 0 \/ N(Len(s) + 1, h) \in {0, L(i, h)}
    BY <1>1, <2>1
  <2>4. N(Len(s) + 1, h) = last[h]
    OBVIOUS
  <2> HIDE DEF L, N
  <2> QED
    BY <1>8, <2>1, <2>2, <2>3, <2>4
<1> QED
  BY <1>3, <1>4, <1>5, <1>6, <1>7, <1>8

\* A packet is lost: a fragment leaves its handle to the link it comes from.
LEMMA OrderedRemove ==
    ASSUME NEW s \in Seq(Packets), NEW r \in 1..Len(s), s[r].type = "acl", NEW first, NEW last,
           Ordered(s, first, last)
    PROVE  Ordered(RemoveAt(s, r), first, last)
<1> DEFINE t == RemoveAt(s, r)
           L(i, h) == IF i = 0 THEN first[h] ELSE LinkAfter(s[i])
           N(k, h) == IF k = Len(s) + 1 THEN last[h] ELSE LinkBefore(s[k])
<1>1. ASSUME NEW h \in Handles, NEW i \in Nat, NEW k \in Nat, Neighbours(s, h, i, k)
      PROVE  L(i, h) = 0 \/ N(k, h) \in {0, L(i, h)}
  BY <1>1 DEF Ordered
<1>2. SUFFICES ASSUME NEW h \in Handles, NEW i \in Nat, NEW k \in Nat, Neighbours(t, h, i, k)
               PROVE  LET l == IF i = 0 THEN first[h] ELSE LinkAfter(t[i])
                          n == IF k = Len(t) + 1 THEN last[h] ELSE LinkBefore(t[k])
                      IN  l = 0 \/ n \in {0, l}
  BY DEF Ordered
<1>3. PICK a \in Nat, c \in Nat :
        /\ i = 0 <=> a = 0
        /\ i # 0 => t[i] = s[a]
        /\ k = Len(t) + 1 <=> c = Len(s) + 1
        /\ k # Len(t) + 1 => t[k] = s[c]
        /\ \/ Neighbours(s, h, a, c)
           \/ Neighbours(s, h, a, r) /\ Neighbours(s, h, r, c)
  BY <1>2, NeighboursRemove
<1> HIDE DEF t
<1>4. /\ (IF i = 0 THEN first[h] ELSE LinkAfter(t[i])) = L(a, h)
      /\ (IF k = Len(t) + 1 THEN last[h] ELSE LinkBefore(t[k])) = N(c, h)
  BY <1>3
<1>5. CASE Neighbours(s, h, a, c)
  <2>1. L(a, h) = 0 \/ N(c, h) \in {0, L(a, h)}
    BY <1>1, <1>5
  <2> HIDE DEF L, N
  <2> QED
    BY <1>4, <2>1
<1>6. CASE Neighbours(s, h, a, r) /\ Neighbours(s, h, r, c)
  <2>1. r \in Nat /\ r # 0 /\ r # Len(s) + 1 /\ s[r] \in Packets
    OBVIOUS
  <2>2. L(r, h) = s[r].link /\ N(r, h) = s[r].link /\ s[r].link # 0
    BY <2>1, PacketFacts, FragmentFacts DEF LinkAfter, LinkBefore
  <2>3. L(a, h) = 0 \/ N(r, h) \in {0, L(a, h)}
    BY <1>1, <1>6, <2>1
  <2>4. L(r, h) = 0 \/ N(c, h) \in {0, L(r, h)}
    BY <1>1, <1>6, <2>1
  <2> HIDE DEF L, N
  <2> QED
    BY <1>4, <2>2, <2>3, <2>4
<1> QED
  BY <1>3, <1>5, <1>6

\* The read loop takes a packet: what it knows of the handle is what the packet
\* leaves it to.
LEMMA GhostReads ==
    ASSUME GhostInv, ReadsOn \/ DiscardDuringReset
    PROVE  LinksInOrder' /\ GhostsNeverServed'
<1>0. rx \in Seq(Packets) /\ known \in [Handles -> Nat] /\ Ordered(rx, known, up)
  BY SMTT(40) DEF GhostInv, BaseInv, TypeOK, ProgOK, CtrlOK, LinksInOrder
<1>1. rx # <<>> /\ rx' = Tail(rx) /\ up' = up
  BY DEF ReadsOn, OnLinkUp, OnLinkDown, OnAnswer, OnGhostTraffic, OnStart, OnContinuation,
     DiscardDuringReset, Reads, ctrlVars
<1> DEFINE p == rx[1]
<1>2. p = Head(rx) /\ p \in Packets
  BY <1>0, <1>1, RxHead
<1>3. /\ p.type \in {"acl", "up", "down", "answer"}
      /\ p.type = "acl" => p.link \in Nat \ {0}
      /\ p.type # "answer" => p.handle \in Handles
  BY <1>2, PacketFacts, FragmentFacts
<1>4. ASSUME p.type = "acl" PROVE known[p.handle] \in {0, p.link}
  <2>1. IsOf(p, p.handle) /\ p.handle \in Handles
    BY <1>3, <1>4 DEF IsOf
  <2>2. Neighbours(rx, p.handle, 0, 1)
    BY <1>0, <1>1, <2>1, NeighboursFirst
  <2>3. 1 # Len(rx) + 1
    BY <1>0, <1>1, RxHead
  <2>4. known[p.handle] = 0 \/ LinkBefore(p) \in {0, known[p.handle]}
    BY <1>0, <2>1, <2>2, <2>3 DEF Ordered
  <2> QED
    BY <1>3, <1>4, <2>4 DEF LinkBefore
<1> DEFINE After1(h) == IF IsOf(p, h) THEN LinkAfter(p) ELSE known[h]
<1>5. ASSUME NEW h \in Handles, known' = known, p.type \in {"acl", "answer"} \/ known[h] = 0
      PROVE  known'[h] = 0 \/ known'[h] = After1(h)
  <2>1. CASE IsOf(p, h) /\ p.type = "acl"
    BY <2>1, <1>4, <1>5 DEF IsOf, LinkAfter
  <2>2. CASE ~IsOf(p, h) \/ known[h] = 0
    BY <2>2, <1>5
  <2>3. p.type = "answer" => ~IsOf(p, h)
    BY DEF IsOf
  <2> QED
    BY <2>1, <2>2, <2>3, <1>5
<1>6. ASSUME NEW h \in Handles PROVE known'[h] = 0 \/ known'[h] = After1(h)
  <2>1. CASE OnLinkUp
    <3>1. known' = [known EXCEPT ![p.handle] = p.link] /\ p.type = "up"
      BY <2>1, <1>2 DEF OnLinkUp, Reads
    <3> QED
      BY <3>1, <1>0, <1>3 DEF IsOf, LinkAfter
  <2>2. CASE OnLinkDown
    <3>1. known' = [known EXCEPT ![p.handle] = 0] /\ p.type = "down"
      BY <2>2, <1>2 DEF OnLinkDown, Reads
    <3> QED
      BY <3>1, <1>0, <1>3 DEF IsOf, LinkAfter
  <2>3. CASE OnAnswer \/ OnGhostTraffic \/ OnStart \/ OnContinuation
    <3>1. known' = known /\ p.type \in {"acl", "answer"}
      BY <2>3, <1>2 DEF OnAnswer, OnGhostTraffic, OnStart, OnContinuation, Reads, linkHist
    <3> HIDE DEF After1
    <3> QED
      BY <3>1, <1>5, SMTT(40)
  <2>4. CASE DiscardDuringReset
    <3>1. known' = known /\ phase = "reset"
      BY <2>4 DEF DiscardDuringReset, linkHist
    <3>2. known[h] = 0
      BY <3>1 DEF GhostInv, BaseInv, KnowsNothingYet, OpenIsKnown
    <3> HIDE DEF After1
    <3> QED
      BY <3>1, <3>2, <1>5
  <2> QED
    BY <2>1, <2>2, <2>3, <2>4 DEF ReadsOn
<1>7. LinksInOrder'
  <2>1. Ordered(Tail(rx), known', up)
    BY <1>0, <1>1, <1>6, OrderedTail
  <2> QED
    BY <2>1, <1>1 DEF LinksInOrder
<1>8. GhostsNeverServed'
  <2>1. CASE OnStart \/ OnContinuation
    <3>1. p.type = "acl" /\ p.handle \in openHandles /\ Taken(p)
      BY <2>1, <1>2 DEF OnStart, OnContinuation, Reads, IsGhost
    <3>2. known[p.handle] # 0
      BY <3>1, <1>3 DEF GhostInv, BaseInv, OpenIsKnown
    <3>3. p.link = known[p.handle]
      BY <3>1, <3>2, <1>4
    <3> QED
      BY <3>1, <3>3 DEF Taken, GhostInv, GhostsNeverServed
  <2>2. CASE ~(OnStart \/ OnContinuation)
    <3>1. intruder' = intruder
      BY <2>2 DEF ReadsOn, OnLinkUp, OnLinkDown, OnAnswer, OnGhostTraffic, DiscardDuringReset, pduHist
    <3> QED
      BY <3>1 DEF GhostInv, GhostsNeverServed
  <2> QED
    BY <2>1, <2>2
<1> QED
  BY <1>7, <1>8

\* No process, or one that knows of no link and has nothing to read.
LEMMA GhostNothing ==
    ASSUME BaseInv', rx' = <<>>, openHandles' = {}
    PROVE  LinksInOrder'
<1>1. \A h \in Handles : known'[h] = 0
  BY DEF BaseInv, OpenIsKnown
<1>2. Ordered(<<>>, known', up')
  BY <1>1, OrderedNone
<1> QED
  BY <1>2 DEF LinksInOrder

\* Adding one packet, or two, at the end of what is on its way.
LEMMA PacketsAppended ==
    ASSUME NEW s \in Seq(Packets), NEW p \in Packets, NEW q \in Packets
    PROVE  /\ s \o <<p>> = Append(s, p)
           /\ s \o <<p, q>> = Append(Append(s, p), q)
           /\ Append(s, p) \in Seq(Packets)
  OBVIOUS

\* The controller and the peers, while a process listens.
LEMMA GhostController ==
    ASSUME GhostInv, phase # "off",
           \/ ControllerExecutes \/ ControllerLoses \/ LateReset \/ FragmentLost
           \/ \E h \in Handles : LinkUp(h) \/ LinkDown(h) \/ PduBegins(h) \/ PduContinues(h)
    PROVE  LinksInOrder'
<1>0. /\ rx \in Seq(Packets) /\ known' = known /\ Ordered(rx, known, up)
      /\ up \in [Handles -> Nat] /\ sending \in [Handles -> Places] /\ links \in Nat
      /\ inside \in Seq(Commands) /\ pdus \in Nat
  BY DEF GhostInv, BaseInv, TypeOK, ProgOK, CtrlOK, LinksInOrder, LinkUp, LinkDown, PduBegins,
     PduContinues, ControllerExecutes, ControllerLoses, LateReset, FragmentLost, linkHist
<1> DEFINE answer == [type |-> "answer"]
           down(h) == [type |-> "down", handle |-> h]
<1>1. answer \in Packets /\ \A h : ~IsOf(answer, h)
  BY DEF Packets, IsOf
<1>2. \A h \in Handles : /\ down(h) \in Packets /\ LinkAfter(down(h)) = 0 /\ LinkBefore(down(h)) = 0
                         /\ \A g : IsOf(down(h), g) <=> g = h
  BY DEF Packets, DownPackets, IsOf, LinkAfter, LinkBefore
<1> HIDE DEF answer, down
<1>3. ASSUME NEW h \in Handles, LinkUp(h) PROVE LinksInOrder'
  <2> DEFINE p == [type |-> "up", handle |-> h, link |-> links + 1]
  <2>1. p \in Packets /\ LinkAfter(p) = links + 1 /\ LinkBefore(p) = 0 /\ \A g : IsOf(p, g) <=> g = h
    BY <1>0 DEF Packets, UpPackets, LinkAfter, LinkBefore, IsOf
  <2>2. up' = [up EXCEPT ![h] = links + 1] /\ rx' = rx \o <<p>>
    BY <1>3 DEF LinkUp, Delivered
  <2> HIDE DEF p
  <2>3. \A g \in Handles : IF g = h THEN up'[g] = links + 1 ELSE up'[g] = up[g]
    BY <2>2, <1>0
  <2>4. rx' = Append(rx, p)
    BY <2>1, <2>2, <1>0, PacketsAppended
  <2>5. Ordered(Append(rx, p), known, up')
    BY <2>1, <2>3, <1>0, OrderedAppend
  <2> QED
    BY <2>4, <2>5, <1>0 DEF LinksInOrder
<1>4. ASSUME NEW h \in Handles, LinkDown(h) PROVE LinksInOrder'
  <2>1. up' = [up EXCEPT ![h] = 0] /\ rx' = rx \o <<down(h)>>
    BY <1>4 DEF LinkDown, Delivered, down
  <2>2. \A g \in Handles : up'[g] \in {0, up[g]}
    BY <2>1, <1>0
  <2>3. rx' = Append(rx, down(h))
    BY <2>1, <1>0, <1>2, PacketsAppended
  <2>4. Ordered(Append(rx, down(h)), known, up')
    BY <2>2, <1>0, <1>2, OrderedAppend
  <2> QED
    BY <2>3, <2>4, <1>0 DEF LinksInOrder
<1>5. CASE ControllerExecutes
  <2> DEFINE h == Head(inside).handle
             closes == up[h] # 0
  <2>1. /\ inside # <<>> /\ up' = IF closes THEN [up EXCEPT ![h] = 0] ELSE up
        /\ rx' = rx \o IF closes THEN <<answer, down(h)>> ELSE <<answer>>
    BY <1>5 DEF ControllerExecutes, Delivered, answer, down
  <2>2. h \in Handles
    <3>1. Head(inside) \in Commands
      BY <1>0, <2>1, HeadTailProperties
    <3> QED
      BY <3>1 DEF Commands
  <2> HIDE DEF h
  <2>3. \A g \in Handles : up'[g] \in {0, up[g]}
    BY <2>1, <1>0
  <2>4. Append(rx, answer) \in Seq(Packets) /\ rx \o <<answer>> = Append(rx, answer)
    BY <1>0, <1>1, PacketsAppended
  <2>5. CASE ~closes
    <3>1. Ordered(Append(rx, answer), known, up')
      BY <2>3, <1>0, <1>1, OrderedAppend
    <3> QED
      BY <2>1, <2>4, <2>5, <3>1, <1>0 DEF LinksInOrder
  <2>6. CASE closes
    <3>1. Ordered(Append(rx, answer), known, up)
      BY <1>0, <1>1, OrderedAppend
    <3>2. Ordered(Append(Append(rx, answer), down(h)), known, up')
      BY <2>2, <2>3, <2>4, <3>1, <1>2, OrderedAppend
    <3>3. rx' = Append(Append(rx, answer), down(h))
      BY <2>1, <2>2, <2>6, <1>0, <1>1, <1>2, PacketsAppended
    <3> QED
      BY <3>2, <3>3, <1>0 DEF LinksInOrder
  <2> QED
    BY <2>5, <2>6
<1>6. CASE ControllerLoses
  BY <1>6, <1>0 DEF ControllerLoses, LinksInOrder
<1>7. CASE LateReset
  <2>1. up' = NoLinks /\ rx' = rx \o <<answer>>
    BY <1>7 DEF LateReset, Delivered, answer
  <2>2. \A g \in Handles : up'[g] = 0
    BY <2>1 DEF NoLinks
  <2>3. rx' = Append(rx, answer)
    BY <2>1, <1>0, <1>1, PacketsAppended
  <2>4. Ordered(Append(rx, answer), known, up')
    BY <2>2, <1>0, <1>1, OrderedAppend
  <2> QED
    BY <2>3, <2>4, <1>0 DEF LinksInOrder
<1>8. CASE FragmentLost
  <2>1. PICK i \in DOMAIN rx : rx[i].type = "acl" /\ rx' = RemoveAt(rx, i)
    BY <1>8 DEF FragmentLost
  <2>2. i \in 1..Len(rx) /\ up' = up
    BY <2>1, <1>0, <1>8 DEF FragmentLost, ctrlVars
  <2>3. Ordered(RemoveAt(rx, i), known, up)
    BY <2>1, <2>2, <1>0, OrderedRemove
  <2> QED
    BY <2>1, <2>2, <2>3, <1>0 DEF LinksInOrder
<1>9. ASSUME NEW h \in Handles, NEW p \in Fragments, p.handle = h, p.link = up[h],
             rx' = rx \o <<p>>, up' = up
      PROVE  LinksInOrder'
  <2>1. p \in Packets /\ p.type = "acl"
    BY FragmentFacts
  <2>2. LinkAfter(p) = up[h] /\ LinkBefore(p) = up[h] /\ \A g : IsOf(p, g) <=> g = h
    BY <2>1, <1>9 DEF LinkAfter, LinkBefore, IsOf
  <2>3. rx' = Append(rx, p)
    BY <2>1, <1>0, <1>9, PacketsAppended
  <2>4. Ordered(Append(rx, p), known, up)
    BY <2>1, <2>2, <1>0, OrderedAppend
  <2> QED
    BY <2>3, <2>4, <1>0, <1>9 DEF LinksInOrder
<1>10. ASSUME NEW h \in Handles, PduBegins(h) \/ PduContinues(h) PROVE LinksInOrder'
  <2>1. PICK p \in Fragments : p.handle = h /\ p.link = up[h] /\ rx' = rx \o <<p>>
    BY <1>10, FragmentSent DEF GhostInv
  <2>2. up' = up
    BY <1>10 DEF PduBegins, PduContinues
  <2> QED
    BY <2>1, <2>2, <1>9
<1> QED
  BY <1>3, <1>4, <1>5, <1>6, <1>7, <1>8, <1>10

LEMMA NextGhost == GhostInv /\ [Next]_vars => GhostInv'
<1> SUFFICES ASSUME GhostInv, [Next]_vars PROVE GhostInv'
    OBVIOUS
<1>0. BaseInv'
  BY NextBase DEF GhostInv
<1>1. CASE ReadsOn \/ DiscardDuringReset
  BY <1>0, <1>1, GhostReads DEF GhostInv
<1>2. CASE Exit \/ Kill \/ ResetConfirmed
  <2>1. rx' = <<>> /\ openHandles' = {} /\ intruder' = intruder
    BY <1>2 DEF Exit, Kill, ResetConfirmed, Gone, pduHist, GhostInv, BaseInv, KnowsNothingYet
  <2> QED
    BY <1>0, <2>1, GhostNothing DEF GhostInv, GhostsNeverServed
<1>3. CASE GiveUp \/ StartRun \/ ResetUnconfirmed \/ Signal \/ UNCHANGED vars
  <2>1. UNCHANGED <<rx, known, up, intruder>>
    BY <1>3 DEF GiveUp, StartRun, ResetUnconfirmed, Signal, vars, ctrlVars, pduHist, linkHist
  <2> QED
    BY <1>0, <2>1 DEF GhostInv, GhostsNeverServed, LinksInOrder
<1>4. CASE \/ ControllerExecutes \/ ControllerLoses \/ LateReset \/ FragmentLost
           \/ \E h \in Handles : LinkUp(h) \/ LinkDown(h) \/ PduBegins(h) \/ PduContinues(h)
  <2>1. intruder' = intruder /\ phase' = phase
    BY <1>4 DEF LinkUp, LinkDown, PduBegins, PduContinues, ControllerExecutes, ControllerLoses,
       LateReset, FragmentLost, progVars, pduHist
  <2>2. LinksInOrder'
    <3>1. CASE phase # "off"
      BY <3>1, <1>4, GhostController
    <3>2. CASE phase = "off"
      <4>1. rx' = <<>> /\ openHandles' = {}
        BY <3>2, <2>1, <1>0 DEF BaseInv, KnowsNothingYet
      <4> QED
        BY <4>1, <1>0, GhostNothing
    <3> QED
      BY <3>1, <3>2
  <2> QED
    BY <1>0, <2>1, <2>2 DEF GhostInv, GhostsNeverServed
<1> QED
  BY <1>1, <1>2, <1>3, <1>4 DEF Next

\* "The discriminator is exact" (handle_acl()): for any number of handles, links
\* and runs, however late a Reset takes effect and whatever is still in the
\* socket, no packet of a link this run was not told of is taken for live data.
THEOREM GhostsNeverServedTheorem == Spec => []GhostsNeverServed
<1>1. Init => GhostInv
  <2> SUFFICES ASSUME Init PROVE GhostInv
      OBVIOUS
  <2>1. BaseInv /\ GhostsNeverServed
    BY InitBase DEF Init, GhostsNeverServed
  <2>2. \A h \in Handles : known[h] = 0
    BY DEF Init, NoLinks
  <2>3. Ordered(<<>>, known, up)
    BY <2>2, OrderedNone
  <2>4. LinksInOrder
    BY <2>3 DEF Init, LinksInOrder
  <2> QED
    BY <2>1, <2>4 DEF GhostInv
<1>2. GhostInv => GhostsNeverServed
  BY DEF GhostInv
<1> QED
  BY <1>1, <1>2, NextGhost, PTL DEF Spec

-----------------------------------------------------------------------------
(* Reassembly.                                                             *)

Helds == [expected : Nat, buf : Seq(Bytes)]

LEMMA PlacesOf ==
    ASSUME NEW x \in Fragments
    PROVE  /\ x.pb = "start" => Before(x) = Between
           /\ x.pb = "cont" =>
                /\ Before(x) # Between
                /\ Before(x) = [link |-> x.link, pdu |-> x.pdu, done |-> x.from - 1, len |-> x.len]
           /\ x.to < x.len =>
                /\ After(x) # Between
                /\ After(x) = [link |-> x.link, pdu |-> x.pdu, done |-> x.to, len |-> x.len]
           /\ ~(x.to < x.len) => After(x) = Between
<1>1. /\ x.type = "acl" /\ x.link \in Nat \ {0} /\ x.len \in Nat \ {0} /\ x.to \in Nat /\ x.to <= x.len
      /\ x.from \in Nat \ {0} /\ (x.pb = "cont" => x.from <= x.to)
  BY FragmentFacts
<1>2. ASSUME NEW d PROVE [link |-> x.link, pdu |-> x.pdu, done |-> d, len |-> x.len] # Between
  <2>1. [link |-> x.link, pdu |-> x.pdu, done |-> d, len |-> x.len].link # Between.link
    BY <1>1 DEF Between
  <2> QED
    BY <2>1
<1>3. x.pb = "cont" => x.from - 1 < x.len
  BY <1>1
<1> QED
  BY <1>1, <1>2, <1>3 DEF Before, After, Place

\* The first byte shows of which PDU the bytes are.
LEMMA WholeIs ==
    ASSUME NEW l \in Nat, NEW p \in Nat, NEW n \in Nat \ {0}
    PROVE  /\ Len(Units(l, p, 1, n)) = n
           /\ Units(l, p, 1, n)[1].link = l /\ Units(l, p, 1, n)[1].pdu = p
<1>1. Len(Units(l, p, 1, n)) = n
  <2>1. 1 \in Nat \ {0} /\ n \in Nat /\ 1 <= n + 1 /\ n - 1 + 1 = n
    OBVIOUS
  <2> QED
    BY <2>1, UnitsAre
<1>2. Units(l, p, 1, n)[1] = [link |-> l, pdu |-> p, unit |-> 1 + 1 - 1]
  <2>1. 1 \in 1..(n - 1 + 1)
    OBVIOUS
  <2> QED
    BY <2>1 DEF Units
<1> QED
  BY <1>1, <1>2

\* What the program may hold at one place it may hold at the next: between the two
\* the PDU was given up, or the one fragment of m was lost.
AtMostOne(m, gave) == m = {} \/ (~gave /\ \E x \in Fragments : m = {x})

LEMMA HoldStep ==
    ASSUME NEW r \in Helds, NEW v, NEW w, NEW m, NEW gave, AtMostOne(m, gave),
           MayHold(r, v, m, gave), Follows(v, w, m, gave)
    PROVE  MayHold(r, w, m, gave)
<1>1. CASE v = w
  BY <1>1
<1>2. CASE w = Between /\ gave
  BY <1>2 DEF MayHold
<1>3. CASE \E x \in m : v = Before(x) /\ w = After(x)
  <2>1. PICK x \in m : v = Before(x) /\ w = After(x)
    BY <1>3
  <2>2. x \in Fragments /\ m = {x} /\ ~gave
    BY <2>1 DEF AtMostOne
  <2>3. /\ x.link \in Nat \ {0} /\ x.len \in Nat \ {0} /\ x.to \in Nat /\ x.to <= x.len
        /\ x.from \in Nat \ {0} /\ (x.pb = "cont" => x.from <= x.to) /\ x.pb \in {"start", "cont"}
        /\ x.pdu \in Nat
    BY <2>2, FragmentFacts
  <2>4. CASE r = Closed
    BY <2>4 DEF MayHold
  <2>5. CASE r # Closed /\ x.pb = "start"
    <3>1. v = Between
      BY <2>1, <2>2, <2>5, PlacesOf
    <3>2. gave \/ \E y \in m : y.pb = "cont"
      BY <3>1, <2>5 DEF MayHold
    <3>3. x.pb = "cont"
      BY <3>2, <2>2
    <3> QED
      BY <3>3, <2>5
  <2>6. CASE r # Closed /\ x.pb = "cont"
    <3>1. v # Between /\ v.link = x.link /\ v.pdu = x.pdu /\ v.done = x.from - 1 /\ v.len = x.len
      BY <2>1, <2>2, <2>6, PlacesOf
    <3>2. \E y \in m : y.pb = "cont"
      BY <2>1, <2>6
    <3>3. CASE ~(x.to < x.len)
      <4>1. w = Between
        BY <3>3, <2>1, <2>2, PlacesOf
      <4> QED
        BY <4>1, <3>2 DEF MayHold
    <3>4. CASE x.to < x.len
      <4>1. w # Between /\ w.done = x.to /\ w.len = x.len
        BY <3>4, <2>1, <2>2, PlacesOf
      <4>2. r.expected = x.len /\ Len(r.buf) <= x.from - 1
        <5>1. CASE r = [expected |-> v.len, buf |-> Units(v.link, v.pdu, 1, v.done)]
          <6>1. /\ x.from - 1 \in Nat /\ 1 \in Nat \ {0} /\ 1 <= (x.from - 1) + 1 /\ x.link \in Nat
                /\ (x.from - 1) - 1 + 1 = x.from - 1
            BY <2>3
          <6>2. Len(Units(x.link, x.pdu, 1, x.from - 1)) = x.from - 1
            BY <6>1, <2>3, UnitsAre
          <6>3. r.expected = x.len /\ r.buf = Units(x.link, x.pdu, 1, x.from - 1)
            BY <5>1, <3>1
          <6> QED
            BY <6>1, <6>2, <6>3
        <5>2. CASE r.expected = v.len /\ Len(r.buf) < v.done
          <6>1. Len(r.buf) \in Nat
            BY DEF Helds
          <6> QED
            BY <5>2, <6>1, <3>1, <2>3
        <5> QED
          BY <5>1, <5>2, <3>1, <2>6 DEF MayHold
      <4>3. Len(r.buf) < w.done
        <5>1. Len(r.buf) \in Nat
          BY DEF Helds
        <5> QED
          BY <5>1, <4>1, <4>2, <2>3, <2>6
      <4> QED
        BY <4>1, <4>2, <4>3, <3>2 DEF MayHold
    <3> QED
      BY <3>3, <3>4
  <2> QED
    BY <2>3, <2>4, <2>5, <2>6
<1> QED
  BY <1>1, <1>2, <1>3 DEF Follows

\* The bytes of a fragment, on their own and after what is there of its PDU.
LEMMA DataIs ==
    ASSUME NEW f \in Fragments
    PROVE  /\ Data(f) \in Seq(Bytes) /\ Len(Data(f)) = f.to - f.from + 1
           /\ Data(f) = <<>> <=> f.to < f.from
           /\ f.pb = "start" =>
                /\ Data(f) = Units(f.link, f.pdu, 1, f.to)
                /\ f.to # 0 => Data(f) = Units(Data(f)[1].link, Data(f)[1].pdu, 1, Len(Data(f)))
<1>1. /\ f.link \in Nat /\ f.pdu \in Nat /\ f.from \in Nat \ {0} /\ f.to \in Nat /\ f.from <= f.to + 1
      /\ f.pb = "start" => f.from = 1
  BY FragmentFacts
<1>2. /\ Data(f) \in Seq(Bytes) /\ Len(Data(f)) = f.to - f.from + 1
      /\ Data(f) = <<>> <=> f.to < f.from
  BY <1>1, UnitsAre, ZenonT(60) DEF Data
<1>3. f.pb = "start" => Data(f) = Units(f.link, f.pdu, 1, f.to)
  BY <1>1 DEF Data
<1>4. f.to # 0 => f.to \in Nat \ {0}
  BY <1>1
<1>5. f.pb = "start" /\ f.to # 0 => Data(f) = Units(Data(f)[1].link, Data(f)[1].pdu, 1, Len(Data(f)))
  <2>1. ASSUME f.pb = "start", f.to # 0
        PROVE  Len(Data(f)) = f.to /\ Data(f)[1].link = f.link /\ Data(f)[1].pdu = f.pdu
    <3> DEFINE l == f.link
               p == f.pdu
               n == f.to
    <3>1. l \in Nat /\ p \in Nat /\ n \in Nat \ {0}
      BY <2>1, <1>1, <1>4
    <3>2. Data(f) = Units(l, p, 1, n)
      BY <2>1, <1>3
    <3> HIDE DEF l, p, n
    <3>3. Len(Units(l, p, 1, n)) = n /\ Units(l, p, 1, n)[1].link = l /\ Units(l, p, 1, n)[1].pdu = p
      BY <3>1, WholeIs
    <3>4. Len(Data(f)) = n /\ Data(f)[1].link = l /\ Data(f)[1].pdu = p
      BY <3>2, <3>3
    <3> QED
      BY <3>4 DEF l, p, n
  <2> QED
    BY <2>1, <1>3
<1> QED
  BY <1>2, <1>3, <1>5

LEMMA JoinIs ==
    ASSUME NEW f \in Fragments, f.pb = "cont", NEW u \in Seq(Bytes)
    PROVE  /\ u \o Data(f) \in Seq(Bytes) /\ Len(u \o Data(f)) = Len(u) + (f.to - f.from + 1)
           /\ u = Units(f.link, f.pdu, 1, f.from - 1) =>
                /\ u \o Data(f) = Units(f.link, f.pdu, 1, f.to) /\ Len(u \o Data(f)) = f.to
                /\ SubSeq(u \o Data(f), 1, f.to) = u \o Data(f)
                /\ u \o Data(f) = Units((u \o Data(f))[1].link, (u \o Data(f))[1].pdu, 1,
                                        Len(u \o Data(f)))
<1>1. /\ f.link \in Nat /\ f.pdu \in Nat /\ f.from \in Nat \ {0} /\ f.to \in Nat \ {0} /\ f.from <= f.to
  BY FragmentFacts
<1>2. Data(f) \in Seq(Bytes) /\ Len(Data(f)) = f.to - f.from + 1
  BY DataIs
<1> DEFINE b == u \o Data(f)
<1>3. b \in Seq(Bytes) /\ Len(b) = Len(u) + (f.to - f.from + 1)
  <2>1. u \o Data(f) \in Seq(Bytes) /\ Len(u \o Data(f)) = Len(u) + Len(Data(f))
    BY <1>2, ConcatProperties, Zenon
  <2> QED
    BY <2>1, <1>2
<1>4. u = Units(f.link, f.pdu, 1, f.from - 1) => b = Units(f.link, f.pdu, 1, f.to)
  <2>1. f.to \in Nat
    BY <1>1
  <2>2. Units(f.link, f.pdu, 1, f.from - 1) \o Units(f.link, f.pdu, f.from, f.to)
          = Units(f.link, f.pdu, 1, f.to)
    <3> DEFINE l == f.link
               p == f.pdu
               i == f.from
               j == f.to
    <3>1. l \in Nat /\ p \in Nat /\ i \in Nat \ {0} /\ j \in Nat /\ i <= j
      BY <2>1, <1>1
    <3> HIDE DEF b, l, p, i, j
    <3>2. Units(l, p, 1, i - 1) \o Units(l, p, i, j) = Units(l, p, 1, j)
      BY <3>1, UnitsJoin, ZenonT(60)
    <3> QED
      BY <3>2 DEF l, p, i, j
  <2> QED
    BY <2>2 DEF Data
<1> HIDE DEF b
<1>5. ASSUME b = Units(f.link, f.pdu, 1, f.to)
      PROVE  Len(b) = f.to /\ SubSeq(b, 1, f.to) = b /\ b = Units(b[1].link, b[1].pdu, 1, Len(b))
  <2>1. 1 \in Nat \ {0} /\ 1 <= f.to + 1 /\ f.to - 1 + 1 = f.to /\ f.to \in Nat
    BY <1>1
  <2>2. Len(b) = f.to
    BY <2>1, <1>1, <1>5, UnitsAre, ZenonT(60)
  <2>3. SubSeq(b, 1, f.to) = b
    BY <2>2, <1>3
  <2>4. b = Units(b[1].link, b[1].pdu, 1, Len(b))
    <3>1. Len(b) = f.to /\ b[1].link = f.link /\ b[1].pdu = f.pdu
      BY <1>1, <1>5, WholeIs, SMTT(40)
    <3> QED
      BY <3>1, <1>5
  <2> QED
    BY <2>2, <2>3, <2>4
<1>6. u = Units(f.link, f.pdu, 1, f.from - 1) =>
        /\ b = Units(f.link, f.pdu, 1, f.to) /\ Len(b) = f.to
        /\ SubSeq(b, 1, f.to) = b /\ b = Units(b[1].link, b[1].pdu, 1, Len(b))
  BY <1>4, <1>5
<1> QED
  BY <1>3, <1>6 DEF b

\* A start is read: whatever was there before, nothing is torn.
LEMMA StartHolds ==
    ASSUME BaseInv, OnStart, NEW m, NEW gave
    PROVE  LET h == Head(rx).handle
           IN  /\ torn' = torn
               /\ reasm'[h] \in Helds /\ MayHold(reasm'[h], After(Head(rx)), m, gave)
               /\ \A g \in Handles : g # h => reasm'[g] = reasm[g]
<1> DEFINE p == Head(rx)
           h == p.handle
<1>1. /\ rx \in Seq(Packets) /\ rx # <<>> /\ p.type = "acl" /\ p.pb = "start"
      /\ reasm \in [Handles -> Helds] /\ torn \in BOOLEAN
  BY DEF OnStart, Reads, BaseInv, TypeOK, ProgOK, CtrlOK, HistOK, Helds
<1>2. p \in Fragments
  BY <1>1, RxHead, PacketFacts
<1>3. /\ p.link \in Nat /\ p.len \in Nat \ {0} /\ p.to \in Nat /\ p.to <= p.len /\ p.pdu \in Nat
      /\ p.from = 1 /\ h \in Handles
  BY <1>1, <1>2, FragmentFacts
<1>4. /\ Data(p) = Units(p.link, p.pdu, 1, p.to) /\ Data(p) \in Seq(Bytes) /\ Len(Data(p)) = p.to
      /\ Data(p) = <<>> <=> p.to < 1
      /\ p.to # 0 => Data(p) = Units(Data(p)[1].link, Data(p)[1].pdu, 1, Len(Data(p)))
  <2>1. p.to - 1 + 1 = p.to
    BY <1>3
  <2> HIDE DEF p
  <2> QED
    BY <2>1, <1>1, <1>2, <1>3, DataIs
<1>5. CASE Data(p) # <<>> /\ Len(Data(p)) >= p.len
  <2>1. Route(Data(p)) /\ reasm' = [reasm EXCEPT ![h] = Closed]
    BY <1>5 DEF OnStart
  <2>2. p.to \in Nat \ {0}
    BY <1>3, <1>4, <1>5
  <2>3. Data(p) = Units(Data(p)[1].link, Data(p)[1].pdu, 1, Len(Data(p)))
    BY <2>2, <1>4
  <2>4. torn' = torn
    BY <2>1, <2>3, <1>1 DEF Route
  <2>5. Closed \in Helds
    BY DEF Closed, Helds
  <2>6. reasm'[h] = Closed /\ \A g \in Handles : g # h => reasm'[g] = reasm[g]
    BY <2>1, <1>1, <1>3
  <2> QED
    BY <2>4, <2>5, <2>6 DEF MayHold
<1>6. CASE ~(Data(p) # <<>> /\ Len(Data(p)) >= p.len)
  <2>1. torn' = torn /\ reasm' = Hold(h, p)
    BY <1>6 DEF OnStart
  <2> DEFINE r == IF Data(p) = <<>> THEN Closed ELSE [expected |-> p.len, buf |-> Data(p)]
  <2>2. reasm'[h] = r /\ \A g \in Handles : g # h => reasm'[g] = reasm[g]
    BY <2>1, <1>1, <1>3 DEF Hold
  <2>3. r \in Helds
    BY <1>3, <1>4 DEF Helds, Closed
  <2>4. MayHold(r, After(p), m, gave)
    <3>1. CASE Data(p) = <<>>
      BY <3>1 DEF MayHold
    <3>2. CASE Data(p) # <<>>
      <4>1. p.to < p.len
        BY <3>2, <1>3, <1>4, <1>6
      <4>2. /\ After(p) # Between /\ After(p).link = p.link /\ After(p).pdu = p.pdu
            /\ After(p).done = p.to /\ After(p).len = p.len
        BY <4>1, <1>2, PlacesOf
      <4>3. r = [expected |-> After(p).len, buf |-> Units(After(p).link, After(p).pdu, 1, After(p).done)]
        BY <3>2, <4>2, <1>4
      <4> QED
        BY <4>2, <4>3 DEF MayHold
    <3> QED
      BY <3>1, <3>2
  <2> QED
    BY <2>1, <2>2, <2>3, <2>4
<1> QED
  BY <1>5, <1>6

\* A continuation is read: of a PDU whose beginning is there it makes more or all,
\* of one whose beginning is not it never makes enough.
LEMMA ContinuationHolds ==
    ASSUME BaseInv, OnContinuation, NEW m, NEW gave,
           MayHold(reasm[Head(rx).handle], Before(Head(rx)), m, gave)
    PROVE  LET h == Head(rx).handle
           IN  /\ torn' = torn
               /\ reasm'[h] \in Helds /\ MayHold(reasm'[h], After(Head(rx)), m, gave)
               /\ \A g \in Handles : g # h => reasm'[g] = reasm[g]
<1> DEFINE p == Head(rx)
           h == p.handle
           r == reasm[h]
           buf == r.buf \o Data(p)
<1> SUFFICES /\ torn' = torn /\ reasm'[h] \in Helds /\ MayHold(reasm'[h], After(p), m, gave)
             /\ \A g \in Handles : g # h => reasm'[g] = reasm[g]
  OBVIOUS
<1>1. /\ rx \in Seq(Packets) /\ rx # <<>> /\ p.type = "acl" /\ p.pb = "cont"
      /\ reasm \in [Handles -> Helds] /\ torn \in BOOLEAN
  BY DEF OnContinuation, Reads, BaseInv, TypeOK, ProgOK, CtrlOK, HistOK, Helds
<1>2. p \in Fragments
  BY <1>1, RxHead, PacketFacts
<1>3. /\ p.link \in Nat /\ p.len \in Nat \ {0} /\ p.to \in Nat /\ p.to <= p.len /\ p.pdu \in Nat
      /\ p.from \in Nat \ {0} /\ p.from <= p.to /\ h \in Handles
  BY <1>1, <1>2, FragmentFacts
<1>4. Data(p) \in Seq(Bytes) /\ Len(Data(p)) = p.to - p.from + 1
  <2>1. p.from <= p.to + 1
    BY <1>3
  <2> QED
    BY <2>1, <1>3, UnitsAre DEF Data
<1>5. r \in Helds
  BY <1>1, <1>3
<1>6. r.buf \in Seq(Bytes) /\ r.expected \in Nat /\ Len(r.buf) \in Nat
  BY <1>5, SMTT(40) DEF Helds
<1>7. /\ buf \in Seq(Bytes) /\ Len(buf) = Len(r.buf) + (p.to - p.from + 1)
      /\ r.buf = Units(p.link, p.pdu, 1, p.from - 1) =>
           /\ buf = Units(p.link, p.pdu, 1, p.to) /\ Len(buf) = p.to
           /\ SubSeq(buf, 1, p.to) = buf /\ buf = Units(buf[1].link, buf[1].pdu, 1, Len(buf))
  <2> HIDE DEF p, r
  <2> QED
    BY <1>1, <1>2, <1>6, JoinIs
<1>8. /\ Before(p) # Between /\ Before(p).link = p.link /\ Before(p).pdu = p.pdu
      /\ Before(p).done = p.from - 1 /\ Before(p).len = p.len
  BY <1>1, <1>2, PlacesOf
<1>9. MayHold(r, Before(p), m, gave) /\ r = reasm[h]
  OBVIOUS
<1>10. /\ r = Closed => torn' = torn /\ reasm' = reasm
       /\ r # Closed /\ Len(buf) >= r.expected =>
            Route(SubSeq(buf, 1, r.expected)) /\ reasm' = [reasm EXCEPT ![h] = Closed]
       /\ r # Closed /\ ~(Len(buf) >= r.expected) =>
            torn' = torn /\ reasm' = [reasm EXCEPT ![h].buf = buf]
  BY DEF OnContinuation
<1> HIDE DEF p, h, r, buf
<1>11. CASE r = Closed
  <2>1. torn' = torn /\ reasm' = reasm
    BY <1>11, <1>10
  <2>2. reasm'[h] = Closed /\ Closed \in Helds
    BY <2>1, <1>9, <1>11 DEF Closed, Helds
  <2> QED
    BY <2>1, <2>2 DEF MayHold
<1>12. CASE r # Closed /\ r = [expected |-> p.len, buf |-> Units(p.link, p.pdu, 1, p.from - 1)]
  <2>1. r.expected = p.len /\ r.buf = Units(p.link, p.pdu, 1, p.from - 1)
    BY <1>12
  <2>2. buf = Units(p.link, p.pdu, 1, p.to) /\ SubSeq(buf, 1, p.to) = buf
    BY <2>1, <1>7
  <2>3. Len(buf) = p.to /\ buf = Units(buf[1].link, buf[1].pdu, 1, Len(buf))
    BY <2>1, <1>7
  <2>4. CASE p.to >= p.len
    <3>1. p.to = p.len /\ p.to \in Nat \ {0}
      BY <2>4, <1>3
    <3>2. Route(SubSeq(buf, 1, p.len)) /\ reasm' = [reasm EXCEPT ![h] = Closed]
      BY <2>1, <2>3, <2>4, <1>10, <1>12
    <3>3. SubSeq(buf, 1, p.len) = buf
      BY <2>2, <3>1
    <3>5. torn' = torn
      BY <2>3, <3>2, <3>3, <1>1 DEF Route
    <3>6. Closed \in Helds
      BY DEF Closed, Helds
    <3>7. reasm'[h] = Closed /\ \A g \in Handles : g # h => reasm'[g] = reasm[g]
      BY <3>2, <1>1, <1>3, <1>9
    <3> QED
      BY <3>5, <3>6, <3>7 DEF MayHold
  <2>5. CASE ~(p.to >= p.len)
    <3>1. p.to < p.len
      BY <2>5, <1>3
    <3>2. torn' = torn /\ reasm' = [reasm EXCEPT ![h].buf = buf]
      BY <2>1, <2>3, <2>5, <1>10, <1>12
    <3>3. /\ reasm'[h] = [r EXCEPT !.buf = buf]
          /\ \A g \in Handles : g # h => reasm'[g] = reasm[g]
      BY <3>2, <1>1, <1>3, <1>9
    <3>4. reasm'[h] = [expected |-> p.len, buf |-> Units(p.link, p.pdu, 1, p.to)]
      BY <3>3, <2>1, <2>2, <1>5 DEF Helds
    <3>5. /\ After(p) # Between /\ After(p).link = p.link /\ After(p).pdu = p.pdu
          /\ After(p).done = p.to /\ After(p).len = p.len
      BY <3>1, <1>2, PlacesOf
    <3>6. MayHold(reasm'[h], After(p), m, gave)
      BY <3>4, <3>5 DEF MayHold
    <3>7. reasm'[h] \in Helds
      <4>1. Units(p.link, p.pdu, 1, p.to) \in Seq(Bytes)
        BY <2>2, <1>7
      <4> QED
        BY <3>4, <4>1, <1>3 DEF Helds
    <3> QED
      BY <3>2, <3>3, <3>6, <3>7
  <2> QED
    BY <2>4, <2>5
<1>13. CASE /\ r # Closed /\ r.expected = p.len /\ Len(r.buf) < p.from - 1
            /\ \E x \in m : x.pb = "cont"
  <2>1. Len(buf) < p.to /\ ~(Len(buf) >= r.expected)
    <3>1. Len(buf) = Len(r.buf) + (p.to - p.from + 1)
      BY <1>7
    <3> QED
      BY <3>1, <1>3, <1>6, <1>13, SMTT(40)
  <2>2. torn' = torn /\ reasm' = [reasm EXCEPT ![h].buf = buf]
    BY <2>1, <1>10, <1>13
  <2>3. /\ reasm'[h] = [r EXCEPT !.buf = buf]
        /\ \A g \in Handles : g # h => reasm'[g] = reasm[g]
    BY <2>2, <1>1, <1>3, <1>9
  <2>4. reasm'[h] \in Helds /\ reasm'[h].expected = p.len /\ reasm'[h].buf = buf
    BY <2>3, <1>5, <1>7, <1>13 DEF Helds
  <2>5. CASE p.to < p.len
    <3>1. After(p) # Between /\ After(p).done = p.to /\ After(p).len = p.len
      BY <2>5, <1>2, PlacesOf
    <3>2. MayHold(reasm'[h], After(p), m, gave)
      BY <2>1, <2>4, <3>1, <1>13 DEF MayHold
    <3> QED
      BY <2>2, <2>3, <2>4, <3>2
  <2>6. CASE ~(p.to < p.len)
    <3>1. After(p) = Between
      BY <2>6, <1>2, PlacesOf
    <3>2. MayHold(reasm'[h], After(p), m, gave)
      BY <3>1, <1>13 DEF MayHold
    <3> QED
      BY <2>2, <2>3, <2>4, <3>2
  <2> QED
    BY <2>5, <2>6
<1> QED
  BY <1>8, <1>9, <1>11, <1>12, <1>13 DEF MayHold

\* A peer that gives a PDU up, and one that does not, keep what was so.
MovesOn(v, w, gave, more) == (gave => more) /\ (w = v \/ (w = Between /\ more))

LEMMA GaveMore ==
    ASSUME NEW r, NEW v, NEW w, NEW m, NEW gave, NEW more, MovesOn(v, w, gave, more)
    PROVE  /\ MayHold(r, v, m, gave) => MayHold(r, w, m, more)
           /\ \A u : Follows(u, v, m, gave) => Follows(u, w, m, more)
  BY DEF MayHold, Follows, MovesOn

LEMMA StreamedNone ==
    ASSUME NEW held, NEW last, NEW m, NEW gave, \A h \in Handles : held[h] = Closed
    PROVE  Streamed(<<>>, held, last, m, gave)
<1>1. SUFFICES ASSUME NEW h \in Handles, NEW i \in Nat, NEW k \in Nat, Neighbours(<<>>, h, i, k)
               PROVE  i = 0 /\ \A w : MayHold(held[h], w, m, gave)
  BY DEF Streamed
<1>2. i = 0
  BY <1>1, NeighboursNone
<1> QED
  BY <1>2 DEF MayHold

LEMMA StreamedFirst ==
    ASSUME NEW s \in Seq(Packets), s # <<>>, NEW held, NEW last, NEW m, NEW gave,
           Streamed(s, held, last, m, gave), NEW h \in Handles, IsOf(s[1], h), s[1].type # "down"
    PROVE  MayHold(held[h], Before(s[1]), m, gave)
<1>1. Neighbours(s, h, 0, 1)
  BY NeighboursFirst
<1>2. 1 # Len(s) + 1
  BY EmptySeq
<1> QED
  BY <1>1, <1>2 DEF Streamed

\* The first packet is read; new is what the program has then.
LEMMA StreamedTail ==
    ASSUME NEW s \in Seq(Packets), s # <<>>, NEW held, NEW new, NEW last,
           NEW m, NEW gave, AtMostOne(m, gave),
           Streamed(s, held, last, m, gave),
           \A h \in Handles :
             /\ new[h] \in Helds
             /\ ~IsOf(s[1], h) => new[h] = held[h]
             /\ IsOf(s[1], h) => MayHold(new[h], After(s[1]), m, gave)
    PROVE  Streamed(Tail(s), new, last, m, gave)
<1> DEFINE t == Tail(s)
           W(k, h) == IF k = Len(s) + 1 THEN last[h] ELSE Before(s[k])
<1>1. ASSUME NEW h \in Handles, NEW i \in Nat, NEW k \in Nat, Neighbours(s, h, i, k),
             k # Len(s) + 1 => s[k].type # "down"
      PROVE  IF i = 0 THEN MayHold(held[h], W(k, h), m, gave) ELSE Follows(After(s[i]), W(k, h), m, gave)
  BY <1>1 DEF Streamed
<1>2. SUFFICES ASSUME NEW h \in Handles, NEW i \in Nat, NEW k \in Nat, Neighbours(t, h, i, k),
                      k # Len(t) + 1 => t[k].type # "down"
               PROVE  LET w == IF k = Len(t) + 1 THEN last[h] ELSE Before(t[k])
                      IN  IF i = 0 THEN MayHold(new[h], w, m, gave) ELSE Follows(After(t[i]), w, m, gave)
  BY DEF Streamed
<1>3. /\ i # 0 => Neighbours(s, h, i + 1, k + 1) /\ t[i] = s[i + 1]
      /\ i = 0 /\ IsOf(s[1], h) => Neighbours(s, h, 1, k + 1)
      /\ i = 0 /\ ~IsOf(s[1], h) => Neighbours(s, h, 0, k + 1)
      /\ k = Len(t) + 1 <=> k + 1 = Len(s) + 1
      /\ k # Len(t) + 1 => t[k] = s[k + 1]
  <2>1. Neighbours(Tail(s), h, i, k)
    BY <1>2
  <2> QED
    BY <2>1, NeighboursTail, ZenonT(60)
<1> HIDE DEF t
<1>4. /\ (IF k = Len(t) + 1 THEN last[h] ELSE Before(t[k])) = W(k + 1, h)
      /\ k + 1 # Len(s) + 1 => s[k + 1].type # "down"
  BY <1>2, <1>3
<1>5. i + 1 \in Nat /\ k + 1 \in Nat /\ 1 \in Nat /\ 0 \in Nat /\ i + 1 # 0 /\ 1 # 0
  OBVIOUS
<1> HIDE DEF W
<1>6. CASE i # 0
  <2>1. Follows(After(s[i + 1]), W(k + 1, h), m, gave)
    BY <1>1, <1>3, <1>4, <1>5, <1>6
  <2> QED
    BY <1>3, <1>4, <1>6, <2>1
<1>7. CASE i = 0 /\ IsOf(s[1], h)
  <2>1. Follows(After(s[1]), W(k + 1, h), m, gave)
    BY <1>1, <1>3, <1>4, <1>5, <1>7
  <2>2. MayHold(new[h], After(s[1]), m, gave) /\ new[h] \in Helds
    BY <1>7
  <2>3. MayHold(new[h], W(k + 1, h), m, gave)
    BY <2>1, <2>2, HoldStep
  <2> QED
    BY <1>4, <1>7, <2>3
<1>8. CASE i = 0 /\ ~IsOf(s[1], h)
  <2>1. MayHold(held[h], W(k + 1, h), m, gave)
    BY <1>1, <1>3, <1>4, <1>5, <1>8
  <2> QED
    BY <1>4, <1>8, <2>1
<1> QED
  BY <1>6, <1>7, <1>8

\* A packet is sent.
LEMMA StreamedAppend ==
    ASSUME NEW s \in Seq(Packets), NEW p \in Packets, NEW held, NEW last, NEW new, NEW m,
           NEW gave \in BOOLEAN, NEW more \in BOOLEAN, gave => more,
           Streamed(s, held, last, m, gave),
           \A h \in Handles :
             /\ IsOf(p, h) =>
                  /\ p.type = "down" \/ Before(p) = last[h] \/ (Before(p) = Between /\ more)
                  /\ new[h] = After(p)
             /\ ~IsOf(p, h) => new[h] = last[h] \/ (new[h] = Between /\ more)
    PROVE  Streamed(Append(s, p), held, new, m, more)
<1> DEFINE t == Append(s, p)
           W(k, h) == IF k = Len(s) + 1 THEN last[h] ELSE Before(s[k])
           Fits(i, h, w, g) == IF i = 0 THEN MayHold(held[h], w, m, g) ELSE Follows(After(s[i]), w, m, g)
<1>1. ASSUME NEW h \in Handles, NEW i \in Nat, NEW k \in Nat, Neighbours(s, h, i, k),
             k # Len(s) + 1 => s[k].type # "down"
      PROVE  Fits(i, h, W(k, h), gave)
  BY <1>1 DEF Streamed
<1>2. SUFFICES ASSUME NEW h \in Handles, NEW i \in Nat, NEW k \in Nat, Neighbours(t, h, i, k),
                      k # Len(t) + 1 => t[k].type # "down"
               PROVE  LET w == IF k = Len(t) + 1 THEN new[h] ELSE Before(t[k])
                      IN  IF i = 0 THEN MayHold(held[h], w, m, more) ELSE Follows(After(t[i]), w, m, more)
  BY DEF Streamed
<1>3. /\ i # 0 /\ i <= Len(s) => t[i] = s[i]
      /\ k <= Len(s) => t[k] = s[k] /\ Neighbours(s, h, i, k)
      /\ IsOf(p, h) =>
           \/ k <= Len(s) + 1 /\ i <= Len(s) /\ Neighbours(s, h, i, k)
           \/ i = Len(s) + 1 /\ k = Len(s) + 2
      /\ ~IsOf(p, h) =>
           /\ i <= Len(s)
           /\ k <= Len(s) \/ (k = Len(s) + 2 /\ Neighbours(s, h, i, Len(s) + 1))
      /\ i = Len(s) + 1 => t[i] = p
      /\ k = Len(s) + 1 => t[k] = p
      /\ k <= Len(s) + 2
  BY <1>2, NeighboursAppend
<1>4. Len(t) = Len(s) + 1 /\ Len(s) \in Nat
  BY AppendProperties
<1> DEFINE w == IF k = Len(t) + 1 THEN new[h] ELSE Before(t[k])
<1> HIDE DEF t
\* Whoever is not the new packet stays what it is, and what follows it moves on
\* from v to w.
<1>5. ASSUME i <= Len(s), NEW v, Fits(i, h, v, gave), w = v \/ (w = Between /\ more)
      PROVE  IF i = 0 THEN MayHold(held[h], w, m, more) ELSE Follows(After(t[i]), w, m, more)
  <2>1. Fits(i, h, w, more)
    <3> HIDE DEF w
    <3>1. /\ MayHold(held[h], v, m, gave) => MayHold(held[h], w, m, more)
          /\ \A u : Follows(u, v, m, gave) => Follows(u, w, m, more)
      <4>1. MovesOn(v, w, gave, more)
        BY <1>5 DEF MovesOn
      <4> QED
        BY <4>1, GaveMore
    <3> QED
      BY <1>5, <3>1
  <2>2. i # 0 => t[i] = s[i]
    BY <1>3, <1>5
  <2> HIDE DEF w
  <2> QED
    BY <2>1, <2>2
<1>6. CASE k <= Len(s)
  <2>1. i <= Len(s) /\ Neighbours(s, h, i, k) /\ k # Len(s) + 1 /\ t[k] = s[k] /\ k # Len(t) + 1
    BY <1>3, <1>4, <1>6 DEF Neighbours
  <2>2. Fits(i, h, W(k, h), gave)
    BY <1>1, <1>2, <2>1
  <2>3. w = W(k, h)
    BY <2>1
  <2> HIDE DEF w, W, Fits
  <2>4. IF i = 0 THEN MayHold(held[h], w, m, more) ELSE Follows(After(t[i]), w, m, more)
    BY <1>5, <2>1, <2>2, <2>3
  <2> QED
    BY <2>4 DEF w
<1>7. CASE IsOf(p, h) /\ k = Len(s) + 1
  <2>1. i <= Len(s) /\ Neighbours(s, h, i, k) /\ t[k] = p /\ k # Len(t) + 1
    BY <1>3, <1>4, <1>7
  <2>2. Fits(i, h, W(k, h), gave)
    BY <1>1, <1>7, <2>1
  <2>3. W(k, h) = last[h] /\ w = Before(p)
    BY <1>7, <2>1
  <2>4. w = last[h] \/ (w = Between /\ more)
    BY <1>2, <1>7, <2>1, <2>3
  <2> HIDE DEF w, W, Fits
  <2>5. IF i = 0 THEN MayHold(held[h], w, m, more) ELSE Follows(After(t[i]), w, m, more)
    BY <1>5, <2>1, <2>2, <2>3, <2>4
  <2> QED
    BY <2>5 DEF w
<1>8. CASE IsOf(p, h) /\ i = Len(s) + 1 /\ k = Len(s) + 2
  <2>1. i # 0 /\ t[i] = p /\ k = Len(t) + 1
    BY <1>3, <1>4, <1>8
  <2>2. w = After(p)
    BY <1>8, <2>1
  <2> HIDE DEF w
  <2>3. Follows(After(t[i]), w, m, more)
    BY <2>1, <2>2 DEF Follows
  <2> QED
    BY <2>1, <2>3 DEF w
<1>9. CASE ~IsOf(p, h) /\ k = Len(s) + 2
  <2>1. i <= Len(s) /\ Neighbours(s, h, i, Len(s) + 1) /\ Len(s) + 1 \in Nat /\ k = Len(t) + 1
    BY <1>3, <1>4, <1>9
  <2>2. Fits(i, h, W(Len(s) + 1, h), gave)
    BY <1>1, <2>1
  <2>3. W(Len(s) + 1, h) = last[h] /\ w = new[h]
    BY <2>1
  <2>4. w = last[h] \/ (w = Between /\ more)
    BY <1>9, <2>3
  <2> HIDE DEF w, W, Fits
  <2>5. IF i = 0 THEN MayHold(held[h], w, m, more) ELSE Follows(After(t[i]), w, m, more)
    BY <1>5, <2>1, <2>2, <2>3, <2>4
  <2> QED
    BY <2>5 DEF w
<1>10. \/ k <= Len(s) \/ (IsOf(p, h) /\ k = Len(s) + 1)
       \/ (IsOf(p, h) /\ i = Len(s) + 1 /\ k = Len(s) + 2)
       \/ (~IsOf(p, h) /\ k = Len(s) + 2)
  BY <1>3, <1>4
<1> QED
  BY <1>6, <1>7, <1>8, <1>9, <1>10

\* The first fragment is lost, of peers that have not given a PDU up.
LEMMA StreamedRemove ==
    ASSUME NEW s \in Seq(Packets), NEW r \in 1..Len(s), s[r].type = "acl", NEW held, NEW last,
           \A h \in Handles : held[h] \in Helds,
           Streamed(s, held, last, {}, FALSE)
    PROVE  Streamed(RemoveAt(s, r), held, last, {s[r]}, FALSE)
<1> DEFINE t == RemoveAt(s, r)
           x == s[r]
           W(k, h) == IF k = Len(s) + 1 THEN last[h] ELSE Before(s[k])
<1>1. ASSUME NEW h \in Handles, NEW i \in Nat, NEW k \in Nat, Neighbours(s, h, i, k),
             k # Len(s) + 1 => s[k].type # "down"
      PROVE  IF i = 0 THEN MayHold(held[h], W(k, h), {}, FALSE)
                      ELSE After(s[i]) = W(k, h)
  BY <1>1 DEF Streamed, Follows
<1>2. SUFFICES ASSUME NEW h \in Handles, NEW i \in Nat, NEW k \in Nat, Neighbours(t, h, i, k),
                      k # Len(t) + 1 => t[k].type # "down"
               PROVE  LET w == IF k = Len(t) + 1 THEN last[h] ELSE Before(t[k])
                      IN  IF i = 0 THEN MayHold(held[h], w, {x}, FALSE)
                                   ELSE Follows(After(t[i]), w, {x}, FALSE)
  BY DEF Streamed
<1>3. PICK a \in Nat, c \in Nat :
        /\ i = 0 <=> a = 0
        /\ i # 0 => t[i] = s[a]
        /\ k = Len(t) + 1 <=> c = Len(s) + 1
        /\ k # Len(t) + 1 => t[k] = s[c]
        /\ \/ Neighbours(s, h, a, c)
           \/ Neighbours(s, h, a, r) /\ Neighbours(s, h, r, c)
  BY <1>2, NeighboursRemove
<1> HIDE DEF t
<1>4. /\ (IF k = Len(t) + 1 THEN last[h] ELSE Before(t[k])) = W(c, h)
      /\ c # Len(s) + 1 => s[c].type # "down"
  BY <1>2, <1>3
<1>5. r \in Nat /\ r # 0 /\ r # Len(s) + 1 /\ s[r] \in Packets
  OBVIOUS
<1>6. x \in Fragments /\ W(r, h) = Before(x)
  BY <1>5, PacketFacts
<1>7. \A v : MayHold(held[h], v, {}, FALSE) => MayHold(held[h], v, {x}, FALSE)
  BY DEF MayHold
<1> HIDE DEF W
<1>8. CASE Neighbours(s, h, a, c)
  <2>1. IF a = 0 THEN MayHold(held[h], W(c, h), {}, FALSE) ELSE After(s[a]) = W(c, h)
    BY <1>1, <1>4, <1>8
  <2>2. CASE i = 0
    <3>1. MayHold(held[h], W(c, h), {x}, FALSE)
      BY <2>1, <2>2, <1>3, <1>7
    <3> QED
      BY <3>1, <2>2, <1>4
  <2>3. CASE i # 0
    <3>1. Follows(After(s[a]), W(c, h), {x}, FALSE)
      BY <2>1, <2>3, <1>3 DEF Follows
    <3> QED
      BY <3>1, <2>3, <1>3, <1>4
  <2> QED
    BY <2>2, <2>3
<1>9. CASE Neighbours(s, h, a, r) /\ Neighbours(s, h, r, c)
  <2>1. IF a = 0 THEN MayHold(held[h], Before(x), {}, FALSE) ELSE After(s[a]) = Before(x)
    <3>1. s[r].type # "down"
      OBVIOUS
    <3> QED
      BY <3>1, <1>1, <1>5, <1>6, <1>9
  <2>2. After(x) = W(c, h)
    BY <1>1, <1>4, <1>5, <1>9
  <2>3. Follows(Before(x), W(c, h), {x}, FALSE)
    BY <2>2 DEF Follows
  <2>4. CASE i = 0
    <3>1. MayHold(held[h], Before(x), {x}, FALSE)
      BY <2>1, <2>4, <1>3, <1>7
    <3>2. held[h] \in Helds /\ AtMostOne({x}, FALSE)
      BY <1>6 DEF AtMostOne
    <3>3. MayHold(held[h], W(c, h), {x}, FALSE)
      BY <2>3, <3>1, <3>2, HoldStep
    <3> QED
      BY <3>3, <2>4, <1>4
  <2>5. CASE i # 0
    <3>1. After(t[i]) = Before(x)
      BY <2>1, <2>5, <1>3
    <3> QED
      BY <3>1, <2>3, <2>5, <1>4
  <2> QED
    BY <2>4, <2>5
<1> QED
  BY <1>3, <1>8, <1>9

\* The state of RouteInv with nothing excused.
Routing(m) == ~torn /\ IsLost(m) /\ Streamed(rx, reasm, Ends, m, abandoned)

LEMMA RoutingIs ==
    /\ RouteInv => BaseInv /\ (Excused \/ \E m \in SUBSET Fragments : Routing(m))
    /\ BaseInv /\ Excused => RouteInv
    /\ \A m \in SUBSET Fragments : BaseInv /\ Routing(m) => RouteInv
  BY DEF RouteInv, Routing

LEMMA LostOne ==
    ASSUME BaseInv, NEW m, IsLost(m), ~Excused
    PROVE  AtMostOne(m, abandoned)
  BY DEF IsLost, Excused, AtMostOne, BaseInv, TypeOK, CtrlOK

\* The read loop takes a packet.
LEMMA RouteReads ==
    ASSUME BaseInv, NEW m \in SUBSET Fragments, Routing(m), ~Excused, ReadsOn \/ DiscardDuringReset
    PROVE  Routing(m)'
<1>0. /\ rx \in Seq(Packets) /\ reasm \in [Handles -> Helds] /\ AtMostOne(m, abandoned)
      /\ Streamed(rx, reasm, Ends, m, abandoned)
  BY LostOne, SMTT(40) DEF BaseInv, TypeOK, ProgOK, CtrlOK, Helds, Routing
<1>1. /\ rx # <<>> /\ rx' = Tail(rx) /\ up' = up /\ sending' = sending /\ losses' = losses
      /\ abandoned' = abandoned
  BY DEF ReadsOn, OnLinkUp, OnLinkDown, OnAnswer, OnGhostTraffic, OnStart, OnContinuation,
     DiscardDuringReset, Reads, ctrlVars, countVars, pduHist
<1>2. Ends' = Ends
  BY <1>1 DEF Ends
<1> DEFINE p == rx[1]
<1>3. p = Head(rx) /\ p \in Packets
  BY <1>0, <1>1, RxHead
<1>4. /\ p.type \in {"acl", "up", "down", "answer"}
      /\ p.type # "answer" => p.handle \in Handles
  BY <1>3, PacketFacts
<1>5. ASSUME NEW h \in Handles, IsOf(p, h), p.type # "down"
      PROVE  MayHold(reasm[h], Before(p), m, abandoned)
  BY <1>0, <1>1, <1>5, StreamedFirst
<1> HIDE DEF p
<1>6. Closed \in Helds /\ \A w : MayHold(Closed, w, m, abandoned)
  BY DEF Closed, Helds, MayHold
<1>7. /\ torn' = torn
      /\ \A h \in Handles :
           /\ reasm'[h] \in Helds
           /\ ~IsOf(p, h) => reasm'[h] = reasm[h]
           /\ IsOf(p, h) => MayHold(reasm'[h], After(p), m, abandoned)
  <2>1. CASE OnLinkUp
    <3>1. reasm' = reasm /\ torn' = torn /\ p.type = "up"
      BY <2>1, <1>3 DEF OnLinkUp, Reads, pduHist
    <3>2. Before(p) = After(p)
      BY <3>1 DEF Before, After
    <3>3. p.type # "down"
      BY <3>1
    <3> QED
      BY <3>1, <3>2, <3>3, <1>0, <1>5
  <2>2. CASE OnLinkDown
    <3>1. reasm' = [reasm EXCEPT ![p.handle] = Closed] /\ torn' = torn /\ p.type = "down"
      BY <2>2, <1>3 DEF OnLinkDown, Dropped, Reads, pduHist
    <3>2. ASSUME NEW h \in Handles PROVE reasm'[h] = IF IsOf(p, h) THEN Closed ELSE reasm[h]
      BY <3>1, <1>0, <1>4 DEF IsOf
    <3> QED
      BY <3>1, <3>2, <1>0, <1>6
  <2>3. CASE OnAnswer
    <3>1. reasm' = reasm /\ torn' = torn /\ p.type = "answer"
      BY <2>3, <1>3 DEF OnAnswer, Reads, pduHist
    <3>2. \A h : ~IsOf(p, h)
      BY <3>1 DEF IsOf
    <3> QED
      BY <3>1, <3>2, <1>0
  <2>4. CASE OnGhostTraffic
    <3>1. reasm' = reasm /\ torn' = torn /\ p.handle \notin openHandles
      BY <2>4, <1>3 DEF OnGhostTraffic, IsGhost, pduHist
    <3>2. ASSUME NEW h \in Handles, IsOf(p, h) PROVE reasm[h] = Closed
      BY <3>1, <3>2 DEF IsOf, BaseInv, OpenIsKnown
    <3> QED
      BY <3>1, <3>2, <1>0, <1>6
  <2>5. CASE OnStart
    <3>1. /\ torn' = torn
          /\ reasm'[p.handle] \in Helds /\ MayHold(reasm'[p.handle], After(p), m, abandoned)
          /\ \A g \in Handles : g # p.handle => reasm'[g] = reasm[g]
      BY <2>5, <1>3, StartHolds
    <3>2. p.type # "answer"
      BY <2>5, <1>3 DEF OnStart, Reads
    <3> QED
      BY <3>1, <3>2, <1>0 DEF IsOf
  <2>6. CASE OnContinuation
    <3>1. p.type = "acl"
      BY <2>6, <1>3 DEF OnContinuation, Reads
    <3>2. p.handle \in Handles /\ IsOf(p, p.handle)
      BY <3>1, <1>4 DEF IsOf
    <3>3. MayHold(reasm[p.handle], Before(p), m, abandoned)
      BY <3>1, <3>2, <1>5
    <3>4. /\ torn' = torn
          /\ reasm'[p.handle] \in Helds /\ MayHold(reasm'[p.handle], After(p), m, abandoned)
          /\ \A g \in Handles : g # p.handle => reasm'[g] = reasm[g]
      BY <2>6, <3>3, <1>3, ContinuationHolds
    <3> QED
      BY <3>1, <3>4, <1>0 DEF IsOf
  <2>7. CASE DiscardDuringReset
    <3>1. reasm' = reasm /\ torn' = torn /\ phase = "reset"
      BY <2>7 DEF DiscardDuringReset, progVars, pduHist
    <3>2. \A h \in Handles : reasm[h] = Closed
      BY <3>1 DEF BaseInv, KnowsNothingYet, OpenIsKnown
    <3> QED
      BY <3>1, <3>2, <1>6
  <2> QED
    BY <2>1, <2>2, <2>3, <2>4, <2>5, <2>6, <2>7 DEF ReadsOn
<1>8. Streamed(Tail(rx), reasm', Ends, m, abandoned)
  BY <1>0, <1>1, <1>7, StreamedTail DEF p
<1> QED
  BY <1>1, <1>2, <1>7, <1>8 DEF Routing, IsLost

\* No process, or one that knows of no link and has nothing to read.
LEMMA RouteNothing ==
    ASSUME BaseInv', rx' = <<>>, openHandles' = {}, NEW m, IsLost(m)', ~torn'
    PROVE  Routing(m)'
<1>1. \A h \in Handles : reasm'[h] = Closed
  BY DEF BaseInv, OpenIsKnown
<1>2. Streamed(<<>>, reasm', Ends', m, abandoned')
  BY <1>1, StreamedNone
<1> QED
  BY <1>2 DEF Routing

\* The controller and the peers, while a process listens: what is appended finds
\* its sender where it was.
LEMMA RouteController ==
    ASSUME BaseInv, phase # "off", NEW m \in SUBSET Fragments, Routing(m),
           \/ ControllerExecutes \/ ControllerLoses \/ LateReset
           \/ \E h \in Handles : LinkUp(h) \/ LinkDown(h) \/ PduBegins(h) \/ PduContinues(h)
    PROVE  Routing(m)'
<1>0. /\ rx \in Seq(Packets) /\ Streamed(rx, reasm, Ends, m, abandoned)
      /\ up \in [Handles -> Nat] /\ sending \in [Handles -> Places] /\ links \in Nat
      /\ inside \in Seq(Commands) /\ abandoned \in BOOLEAN
      /\ \A h \in Handles : sending[h].done <= sending[h].len
  BY DEF BaseInv, TypeOK, CtrlOK, HistOK, Routing
<1>1. torn' = torn /\ reasm' = reasm /\ losses' = losses
  BY DEF LinkUp, LinkDown, PduBegins, PduContinues, ControllerExecutes, ControllerLoses, LateReset,
     progVars, countVars, pduHist
<1> DEFINE answer == [type |-> "answer"]
           down(h) == [type |-> "down", handle |-> h]
<1>2. answer \in Packets /\ \A h : ~IsOf(answer, h)
  BY DEF Packets, IsOf
<1>3. \A h \in Handles : /\ down(h) \in Packets /\ down(h).type = "down" /\ After(down(h)) = Between
                         /\ \A g : IsOf(down(h), g) <=> g = h
  BY DEF Packets, DownPackets, IsOf, After
<1> HIDE DEF answer, down
<1>4. /\ \A h \in Handles : Ends[h] = Place(up[h], sending[h].pdu, sending[h].done, sending[h].len)
      /\ \A h \in Handles : Ends'[h] = Place(up'[h], sending'[h].pdu, sending'[h].done, sending'[h].len)
  BY DEF Ends
<1>5. \A l : Place(l, Silent.pdu, Silent.done, Silent.len) = Between
  BY DEF Place, Silent
<1>6. ASSUME Streamed(rx', reasm, Ends', m, abandoned') PROVE Routing(m)'
  BY <1>1, <1>6 DEF Routing, IsLost
\* Links.
<1>7. ASSUME NEW h \in Handles, LinkUp(h) PROVE Routing(m)'
  <2> DEFINE p == [type |-> "up", handle |-> h, link |-> links + 1]
  <2>1. p \in Packets /\ After(p) = Between /\ Before(p) = Between /\ \A g : IsOf(p, g) <=> g = h
    BY <1>0 DEF Packets, UpPackets, After, Before, IsOf
  <2>2. /\ up[h] = 0 /\ up' = [up EXCEPT ![h] = links + 1] /\ rx' = rx \o <<p>>
        /\ sending' = sending /\ abandoned' = abandoned
    BY <1>7 DEF LinkUp, Delivered, pduHist
  <2> HIDE DEF p
  <2>3. sending[h] = Silent
    BY <2>2 DEF BaseInv, SilentWhenDown
  <2>4. Ends[h] = Between /\ Ends'[h] = Between
    BY <2>2, <2>3, <1>4, <1>5
  <2>5. \A g \in Handles : g # h => Ends'[g] = Ends[g]
    BY <2>2, <1>0, <1>4
  <2>6. rx' = Append(rx, p)
    BY <2>1, <2>2, <1>0, PacketsAppended
  <2>7. Streamed(Append(rx, p), reasm, Ends', m, abandoned)
    BY <2>1, <2>4, <2>5, <1>0, StreamedAppend
  <2> QED
    BY <2>2, <2>6, <2>7, <1>6
<1>8. ASSUME NEW h \in Handles, LinkDown(h) PROVE Routing(m)'
  <2>1. /\ up' = [up EXCEPT ![h] = 0] /\ sending' = [sending EXCEPT ![h] = Silent]
        /\ rx' = rx \o <<down(h)>> /\ abandoned' = abandoned
    BY <1>8 DEF LinkDown, Delivered, pduHist, down
  <2>2. Ends'[h] = Between /\ \A g \in Handles : g # h => Ends'[g] = Ends[g]
    BY <2>1, <1>0, <1>4, <1>5
  <2>3. rx' = Append(rx, down(h))
    BY <2>1, <1>0, <1>3, PacketsAppended
  <2>4. Streamed(Append(rx, down(h)), reasm, Ends', m, abandoned)
    <3>1. /\ down(h) \in Packets
          /\ \A g \in Handles :
               /\ IsOf(down(h), g) => down(h).type = "down" /\ Ends'[g] = After(down(h))
               /\ ~IsOf(down(h), g) => Ends'[g] = Ends[g]
      BY <2>2, <1>3
    <3> QED
      BY <3>1, <1>0, StreamedAppend
  <2> QED
    BY <2>1, <2>3, <2>4, <1>6
\* Commands and Resets.
<1>9. CASE ControllerExecutes
  <2> DEFINE h == Head(inside).handle
             closes == up[h] # 0
  <2>1. /\ inside # <<>> /\ up' = IF closes THEN [up EXCEPT ![h] = 0] ELSE up
        /\ sending' = IF closes THEN [sending EXCEPT ![h] = Silent] ELSE sending
        /\ rx' = rx \o IF closes THEN <<answer, down(h)>> ELSE <<answer>>
        /\ abandoned' = abandoned
    BY <1>9 DEF ControllerExecutes, Delivered, answer, down, pduHist
  <2>2. h \in Handles
    <3>1. Head(inside) \in Commands
      BY <1>0, <2>1, HeadTailProperties
    <3> QED
      BY <3>1 DEF Commands
  <2> HIDE DEF h
  <2>3. Append(rx, answer) \in Seq(Packets) /\ rx \o <<answer>> = Append(rx, answer)
    BY <1>0, <1>2, PacketsAppended
  <2>4. Streamed(Append(rx, answer), reasm, Ends, m, abandoned)
    BY <1>0, <1>2, StreamedAppend
  <2>5. CASE ~closes
    <3>1. Ends' = Ends
      BY <2>1, <2>5 DEF Ends
    <3> QED
      BY <2>1, <2>3, <2>4, <2>5, <3>1, <1>6
  <2>6. CASE closes
    <3>1. Ends'[h] = Between /\ \A g \in Handles : g # h => Ends'[g] = Ends[g]
      BY <2>1, <2>2, <2>6, <1>0, <1>4, <1>5
    <3>2. Streamed(Append(Append(rx, answer), down(h)), reasm, Ends', m, abandoned)
      <4>1. /\ down(h) \in Packets
            /\ \A g \in Handles :
                 /\ IsOf(down(h), g) => down(h).type = "down" /\ Ends'[g] = After(down(h))
                 /\ ~IsOf(down(h), g) => Ends'[g] = Ends[g]
        BY <2>2, <3>1, <1>3
      <4> QED
        BY <2>3, <2>4, <4>1, <1>0, StreamedAppend, ZenonT(60)
    <3>3. rx' = Append(Append(rx, answer), down(h))
      BY <2>1, <2>2, <2>6, <1>0, <1>2, <1>3, PacketsAppended
    <3> QED
      BY <2>1, <3>2, <3>3, <1>6
  <2> QED
    BY <2>5, <2>6
<1>10. CASE ControllerLoses
  <2>1. UNCHANGED <<rx, up, sending, abandoned>>
    BY <1>10 DEF ControllerLoses, pduHist
  <2>2. Ends' = Ends
    BY <2>1 DEF Ends
  <2> QED
    BY <2>1, <2>2, <1>0, <1>6
<1>11. CASE LateReset
  <2>1. /\ up' = NoLinks /\ sending' = [g \in Handles |-> Silent] /\ rx' = rx \o <<answer>>
        /\ abandoned' = (abandoned \/ \E g \in Handles : sending[g].done < sending[g].len)
    BY <1>11 DEF LateReset, Delivered, answer
  <2>2. ASSUME NEW g \in Handles
        PROVE  Ends'[g] = Between /\ (Ends[g] = Between \/ abandoned')
    BY <2>1, <1>4, <1>5 DEF Place
  <2>3. rx' = Append(rx, answer)
    BY <2>1, <1>0, <1>2, PacketsAppended
  <2>4. abandoned' \in BOOLEAN /\ (abandoned => abandoned')
    BY <2>1, <1>0
  <2>5. Streamed(Append(rx, answer), reasm, Ends', m, abandoned')
    <3>1. \A g \in Handles : Ends'[g] = Ends[g] \/ (Ends'[g] = Between /\ abandoned')
      BY <2>2
    <3> QED
      BY <2>4, <3>1, <1>0, <1>2, StreamedAppend
  <2> QED
    BY <2>3, <2>5, <1>6
\* PDUs.
<1>12. ASSUME NEW h \in Handles, PduBegins(h) \/ PduContinues(h) PROVE Routing(m)'
  <2>1. PICK p \in Fragments :
          /\ p.handle = h /\ p.link = up[h] /\ rx' = rx \o <<p>> /\ up' = up
          /\ sending' = [sending EXCEPT ![h] = [pdu |-> p.pdu, len |-> p.len, done |-> p.to]]
          /\ p.pb = "start" => abandoned' = (abandoned \/ sending[h].done < sending[h].len)
          /\ p.pb = "cont" => /\ p.pdu = sending[h].pdu /\ p.len = sending[h].len
                              /\ p.from = sending[h].done + 1 /\ abandoned' = abandoned
    BY <1>12, FragmentSent
  <2>2. p \in Packets /\ p.type = "acl" /\ p.pb \in {"start", "cont"} /\ \A g : IsOf(p, g) <=> g = h
    BY <2>1, FragmentFacts DEF IsOf
  <2>3. Ends'[h] = After(p)
    BY <2>1, <2>2, <1>0, <1>4 DEF After
  <2>4. \A g \in Handles : g # h => Ends'[g] = Ends[g]
    BY <2>1, <1>0, <1>4
  <2>5. abandoned' \in BOOLEAN /\ (abandoned => abandoned')
    BY <2>1, <2>2, <1>0
  <2>6. Before(p) = Ends[h] \/ (Before(p) = Between /\ abandoned')
    <3>1. CASE p.pb = "start"
      <4>1. Before(p) = Between
        BY <3>1, PlacesOf
      <4>2. Ends[h] = Between \/ sending[h].done < sending[h].len
        BY <1>4 DEF Place
      <4> QED
        BY <4>1, <4>2, <3>1, <2>1
    <3>2. CASE p.pb = "cont"
      <4>1. (sending[h].done + 1) - 1 = sending[h].done
        <5>1. sending[h].done \in Nat
          BY <1>0 DEF Places
        <5> QED
          BY <5>1
      <4> QED
        BY <4>1, <3>2, <2>1, <2>2, <1>4 DEF Before
    <3> QED
      BY <3>1, <3>2, <2>2
  <2>7. rx' = Append(rx, p)
    BY <2>1, <2>2, <1>0, PacketsAppended
  <2>8. Streamed(Append(rx, p), reasm, Ends', m, abandoned')
    BY <2>2, <2>3, <2>4, <2>5, <2>6, <1>0, StreamedAppend, ZenonT(60)
  <2> QED
    BY <2>7, <2>8, <1>6
<1> QED
  BY <1>7, <1>8, <1>9, <1>10, <1>11, <1>12

LEMMA NextRoute == RouteInv /\ [Next]_vars => RouteInv'
<1> SUFFICES ASSUME RouteInv, [Next]_vars PROVE RouteInv'
    OBVIOUS
<1>0. BaseInv /\ BaseInv'
  BY NextBase, RoutingIs
<1>1. losses \in Nat /\ abandoned \in BOOLEAN
  BY <1>0 DEF BaseInv, TypeOK, CtrlOK, HistOK
<1>2. losses' \in {losses, losses + 1} /\ (abandoned => abandoned')
  <2>1. CASE ReadsOn
    <3>1. losses' = losses /\ abandoned' = abandoned
      BY <2>1 DEF ReadsOn, OnLinkUp, OnLinkDown, OnAnswer, OnGhostTraffic, OnStart, OnContinuation,
         countVars, pduHist
    <3> QED
      BY <3>1, SMTT(40)
  <2>2. CASE \/ GiveUp \/ StartRun \/ DiscardDuringReset \/ ResetConfirmed \/ ResetUnconfirmed
             \/ Signal \/ Exit \/ Kill \/ UNCHANGED vars
    <3>1. losses' = losses /\ abandoned' = abandoned
      BY <2>2 DEF GiveUp, StartRun, DiscardDuringReset, ResetConfirmed, ResetUnconfirmed, Signal,
         Exit, Kill, vars, countVars, pduHist
    <3> QED
      BY <3>1
  <2>3. CASE ControllerExecutes \/ ControllerLoses \/ LateReset
    <3>1. losses' = losses
      BY <2>3 DEF ControllerExecutes, ControllerLoses, LateReset, countVars
    <3>2. (abandoned' = abandoned) \/ LateReset
      BY <2>3 DEF ControllerExecutes, ControllerLoses, pduHist
    <3>3. LateReset => (abandoned => abandoned')
      BY DEF LateReset
    <3> QED
      BY <3>1, <3>2, <3>3
  <2>4. CASE FragmentLost
    BY <2>4 DEF FragmentLost, pduHist
  <2>5. CASE \E h \in Handles : LinkUp(h) \/ LinkDown(h) \/ PduBegins(h) \/ PduContinues(h)
    <3>1. PICK h \in Handles : LinkUp(h) \/ LinkDown(h) \/ PduBegins(h) \/ PduContinues(h)
      BY <2>5
    <3>2. losses' = losses
      BY <3>1 DEF LinkUp, LinkDown, PduBegins, PduContinues, countVars
    <3>3. (abandoned' = abandoned) \/ PduBegins(h)
      BY <3>1 DEF LinkUp, LinkDown, PduContinues, pduHist
    <3>4. PduBegins(h) => (abandoned => abandoned')
      BY DEF PduBegins
    <3> QED
      BY <3>2, <3>3, <3>4
  <2> QED
    BY <2>1, <2>2, <2>3, <2>4, <2>5 DEF Next
<1>3. ASSUME Excused' PROVE RouteInv'
  BY <1>0, <1>3, RoutingIs DEF RouteInv
<1>4. CASE Excused
  <2>1. Excused'
    BY <1>1, <1>2, <1>4 DEF Excused
  <2> QED
    BY <2>1, <1>3
<1>5. CASE ~Excused
  <2>1. PICK m \in SUBSET Fragments : Routing(m)
    BY <1>5, RoutingIs
  <2>2. ASSUME Routing(m)' PROVE RouteInv'
    BY <1>0, <2>2 DEF RouteInv, Routing
  <2>3. CASE ReadsOn \/ DiscardDuringReset
    BY <2>1, <2>2, <2>3, <1>0, <1>5, RouteReads
  <2>4. CASE Exit \/ Kill \/ ResetConfirmed
    <3>1. /\ rx' = <<>> /\ openHandles' = {} /\ torn' = torn /\ losses' = losses
      BY <2>4, <1>0 DEF Exit, Kill, ResetConfirmed, Gone, pduHist, countVars, BaseInv, KnowsNothingYet
    <3>2. IsLost(m)' /\ ~torn'
      BY <2>1, <3>1 DEF Routing, IsLost
    <3> QED
      BY <2>2, <3>1, <3>2, <1>0, RouteNothing
  <2>5. CASE GiveUp \/ StartRun \/ ResetUnconfirmed \/ Signal \/ UNCHANGED vars
    <3>1. UNCHANGED <<rx, reasm, up, sending, torn, losses, abandoned>>
      BY <2>5 DEF GiveUp, StartRun, ResetUnconfirmed, Signal, vars, progVars, ctrlVars, countVars, pduHist
    <3>2. Ends' = Ends
      BY <3>1 DEF Ends
    <3>3. Routing(m)'
      BY <2>1, <3>1, <3>2 DEF Routing, IsLost
    <3> QED
      BY <2>2, <3>3
  <2>6. CASE \/ ControllerExecutes \/ ControllerLoses \/ LateReset
             \/ \E h \in Handles : LinkUp(h) \/ LinkDown(h) \/ PduBegins(h) \/ PduContinues(h)
    <3>1. CASE phase # "off"
      BY <2>1, <2>2, <2>6, <3>1, <1>0, RouteController
    <3>2. CASE phase = "off"
      <4>1. torn' = torn /\ losses' = losses /\ phase' = phase
        BY <2>6 DEF LinkUp, LinkDown, PduBegins, PduContinues, ControllerExecutes, ControllerLoses,
           LateReset, progVars, countVars, pduHist
      <4>2. rx' = <<>> /\ openHandles' = {}
        BY <4>1, <3>2, <1>0 DEF BaseInv, KnowsNothingYet
      <4>3. IsLost(m)' /\ ~torn'
        BY <2>1, <4>1 DEF Routing, IsLost
      <4> QED
        BY <2>2, <4>2, <4>3, <1>0, RouteNothing
    <3> QED
      BY <3>1, <3>2
  \* A fragment is lost: the second one excuses, and so does the first if a peer
  \* gives PDUs up.
  <2>7. CASE FragmentLost
    <3>1. losses' = losses + 1 /\ UNCHANGED <<reasm, up, sending, torn, abandoned>>
      BY <2>7 DEF FragmentLost, progVars, ctrlVars, pduHist
    <3>2. CASE losses # 0 \/ abandoned
      <4>1. Excused'
        BY <3>1, <3>2, <1>1 DEF Excused
      <4> QED
        BY <4>1, <1>3
    <3>3. CASE losses = 0 /\ ~abandoned
      <4>1. PICK i \in DOMAIN rx : rx[i].type = "acl" /\ rx' = RemoveAt(rx, i)
        BY <2>7 DEF FragmentLost
      <4>2. rx \in Seq(Packets) /\ reasm \in [Handles -> Helds] /\ i \in 1..Len(rx) /\ rx[i] \in Packets
        BY <4>1, <1>0, SMTT(40) DEF BaseInv, TypeOK, ProgOK, CtrlOK, Helds
      <4>3. rx[i] \in Fragments
        BY <4>1, <4>2, PacketFacts
      <4>4. abandoned = FALSE /\ abandoned' = FALSE /\ m = {}
        BY <2>1, <3>1, <3>3, <1>1 DEF Routing, IsLost
      <4>5. Streamed(rx, reasm, Ends, {}, FALSE)
        BY <2>1, <4>4 DEF Routing
      <4> PICK x : x = rx[i]
        OBVIOUS
      <4>6. Streamed(RemoveAt(rx, i), reasm, Ends, {x}, FALSE)
        BY <4>1, <4>2, <4>5, StreamedRemove
      <4>7. Ends' = Ends
        BY <3>1 DEF Ends
      <4>8. Streamed(rx', reasm', Ends', {x}, abandoned')
        BY <4>1, <4>4, <4>6, <4>7, <3>1
      <4>9. losses' # 0 /\ ~torn'
        BY <2>1, <3>1, <3>3 DEF Routing
      <4>10. ~torn' /\ \E n \in SUBSET Fragments : IsLost(n)' /\ Streamed(rx', reasm', Ends', n, abandoned')
        <5>1. {x} \in SUBSET Fragments /\ IsLost({x})'
          BY <4>3, <4>9 DEF IsLost
        <5> QED
          BY <4>8, <4>9, <5>1
      <4> QED
        BY <4>10, <1>0 DEF RouteInv
    <3> QED
      BY <3>2, <3>3
  <2> QED
    BY <2>3, <2>4, <2>5, <2>6, <2>7 DEF Next
<1> QED
  BY <1>4, <1>5

\* handle_acl(): for PDUs of any length in any number of fragments, on any number
\* of handles that are reused, and over any number of runs, what is routed is one
\* whole PDU unless fragments were lost, and then only if two were, or one and a
\* PDU was given up.
THEOREM RoutedWholeTheorem == Spec => []RoutedWhole
<1>1. Init => RouteInv
  <2> SUFFICES ASSUME Init PROVE RouteInv
      OBVIOUS
  <2>1. BaseInv
    BY InitBase
  <2>2. \A h \in Handles : reasm[h] = Closed
    BY DEF Init
  <2>3. Streamed(<<>>, reasm, Ends, {}, abandoned)
    BY <2>2, StreamedNone
  <2>4. Routing({})
    BY <2>3 DEF Init, Routing, IsLost
  <2>5. {} \in SUBSET Fragments
    OBVIOUS
  <2> QED
    BY <2>1, <2>4, <2>5, RoutingIs
<1>2. RouteInv => RoutedWhole
  BY DEF RouteInv, RoutedWhole, Excused
<1> QED
  BY <1>1, <1>2, NextRoute, PTL DEF Spec

=============================================================================
