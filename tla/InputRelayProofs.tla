-------------------------- MODULE InputRelayProofs --------------------------
(* Proofs about InputRelay, for every pool, depth, threshold and set of    *)
(* handles: the order and freshness of the reports, and that no link is    *)
(* charged for packets the controller does not hold.                       *)
EXTENDS InputRelay, FiniteSetTheorems, TLAPS

-----------------------------------------------------------------------------
(* Freshness and order.                                                    *)

\* The strengthening of HeldIsNewest and OnlyNewer: the numbers
\* are numbers, nothing newer than the pad's last report exists anywhere, and a
\* report that waits on the current link waits for an open channel.
FreshInv ==
    /\ held \in Nat /\ padSeq \in Nat /\ lastSent \in Nat
    /\ lastSent <= padSeq
    /\ held # 0 => lastSent < held /\ held <= padSeq
    /\ (held # 0 /\ ~carried) => held = padSeq /\ interrupt

\* What SendReport and NothingSent do to the numbers.
LEMMA SendReportSent ==
    ASSUME NEW a, NEW i, NEW r, SendReport(a, i, r)
    PROVE  lastSent' = r
  BY DEF SendReport

\* ... and NothingSent leaves them alone.
LEMMA NothingSentSent ==
    ASSUME NEW a, NEW i, NothingSent(a, i)
    PROVE  lastSent' = lastSent
  BY DEF NothingSent

\* A report from the pad keeps FreshInv, and what it sends is newer.
LEMMA PadStateFresh ==
    ASSUME FreshInv, NEW fits \in BOOLEAN, PadState(fits)
    PROVE  FreshInv' /\ lastSent' >= lastSent
<1>1. padSeq' = padSeq + 1 /\ interrupt' = interrupt
  BY DEF PadState
<1>2. CASE ~interrupt
  <2>1. lastSent' = lastSent /\ held' = held /\ carried' = carried
    BY <1>2, NothingSentSent DEF PadState
  <2> QED BY <1>1, <1>2, <2>1 DEF FreshInv
<1>3. CASE interrupt /\ HasRoom(acl)
  <2>1. held' = 0 /\ lastSent' = padSeq + 1
    BY <1>3, SendReportSent DEF PadState, Superseded
  <2> QED BY <1>1, <2>1 DEF FreshInv
<1>4. CASE interrupt /\ ~HasRoom(acl)
  <2>1. lastSent' = lastSent /\ held' = IF fits THEN padSeq + 1 ELSE 0
    BY <1>4, NothingSentSent DEF PadState, Stored
  <2> QED BY <1>1, <1>4, <2>1 DEF FreshInv
<1> QED BY <1>2, <1>3, <1>4

\* Flushing the held report keeps FreshInv, and what it sends is newer.
LEMMA FlushFresh ==
    ASSUME FreshInv, NEW a, NEW i, FlushHeldReport(a, i),
           padSeq' = padSeq, interrupt' = interrupt
    PROVE  FreshInv' /\ lastSent' >= lastSent
<1>1. CASE held' = held /\ carried' = carried /\ lastSent' = lastSent
  BY <1>1 DEF FreshInv
<1>2. CASE held # 0 /\ held' = 0 /\ lastSent' \in {held, lastSent}
  BY <1>2 DEF FreshInv
<1>3. CASE held = 0
  <2>1. held' = held /\ carried' = carried /\ lastSent' = lastSent
    BY <1>3, NothingSentSent DEF FlushHeldReport
  <2> QED BY <2>1, <1>1
<1>4. CASE held # 0 /\ ~HasRoom(a)
  <2>1. held' = held /\ carried' = carried /\ lastSent' = lastSent
    BY <1>4, NothingSentSent DEF FlushHeldReport
  <2> QED BY <2>1, <1>1
<1>5. CASE held # 0 /\ HasRoom(a)
  <2>1. held' = 0 /\ (lastSent' = held \/ lastSent' = lastSent)
    BY <1>5, NothingSentSent, SendReportSent DEF FlushHeldReport
  <2> QED BY <2>1, <1>5, <1>2
<1> QED BY <1>3, <1>4, <1>5

\* FreshInv is inductive, and no step sends something older than what was sent.
LEMMA FreshStep ==
    ASSUME FreshInv, [Next]_vars
    PROVE  FreshInv' /\ lastSent' >= lastSent
<1>1. CASE \E fits \in BOOLEAN : PadState(fits)
  BY <1>1, PadStateFresh
<1>2. ASSUME NEW h, NEW i, NEW o, NumCompleted(h, i, o)
      PROVE  FreshInv' /\ lastSent' >= lastSent
  BY <1>2, FlushFresh DEF NumCompleted
<1>3. ASSUME NEW h, NEW i, NEW o, NEW g, NEW j, NEW p, NumCompletedTwo(h, i, o, g, j, p)
      PROVE  FreshInv' /\ lastSent' >= lastSent
  BY <1>3, FlushFresh DEF NumCompletedTwo
<1>4. CASE BufferSizeAnswered \/ OtherTraffic \/ Tick
  BY <1>4 DEF BufferSizeAnswered, OtherTraffic, Tick, histVars, FreshInv
<1>5. CASE \E n \in 0..2 : OpenInterrupt(n)
  BY <1>5 DEF OpenInterrupt, histVars, FreshInv
<1>6. ASSUME NEW h \in Handles, FeatureRequest(h)
      PROVE  FreshInv' /\ lastSent' >= lastSent
  BY <1>6 DEF FeatureRequest, FreshInv
<1>7. ASSUME NEW h \in Handles, LinkUp(h)
      PROVE  FreshInv' /\ lastSent' >= lastSent
  <2>1. held' = held /\ padSeq' = padSeq /\ lastSent' = lastSent
    BY <1>7 DEF LinkUp
  <2>2. CASE handle # NoLink
    <3>1. carried' = (held # 0)
      BY <1>7, <2>2 DEF LinkUp
    <3>2. held' # 0 => carried'
      BY <2>1, <3>1, Zenon
    <3> QED BY <2>1, <3>2 DEF FreshInv
  <2>3. CASE handle = NoLink
    BY <1>7, <2>1, <2>3 DEF LinkUp, FreshInv
  <2> QED BY <2>2, <2>3
<1>8. ASSUME NEW h \in Handles, LinkDown(h)
      PROVE  FreshInv' /\ lastSent' >= lastSent
  BY <1>8 DEF LinkDown, FreshInv
<1>9. CASE UNCHANGED vars
  BY <1>9 DEF vars, progVars, histVars, FreshInv
<1> QED
  BY <1>1, <1>2, <1>3, <1>4, <1>5, <1>6, <1>7, <1>8, <1>9 DEF Next

\* FreshInv holds throughout.
LEMMA FreshAlways == Spec => []FreshInv
<1>1. Init => FreshInv
  BY DEF Init, FreshInv
<1>2. FreshInv /\ [Next]_vars => FreshInv'
  BY FreshStep
<1> QED BY <1>1, <1>2, PTL DEF Spec

\* The report that waits for a buffer is the newest one, and newer than every
\* report sent.
THEOREM HeldReportIsNewest == Spec => []HeldIsNewest
<1>1. FreshInv => HeldIsNewest
  BY DEF FreshInv, HeldIsNewest
<1> QED BY <1>1, FreshAlways, PTL

\* Reports go out in the pad's order.
THEOREM ReportsInOrder == Spec => OnlyNewer
<1>1. FreshInv /\ [Next]_vars => [lastSent' >= lastSent]_vars
  BY FreshStep
<1> QED BY <1>1, FreshAlways, PTL DEF Spec, OnlyNewer

-----------------------------------------------------------------------------
(* Who is charged for what.                                                *)

\* Flow control a charges no link for more than the controller holds for it:
\* i input packets and o others, on the open links os.
Covered(a, i, o, os) ==
    \A h \in DOMAIN a.inFlight \ {NoLink} : h \in os /\ a.inFlight[h] <= i[h] + o[h]

\* The types the argument needs.
AllHandles == Handles \cup {NoLink}
TypeInv ==
    /\ IsAcl(acl, AllHandles)
    /\ opens \subseteq Handles
    /\ handle \in opens \cup {NoLink}
    /\ inputs \in [Handles -> Nat] /\ others \in [Handles -> Nat]

DebtInv == TypeInv /\ Covered(acl, inputs, others, opens)

\* Counting a packet sent on one of the known handles keeps the record's type
\* and adds one to that handle.
LEMMA OnSentFacts ==
    ASSUME NEW a, IsAcl(a, AllHandles), NEW k \in AllHandles
    PROVE  /\ IsAcl(OnSent(a, k), AllHandles)
           /\ OnSent(a, k).total = a.total + 1 /\ OnSent(a, k).max = a.max
           /\ DOMAIN OnSent(a, k).inFlight = DOMAIN a.inFlight \cup {k}
           /\ \A h \in DOMAIN OnSent(a, k).inFlight :
                 OnSent(a, k).inFlight[h] =
                     (IF h \in DOMAIN a.inFlight THEN a.inFlight[h] ELSE 0)
                       + (IF h = k THEN 1 ELSE 0)
<1> DEFINE f == [h \in DOMAIN a.inFlight \cup {k} |->
                   IF h = k
                     THEN IF h \in DOMAIN a.inFlight THEN a.inFlight[h] + 1 ELSE 1
                     ELSE a.inFlight[h]]
<1>1. PICK hs \in SUBSET AllHandles : a.inFlight \in [hs -> Nat]
  BY DEF IsAcl
<1>2. OnSent(a, k) = [max |-> a.max, inFlight |-> f, total |-> a.total + 1, idle |-> a.idle]
  <2>1. OnSent(a, k) = [a EXCEPT !.inFlight = f, !.total = @ + 1]
    BY DEF OnSent
  <2>2. a = [max |-> a.max, inFlight |-> a.inFlight, total |-> a.total, idle |-> a.idle]
    BY DEF IsAcl
  <2> HIDE DEF f
  <2> QED BY <2>1, <2>2
<1>3. f \in [hs \cup {k} -> Nat]
  <2>1. DOMAIN a.inFlight = hs /\ \A h \in hs : a.inFlight[h] \in Nat
    BY <1>1
  <2>2. \A h \in hs \cup {k} : (IF h = k
                                 THEN IF h \in DOMAIN a.inFlight THEN a.inFlight[h] + 1 ELSE 1
                                 ELSE a.inFlight[h]) \in Nat
    BY <2>1
  <2> QED BY <2>1, <2>2
<1>4. /\ OnSent(a, k).inFlight = f
      /\ OnSent(a, k).total = a.total + 1 /\ OnSent(a, k).max = a.max
  <2> HIDE DEF f
  <2> QED BY <1>2
<1>5. IsAcl(OnSent(a, k), AllHandles)
  <2>1. hs \cup {k} \in SUBSET AllHandles
    OBVIOUS
  <2> HIDE DEF f
  <2> QED BY <1>2, <1>3, <2>1 DEF IsAcl
<1> QED BY <1>1, <1>4, <1>5

\* Completions keep the record's type and its handles, and take off a link what
\* was completed there, down to zero.
LEMMA OnCompletedFacts ==
    ASSUME NEW a, IsAcl(a, AllHandles), NEW k, NEW n \in Nat
    PROVE  /\ IsAcl(OnCompleted(a, k, n), AllHandles)
           /\ OnCompleted(a, k, n).max = a.max
           /\ OnCompleted(a, k, n).total =
                 IF k \in DOMAIN a.inFlight
                   THEN a.total - (a.inFlight[k] - Remaining(a.inFlight[k], n)) ELSE a.total
           /\ DOMAIN OnCompleted(a, k, n).inFlight = DOMAIN a.inFlight
           /\ \A h \in DOMAIN a.inFlight :
                 OnCompleted(a, k, n).inFlight[h] =
                     IF h = k THEN Remaining(a.inFlight[h], n) ELSE a.inFlight[h]
<1>1. PICK hs \in SUBSET AllHandles : a.inFlight \in [hs -> Nat]
  BY DEF IsAcl
<1>2. CASE k \notin DOMAIN a.inFlight
  BY <1>2 DEF OnCompleted
<1>3. CASE k \in DOMAIN a.inFlight
  <2> DEFINE now == Remaining(a.inFlight[k], n)
             f == [a.inFlight EXCEPT ![k] = now]
  <2>1. now \in Nat /\ a.inFlight[k] \in Nat
    BY <1>1, <1>3 DEF Remaining
  <2>2. f \in [hs -> Nat]
    BY <1>1, <2>1
  <2>3. OnCompleted(a, k, n) = [max |-> a.max, inFlight |-> f,
                                total |-> a.total - (a.inFlight[k] - now), idle |-> 0]
    BY <1>3 DEF OnCompleted, IsAcl
  <2>4. \A h \in DOMAIN a.inFlight : f[h] = IF h = k THEN now ELSE a.inFlight[h]
    BY <1>1
  <2>5. DOMAIN f = DOMAIN a.inFlight
    OBVIOUS
  <2>6. 0 \in 0..WriteOff + 1
    BY WriteOffAssumption
  <2>7. IsAcl(OnCompleted(a, k, n), AllHandles)
    <3> HIDE DEF f, now
    <3> QED BY <2>1, <2>2, <2>3, <2>6 DEF IsAcl
  <2>8. /\ OnCompleted(a, k, n).inFlight = f /\ OnCompleted(a, k, n).max = a.max
        /\ OnCompleted(a, k, n).total = a.total - (a.inFlight[k] - now)
    <3> HIDE DEF f, now
    <3> QED BY <2>3
  <2> QED BY <1>3, <2>4, <2>5, <2>7, <2>8
<1> QED BY <1>2, <1>3

\* A lost link leaves nothing behind.
LEMMA OnDisconnectFacts ==
    ASSUME NEW a, IsAcl(a, AllHandles), NEW k
    PROVE  /\ IsAcl(OnDisconnect(a, k), AllHandles)
           /\ OnDisconnect(a, k).max = a.max
           /\ OnDisconnect(a, k).total =
                 IF k \in DOMAIN a.inFlight THEN a.total - a.inFlight[k] ELSE a.total
           /\ DOMAIN OnDisconnect(a, k).inFlight = DOMAIN a.inFlight \ {k}
           /\ \A h \in DOMAIN a.inFlight \ {k} :
                 OnDisconnect(a, k).inFlight[h] = a.inFlight[h]
<1>1. PICK hs \in SUBSET AllHandles : a.inFlight \in [hs -> Nat]
  BY DEF IsAcl
<1>2. CASE k \notin DOMAIN a.inFlight
  BY <1>2 DEF OnDisconnect
<1>3. CASE k \in DOMAIN a.inFlight
  <2> DEFINE f == [h \in DOMAIN a.inFlight \ {k} |-> a.inFlight[h]]
  <2>1. f \in [hs \ {k} -> Nat] /\ a.inFlight[k] \in Nat
    BY <1>1, <1>3
  <2>2. OnDisconnect(a, k) = [max |-> a.max, inFlight |-> f,
                              total |-> a.total - a.inFlight[k], idle |-> a.idle]
    BY <1>3 DEF OnDisconnect, IsAcl
  <2>3. /\ OnDisconnect(a, k).inFlight = f /\ OnDisconnect(a, k).max = a.max
        /\ OnDisconnect(a, k).total = a.total - a.inFlight[k]
    <3> HIDE DEF f
    <3> QED BY <2>2
  <2>4. IsAcl(OnDisconnect(a, k), AllHandles)
    <3> HIDE DEF f
    <3> QED BY <2>1, <2>2 DEF IsAcl
  <2> QED BY <1>3, <2>3, <2>4
<1> QED BY <1>2, <1>3

\* Asking for room either changes nothing or forgets every debt.
LEMMA AfterHasRoomFacts ==
    ASSUME NEW a, IsAcl(a, AllHandles)
    PROVE  /\ IsAcl(AfterHasRoom(a), AllHandles)
           /\ AfterHasRoom(a).max = a.max
           /\ \/ AfterHasRoom(a) = a
              \/ DOMAIN AfterHasRoom(a).inFlight = {} /\ AfterHasRoom(a).total = 0
<1>1. CASE ~WritesOff(a)
  BY <1>1 DEF AfterHasRoom
<1>2. CASE WritesOff(a)
  <2> DEFINE f == [h \in {} |-> 0]
  <2>1. f \in [{} -> Nat] /\ DOMAIN f = {}
    OBVIOUS
  <2>2. AfterHasRoom(a) = [max |-> a.max, inFlight |-> f, total |-> 0, idle |-> 0]
    BY <1>2 DEF AfterHasRoom, IsAcl
  <2>3. 0 \in 0..WriteOff + 1
    BY WriteOffAssumption
  <2>4. IsAcl(AfterHasRoom(a), AllHandles)
    <3>1. {} \in SUBSET AllHandles
      OBVIOUS
    <3>2. \E hs \in SUBSET AllHandles : f \in [hs -> Nat]
      BY <2>1, <3>1, Zenon
    <3> HIDE DEF f
    <3>3. a.max \in Nat
      BY DEF IsAcl
    <3> QED BY <2>2, <2>3, <3>2, <3>3 DEF IsAcl
  <2>5. AfterHasRoom(a).inFlight = f /\ AfterHasRoom(a).total = 0 /\ AfterHasRoom(a).max = a.max
    <3> HIDE DEF f
    <3> QED BY <2>2
  <2> QED BY <2>1, <2>4, <2>5
<1> QED BY <1>1, <1>2

\* Charging a packet to link k is covered if the controller holds one more there.
LEMMA OneMoreCovered ==
    ASSUME NEW a, IsAcl(a, AllHandles), NEW os \in SUBSET Handles, NEW k \in os \cup {NoLink},
           NEW i \in [Handles -> Nat], NEW o \in [Handles -> Nat],
           NEW j \in [Handles -> Nat], NEW p \in [Handles -> Nat],
           Covered(a, i, o, os),
           \A h \in os : i[h] + o[h] + (IF h = k THEN 1 ELSE 0) <= j[h] + p[h]
    PROVE  Covered(OnSent(a, k), j, p, os)
<1>1. k \in AllHandles
  BY DEF AllHandles
<1>2. PICK hs \in SUBSET AllHandles : a.inFlight \in [hs -> Nat]
  BY DEF IsAcl
<1>3. DOMAIN OnSent(a, k).inFlight = DOMAIN a.inFlight \cup {k}
  BY <1>1, OnSentFacts
<1>4. ASSUME NEW h \in DOMAIN OnSent(a, k).inFlight \ {NoLink}
      PROVE  h \in os /\ OnSent(a, k).inFlight[h] <= j[h] + p[h]
  <2>1. h \in os
    BY <1>3, <1>4 DEF Covered
  <2>2. OnSent(a, k).inFlight[h] =
            (IF h \in DOMAIN a.inFlight THEN a.inFlight[h] ELSE 0) + (IF h = k THEN 1 ELSE 0)
    BY <1>1, <1>4, OnSentFacts
  <2>3. i[h] \in Nat /\ o[h] \in Nat /\ j[h] \in Nat /\ p[h] \in Nat
    BY <2>1
  <2>4. h \in DOMAIN a.inFlight => a.inFlight[h] \in Nat /\ a.inFlight[h] <= i[h] + o[h]
    BY <1>2, <1>4 DEF Covered
  <2>5. i[h] + o[h] + (IF h = k THEN 1 ELSE 0) <= j[h] + p[h]
    BY <2>1
  <2> QED BY <2>1, <2>2, <2>3, <2>4, <2>5
<1> QED BY <1>4 DEF Covered

\* Holding n more packets on the current link, if there is one.
LEMMA HoldsFacts ==
    ASSUME TypeInv, NEW i \in [Handles -> Nat], NEW n \in Nat
    PROVE  /\ Holds(i, n) \in [Handles -> Nat]
           /\ \A h \in opens : Holds(i, n)[h] = i[h] + (IF h = handle THEN n ELSE 0)
  BY DEF TypeInv, Holds

\* Sending n packets charges them to the current link, where they are.
LEMMA SentCovered ==
    ASSUME TypeInv, NEW a, IsAcl(a, AllHandles), NEW n \in 0..2,
           NEW i \in [Handles -> Nat], NEW o \in [Handles -> Nat],
           NEW j \in [Handles -> Nat], NEW p \in [Handles -> Nat],
           Covered(a, i, o, opens),
           \A h \in opens : i[h] + o[h] + (IF h = handle THEN n ELSE 0) <= j[h] + p[h]
    PROVE  IsAcl(Sent(a, n), AllHandles) /\ Covered(Sent(a, n), j, p, opens)
<1>0. opens \in SUBSET Handles /\ handle \in opens \cup {NoLink} /\ handle \in AllHandles
  BY DEF TypeInv, AllHandles
<1>1. CASE n = 0
  <2>1. Sent(a, n) = a
    BY <1>1 DEF Sent
  <2>2. ASSUME NEW h \in DOMAIN a.inFlight \ {NoLink}
        PROVE  h \in opens /\ a.inFlight[h] <= j[h] + p[h]
    <3>1. h \in opens /\ a.inFlight[h] <= i[h] + o[h]
      BY DEF Covered
    <3>2. a.inFlight[h] \in Nat
      BY DEF IsAcl
    <3>3. i[h] + o[h] <= j[h] + p[h] /\ i[h] \in Nat /\ o[h] \in Nat
          /\ j[h] \in Nat /\ p[h] \in Nat
      BY <1>0, <1>1, <3>1
    <3> QED BY <3>1, <3>2, <3>3
  <2> QED BY <2>1, <2>2 DEF Covered
<1>2. CASE n = 1
  <2>1. Sent(a, n) = OnSent(a, handle)
    BY <1>2 DEF Sent
  <2>2. \A h \in opens : i[h] + o[h] + (IF h = handle THEN 1 ELSE 0) <= j[h] + p[h]
    BY <1>2
  <2>3. Covered(OnSent(a, handle), j, p, opens)
    BY <1>0, <2>2, OneMoreCovered
  <2>4. IsAcl(OnSent(a, handle), AllHandles)
    BY <1>0, OnSentFacts
  <2> QED BY <2>1, <2>3, <2>4
<1>3. CASE n = 2
  <2> DEFINE b == OnSent(a, handle)
             m == Holds(i, 1)
  <2>1. Sent(a, n) = OnSent(b, handle)
    BY <1>3 DEF Sent
  <2>2. m \in [Handles -> Nat] /\ \A h \in opens : m[h] = i[h] + (IF h = handle THEN 1 ELSE 0)
    BY HoldsFacts
  <2>3. \A h \in opens : i[h] + o[h] + (IF h = handle THEN 1 ELSE 0) <= m[h] + o[h]
    BY <1>0, <2>2
  <2>4. \A h \in opens : m[h] + o[h] + (IF h = handle THEN 1 ELSE 0) <= j[h] + p[h]
    BY <1>0, <1>3, <2>2
  <2>5. IsAcl(b, AllHandles)
    BY <1>0, OnSentFacts
  <2> HIDE DEF m
  <2>6. Covered(b, m, o, opens)
    BY <1>0, <2>2, <2>3, OneMoreCovered
  <2> HIDE DEF b
  <2>7. Covered(OnSent(b, handle), j, p, opens)
    BY <1>0, <2>2, <2>4, <2>5, <2>6, OneMoreCovered
  <2>8. IsAcl(OnSent(b, handle), AllHandles)
    BY <1>0, <2>5, OnSentFacts
  <2> QED BY <2>1, <2>7, <2>8
<1> QED BY <1>1, <1>2, <1>3

\* What is covered stays so when the flow control forgets every debt.
LEMMA WriteOffCovered ==
    ASSUME NEW a, IsAcl(a, AllHandles), NEW i, NEW o, Covered(a, i, o, opens)
    PROVE  IsAcl(AfterHasRoom(a), AllHandles) /\ Covered(AfterHasRoom(a), i, o, opens)
  BY AfterHasRoomFacts DEF Covered

\* A state reached by sending a report, or nothing, from a covered flow control.
LEMMA SendReportCovered ==
    ASSUME TypeInv, NEW a, IsAcl(a, AllHandles), NEW i \in [Handles -> Nat], NEW r,
           others' \in [Handles -> Nat], Covered(a, i, others', opens), SendReport(a, i, r)
    PROVE  /\ IsAcl(acl', AllHandles) /\ inputs' \in [Handles -> Nat]
           /\ Covered(acl', inputs', others', opens)
<1>1. CASE acl' = a /\ inputs' = i
  BY <1>1
<1>2. CASE acl' = Sent(a, 1) /\ inputs' = Holds(i, 1)
  <2>1. inputs' \in [Handles -> Nat]
        /\ \A h \in opens : inputs'[h] = i[h] + (IF h = handle THEN 1 ELSE 0)
    BY <1>2, HoldsFacts
  <2>2. \A h \in opens : i[h] + others'[h] + (IF h = handle THEN 1 ELSE 0)
                            <= inputs'[h] + others'[h]
    BY <2>1 DEF TypeInv
  <2> QED BY <1>2, <2>1, <2>2, SentCovered
<1> QED BY <1>1, <1>2 DEF SendReport

\* A step that sends nothing leaves the books as they were handed to it.
LEMMA NothingSentCovered ==
    ASSUME NEW a, IsAcl(a, AllHandles), NEW i \in [Handles -> Nat],
           Covered(a, i, others', opens), NothingSent(a, i)
    PROVE  /\ IsAcl(acl', AllHandles) /\ inputs' \in [Handles -> Nat]
           /\ Covered(acl', inputs', others', opens)
  BY DEF NothingSent

\* Flushing the held report.
LEMMA FlushCovered ==
    ASSUME TypeInv, NEW a, IsAcl(a, AllHandles), NEW i \in [Handles -> Nat],
           others' \in [Handles -> Nat], Covered(a, i, others', opens), FlushHeldReport(a, i)
    PROVE  /\ IsAcl(acl', AllHandles) /\ inputs' \in [Handles -> Nat]
           /\ Covered(acl', inputs', others', opens)
<1> DEFINE b == AfterHasRoom(a)
<1>1. IsAcl(b, AllHandles) /\ Covered(b, i, others', opens)
  BY WriteOffCovered
<1> HIDE DEF b
<1>2. \/ NothingSent(a, i)
      \/ NothingSent(b, i)
      \/ SendReport(b, i, held)
  BY DEF FlushHeldReport, b
<1> QED BY <1>1, <1>2, NothingSentCovered, SendReportCovered

\* Completing what the controller finished on one link keeps the books covered.
LEMMA CompletedCovered ==
    ASSUME NEW a, IsAcl(a, AllHandles), NEW h \in Handles, NEW os \in SUBSET Handles,
           NEW i \in [Handles -> Nat], NEW o \in [Handles -> Nat],
           NEW x \in 0..i[h], NEW y \in 0..o[h], Covered(a, i, o, os)
    PROVE  /\ IsAcl(OnCompleted(a, h, x + y), AllHandles)
           /\ [i EXCEPT ![h] = @ - x] \in [Handles -> Nat]
           /\ [o EXCEPT ![h] = @ - y] \in [Handles -> Nat]
           /\ Covered(OnCompleted(a, h, x + y),
                      [i EXCEPT ![h] = @ - x], [o EXCEPT ![h] = @ - y], os)
<1> DEFINE b == OnCompleted(a, h, x + y)
           j == [i EXCEPT ![h] = @ - x]
           p == [o EXCEPT ![h] = @ - y]
<1>1. i[h] \in Nat /\ o[h] \in Nat /\ x \in Nat /\ y \in Nat /\ x + y \in Nat
  OBVIOUS
<1>2. j \in [Handles -> Nat] /\ p \in [Handles -> Nat]
  BY <1>1
<1>3. /\ IsAcl(b, AllHandles)
      /\ DOMAIN b.inFlight = DOMAIN a.inFlight
      /\ \A g \in DOMAIN a.inFlight :
           b.inFlight[g] = IF g = h THEN Remaining(a.inFlight[g], x + y) ELSE a.inFlight[g]
  BY <1>1, OnCompletedFacts
<1>4. ASSUME NEW g \in DOMAIN b.inFlight \ {NoLink}
      PROVE  g \in os /\ b.inFlight[g] <= j[g] + p[g]
  <2>1. g \in os /\ g \in Handles /\ a.inFlight[g] <= i[g] + o[g] /\ i[g] \in Nat /\ o[g] \in Nat
    BY <1>3, <1>4 DEF Covered
  <2>2. a.inFlight[g] \in Nat
    BY <1>3, <1>4 DEF IsAcl
  <2>3. CASE g = h
    <3>1. b.inFlight[g] = Remaining(a.inFlight[g], x + y)
      BY <1>3, <1>4, <2>3
    <3>2. j[g] = i[g] - x /\ p[g] = o[g] - y
      BY <2>3
    <3> HIDE DEF b, j, p
    <3> QED BY <1>1, <2>1, <2>2, <2>3, <3>1, <3>2 DEF Remaining
  <2>4. CASE g # h
    <3>1. b.inFlight[g] = a.inFlight[g]
      BY <1>3, <1>4, <2>4
    <3>2. j[g] = i[g] /\ p[g] = o[g]
      BY <2>1, <2>4
    <3> HIDE DEF b, j, p
    <3> QED BY <2>1, <3>1, <3>2
  <2> QED BY <2>3, <2>4
<1> HIDE DEF b, j, p
<1>5. Covered(b, j, p, os)
  BY <1>4 DEF Covered
<1> QED BY <1>2, <1>3, <1>5 DEF b, j, p

\* An open channel, a held report, a form of report: none of them matters here.
LEMMA DebtDependsOn ==
    ASSUME DebtInv, UNCHANGED <<acl, opens, handle, inputs, others>>
    PROVE  DebtInv'
  BY DEF DebtInv, TypeInv, Covered, AllHandles, IsAcl

\* The same step with the books kept by the action itself.
LEMMA DebtFrom ==
    ASSUME DebtInv, UNCHANGED <<opens, handle>>,
           IsAcl(acl', AllHandles), inputs' \in [Handles -> Nat], others' \in [Handles -> Nat],
           Covered(acl', inputs', others', opens)
    PROVE  DebtInv'
  BY DEF DebtInv, TypeInv, Covered, AllHandles, IsAcl

\* A report from the pad: sent (after a write-off, perhaps) or held.
LEMMA PadStateDebt ==
    ASSUME DebtInv, NEW fits \in BOOLEAN, PadState(fits)
    PROVE  DebtInv'
<1> DEFINE b == AfterHasRoom(acl)
<1>1. TypeInv /\ IsAcl(acl, AllHandles) /\ inputs \in [Handles -> Nat]
      /\ others \in [Handles -> Nat] /\ Covered(acl, inputs, others, opens)
  BY DEF DebtInv, TypeInv
<1>2. IsAcl(b, AllHandles) /\ Covered(b, inputs, others, opens)
  BY <1>1, WriteOffCovered
<1> HIDE DEF b
<1>3. others' = others /\ opens' = opens /\ handle' = handle
  BY DEF PadState
<1>4. \/ NothingSent(acl, inputs)
      \/ SendReport(b, inputs, padSeq + 1)
  BY DEF PadState, b
<1>5. /\ IsAcl(acl', AllHandles) /\ inputs' \in [Handles -> Nat]
      /\ Covered(acl', inputs', others', opens)
  <2>1. Covered(acl, inputs, others', opens) /\ Covered(b, inputs, others', opens)
        /\ others' \in [Handles -> Nat]
    BY <1>1, <1>2, <1>3
  <2> QED BY <1>1, <1>2, <1>4, <2>1, NothingSentCovered, SendReportCovered
<1> QED BY <1>1, <1>3, <1>5, DebtFrom

\* A completion and the flush after it.
LEMMA NumCompletedDebt ==
    ASSUME DebtInv, NEW h \in opens, NEW i, NEW o, NumCompleted(h, i, o)
    PROVE  DebtInv'
<1> DEFINE b == OnCompleted(acl, h, i + o)
           j == [inputs EXCEPT ![h] = @ - i]
<1>1. /\ TypeInv /\ IsAcl(acl, AllHandles) /\ inputs \in [Handles -> Nat]
      /\ others \in [Handles -> Nat] /\ Covered(acl, inputs, others, opens)
      /\ h \in Handles /\ opens \in SUBSET Handles
  BY DEF DebtInv, TypeInv
<1>2. i \in 0..inputs[h] /\ o \in 0..others[h]
  BY DEF NumCompleted, Finished
<1>3. others' = [others EXCEPT ![h] = @ - o] /\ opens' = opens /\ handle' = handle
      /\ FlushHeldReport(b, j)
  BY DEF NumCompleted
<1>4. IsAcl(b, AllHandles) /\ j \in [Handles -> Nat] /\ others' \in [Handles -> Nat]
      /\ Covered(b, j, others', opens)
  BY <1>1, <1>2, <1>3, CompletedCovered
<1> HIDE DEF b, j
<1>5. /\ IsAcl(acl', AllHandles) /\ inputs' \in [Handles -> Nat]
      /\ Covered(acl', inputs', others', opens)
  BY <1>1, <1>3, <1>4, FlushCovered
<1> QED BY <1>3, <1>4, <1>5, DebtFrom

\* Two completions in one event, flushed once.
LEMMA NumCompletedTwoDebt ==
    ASSUME DebtInv, NEW h \in opens, NEW i, NEW o, NEW g \in opens, NEW j, NEW p,
           NumCompletedTwo(h, i, o, g, j, p)
    PROVE  DebtInv'
<1> DEFINE b == OnCompleted(acl, h, i + o)
           in1 == [inputs EXCEPT ![h] = @ - i]
           ot1 == [others EXCEPT ![h] = @ - o]
           c == OnCompleted(b, g, j + p)
           in2 == [in1 EXCEPT ![g] = @ - j]
           ot2 == [ot1 EXCEPT ![g] = @ - p]
<1>1. /\ TypeInv /\ IsAcl(acl, AllHandles) /\ inputs \in [Handles -> Nat]
      /\ others \in [Handles -> Nat] /\ Covered(acl, inputs, others, opens)
      /\ h \in Handles /\ g \in Handles /\ opens \in SUBSET Handles
  BY DEF DebtInv, TypeInv
<1>2. i \in 0..inputs[h] /\ o \in 0..others[h] /\ j \in 0..inputs[g] /\ p \in 0..others[g]
      /\ h # g
  BY DEF NumCompletedTwo, Finished
<1>3. others' = ot2 /\ opens' = opens /\ handle' = handle /\ FlushHeldReport(c, in2)
  BY DEF NumCompletedTwo
<1>4. IsAcl(b, AllHandles) /\ in1 \in [Handles -> Nat] /\ ot1 \in [Handles -> Nat]
      /\ Covered(b, in1, ot1, opens)
  BY <1>1, <1>2, CompletedCovered
<1>5. j \in 0..in1[g] /\ p \in 0..ot1[g]
  BY <1>1, <1>2
<1> HIDE DEF b, in1, ot1
<1>6. IsAcl(c, AllHandles) /\ in2 \in [Handles -> Nat] /\ ot2 \in [Handles -> Nat]
      /\ Covered(c, in2, ot2, opens)
  BY <1>1, <1>4, <1>5, CompletedCovered
<1> HIDE DEF c, in2, ot2
<1>7. others' \in [Handles -> Nat] /\ Covered(c, in2, others', opens)
  BY <1>3, <1>6
<1>8. /\ IsAcl(acl', AllHandles) /\ inputs' \in [Handles -> Nat]
      /\ Covered(acl', inputs', others', opens)
  BY <1>1, <1>3, <1>6, <1>7, FlushCovered
<1> QED BY <1>3, <1>7, <1>8, DebtFrom

\* Packets that are not input, sent without asking for room.
LEMMA SendOtherDebt ==
    ASSUME DebtInv, NEW n \in 0..2, SendOther(n), UNCHANGED <<opens, handle, inputs>>
    PROVE  DebtInv'
<1>1. /\ TypeInv /\ IsAcl(acl, AllHandles) /\ inputs \in [Handles -> Nat]
      /\ others \in [Handles -> Nat] /\ Covered(acl, inputs, others, opens)
      /\ opens \in SUBSET Handles
  BY DEF DebtInv, TypeInv
<1>2. acl' = Sent(acl, n) /\ others' = Holds(others, n)
  BY DEF SendOther
<1>3. others' \in [Handles -> Nat]
      /\ \A h \in opens : others'[h] = others[h] + (IF h = handle THEN n ELSE 0)
  BY <1>1, <1>2, HoldsFacts
<1>4. \A h \in opens : inputs[h] + others[h] + (IF h = handle THEN n ELSE 0)
                          <= inputs[h] + others'[h]
  BY <1>1, <1>3
<1>5. IsAcl(acl', AllHandles) /\ Covered(acl', inputs, others', opens)
  BY <1>1, <1>2, <1>3, <1>4, SentCovered
<1> QED BY <1>1, <1>3, <1>5, DebtFrom

\* A new link starts without debt, because its handle was not open.
LEMMA LinkUpDebt ==
    ASSUME DebtInv, NEW h \in Handles, LinkUp(h)
    PROVE  DebtInv'
<1>1. acl' = acl /\ opens' = opens \cup {h} /\ handle' = h /\ inputs' = inputs /\ others' = others
  BY DEF LinkUp, ctrlVars
<1> QED BY <1>1 DEF DebtInv, TypeInv, Covered, AllHandles, IsAcl

\* A lost link takes its debt with it.
LEMMA LinkDownDebt ==
    ASSUME DebtInv, NEW h \in Handles, LinkDown(h)
    PROVE  DebtInv'
<1> DEFINE b == OnDisconnect(acl, h)
<1>1. TypeInv /\ IsAcl(acl, AllHandles) /\ Covered(acl, inputs, others, opens)
  BY DEF DebtInv, TypeInv
<1>2. /\ acl' = b /\ opens' = opens \ {h}
      /\ inputs' = [inputs EXCEPT ![h] = 0] /\ others' = [others EXCEPT ![h] = 0]
      /\ handle' = IF h = handle THEN NoLink ELSE handle
  BY DEF LinkDown
<1>3. /\ IsAcl(b, AllHandles) /\ DOMAIN b.inFlight = DOMAIN acl.inFlight \ {h}
      /\ \A g \in DOMAIN acl.inFlight \ {h} : b.inFlight[g] = acl.inFlight[g]
  BY <1>1, OnDisconnectFacts
<1> HIDE DEF b
<1>4. opens' \subseteq Handles /\ handle' \in opens' \cup {NoLink}
      /\ inputs' \in [Handles -> Nat] /\ others' \in [Handles -> Nat]
  BY <1>1, <1>2 DEF TypeInv
<1>5. ASSUME NEW g \in DOMAIN b.inFlight \ {NoLink}
      PROVE  g \in opens' /\ b.inFlight[g] <= inputs'[g] + others'[g]
  BY <1>1, <1>2, <1>3, <1>5 DEF Covered, TypeInv
<1>6. IsAcl(acl', AllHandles) /\ Covered(acl', inputs', others', opens')
  BY <1>2, <1>3, <1>5 DEF Covered
<1>7. TypeInv'
  BY <1>4, <1>6 DEF TypeInv, IsAcl, AllHandles
<1> QED BY <1>6, <1>7 DEF DebtInv, Covered

\* DebtInv is inductive.
LEMMA DebtStep ==
    ASSUME DebtInv, [Next]_vars
    PROVE  DebtInv'
<1>1. CASE \E fits \in BOOLEAN : PadState(fits)
  BY <1>1, PadStateDebt
<1>2. ASSUME NEW h \in opens, NEW i, NEW o, NumCompleted(h, i, o)
      PROVE  DebtInv'
  BY <1>2, NumCompletedDebt
<1>3. ASSUME NEW h \in opens, NEW i, NEW o, NEW g \in opens, NEW j, NEW p,
             NumCompletedTwo(h, i, o, g, j, p)
      PROVE  DebtInv'
  BY <1>3, NumCompletedTwoDebt
<1>4. CASE BufferSizeAnswered
  <2>1. acl' = [acl EXCEPT !.max = Pool] /\ UNCHANGED <<opens, handle, inputs, others>>
    BY <1>4 DEF BufferSizeAnswered, ctrlVars
  <2>2. IsAcl(acl', AllHandles) /\ acl'.inFlight = acl.inFlight
    BY <2>1, PoolAssumption DEF DebtInv, TypeInv, IsAcl
  <2> QED BY <2>1, <2>2, DebtFrom DEF DebtInv, TypeInv, Covered
<1>5. CASE OtherTraffic
  BY <1>5, SendOtherDebt DEF OtherTraffic
<1>6. ASSUME NEW n \in 0..2, OpenInterrupt(n)
      PROVE  DebtInv'
  BY <1>6, SendOtherDebt DEF OpenInterrupt
<1>7. ASSUME NEW h \in Handles, FeatureRequest(h)
      PROVE  DebtInv'
  BY <1>7, DebtDependsOn DEF FeatureRequest, ctrlVars
<1>8. CASE \E h \in Handles : LinkUp(h) \/ LinkDown(h)
  BY <1>8, LinkUpDebt, LinkDownDebt
<1>9. CASE Tick
  <2>1. acl' = Later(acl) /\ UNCHANGED <<opens, handle, inputs, others>>
    BY <1>9 DEF Tick, ctrlVars
  <2>2. IsAcl(acl, AllHandles)
    BY DEF DebtInv, TypeInv
  <2>3. Later(acl) = [max |-> acl.max, inFlight |-> acl.inFlight, total |-> acl.total,
                      idle |-> IF acl.idle <= WriteOff THEN acl.idle + 1 ELSE acl.idle]
    BY <2>2 DEF Later, IsAcl
  <2>4. IsAcl(acl', AllHandles) /\ acl'.inFlight = acl.inFlight
    BY <2>1, <2>2, <2>3, WriteOffAssumption DEF IsAcl
  <2> QED BY <2>1, <2>4, DebtFrom DEF DebtInv, TypeInv, Covered
<1>10. CASE UNCHANGED vars
  BY <1>10, DebtDependsOn DEF vars, progVars, ctrlVars
<1> QED
  BY <1>1, <1>2, <1>3, <1>4, <1>5, <1>6, <1>7, <1>8, <1>9, <1>10 DEF Next

\* From the start and through every step.
LEMMA DebtAlways == Spec => []DebtInv
<1>1. Init => DebtInv
  <2> SUFFICES ASSUME Init PROVE DebtInv
    OBVIOUS
  <2> DEFINE f == [h \in {} |-> 0]
  <2>1. acl = [max |-> 0, inFlight |-> f, total |-> 0, idle |-> 0]
    BY DEF Init, NewAcl
  <2>2. f \in [{} -> Nat] /\ DOMAIN f = {} /\ {} \in SUBSET AllHandles
    OBVIOUS
  <2>3. \E hs \in SUBSET AllHandles : f \in [hs -> Nat]
    BY <2>2, Zenon
  <2> HIDE DEF f
  <2>4. IsAcl(acl, AllHandles) /\ DOMAIN acl.inFlight = {}
    <3>1. acl.max = 0 /\ acl.inFlight = f /\ acl.total = 0 /\ acl.idle = 0
      BY <2>1
    <3>2. 0 \in 0..WriteOff + 1
      BY WriteOffAssumption
    <3>3. acl = [max |-> acl.max, inFlight |-> acl.inFlight, total |-> acl.total, idle |-> acl.idle]
      BY <2>1, <3>1
    <3>4. \E hs \in SUBSET AllHandles : acl.inFlight \in [hs -> Nat]
      BY <2>3, <3>1
    <3>5. IsAcl(acl, AllHandles)
      BY <3>1, <3>2, <3>3, <3>4 DEF IsAcl
    <3> QED BY <2>2, <3>1, <3>5
  <2> QED BY <2>4 DEF Init, DebtInv, TypeInv, Covered
<1>2. DebtInv /\ [Next]_vars => DebtInv'
  BY DebtStep
<1> QED BY <1>1, <1>2, PTL DEF Spec

\* No link is charged for packets the controller does not hold, and no lost
\* link is charged at all.
THEOREM LinksOweWhatTheyHold == Spec => []NoPhantomDebt
<1>1. DebtInv => NoPhantomDebt
  BY DEF DebtInv, Covered, NoPhantomDebt
<1> QED BY <1>1, DebtAlways, PTL

-----------------------------------------------------------------------------
(* The running total.  A count per link is the set of the packets it       *)
(* counts, so a sum over the links is a cardinality, and what an operation *)
(* of the flow control does to total_ is what adding one packet to a       *)
(* finite set, or taking some away, does to its size.                      *)

\* The packets flow control a has on its books.
Charged(a) == Packets(a.inFlight, DOMAIN a.inFlight)

\* total_ counts them.
Balanced(a) == IsFiniteSet(Charged(a)) /\ a.total = Cardinality(Charged(a))

\* What link h is charged for.
Debt(a, h) == IF h \in DOMAIN a.inFlight THEN a.inFlight[h] ELSE 0

\* The members of a set of packets.
LEMMA PacketsMembers ==
    ASSUME NEW f, NEW hs
    PROVE  /\ \A h, k : <<h, k>> \in Packets(f, hs) <=> h \in hs /\ k \in 1..f[h]
           /\ \A x \in Packets(f, hs) : \E h \in hs : \E k \in 1..f[h] : x = <<h, k>>
<1>1. \A x : x \in Packets(f, hs) <=> \E h \in hs : x \in {h} \X (1..f[h])
  BY DEF Packets
<1>2. \A h, k, g : <<h, k>> \in {g} \X (1..f[g]) <=> h = g /\ k \in 1..f[g]
  OBVIOUS
<1>3. \A x, g : x \in {g} \X (1..f[g]) => \E k \in 1..f[g] : x = <<g, k>>
  OBVIOUS
<1>4. \A h, k : <<h, k>> \in Packets(f, hs) <=> h \in hs /\ k \in 1..f[h]
  BY <1>1, <1>2
<1>5. \A x \in Packets(f, hs) : \E h \in hs : \E k \in 1..f[h] : x = <<h, k>>
  BY <1>1, <1>3
<1> QED BY <1>4, <1>5

\* Two sets of packets with the same packets are the same.
LEMMA PacketsSame ==
    ASSUME NEW f, NEW hs, NEW S, \A x \in S : \E h, k : x = <<h, k>>,
           \A h, k : <<h, k>> \in S <=> h \in hs /\ k \in 1..f[h]
    PROVE  S = Packets(f, hs)
<1>1. /\ \A h, k : <<h, k>> \in Packets(f, hs) <=> h \in hs /\ k \in 1..f[h]
      /\ \A x \in Packets(f, hs) : \E h, k : x = <<h, k>>
  BY PacketsMembers
<1>2. \A x \in S : x \in Packets(f, hs)
  BY <1>1
<1>3. \A x \in Packets(f, hs) : x \in S
  BY <1>1
<1> QED BY <1>2, <1>3

\* The packets of one link, from the m-th to the n-th: how many they are.
LEMMA PacketsOfOne ==
    ASSUME NEW h, NEW m \in Nat, NEW n \in Nat, m <= n
    PROVE  IsFiniteSet({h} \X (m + 1..n)) /\ Cardinality({h} \X (m + 1..n)) = n - m
<1>1. IsFiniteSet({h}) /\ Cardinality({h}) = 1
  BY FS_Singleton
<1>2. IsFiniteSet(m + 1..n) /\ Cardinality(m + 1..n) = n - m
  <2>1. m + 1 \in Int /\ n \in Int
    OBVIOUS
  <2>2. /\ IsFiniteSet(m + 1..n)
        /\ Cardinality(m + 1..n) = IF m + 1 > n THEN 0 ELSE n - (m + 1) + 1
    BY <2>1, FS_Interval
  <2> QED BY <2>2
<1>3. /\ IsFiniteSet({h} \X (m + 1..n))
      /\ Cardinality({h} \X (m + 1..n)) = Cardinality({h}) * Cardinality(m + 1..n)
  BY <1>1, <1>2, FS_Product
<1>4. 1 * (n - m) = n - m
  OBVIOUS
<1> QED BY <1>1, <1>2, <1>3, <1>4

\* Packets come off the books.
LEMMA TakenOff ==
    ASSUME NEW S, IsFiniteSet(S), NEW T, T \subseteq S
    PROVE  IsFiniteSet(S \ T) /\ Cardinality(S \ T) = Cardinality(S) - Cardinality(T)
<1>1. S \cap T = T
  OBVIOUS
<1>2. IsFiniteSet(S \ T) /\ Cardinality(S \ T) = Cardinality(S) - Cardinality(S \cap T)
  BY FS_Difference
<1> QED BY <1>1, <1>2

\* on_sent() adds one packet, which was not there.
LEMMA OnSentBalanced ==
    ASSUME NEW a, IsAcl(a, AllHandles), NEW k \in AllHandles, Balanced(a)
    PROVE  /\ Balanced(OnSent(a, k))
           /\ OnSent(a, k).total = a.total + 1 /\ OnSent(a, k).max = a.max
           /\ \A h : Debt(OnSent(a, k), h) = Debt(a, h) + (IF h = k THEN 1 ELSE 0)
<1> DEFINE b == OnSent(a, k)
           n == Debt(a, k) + 1
<1>1. PICK hs \in SUBSET AllHandles : a.inFlight \in [hs -> Nat]
  BY DEF IsAcl
<1>2. /\ DOMAIN b.inFlight = DOMAIN a.inFlight \cup {k}
      /\ \A h \in DOMAIN b.inFlight : b.inFlight[h] = Debt(a, h) + (IF h = k THEN 1 ELSE 0)
  BY OnSentFacts DEF Debt
<1>3. \A h : Debt(a, h) \in Nat
  BY <1>1 DEF Debt
<1>4. b.total = a.total + 1 /\ b.max = a.max
  BY OnSentFacts
<1>5. \A h : Debt(b, h) = Debt(a, h) + (IF h = k THEN 1 ELSE 0)
  <2> SUFFICES ASSUME NEW h PROVE Debt(b, h) = Debt(a, h) + (IF h = k THEN 1 ELSE 0)
    OBVIOUS
  <2> HIDE DEF b
  <2>1. CASE h \in DOMAIN b.inFlight
    BY <1>2, <2>1 DEF Debt
  <2>2. CASE h \notin DOMAIN b.inFlight
    <3>1. h \notin DOMAIN a.inFlight /\ h # k
      BY <1>2, <2>2
    <3> QED BY <2>2, <3>1 DEF Debt
  <2> QED BY <2>1, <2>2
<1> HIDE DEF b
<1>6. \A h, j : <<h, j>> \in Charged(a) <=> h \in DOMAIN a.inFlight /\ j \in 1..a.inFlight[h]
  BY PacketsMembers DEF Charged
<1>7. \A x \in Charged(a) : \E h, j : x = <<h, j>>
  BY PacketsMembers DEF Charged
<1>8. <<k, n>> \notin Charged(a)
  BY <1>1, <1>3, <1>6 DEF Debt
<1>9. Charged(a) \cup {<<k, n>>} = Charged(b)
  <2> DEFINE S == Charged(a) \cup {<<k, n>>}
  <2>1. \A x \in S : \E h, j : x = <<h, j>>
    BY <1>7
  <2>2. ASSUME NEW h, NEW j
        PROVE  <<h, j>> \in S <=> h \in DOMAIN b.inFlight /\ j \in 1..b.inFlight[h]
    <3>1. <<h, j>> \in S <=> <<h, j>> \in Charged(a) \/ (h = k /\ j = n)
      OBVIOUS
    <3>2. <<h, j>> \in Charged(a) <=> h \in DOMAIN a.inFlight /\ j \in 1..Debt(a, h)
      BY <1>6 DEF Debt
    <3>3. h \notin DOMAIN a.inFlight => Debt(a, h) = 0
      BY DEF Debt
    <3>4. CASE h = k
      <4>1. h \in DOMAIN b.inFlight /\ b.inFlight[h] = n /\ Debt(a, h) \in Nat
        BY <1>2, <1>3, <3>4
      <4>2. j \in 1..n <=> j \in 1..Debt(a, h) \/ j = n
        BY <3>4, <4>1
      <4> HIDE DEF S, n
      <4> QED BY <3>1, <3>2, <3>3, <3>4, <4>1, <4>2
    <3>5. CASE h # k
      <4>1. h \in DOMAIN b.inFlight <=> h \in DOMAIN a.inFlight
        BY <1>2, <3>5
      <4>2. h \in DOMAIN b.inFlight => b.inFlight[h] = Debt(a, h)
        BY <1>2, <1>3, <3>5
      <4> HIDE DEF S
      <4> QED BY <3>1, <3>2, <3>5, <4>1, <4>2
    <3> QED BY <3>4, <3>5
  <2> HIDE DEF S
  <2>3. S = Packets(b.inFlight, DOMAIN b.inFlight)
    BY <2>1, <2>2, PacketsSame
  <2> QED BY <2>3 DEF S, Charged
<1>10. /\ IsFiniteSet(Charged(a) \cup {<<k, n>>})
       /\ Cardinality(Charged(a) \cup {<<k, n>>}) = Cardinality(Charged(a)) + 1
  BY <1>8, FS_AddElement DEF Balanced
<1>11. Balanced(b)
  BY <1>4, <1>9, <1>10 DEF Balanced
<1> QED BY <1>4, <1>5, <1>11 DEF b

\* on_completed() takes the last packets of one link off the books.
LEMMA OnCompletedBalanced ==
    ASSUME NEW a, IsAcl(a, AllHandles), NEW k, NEW n \in Nat, Balanced(a)
    PROVE  /\ Balanced(OnCompleted(a, k, n))
           /\ \A h : Debt(OnCompleted(a, k, n), h) =
                        IF h = k THEN Remaining(Debt(a, h), n) ELSE Debt(a, h)
<1> DEFINE b == OnCompleted(a, k, n)
<1>1. PICK hs \in SUBSET AllHandles : a.inFlight \in [hs -> Nat]
  BY DEF IsAcl
<1>2. /\ DOMAIN b.inFlight = DOMAIN a.inFlight
      /\ \A h \in DOMAIN a.inFlight :
           b.inFlight[h] = IF h = k THEN Remaining(a.inFlight[h], n) ELSE a.inFlight[h]
      /\ b.total = IF k \in DOMAIN a.inFlight
                     THEN a.total - (a.inFlight[k] - Remaining(a.inFlight[k], n)) ELSE a.total
  BY OnCompletedFacts
<1>3. \A h : Debt(b, h) = IF h = k THEN Remaining(Debt(a, h), n) ELSE Debt(a, h)
  <2> SUFFICES ASSUME NEW h
               PROVE  Debt(b, h) = IF h = k THEN Remaining(Debt(a, h), n) ELSE Debt(a, h)
    OBVIOUS
  <2> HIDE DEF b
  <2>1. CASE h \in DOMAIN a.inFlight
    BY <1>2, <2>1 DEF Debt
  <2>2. CASE h \notin DOMAIN a.inFlight
    <3>1. Debt(a, h) = 0 /\ Debt(b, h) = 0 /\ Remaining(0, n) = 0
      BY <1>2, <2>2 DEF Debt, Remaining
    <3> QED BY <3>1
  <2> QED BY <2>1, <2>2
<1>4. CASE k \notin DOMAIN a.inFlight
  <2>1. b = a
    BY <1>4 DEF OnCompleted
  <2> QED BY <1>3, <2>1
<1>5. CASE k \in DOMAIN a.inFlight
  <2> DEFINE was == a.inFlight[k]
             now == Remaining(was, n)
             T == {k} \X (now + 1..was)
  <2>1. was \in Nat /\ now \in Nat /\ now <= was
    BY <1>1, <1>5 DEF Remaining
  <2>2. b.total = a.total - (was - now) /\ b.inFlight[k] = now
    BY <1>2, <1>5
  <2> HIDE DEF b, was, now
  <2>3. \A h, j : <<h, j>> \in Charged(a) <=> h \in DOMAIN a.inFlight /\ j \in 1..a.inFlight[h]
    BY PacketsMembers DEF Charged
  <2>4. \A x \in Charged(a) : \E h, j : x = <<h, j>>
    BY PacketsMembers DEF Charged
  <2>5. \A h, j : <<h, j>> \in T <=> h = k /\ j \in now + 1..was
    OBVIOUS
  <2>6. \A x \in T : \E h, j : x = <<h, j>>
    OBVIOUS
  <2>7. T \subseteq Charged(a)
    <3>1. \A j \in now + 1..was : j \in 1..was
      BY <2>1
    <3>2. \A h, j : <<h, j>> \in T => <<h, j>> \in Charged(a)
      BY <1>5, <2>3, <2>5, <3>1 DEF was
    <3> HIDE DEF T
    <3> QED BY <2>6, <3>2
  <2> HIDE DEF T
  <2>8. Charged(a) \ T = Charged(b)
    <3> DEFINE S == Charged(a) \ T
    <3>1. \A x \in S : \E h, j : x = <<h, j>>
      BY <2>4
    <3>2. ASSUME NEW h, NEW j
          PROVE  <<h, j>> \in S <=> h \in DOMAIN b.inFlight /\ j \in 1..b.inFlight[h]
      <4>1. CASE h = k
        <5>1. j \in 1..now <=> j \in 1..was /\ j \notin now + 1..was
          BY <2>1
        <5>2. h \in DOMAIN b.inFlight /\ h \in DOMAIN a.inFlight
              /\ b.inFlight[h] = now /\ a.inFlight[h] = was
          BY <1>2, <1>5, <2>2, <4>1 DEF was
        <5> QED BY <2>3, <2>5, <4>1, <5>1, <5>2
      <4>2. CASE h # k
        <5>1. h \in DOMAIN a.inFlight => b.inFlight[h] = a.inFlight[h]
          BY <1>2, <4>2
        <5> QED BY <1>2, <2>3, <2>5, <4>2, <5>1
      <4> QED BY <4>1, <4>2
    <3> HIDE DEF S
    <3>3. S = Packets(b.inFlight, DOMAIN b.inFlight)
      BY <3>1, <3>2, PacketsSame
    <3> QED BY <3>3 DEF S, Charged
  <2>9. IsFiniteSet(Charged(a) \ T) /\ Cardinality(Charged(a) \ T) = Cardinality(Charged(a)) - (was - now)
    <3>1. Cardinality(T) = was - now
      BY <2>1, PacketsOfOne DEF T
    <3>2. /\ IsFiniteSet(Charged(a) \ T)
          /\ Cardinality(Charged(a) \ T) = Cardinality(Charged(a)) - Cardinality(T)
      BY <2>7, TakenOff DEF Balanced
    <3> QED BY <3>1, <3>2
  <2>10. Balanced(b)
    BY <2>2, <2>8, <2>9 DEF Balanced
  <2> QED BY <1>3, <2>10 DEF b
<1> QED BY <1>4, <1>5

\* on_disconnect() takes all packets of one link off the books.
LEMMA OnDisconnectBalanced ==
    ASSUME NEW a, IsAcl(a, AllHandles), NEW k, Balanced(a)
    PROVE  /\ Balanced(OnDisconnect(a, k))
           /\ \A h : h # k => Debt(OnDisconnect(a, k), h) = Debt(a, h)
<1> DEFINE b == OnDisconnect(a, k)
<1>1. PICK hs \in SUBSET AllHandles : a.inFlight \in [hs -> Nat]
  BY DEF IsAcl
<1>2. /\ DOMAIN b.inFlight = DOMAIN a.inFlight \ {k}
      /\ \A h \in DOMAIN a.inFlight \ {k} : b.inFlight[h] = a.inFlight[h]
      /\ b.total = IF k \in DOMAIN a.inFlight THEN a.total - a.inFlight[k] ELSE a.total
  BY OnDisconnectFacts
<1>3. \A h : h # k => Debt(b, h) = Debt(a, h)
  <2> HIDE DEF b
  <2> QED BY <1>2 DEF Debt
<1>4. CASE k \notin DOMAIN a.inFlight
  <2>1. b = a
    BY <1>4 DEF OnDisconnect
  <2> QED BY <2>1
<1>5. CASE k \in DOMAIN a.inFlight
  <2> DEFINE was == a.inFlight[k]
             T == {k} \X (0 + 1..was)
  <2>1. was \in Nat /\ 0 <= was /\ 0 \in Nat
    BY <1>1, <1>5
  <2>2. b.total = a.total - (was - 0)
    <3>1. IsAcl(a, AllHandles) => a.total \in Int
      BY DEF IsAcl
    <3>2. b.total = a.total - was
      BY <1>2, <1>5
    <3> HIDE DEF b, was
    <3> QED BY <2>1, <3>1, <3>2
  <2> HIDE DEF b, was
  <2>3. \A h, j : <<h, j>> \in Charged(a) <=> h \in DOMAIN a.inFlight /\ j \in 1..a.inFlight[h]
    BY PacketsMembers DEF Charged
  <2>4. \A x \in Charged(a) : \E h, j : x = <<h, j>>
    BY PacketsMembers DEF Charged
  <2>5. \A h, j : <<h, j>> \in T <=> h = k /\ j \in 1..was
    OBVIOUS
  <2>6. \A x \in T : \E h, j : x = <<h, j>>
    OBVIOUS
  <2> HIDE DEF T
  <2>7. T \subseteq Charged(a)
    <3>1. \A h, j : <<h, j>> \in T => <<h, j>> \in Charged(a)
      BY <1>5, <2>3, <2>5 DEF was
    <3> QED BY <2>6, <3>1
  <2>8. Charged(a) \ T = Charged(b)
    <3> DEFINE S == Charged(a) \ T
    <3>1. \A x \in S : \E h, j : x = <<h, j>>
      BY <2>4
    <3>2. ASSUME NEW h, NEW j
          PROVE  <<h, j>> \in S <=> h \in DOMAIN b.inFlight /\ j \in 1..b.inFlight[h]
      <4>1. CASE h = k
        BY <1>2, <2>3, <2>5, <4>1 DEF was
      <4>2. CASE h # k
        <5>1. h \in DOMAIN a.inFlight => b.inFlight[h] = a.inFlight[h]
          BY <1>2, <4>2
        <5> QED BY <1>2, <2>3, <2>5, <4>2, <5>1
      <4> QED BY <4>1, <4>2
    <3> HIDE DEF S
    <3>3. S = Packets(b.inFlight, DOMAIN b.inFlight)
      BY <3>1, <3>2, PacketsSame
    <3> QED BY <3>3 DEF S, Charged
  <2>9. IsFiniteSet(Charged(a) \ T) /\ Cardinality(Charged(a) \ T) = Cardinality(Charged(a)) - (was - 0)
    <3>1. Cardinality(T) = was - 0
      BY <2>1, PacketsOfOne DEF T
    <3>2. /\ IsFiniteSet(Charged(a) \ T)
          /\ Cardinality(Charged(a) \ T) = Cardinality(Charged(a)) - Cardinality(T)
      BY <2>7, TakenOff DEF Balanced
    <3> QED BY <3>1, <3>2
  <2>10. Balanced(b)
    BY <2>2, <2>8, <2>9 DEF Balanced
  <2> QED BY <1>3, <2>10 DEF b
<1> QED BY <1>4, <1>5

\* Books with no link on them.
LEMMA EmptyBalanced ==
    ASSUME NEW a, DOMAIN a.inFlight = {}, a.total = 0
    PROVE  Balanced(a)
<1>1. Charged(a) = {}
  BY PacketsMembers DEF Charged
<1> QED BY <1>1, FS_EmptySet DEF Balanced

\* Writing the debts off clears the books and the total.
LEMMA AfterHasRoomBalanced ==
    ASSUME NEW a, IsAcl(a, AllHandles), Balanced(a)
    PROVE  Balanced(AfterHasRoom(a))
<1> DEFINE b == AfterHasRoom(a)
<1>1. b = a \/ (DOMAIN b.inFlight = {} /\ b.total = 0)
  BY AfterHasRoomFacts
<1> HIDE DEF b
<1>2. Balanced(b)
  BY <1>1, EmptyBalanced
<1> QED BY <1>2 DEF b

\* l2cap_send_frame(): n packets more.
LEMMA SentBalanced ==
    ASSUME TypeInv, NEW a, IsAcl(a, AllHandles), NEW n \in 0..2, Balanced(a)
    PROVE  /\ Balanced(Sent(a, n)) /\ Sent(a, n).total = a.total + n /\ Sent(a, n).max = a.max
           /\ \A h : Debt(Sent(a, n), h) = Debt(a, h) + (IF h = handle THEN n ELSE 0)
<1> DEFINE b == OnSent(a, handle)
<1>1. handle \in AllHandles /\ a.total \in Int /\ \A h : Debt(a, h) \in Nat
  BY DEF TypeInv, AllHandles, IsAcl, Debt
<1>2. CASE n = 0
  BY <1>1, <1>2 DEF Sent
<1>3. /\ Balanced(b) /\ b.total = a.total + 1 /\ b.max = a.max /\ IsAcl(b, AllHandles)
      /\ \A h : Debt(b, h) = Debt(a, h) + (IF h = handle THEN 1 ELSE 0)
  BY <1>1, OnSentBalanced, OnSentFacts
<1>4. CASE n = 1
  BY <1>3, <1>4 DEF Sent
<1>5. CASE n = 2
  <2>1. Sent(a, n) = OnSent(b, handle)
    BY <1>5 DEF Sent
  <2> HIDE DEF b
  <2>2. /\ Balanced(OnSent(b, handle)) /\ OnSent(b, handle).total = b.total + 1
        /\ OnSent(b, handle).max = b.max
        /\ \A h : Debt(OnSent(b, handle), h) = Debt(b, h) + (IF h = handle THEN 1 ELSE 0)
    BY <1>1, <1>3, OnSentBalanced
  <2> HIDE DEF Debt
  <2> QED BY <1>1, <1>3, <1>5, <2>1, <2>2
<1> QED BY <1>2, <1>4, <1>5

\* A report goes out, or nothing does: from books that balance to books that do.
LEMMA SendReportBalanced ==
    ASSUME TypeInv, NEW a, IsAcl(a, AllHandles), Balanced(a), NEW i \in [Handles -> Nat], NEW r,
           SendReport(a, i, r) \/ NothingSent(a, i)
    PROVE  /\ Balanced(acl') /\ acl'.max = a.max
           /\ \A h \in Handles \ opens : inputs'[h] = i[h]
<1>1. CASE acl' = a /\ inputs' = i
  BY <1>1
<1>2. CASE acl' = Sent(a, 1) /\ inputs' = Holds(i, 1)
  <2>1. Balanced(acl') /\ acl'.max = a.max
    BY <1>2, SentBalanced
  <2>2. \A h \in Handles \ opens : inputs'[h] = i[h]
    BY <1>2 DEF Holds
  <2> QED BY <2>1, <2>2
<1> QED BY <1>1, <1>2 DEF SendReport, NothingSent

\* The same of a flush of the held report.
LEMMA FlushBalanced ==
    ASSUME TypeInv, NEW a, IsAcl(a, AllHandles), Balanced(a), NEW i \in [Handles -> Nat],
           FlushHeldReport(a, i)
    PROVE  /\ Balanced(acl') /\ acl'.max = a.max
           /\ \A h \in Handles \ opens : inputs'[h] = i[h]
<1> DEFINE b == AfterHasRoom(a)
<1>1. IsAcl(b, AllHandles) /\ Balanced(b) /\ b.max = a.max
  BY AfterHasRoomFacts, AfterHasRoomBalanced
<1> HIDE DEF b
<1>2. \/ NothingSent(a, i)
      \/ NothingSent(b, i)
      \/ SendReport(b, i, held)
  BY DEF FlushHeldReport, b
<1>3. CASE NothingSent(a, i)
  BY <1>3, SendReportBalanced
<1>4. CASE NothingSent(b, i) \/ SendReport(b, i, held)
  <2>1. /\ Balanced(acl') /\ acl'.max = b.max
        /\ \A h \in Handles \ opens : inputs'[h] = i[h]
    BY <1>1, <1>4, SendReportBalanced
  <2> QED BY <1>1, <2>1
<1> QED BY <1>2, <1>3, <1>4

\* Where the pool's size comes from, and what a link that is gone has left at the
\* controller.
ClosedHoldNothing(i, o, os) == \A h \in Handles \ os : i[h] = 0 /\ o[h] = 0

SumInv ==
    /\ Balanced(acl)
    /\ acl.max \in {0, Pool}
    /\ ClosedHoldNothing(inputs, others, opens)

\* What the steps below start from.
LEMMA SumStart ==
    ASSUME DebtInv, SumInv
    PROVE  /\ TypeInv /\ IsAcl(acl, AllHandles) /\ Balanced(acl) /\ acl.max \in {0, Pool}
           /\ inputs \in [Handles -> Nat] /\ others \in [Handles -> Nat]
           /\ opens \subseteq Handles /\ handle \in opens \cup {NoLink}
           /\ \A h \in Handles \ opens : inputs[h] = 0 /\ others[h] = 0
  BY DEF DebtInv, SumInv, TypeInv, ClosedHoldNothing

\* A report from the pad.
LEMMA PadStateSum ==
    ASSUME DebtInv, SumInv, NEW fits \in BOOLEAN, PadState(fits)
    PROVE  SumInv'
<1> DEFINE b == AfterHasRoom(acl)
<1>1. /\ TypeInv /\ IsAcl(acl, AllHandles) /\ Balanced(acl) /\ acl.max \in {0, Pool}
      /\ inputs \in [Handles -> Nat]
      /\ \A h \in Handles \ opens : inputs[h] = 0 /\ others[h] = 0
  BY SumStart
<1>2. IsAcl(b, AllHandles) /\ Balanced(b) /\ b.max = acl.max
  BY <1>1, AfterHasRoomFacts, AfterHasRoomBalanced
<1> HIDE DEF b
<1>3. others' = others /\ opens' = opens
      /\ (NothingSent(acl, inputs) \/ SendReport(b, inputs, padSeq + 1))
  BY DEF PadState, b
<1>4. /\ Balanced(acl') /\ acl'.max = acl.max
      /\ \A h \in Handles \ opens : inputs'[h] = inputs[h]
  <2>1. CASE NothingSent(acl, inputs)
    BY <1>1, <2>1, SendReportBalanced
  <2>2. CASE SendReport(b, inputs, padSeq + 1)
    <3>1. /\ Balanced(acl') /\ acl'.max = b.max
          /\ \A h \in Handles \ opens : inputs'[h] = inputs[h]
      BY <1>1, <1>2, <2>2, SendReportBalanced
    <3> QED BY <1>2, <3>1
  <2> QED BY <1>3, <2>1, <2>2
<1>5. Balanced(acl)'
  BY <1>4 DEF Balanced, Charged, Packets
<1> QED BY <1>1, <1>3, <1>4, <1>5 DEF SumInv, ClosedHoldNothing

\* Buffers come back on one link.
LEMMA NumCompletedSum ==
    ASSUME DebtInv, SumInv, NEW h \in opens, NEW i, NEW o, NumCompleted(h, i, o)
    PROVE  SumInv'
<1> DEFINE b == OnCompleted(acl, h, i + o)
           j == [inputs EXCEPT ![h] = @ - i]
<1>1. /\ TypeInv /\ IsAcl(acl, AllHandles) /\ Balanced(acl) /\ acl.max \in {0, Pool}
      /\ inputs \in [Handles -> Nat] /\ others \in [Handles -> Nat] /\ h \in Handles
      /\ \A g \in Handles \ opens : inputs[g] = 0 /\ others[g] = 0
  BY SumStart
<1>2. i \in 0..inputs[h] /\ o \in 0..others[h] /\ i + o \in Nat
  BY <1>1 DEF NumCompleted, Finished
<1>3. others' = [others EXCEPT ![h] = @ - o] /\ opens' = opens /\ FlushHeldReport(b, j)
  BY DEF NumCompleted
<1>4. IsAcl(b, AllHandles) /\ Balanced(b) /\ b.max = acl.max
  BY <1>1, <1>2, OnCompletedFacts, OnCompletedBalanced
<1>5. j \in [Handles -> Nat] /\ \A g \in Handles \ opens : j[g] = 0 /\ others'[g] = 0
  BY <1>1, <1>2, <1>3
<1> HIDE DEF b, j
<1>6. /\ Balanced(acl') /\ acl'.max = b.max
      /\ \A g \in Handles \ opens : inputs'[g] = j[g]
  BY <1>1, <1>3, <1>4, <1>5, FlushBalanced
<1>7. Balanced(acl)'
  BY <1>6 DEF Balanced, Charged, Packets
<1> QED BY <1>1, <1>3, <1>4, <1>5, <1>6, <1>7 DEF SumInv, ClosedHoldNothing

\* And on two links in one event.
LEMMA NumCompletedTwoSum ==
    ASSUME DebtInv, SumInv, NEW h \in opens, NEW i, NEW o, NEW g \in opens, NEW j, NEW p,
           NumCompletedTwo(h, i, o, g, j, p)
    PROVE  SumInv'
<1> DEFINE b == OnCompleted(acl, h, i + o)
           c == OnCompleted(b, g, j + p)
           in2 == [inputs EXCEPT ![h] = @ - i, ![g] = @ - j]
<1>1. /\ TypeInv /\ IsAcl(acl, AllHandles) /\ Balanced(acl) /\ acl.max \in {0, Pool}
      /\ inputs \in [Handles -> Nat] /\ others \in [Handles -> Nat]
      /\ h \in Handles /\ g \in Handles
      /\ \A k \in Handles \ opens : inputs[k] = 0 /\ others[k] = 0
  BY SumStart
<1>2. /\ i \in 0..inputs[h] /\ o \in 0..others[h] /\ i + o \in Nat
      /\ j \in 0..inputs[g] /\ p \in 0..others[g] /\ j + p \in Nat /\ h # g
  BY <1>1 DEF NumCompletedTwo, Finished
<1>3. others' = [others EXCEPT ![h] = @ - o, ![g] = @ - p] /\ opens' = opens
      /\ FlushHeldReport(c, in2)
  BY DEF NumCompletedTwo
<1>4. IsAcl(b, AllHandles) /\ Balanced(b) /\ b.max = acl.max
  BY <1>1, <1>2, OnCompletedFacts, OnCompletedBalanced
<1>5. in2 \in [Handles -> Nat] /\ \A k \in Handles \ opens : in2[k] = 0 /\ others'[k] = 0
  BY <1>1, <1>2, <1>3
<1> HIDE DEF b, in2
<1>6. IsAcl(c, AllHandles) /\ Balanced(c) /\ c.max = b.max
  BY <1>2, <1>4, OnCompletedFacts, OnCompletedBalanced
<1> HIDE DEF c
<1>7. /\ Balanced(acl') /\ acl'.max = c.max
      /\ \A k \in Handles \ opens : inputs'[k] = in2[k]
  BY <1>1, <1>3, <1>5, <1>6, FlushBalanced
<1>8. Balanced(acl)'
  BY <1>7 DEF Balanced, Charged, Packets
<1> QED BY <1>1, <1>3, <1>4, <1>5, <1>6, <1>7, <1>8 DEF SumInv, ClosedHoldNothing

\* Packets that are not input.
LEMMA SendOtherSum ==
    ASSUME DebtInv, SumInv, NEW n \in 0..2, SendOther(n), UNCHANGED <<opens, inputs>>
    PROVE  SumInv'
<1>1. /\ TypeInv /\ IsAcl(acl, AllHandles) /\ Balanced(acl) /\ acl.max \in {0, Pool}
      /\ others \in [Handles -> Nat]
      /\ \A h \in Handles \ opens : inputs[h] = 0 /\ others[h] = 0
  BY SumStart
<1>2. acl' = Sent(acl, n) /\ others' = Holds(others, n)
  BY DEF SendOther
<1>3. Balanced(acl') /\ acl'.max = acl.max
  BY <1>1, <1>2, SentBalanced
<1>4. \A h \in Handles \ opens : others'[h] = others[h]
  BY <1>1, <1>2 DEF Holds
<1>5. Balanced(acl)'
  BY <1>3 DEF Balanced, Charged, Packets
<1> QED BY <1>1, <1>3, <1>4, <1>5 DEF SumInv, ClosedHoldNothing

\* A link is lost.
LEMMA LinkDownSum ==
    ASSUME DebtInv, SumInv, NEW h \in Handles, LinkDown(h)
    PROVE  SumInv'
<1>1. /\ TypeInv /\ IsAcl(acl, AllHandles) /\ Balanced(acl) /\ acl.max \in {0, Pool}
      /\ inputs \in [Handles -> Nat] /\ others \in [Handles -> Nat]
      /\ \A g \in Handles \ opens : inputs[g] = 0 /\ others[g] = 0
  BY SumStart
<1>2. /\ acl' = OnDisconnect(acl, h) /\ opens' = opens \ {h}
      /\ inputs' = [inputs EXCEPT ![h] = 0] /\ others' = [others EXCEPT ![h] = 0]
  BY DEF LinkDown
<1>3. Balanced(acl') /\ acl'.max = acl.max
  BY <1>1, <1>2, OnDisconnectFacts, OnDisconnectBalanced
<1>4. \A g \in Handles \ opens' : inputs'[g] = 0 /\ others'[g] = 0
  BY <1>1, <1>2
<1>5. Balanced(acl)'
  BY <1>3 DEF Balanced, Charged, Packets
<1> QED BY <1>1, <1>3, <1>4, <1>5 DEF SumInv, ClosedHoldNothing

\* The size of the pool becomes known, or time passes: the books are the same.
LEMMA SameBooksSum ==
    ASSUME DebtInv, SumInv, acl'.inFlight = acl.inFlight, acl'.total = acl.total,
           acl'.max \in {0, Pool}, opens \subseteq opens', UNCHANGED <<inputs, others>>
    PROVE  SumInv'
<1>1. Balanced(acl)'
  BY DEF SumInv, Balanced, Charged, Packets
<1> QED BY <1>1 DEF SumInv, ClosedHoldNothing

\* SumInv is inductive.
LEMMA SumStep ==
    ASSUME DebtInv, SumInv, [Next]_vars
    PROVE  SumInv'
<1>0. IsAcl(acl, AllHandles) /\ acl.max \in {0, Pool}
  BY SumStart
<1>1. CASE \E fits \in BOOLEAN : PadState(fits)
  BY <1>1, PadStateSum
<1>2. ASSUME NEW h \in opens, NEW i, NEW o, NumCompleted(h, i, o)
      PROVE  SumInv'
  BY <1>2, NumCompletedSum
<1>3. ASSUME NEW h \in opens, NEW i, NEW o, NEW g \in opens, NEW j, NEW p,
             NumCompletedTwo(h, i, o, g, j, p)
      PROVE  SumInv'
  BY <1>3, NumCompletedTwoSum
<1>4. CASE BufferSizeAnswered
  <2>1. acl' = [acl EXCEPT !.max = Pool] /\ UNCHANGED <<opens, inputs, others>>
    BY <1>4 DEF BufferSizeAnswered, ctrlVars
  <2>2. acl'.inFlight = acl.inFlight /\ acl'.total = acl.total /\ acl'.max = Pool
    BY <1>0, <2>1 DEF IsAcl
  <2> QED BY <2>1, <2>2, SameBooksSum
<1>5. CASE OtherTraffic
  BY <1>5, SendOtherSum DEF OtherTraffic
<1>6. ASSUME NEW n \in 0..2, OpenInterrupt(n)
      PROVE  SumInv'
  BY <1>6, SendOtherSum DEF OpenInterrupt
<1>7. ASSUME NEW h \in Handles, FeatureRequest(h) \/ LinkUp(h)
      PROVE  SumInv'
  BY <1>0, <1>7, SameBooksSum DEF FeatureRequest, LinkUp, ctrlVars
<1>8. ASSUME NEW h \in Handles, LinkDown(h)
      PROVE  SumInv'
  BY <1>8, LinkDownSum
<1>9. CASE Tick
  <2>1. acl' = Later(acl) /\ UNCHANGED <<opens, inputs, others>>
    BY <1>9 DEF Tick, ctrlVars
  <2>2. acl'.inFlight = acl.inFlight /\ acl'.total = acl.total /\ acl'.max = acl.max
    BY <1>0, <2>1 DEF Later, IsAcl
  <2> QED BY <1>0, <2>1, <2>2, SameBooksSum
<1>10. CASE UNCHANGED vars
  BY <1>0, <1>10, SameBooksSum DEF vars, progVars, ctrlVars
<1> QED
  BY <1>1, <1>2, <1>3, <1>4, <1>5, <1>6, <1>7, <1>8, <1>9, <1>10 DEF Next

\* The books are empty at first.
LEMMA SumInit == Init => SumInv
<1> SUFFICES ASSUME Init PROVE SumInv
  OBVIOUS
<1> DEFINE f == [h \in {} |-> 0]
<1>1. acl = [max |-> 0, inFlight |-> f, total |-> 0, idle |-> 0]
  BY DEF Init, NewAcl
<1>2. DOMAIN f = {}
  OBVIOUS
<1> HIDE DEF f
<1>3. DOMAIN acl.inFlight = {} /\ acl.total = 0 /\ acl.max = 0
  BY <1>1, <1>2
<1>4. Balanced(acl)
  BY <1>3, EmptyBalanced
<1> QED BY <1>3, <1>4 DEF Init, SumInv, ClosedHoldNothing

\* total_ is the sum of in_flight_, whatever is sent, completed, written off or
\* lost, and in whatever order: what has_room() compares with the budget is what
\* the map holds.
THEOREM TotalAlwaysSum == Spec => []TotalIsSum
<1>1. DebtInv /\ SumInv /\ [Next]_vars => SumInv'
  BY SumStep
<1>2. SumInv => TotalIsSum
  BY DEF SumInv, Balanced, Charged, TotalIsSum
<1> QED BY SumInit, DebtAlways, <1>1, <1>2, PTL DEF Spec

-----------------------------------------------------------------------------
(* One buffer is always kept free.  has_room() compares the budget with    *)
(* total_, not with the input the controller holds, so the bound on the    *)
(* input holds only as long as nothing that is input is off the books:     *)
(* until the first write-off, a link is charged for exactly what the       *)
(* controller holds for it.                                                *)

InBooks(a, i, o, os) ==
    /\ \A h \in os : Debt(a, h) = i[h] + o[h]
    /\ a.max = 0 => \A h \in os : i[h] = 0
    /\ a.max # 0 => Cardinality(Packets(i, os)) < a.max

BooksInv == writeOffs = {} /\ ~loose => InBooks(acl, inputs, others, opens)

\* What is on the books is no more than the total.
LEMMA InputsCharged ==
    ASSUME NEW a, IsAcl(a, AllHandles), Balanced(a), NEW os \in SUBSET Handles,
           NEW i \in [Handles -> Nat], NEW o \in [Handles -> Nat],
           \A h \in os : Debt(a, h) = i[h] + o[h]
    PROVE  IsFiniteSet(Packets(i, os)) /\ Cardinality(Packets(i, os)) <= a.total
<1>1. \A x \in Packets(i, os) : \E h \in os : \E k \in 1..i[h] : x = <<h, k>>
  BY PacketsMembers
<1>2. \A h, k : <<h, k>> \in Charged(a) <=> h \in DOMAIN a.inFlight /\ k \in 1..a.inFlight[h]
  BY PacketsMembers DEF Charged
<1>3. ASSUME NEW h \in os, NEW k \in 1..i[h] PROVE <<h, k>> \in Charged(a)
  <2>1. i[h] \in Nat /\ o[h] \in Nat /\ Debt(a, h) = i[h] + o[h]
    OBVIOUS
  <2>2. k \in 1..Debt(a, h) /\ Debt(a, h) # 0
    BY <2>1
  <2> QED BY <1>2, <2>2 DEF Debt
<1>4. Packets(i, os) \in SUBSET Charged(a)
  BY <1>1, <1>3
<1>5. IsFiniteSet(Packets(i, os)) /\ Cardinality(Packets(i, os)) <= Cardinality(Charged(a))
  BY <1>4, FS_Subset DEF Balanced
<1> QED BY <1>5 DEF Balanced

\* Fewer packets on fewer links are fewer packets.
LEMMA FewerPackets ==
    ASSUME NEW os \in SUBSET Handles, NEW ps \in SUBSET Handles,
           NEW i \in [Handles -> Nat], NEW j \in [Handles -> Nat],
           IsFiniteSet(Packets(i, os)),
           \A h \in ps : j[h] # 0 => h \in os /\ j[h] <= i[h]
    PROVE  /\ Cardinality(Packets(j, ps)) <= Cardinality(Packets(i, os))
           /\ Cardinality(Packets(j, ps)) \in Nat /\ Cardinality(Packets(i, os)) \in Nat
<1>1. \A x \in Packets(j, ps) : \E h \in ps : \E k \in 1..j[h] : x = <<h, k>>
  BY PacketsMembers
<1>2. \A h, k : <<h, k>> \in Packets(i, os) <=> h \in os /\ k \in 1..i[h]
  BY PacketsMembers
<1>3. ASSUME NEW h \in ps, NEW k \in 1..j[h] PROVE <<h, k>> \in Packets(i, os)
  <2>1. j[h] \in Nat /\ i[h] \in Nat /\ j[h] # 0
    OBVIOUS
  <2>2. h \in os /\ k \in 1..i[h]
    BY <2>1
  <2> QED BY <1>2, <2>2
<1>4. Packets(j, ps) \in SUBSET Packets(i, os)
  BY <1>1, <1>3
<1>5. /\ IsFiniteSet(Packets(j, ps))
      /\ Cardinality(Packets(j, ps)) <= Cardinality(Packets(i, os))
  BY <1>4, FS_Subset
<1> QED BY <1>5, FS_CardinalityType

\* A metered report that finds room leaves one buffer.
LEMMA SendReportBooks ==
    ASSUME TypeInv, NEW a, IsAcl(a, AllHandles), Balanced(a),
           NEW i \in [Handles -> Nat], NEW o \in [Handles -> Nat], NEW r,
           InBooks(a, i, o, opens), HasRoom(a), ~WritesOff(a), SendReport(a, i, r), ~loose'
    PROVE  InBooks(acl', inputs', o, opens)
<1>1. CASE acl' = a /\ inputs' = i
  BY <1>1
<1>2. CASE acl' = Sent(a, 1) /\ inputs' = Holds(i, 1) /\ loose' = (loose \/ a.max = 0)
  <2>1. a.max # 0 /\ a.max \in Nat /\ a.total \in Int /\ opens \in SUBSET Handles
    BY <1>2 DEF IsAcl, TypeInv
  <2>2. a.total < Budget(a)
    BY <2>1 DEF HasRoom
  <2>3. /\ Balanced(acl') /\ acl'.total = a.total + 1 /\ acl'.max = a.max
        /\ \A h : Debt(acl', h) = Debt(a, h) + (IF h = handle THEN 1 ELSE 0)
    BY <1>2, SentBalanced
  <2>4. /\ inputs' \in [Handles -> Nat]
        /\ \A h \in opens : inputs'[h] = i[h] + (IF h = handle THEN 1 ELSE 0)
    BY <1>2, HoldsFacts
  <2>5. \A h \in opens : Debt(acl', h) = inputs'[h] + o[h]
    <3> SUFFICES ASSUME NEW h \in opens PROVE Debt(acl', h) = inputs'[h] + o[h]
      OBVIOUS
    <3>1. Debt(a, h) = i[h] + o[h] /\ i[h] \in Nat /\ o[h] \in Nat
      BY <2>1 DEF InBooks
    <3> QED BY <2>3, <2>4, <3>1
  <2>6. IsAcl(acl', AllHandles)
    <3>1. handle \in AllHandles
      BY DEF TypeInv, AllHandles
    <3>2. acl' = OnSent(a, handle)
      BY <1>2 DEF Sent
    <3> QED BY <3>1, <3>2, OnSentFacts
  <2>7. Cardinality(Packets(inputs', opens)) <= acl'.total
        /\ IsFiniteSet(Packets(inputs', opens))
    BY <2>1, <2>3, <2>4, <2>5, <2>6, InputsCharged
  <2>8. Cardinality(Packets(inputs', opens)) \in Nat
    BY <2>7, FS_CardinalityType
  <2>9. Budget(a) <= a.max - 1 /\ Budget(a) \in Int
    BY <2>1, DepthAssumption DEF Budget
  <2>10. Cardinality(Packets(inputs', opens)) < acl'.max
    BY <2>1, <2>2, <2>3, <2>7, <2>8, <2>9
  <2> QED BY <2>1, <2>3, <2>5, <2>10 DEF InBooks
<1> QED BY <1>1, <1>2 DEF SendReport

\* Once something was written off, or sent unmetered, it stays so; and as long as
\* nothing was written off, asking for room does not change the flow control.
LEMMA AskingWritesNothingOff ==
    ASSUME NEW a, WriteOffsAfterAsking(a) = {}
    PROVE  writeOffs = {} /\ ~WritesOff(a) /\ AfterHasRoom(a) = a
<1>1. ~WritesOff(a)
  BY DEF WriteOffsAfterAsking
<1> QED BY <1>1 DEF WriteOffsAfterAsking, AfterHasRoom

LEMMA LooseStays ==
    ASSUME NEW a, NEW i, NEW r, SendReport(a, i, r) \/ NothingSent(a, i), ~loose'
    PROVE  ~loose
  BY DEF SendReport, NothingSent

\* A flush, from books where the completions have been entered.
LEMMA FlushBooks ==
    ASSUME TypeInv, NEW a, IsAcl(a, AllHandles), Balanced(a),
           NEW i \in [Handles -> Nat], NEW o \in [Handles -> Nat],
           writeOffs = {} /\ ~loose => InBooks(a, i, o, opens),
           FlushHeldReport(a, i), writeOffs' = {}, ~loose'
    PROVE  InBooks(acl', inputs', o, opens)
<1>1. CASE held = 0
  <2>1. NothingSent(a, i) /\ writeOffs' = writeOffs
    BY <1>1 DEF FlushHeldReport
  <2>2. ~loose /\ acl' = a /\ inputs' = i
    BY <2>1, LooseStays DEF NothingSent
  <2> QED BY <2>1, <2>2
<1>2. CASE held # 0
  <2>1. WriteOffsAfterAsking(a) = {}
    BY <1>2 DEF FlushHeldReport
  <2>2. writeOffs = {} /\ ~WritesOff(a) /\ AfterHasRoom(a) = a
    BY <2>1, AskingWritesNothingOff
  <2>3. NothingSent(a, i) \/ (HasRoom(a) /\ SendReport(a, i, held))
    BY <1>2, <2>2 DEF FlushHeldReport
  <2>4. InBooks(a, i, o, opens)
    BY <2>2, <2>3, LooseStays
  <2>5. CASE NothingSent(a, i)
    BY <2>4, <2>5 DEF NothingSent
  <2>6. CASE HasRoom(a) /\ SendReport(a, i, held)
    BY <2>2, <2>4, <2>6, SendReportBooks
  <2> QED BY <2>3, <2>5, <2>6
<1> QED BY <1>1, <1>2

\* Completions are entered on one link.
LEMMA CompletedBooks ==
    ASSUME NEW a, IsAcl(a, AllHandles), Balanced(a), NEW os \in SUBSET Handles, NEW h \in Handles,
           NEW i \in [Handles -> Nat], NEW o \in [Handles -> Nat],
           NEW x \in 0..i[h], NEW y \in 0..o[h], InBooks(a, i, o, os)
    PROVE  InBooks(OnCompleted(a, h, x + y),
                   [i EXCEPT ![h] = @ - x], [o EXCEPT ![h] = @ - y], os)
<1> DEFINE b == OnCompleted(a, h, x + y)
           j == [i EXCEPT ![h] = @ - x]
           p == [o EXCEPT ![h] = @ - y]
<1>1. i[h] \in Nat /\ o[h] \in Nat /\ x \in Nat /\ y \in Nat /\ x + y \in Nat
      /\ x <= i[h] /\ y <= o[h]
  OBVIOUS
<1>2. /\ b.max = a.max
      /\ \A g : Debt(b, g) = IF g = h THEN Remaining(Debt(a, g), x + y) ELSE Debt(a, g)
  BY <1>1, OnCompletedFacts, OnCompletedBalanced
<1>3. /\ j \in [Handles -> Nat] /\ p \in [Handles -> Nat]
      /\ \A g \in Handles : /\ j[g] = IF g = h THEN i[g] - x ELSE i[g]
                            /\ p[g] = IF g = h THEN o[g] - y ELSE o[g]
  BY <1>1
<1> HIDE DEF b, j, p
<1>4. ASSUME NEW g \in os PROVE Debt(b, g) = j[g] + p[g]
  <2>1. Debt(a, g) = i[g] + o[g] /\ g \in Handles /\ i[g] \in Nat /\ o[g] \in Nat
    BY DEF InBooks
  <2>2. CASE g = h
    <3>1. Debt(b, g) = Remaining(Debt(a, g), x + y) /\ j[g] = i[g] - x /\ p[g] = o[g] - y
      BY <1>2, <1>3, <2>1, <2>2
    <3>2. x <= i[g] /\ y <= o[g]
      BY <1>1, <2>2
    <3> QED BY <1>1, <2>1, <3>1, <3>2 DEF Remaining
  <2>3. CASE g # h
    BY <1>2, <1>3, <2>1, <2>3
  <2> QED BY <2>2, <2>3
<1>5. ASSUME b.max = 0, NEW g \in os PROVE j[g] = 0
  <2>1. i[g] = 0 /\ g \in Handles
    BY <1>2, <1>5 DEF InBooks
  <2> QED BY <1>1, <1>3, <2>1
<1>6. ASSUME b.max # 0 PROVE Cardinality(Packets(j, os)) < b.max
  <2>1. Cardinality(Packets(i, os)) < a.max /\ \A g \in os : Debt(a, g) = i[g] + o[g]
    BY <1>2, <1>6 DEF InBooks
  <2>2. IsFiniteSet(Packets(i, os))
    BY <2>1, InputsCharged
  <2>3. \A g \in os : j[g] # 0 => g \in os /\ j[g] <= i[g]
    BY <1>1, <1>3
  <2>4. /\ Cardinality(Packets(j, os)) <= Cardinality(Packets(i, os))
        /\ Cardinality(Packets(j, os)) \in Nat /\ Cardinality(Packets(i, os)) \in Nat
    BY <1>3, <2>2, <2>3, FewerPackets
  <2>5. a.max \in Nat
    BY DEF IsAcl
  <2> QED BY <1>2, <2>1, <2>4, <2>5
<1>7. InBooks(b, j, p, os)
  BY <1>4, <1>5, <1>6 DEF InBooks
<1> QED BY <1>7 DEF b, j, p

\* A report from the pad, sent or held.
LEMMA PadStateBooks ==
    ASSUME DebtInv, SumInv, BooksInv, NEW fits \in BOOLEAN, PadState(fits)
    PROVE  BooksInv'
<1> SUFFICES ASSUME writeOffs' = {}, ~loose' PROVE InBooks(acl', inputs', others', opens')
  BY DEF BooksInv, InBooks, Debt, Packets
<1>1. /\ TypeInv /\ IsAcl(acl, AllHandles) /\ Balanced(acl)
      /\ inputs \in [Handles -> Nat] /\ others \in [Handles -> Nat]
  BY SumStart
<1>2. others' = others /\ opens' = opens
  BY DEF PadState
<1>3. CASE ~interrupt
  <2>1. NothingSent(acl, inputs) /\ writeOffs' = writeOffs
    BY <1>3 DEF PadState
  <2>2. ~loose
    BY <2>1, LooseStays
  <2> QED BY <1>2, <2>1, <2>2 DEF BooksInv, NothingSent
<1>4. CASE interrupt
  <2>1. WriteOffsAfterAsking(acl) = {}
    BY <1>4 DEF PadState
  <2>2. writeOffs = {} /\ ~WritesOff(acl) /\ AfterHasRoom(acl) = acl
    BY <2>1, AskingWritesNothingOff
  <2>3. NothingSent(acl, inputs) \/ (HasRoom(acl) /\ SendReport(acl, inputs, padSeq + 1))
    BY <1>4, <2>2 DEF PadState
  <2>4. InBooks(acl, inputs, others, opens)
    BY <2>2, <2>3, LooseStays DEF BooksInv
  <2>5. CASE NothingSent(acl, inputs)
    BY <1>2, <2>4, <2>5 DEF NothingSent
  <2>6. CASE HasRoom(acl) /\ SendReport(acl, inputs, padSeq + 1)
    <3>1. InBooks(acl', inputs', others, opens)
      BY <1>1, <2>2, <2>4, <2>6, SendReportBooks
    <3> QED BY <1>2, <3>1
  <2> QED BY <2>3, <2>5, <2>6
<1> QED BY <1>3, <1>4

\* Buffers come back on one link.
LEMMA NumCompletedBooks ==
    ASSUME DebtInv, SumInv, BooksInv, NEW h \in opens, NEW i, NEW o, NumCompleted(h, i, o)
    PROVE  BooksInv'
<1> SUFFICES ASSUME writeOffs' = {}, ~loose' PROVE InBooks(acl', inputs', others', opens')
  BY DEF BooksInv, InBooks, Debt, Packets
<1> DEFINE b == OnCompleted(acl, h, i + o)
           j == [inputs EXCEPT ![h] = @ - i]
           p == [others EXCEPT ![h] = @ - o]
<1>1. /\ TypeInv /\ IsAcl(acl, AllHandles) /\ Balanced(acl)
      /\ inputs \in [Handles -> Nat] /\ others \in [Handles -> Nat] /\ h \in Handles
      /\ opens \in SUBSET Handles
  BY SumStart
<1>2. i \in 0..inputs[h] /\ o \in 0..others[h] /\ i + o \in Nat
  BY <1>1 DEF NumCompleted, Finished
<1>3. others' = p /\ opens' = opens /\ FlushHeldReport(b, j)
  BY DEF NumCompleted
<1>4. IsAcl(b, AllHandles) /\ Balanced(b)
  BY <1>1, <1>2, OnCompletedFacts, OnCompletedBalanced
<1>5. j \in [Handles -> Nat] /\ p \in [Handles -> Nat]
  BY <1>1, <1>2
<1>6. writeOffs = {} /\ ~loose => InBooks(b, j, p, opens)
  BY <1>1, <1>2, CompletedBooks DEF BooksInv
<1> HIDE DEF b, j, p
<1>7. InBooks(acl', inputs', p, opens)
  BY <1>1, <1>3, <1>4, <1>5, <1>6, FlushBooks
<1> QED BY <1>3, <1>7

\* And on two links in one event.
LEMMA NumCompletedTwoBooks ==
    ASSUME DebtInv, SumInv, BooksInv,
           NEW h \in opens, NEW i, NEW o, NEW g \in opens, NEW j, NEW p,
           NumCompletedTwo(h, i, o, g, j, p)
    PROVE  BooksInv'
<1> SUFFICES ASSUME writeOffs' = {}, ~loose' PROVE InBooks(acl', inputs', others', opens')
  BY DEF BooksInv, InBooks, Debt, Packets
<1> DEFINE b == OnCompleted(acl, h, i + o)
           in1 == [inputs EXCEPT ![h] = @ - i]
           ot1 == [others EXCEPT ![h] = @ - o]
           c == OnCompleted(b, g, j + p)
           in2 == [in1 EXCEPT ![g] = @ - j]
           ot2 == [ot1 EXCEPT ![g] = @ - p]
<1>1. /\ TypeInv /\ IsAcl(acl, AllHandles) /\ Balanced(acl)
      /\ inputs \in [Handles -> Nat] /\ others \in [Handles -> Nat]
      /\ h \in Handles /\ g \in Handles /\ opens \in SUBSET Handles
  BY SumStart
<1>2. /\ i \in 0..inputs[h] /\ o \in 0..others[h] /\ i + o \in Nat
      /\ j \in 0..inputs[g] /\ p \in 0..others[g] /\ j + p \in Nat /\ h # g
  BY <1>1 DEF NumCompletedTwo, Finished
<1>3. others' = ot2 /\ opens' = opens /\ FlushHeldReport(c, in2)
  BY DEF NumCompletedTwo
<1>4. IsAcl(b, AllHandles) /\ Balanced(b)
  BY <1>1, <1>2, OnCompletedFacts, OnCompletedBalanced
<1>5. /\ in1 \in [Handles -> Nat] /\ ot1 \in [Handles -> Nat]
      /\ j \in 0..in1[g] /\ p \in 0..ot1[g]
  BY <1>1, <1>2
<1>6. writeOffs = {} /\ ~loose => InBooks(b, in1, ot1, opens)
  BY <1>1, <1>2, CompletedBooks DEF BooksInv
<1> HIDE DEF b, in1, ot1
<1>7. IsAcl(c, AllHandles) /\ Balanced(c)
  BY <1>2, <1>4, OnCompletedFacts, OnCompletedBalanced
<1>8. in2 \in [Handles -> Nat] /\ ot2 \in [Handles -> Nat]
  BY <1>1, <1>5
<1>9. writeOffs = {} /\ ~loose => InBooks(c, in2, ot2, opens)
  BY <1>1, <1>4, <1>5, <1>6, CompletedBooks
<1> HIDE DEF c, in2, ot2
<1>10. InBooks(acl', inputs', ot2, opens)
  BY <1>1, <1>3, <1>7, <1>8, <1>9, FlushBooks
<1> QED BY <1>3, <1>10

\* Packets that are not input are charged and held alike.
LEMMA SendOtherBooks ==
    ASSUME DebtInv, SumInv, BooksInv, NEW n \in 0..2, SendOther(n),
           UNCHANGED <<opens, inputs, writeOffs, loose>>
    PROVE  BooksInv'
<1> SUFFICES ASSUME writeOffs' = {}, ~loose' PROVE InBooks(acl', inputs', others', opens')
  BY DEF BooksInv, InBooks, Debt, Packets
<1>1. /\ TypeInv /\ IsAcl(acl, AllHandles) /\ Balanced(acl) /\ opens \in SUBSET Handles
      /\ inputs \in [Handles -> Nat] /\ others \in [Handles -> Nat] /\ n \in Nat
  BY SumStart
<1>2. InBooks(acl, inputs, others, opens)
  BY DEF BooksInv
<1>3. acl' = Sent(acl, n) /\ others' = Holds(others, n)
  BY DEF SendOther
<1>4. /\ acl'.max = acl.max
      /\ \A h : Debt(acl', h) = Debt(acl, h) + (IF h = handle THEN n ELSE 0)
  BY <1>1, <1>3, SentBalanced
<1>5. \A h \in opens : others'[h] = others[h] + (IF h = handle THEN n ELSE 0)
  BY <1>1, <1>3, HoldsFacts
<1>6. ASSUME NEW h \in opens PROVE Debt(acl', h) = inputs[h] + others'[h]
  <2>1. Debt(acl, h) = inputs[h] + others[h] /\ inputs[h] \in Nat /\ others[h] \in Nat
    BY <1>1, <1>2 DEF InBooks
  <2> QED BY <1>1, <1>4, <1>5, <2>1
<1>7. InBooks(acl', inputs, others', opens)
  BY <1>2, <1>4, <1>6 DEF InBooks
<1> QED BY <1>7

\* A new link holds nothing and owes nothing.
LEMMA LinkUpBooks ==
    ASSUME DebtInv, SumInv, BooksInv, NEW h \in Handles, LinkUp(h)
    PROVE  BooksInv'
<1> SUFFICES ASSUME writeOffs' = {}, ~loose' PROVE InBooks(acl', inputs', others', opens')
  BY DEF BooksInv, InBooks, Debt, Packets
<1>1. /\ IsAcl(acl, AllHandles) /\ Balanced(acl) /\ opens \in SUBSET Handles
      /\ inputs \in [Handles -> Nat] /\ others \in [Handles -> Nat]
      /\ \A g \in Handles \ opens : inputs[g] = 0 /\ others[g] = 0
  BY SumStart
<1>2. /\ h \notin opens /\ opens' = opens \cup {h} /\ writeOffs = {} /\ ~loose
      /\ UNCHANGED <<acl, inputs, others>>
  BY DEF LinkUp, ctrlVars
<1>3. InBooks(acl, inputs, others, opens)
  BY <1>2 DEF BooksInv
<1>4. inputs[h] = 0 /\ others[h] = 0 /\ Debt(acl, h) = 0
  <2>1. h # NoLink
    BY HandlesAssumption
  <2>2. h \notin DOMAIN acl.inFlight
    BY <1>2, <2>1 DEF DebtInv, Covered
  <2> QED BY <1>1, <1>2, <2>2 DEF Debt
<1>5. opens \cup {h} \in SUBSET Handles
  BY <1>1
<1>6. IsFiniteSet(Packets(inputs, opens))
  BY <1>1, <1>3, InputsCharged DEF InBooks
<1>7. \A g \in opens \cup {h} : inputs[g] # 0 => g \in opens /\ inputs[g] <= inputs[g]
  BY <1>1, <1>4
<1>8. /\ Cardinality(Packets(inputs, opens \cup {h})) <= Cardinality(Packets(inputs, opens))
      /\ Cardinality(Packets(inputs, opens \cup {h})) \in Nat
      /\ Cardinality(Packets(inputs, opens)) \in Nat
  BY <1>1, <1>5, <1>6, <1>7, FewerPackets
<1>9. acl.max # 0 => Cardinality(Packets(inputs, opens \cup {h})) < acl.max
  <2>1. acl.max \in Nat
    BY <1>1 DEF IsAcl
  <2> QED BY <1>3, <1>8, <2>1 DEF InBooks
<1>10. InBooks(acl, inputs, others, opens \cup {h})
  BY <1>3, <1>4, <1>9 DEF InBooks
<1> QED BY <1>2, <1>10

\* A lost link takes what it owed and what it held.
LEMMA LinkDownBooks ==
    ASSUME DebtInv, SumInv, BooksInv, NEW h \in Handles, LinkDown(h)
    PROVE  BooksInv'
<1> SUFFICES ASSUME writeOffs' = {}, ~loose' PROVE InBooks(acl', inputs', others', opens')
  BY DEF BooksInv, InBooks, Debt, Packets
<1> DEFINE os == opens \ {h}
<1>1. /\ IsAcl(acl, AllHandles) /\ Balanced(acl) /\ opens \in SUBSET Handles
      /\ inputs \in [Handles -> Nat] /\ others \in [Handles -> Nat] /\ os \in SUBSET Handles
  BY SumStart
<1>2. /\ acl' = OnDisconnect(acl, h) /\ opens' = os /\ writeOffs = {} /\ ~loose
      /\ inputs' = [inputs EXCEPT ![h] = 0] /\ others' = [others EXCEPT ![h] = 0]
  BY DEF LinkDown
<1>3. InBooks(acl, inputs, others, opens)
  BY <1>2 DEF BooksInv
<1>4. acl'.max = acl.max /\ \A g : g # h => Debt(acl', g) = Debt(acl, g)
  BY <1>1, <1>2, OnDisconnectFacts, OnDisconnectBalanced
<1>5. /\ inputs' \in [Handles -> Nat]
      /\ \A g \in os : g # h /\ g \in opens /\ inputs'[g] = inputs[g] /\ others'[g] = others[g]
  BY <1>1, <1>2
<1> HIDE DEF os
<1>6. IsFiniteSet(Packets(inputs, opens))
  BY <1>1, <1>3, InputsCharged DEF InBooks
<1>7. \A g \in os : inputs'[g] # 0 => g \in opens /\ inputs'[g] <= inputs[g]
  BY <1>1, <1>5
<1>8. /\ Cardinality(Packets(inputs', os)) <= Cardinality(Packets(inputs, opens))
      /\ Cardinality(Packets(inputs', os)) \in Nat
      /\ Cardinality(Packets(inputs, opens)) \in Nat
  BY <1>1, <1>5, <1>6, <1>7, FewerPackets
<1>9. acl.max # 0 => Cardinality(Packets(inputs', os)) < acl.max
  <2>1. acl.max \in Nat
    BY <1>1 DEF IsAcl
  <2> QED BY <1>3, <1>8, <2>1 DEF InBooks
<1>10. InBooks(acl', inputs', others', os)
  BY <1>3, <1>4, <1>5, <1>9 DEF InBooks
<1> QED BY <1>2, <1>10

\* The pool's size is answered: all input so far went out unmetered or not at all.
LEMMA BufferSizeBooks ==
    ASSUME DebtInv, SumInv, BooksInv, BufferSizeAnswered
    PROVE  BooksInv'
<1> SUFFICES ASSUME writeOffs' = {}, ~loose' PROVE InBooks(acl', inputs', others', opens')
  BY DEF BooksInv, InBooks, Debt, Packets
<1>1. /\ acl.max = 0 /\ acl' = [acl EXCEPT !.max = Pool] /\ writeOffs = {} /\ ~loose
      /\ UNCHANGED <<opens, inputs, others>>
  BY DEF BufferSizeAnswered, ctrlVars, histVars
<1>2. InBooks(acl, inputs, others, opens)
  BY <1>1 DEF BooksInv
<1>3. acl'.inFlight = acl.inFlight /\ acl'.max = Pool
  BY <1>1, SumStart DEF IsAcl
<1>4. Packets(inputs, opens) = {}
  <2>1. \A x \in Packets(inputs, opens) : \E h \in opens : \E k \in 1..inputs[h] : x = <<h, k>>
    BY PacketsMembers
  <2>2. \A h \in opens : inputs[h] = 0
    BY <1>1, <1>2 DEF InBooks
  <2> QED BY <2>1, <2>2
<1>5. Cardinality(Packets(inputs, opens)) = 0
  BY <1>4, FS_EmptySet
<1>6. InBooks(acl', inputs, others, opens)
  BY <1>2, <1>3, <1>5, PoolAssumption DEF InBooks, Debt
<1> QED BY <1>1, <1>6

\* BooksInv is inductive, on top of the two before it.
LEMMA BooksStep ==
    ASSUME DebtInv, SumInv, BooksInv, [Next]_vars
    PROVE  BooksInv'
<1>1. CASE \E fits \in BOOLEAN : PadState(fits)
  BY <1>1, PadStateBooks
<1>2. ASSUME NEW h \in opens, NEW i, NEW o, NumCompleted(h, i, o)
      PROVE  BooksInv'
  BY <1>2, NumCompletedBooks
<1>3. ASSUME NEW h \in opens, NEW i, NEW o, NEW g \in opens, NEW j, NEW p,
             NumCompletedTwo(h, i, o, g, j, p)
      PROVE  BooksInv'
  BY <1>3, NumCompletedTwoBooks
<1>4. CASE BufferSizeAnswered
  BY <1>4, BufferSizeBooks
<1>5. CASE OtherTraffic
  BY <1>5, SendOtherBooks DEF OtherTraffic, histVars
<1>6. ASSUME NEW n \in 0..2, OpenInterrupt(n)
      PROVE  BooksInv'
  BY <1>6, SendOtherBooks DEF OpenInterrupt, histVars
<1>7. ASSUME NEW h \in Handles, FeatureRequest(h)
      PROVE  BooksInv'
  BY <1>7 DEF FeatureRequest, ctrlVars, BooksInv, InBooks, Debt, Packets
<1>8. ASSUME NEW h \in Handles, LinkUp(h) \/ LinkDown(h)
      PROVE  BooksInv'
  BY <1>8, LinkUpBooks, LinkDownBooks
<1>9. CASE Tick
  <2>1. acl' = Later(acl) /\ UNCHANGED <<opens, inputs, others, writeOffs, loose>>
    BY <1>9 DEF Tick, ctrlVars, histVars
  <2>2. acl'.inFlight = acl.inFlight /\ acl'.max = acl.max
    BY <2>1, SumStart DEF Later, IsAcl
  <2> QED BY <2>1, <2>2 DEF BooksInv, InBooks, Debt, Packets
<1>10. CASE UNCHANGED vars
  BY <1>10 DEF vars, progVars, ctrlVars, histVars, BooksInv, InBooks, Debt, Packets
<1> QED
  BY <1>1, <1>2, <1>3, <1>4, <1>5, <1>6, <1>7, <1>8, <1>9, <1>10 DEF Next

\* "One buffer is always kept free": until credits are written off, input that was
\* metered never takes the whole pool, for every depth, every pool and any number
\* of links at once, although other packets are sent without asking for room.
THEOREM BufferAlwaysKeptFree == Spec => []InputKeepsABufferFree
<1>1. Init => BooksInv
  <2> SUFFICES ASSUME Init PROVE BooksInv
    OBVIOUS
  <2>1. acl.max = 0 /\ opens = {}
    BY DEF Init, NewAcl
  <2> QED BY <2>1 DEF BooksInv, InBooks
<1>2. DebtInv /\ SumInv /\ [Next]_vars => SumInv'
  BY SumStep
<1>3. DebtInv /\ SumInv /\ BooksInv /\ [Next]_vars => BooksInv'
  BY BooksStep
<1>4. BooksInv => InputKeepsABufferFree
  BY DEF BooksInv, InBooks, InputKeepsABufferFree
<1> QED BY SumInit, DebtAlways, <1>1, <1>2, <1>3, <1>4, PTL DEF Spec

=============================================================================
