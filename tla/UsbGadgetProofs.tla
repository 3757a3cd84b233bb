--------------------------- MODULE UsbGadgetProofs ---------------------------
(***************************************************************************)
(* The USB side, for every set of reports, every number of requests,       *)
(* resets and starts: buffers, ep0 and the answers the host is given.      *)
(***************************************************************************)
EXTENDS UsbGadget, FiniteSetTheorems, SequenceTheorems, TLAPS

-----------------------------------------------------------------------------
(* The inductive invariant, in its parts.                                  *)

\* Every detach still to run, and the one an unread request may spawn, belongs
\* to a request of the host's.
HandoversAskedFor ==
    handovers + (IF setupEvent = NoRequest THEN 0 ELSE 1) <= hostNo

\* A start_usb_gadget() that is asleep was spawned when the channels came up.
StartsSpawned == starts <= padUps

\* A request that FunctionFS has in hand and still expects an answer to is the
\* one in pending_get_, unless a detach has dropped it and nothing is pending.
PendingIsHeld ==
    setupState = "pending" =>
       \/ pending # NoRequest /\ pending = inHand
       \/ pending = NoRequest /\ detached

\* The pad's questions are in the order they were asked.
QuestionsInOrder ==
    \A i, j \in 1..Len(padQueue) : i < j => padQueue[i].no < padQueue[j].no

\* What is still to be answered was asked, and after everything answered.
QuestionsNewer ==
    \A i \in 1..Len(padQueue) :
       /\ padQueue[i].no <= asks
       /\ \A id \in Ids : answers[id] < padQueue[i].no

\* The host has seen nothing newer than what answers_ holds.
CacheNewest == \A id \in Ids : served[id] <= answers[id] /\ answers[id] <= asks

Ordered == QuestionsInOrder /\ QuestionsNewer /\ CacheNewest

Inv ==
    /\ TypeOK /\ HandoversAskedFor /\ StartsSpawned
    /\ BuffersAccountedFor /\ PendingIsHeld /\ Ep0LeftAlone /\ AnswersTheRequest
    /\ Ordered

\* The type invariant, in the pieces the proofs take it in.
TypeCounts ==
    /\ starts \in 0..MaxStarts /\ padUps \in 0..MaxStarts
    /\ handovers \in 0..MaxRequests /\ hostNo \in 0..MaxRequests /\ resets \in 0..MaxResets
TypeFlags ==
    /\ started \in BOOLEAN /\ bound \in BOOLEAN /\ looping \in BOOLEAN
    /\ enabled \in BOOLEAN /\ inBusy \in BOOLEAN /\ outBusy \in BOOLEAN
    /\ udc \in BOOLEAN /\ epUp \in BOOLEAN
    /\ wrong \in BOOLEAN /\ stalled \in BOOLEAN /\ detached \in BOOLEAN /\ rushed \in BOOLEAN
TypeEp0 ==
    /\ pending \in Requests \cup {NoRequest} /\ setupEvent \in Requests \cup {NoRequest}
    /\ inHand \in Requests \cup {NoRequest}
    /\ timer \in {"off", "running", "expired", "cancelled"}
    /\ stateEvent \in {"none", "ENABLE", "DISABLE"}
    /\ setupState \in {"none", "pending", "cancelled"}
TypeEndpoints == kIn \in {"none", "queued"} \cup Done /\ kOut \in {"none", "queued"} \cup Done
TypeAnswers ==
    /\ answers \in [Ids -> Nat] /\ served \in [Ids -> Nat]
    /\ padQueue \in Seq([id : Ids, no : Nat]) /\ asks \in Nat

LEMMA TypeParts ==
    TypeOK <=> TypeCounts /\ TypeFlags /\ TypeEp0 /\ TypeEndpoints /\ TypeAnswers
BY Zenon DEF TypeOK, TypeCounts, TypeFlags, TypeEp0, TypeEndpoints, TypeAnswers

LEMMA TypeJoin ==
    ASSUME TypeCounts', TypeFlags', TypeEp0', TypeEndpoints', TypeAnswers'
    PROVE  TypeOK'
BY Zenon DEF TypeOK, TypeCounts, TypeFlags, TypeEp0, TypeEndpoints, TypeAnswers

-----------------------------------------------------------------------------
(* The queue of questions.                                                 *)

Questions == [id : Ids, no : Nat]

\* l2cap_get_report(): questions numbered on from the last keep the order.
LEMMA AskPadOrdered ==
    ASSUME TypeOK, Ordered, NEW qs \in Seq(Questions),
           \A i \in 1..Len(qs) : qs[i].no = asks + i,
           AskPad(qs), UNCHANGED <<answers, served>>
    PROVE  padQueue' \in Seq(Questions) /\ asks' \in Nat /\ Ordered'
<1>1. padQueue \in Seq(Questions) /\ asks \in Nat /\ answers \in [Ids -> Nat] /\ served \in [Ids -> Nat]
  BY DEF TypeOK, Questions
<1> DEFINE p == padQueue
           n == Len(padQueue)
<1>2. n \in Nat /\ Len(qs) \in Nat
  BY <1>1
<1>3. /\ padQueue' \in Seq(Questions)
      /\ Len(padQueue') = n + Len(qs)
      /\ \A i \in 1..Len(padQueue') :
            padQueue'[i] = IF i <= n THEN p[i] ELSE qs[i - n]
  BY <1>1, ConcatProperties DEF AskPad
<1>4. asks' = asks + Len(qs) /\ asks' \in Nat
  BY <1>1, <1>2 DEF AskPad
<1>5. \A i \in 1..n : p[i].no \in Nat /\ p[i].no <= asks /\ \A id \in Ids : answers[id] < p[i].no
  <2>1. \A i \in 1..n : p[i] \in Questions
    BY <1>1
  <2>2. \A i \in 1..n : p[i].no \in Nat
    BY <2>1 DEF Questions
  <2> QED
    BY <2>2 DEF Ordered, QuestionsNewer
<1>6. \A i, j \in 1..n : i < j => p[i].no < p[j].no
  BY DEF Ordered, QuestionsInOrder
<1>7. \A id \in Ids : answers[id] \in Nat /\ answers[id] <= asks /\ served[id] <= answers[id]
  BY <1>1 DEF Ordered, CacheNewest
<1> HIDE DEF p, n
<1>8. \A i \in 1..Len(padQueue') :
         \/ i \in 1..n /\ padQueue'[i] = p[i]
         \/ i - n \in 1..Len(qs) /\ padQueue'[i].no = asks + (i - n) /\ i > n
  <2> SUFFICES ASSUME NEW i \in 1..Len(padQueue')
               PROVE  \/ i \in 1..n /\ padQueue'[i] = p[i]
                      \/ i - n \in 1..Len(qs) /\ padQueue'[i].no = asks + (i - n) /\ i > n
    OBVIOUS
  <2>1. CASE i <= n
    BY <1>2, <1>3, <2>1
  <2>2. CASE i > n
    <3>1. i - n \in 1..Len(qs)
      BY <1>2, <1>3, <2>2
    <3>2. padQueue'[i] = qs[i - n]
      BY <1>2, <1>3, <2>2
    <3> QED
      BY <2>2, <3>1, <3>2
  <2> QED
    BY <1>2, <2>1, <2>2
<1>9. QuestionsInOrder'
  <2> SUFFICES ASSUME NEW i \in 1..Len(padQueue'), NEW j \in 1..Len(padQueue'), i < j
               PROVE  padQueue'[i].no < padQueue'[j].no
    BY DEF QuestionsInOrder
  <2>0. i \in Int /\ j \in Int
    OBVIOUS
  <2>1. CASE i \in 1..n /\ padQueue'[i] = p[i] /\ j \in 1..n /\ padQueue'[j] = p[j]
    BY <1>6, <2>1
  <2>2. CASE i \in 1..n /\ padQueue'[i] = p[i] /\ j - n \in 1..Len(qs) /\ padQueue'[j].no = asks + (j - n)
    BY <1>1, <1>2, <1>5, <2>2
  <2>3. CASE /\ i - n \in 1..Len(qs) /\ padQueue'[i].no = asks + (i - n)
             /\ j - n \in 1..Len(qs) /\ padQueue'[j].no = asks + (j - n)
    BY <1>1, <1>2, <2>3
  <2>4. ~(i > n /\ j <= n)
    BY <1>2
  <2> QED
    BY <1>2, <1>8, <2>1, <2>2, <2>3, <2>4
<1>10. QuestionsNewer'
  <2> SUFFICES ASSUME NEW i \in 1..Len(padQueue')
               PROVE  /\ padQueue'[i].no <= asks'
                      /\ \A id \in Ids : answers[id] < padQueue'[i].no
    BY DEF QuestionsNewer
  <2>1. CASE i \in 1..n /\ padQueue'[i] = p[i]
    BY <1>1, <1>2, <1>4, <1>5, <2>1
  <2>2. CASE i - n \in 1..Len(qs) /\ padQueue'[i].no = asks + (i - n)
    BY <1>1, <1>2, <1>4, <1>7, <2>2
  <2> QED
    BY <1>8, <2>1, <2>2
<1>11. CacheNewest'
  BY <1>1, <1>2, <1>4, <1>7 DEF CacheNewest
<1> QED
  BY <1>3, <1>4, <1>9, <1>10, <1>11 DEF Ordered

\* Taking the oldest question off leaves the others in order, and all of them
\* are newer than it.
LEMMA OldestTaken ==
    ASSUME TypeOK, Ordered, padQueue # <<>>, padQueue' = Tail(padQueue), asks' = asks
    PROVE  /\ padQueue' \in Seq(Questions) /\ Head(padQueue) \in Questions
           /\ QuestionsInOrder'
           /\ \A i \in 1..Len(padQueue') :
                 /\ padQueue'[i].no \in Nat /\ padQueue'[i].no <= asks
                 /\ Head(padQueue).no < padQueue'[i].no
                 /\ \A id \in Ids : answers[id] < padQueue'[i].no
           /\ Head(padQueue).no <= asks
           /\ \A id \in Ids : answers[id] < Head(padQueue).no
<1>1. padQueue \in Seq(Questions)
  BY DEF TypeOK, Questions
<1>2. /\ padQueue' \in Seq(Questions)
      /\ Len(padQueue) \in Nat \ {0} /\ Len(padQueue') = Len(padQueue) - 1
      /\ \A i \in 1..Len(padQueue') : padQueue'[i] = padQueue[i + 1]
      /\ Head(padQueue) = padQueue[1]
  BY <1>1
<1>3. 1 \in 1..Len(padQueue) /\ \A i \in 1..Len(padQueue') : i + 1 \in 1..Len(padQueue) /\ 1 < i + 1
  BY <1>2
<1>4. \A i \in 1..Len(padQueue) : padQueue[i] \in Questions
  BY <1>1
<1>5. QuestionsInOrder'
  <2> SUFFICES ASSUME NEW i \in 1..Len(padQueue'), NEW j \in 1..Len(padQueue'), i < j
               PROVE  padQueue'[i].no < padQueue'[j].no
    BY DEF QuestionsInOrder
  <2>1. i + 1 \in 1..Len(padQueue) /\ j + 1 \in 1..Len(padQueue) /\ i + 1 < j + 1
    BY <1>3
  <2> QED
    BY <1>2, <2>1 DEF Ordered, QuestionsInOrder
<1>6. \A i \in 1..Len(padQueue') : padQueue[1].no < padQueue[i + 1].no
  BY <1>3 DEF Ordered, QuestionsInOrder
<1>7. \A i \in 1..Len(padQueue) : padQueue[i].no \in Nat
  BY <1>4 DEF Questions
<1> QED
  BY <1>2, <1>3, <1>4, <1>5, <1>6, <1>7 DEF Ordered, QuestionsNewer

-----------------------------------------------------------------------------
(* The actions that leave the questions and the answers alone.             *)

\* start_usb_gadget() after its sleep.
LEMMA StartGadgetInv ==
    ASSUME Inv, NEW ok \in BOOLEAN, StartGadget(ok)
    PROVE  Inv'
<1> USE TypeParts DEF Inv
<1>1. Ordered' /\ TypeAnswers'
  BY DEF StartGadget, Ordered, QuestionsInOrder, QuestionsNewer, CacheNewest, TypeAnswers, progVars, kernVars, histVars
<1>2. TypeCounts' /\ HandoversAskedFor' /\ StartsSpawned'
  BY MaxRequestsAssumption, MaxStartsAssumption, MaxResetsAssumption
     DEF TypeCounts, TypeEp0, Requests, NoRequest, StartsSpawned, HandoversAskedFor, StartGadget, progVars, kernVars, histVars
<1>3. TypeFlags'
  BY DEF TypeFlags, StartGadget, AlreadyUp, progVars, kernVars, histVars
<1>4. TypeEp0'
  BY DEF TypeEp0, StartGadget, progVars, kernVars, histVars
<1>5. TypeEndpoints'
  BY DEF TypeEndpoints, StartGadget, progVars, kernVars, histVars
<1>6. BuffersAccountedFor'
  BY DEF TypeFlags, TypeEndpoints, BuffersAccountedFor, StartGadget, progVars, kernVars, histVars
<1>7. PendingIsHeld' /\ Ep0LeftAlone' /\ AnswersTheRequest'
  BY DEF TypeFlags, TypeEp0, PendingIsHeld, Ep0LeftAlone, AnswersTheRequest, StartGadget, progVars, kernVars, histVars
<1> QED
  BY <1>1, <1>2, <1>3, <1>4, <1>5, <1>6, <1>7, TypeJoin

\* The wait for the pad runs out.
LEMMA TimerExpiresInv ==
    ASSUME Inv, TimerExpires
    PROVE  Inv'
<1> USE TypeParts DEF Inv
<1>1. Ordered' /\ TypeAnswers'
  BY DEF TimerExpires, Ordered, QuestionsInOrder, QuestionsNewer, CacheNewest, TypeAnswers, progVars, kernVars, histVars
<1>2. TypeCounts' /\ HandoversAskedFor' /\ StartsSpawned'
  BY MaxRequestsAssumption, MaxStartsAssumption, MaxResetsAssumption
     DEF TypeCounts, TypeEp0, Requests, NoRequest, StartsSpawned, HandoversAskedFor, TimerExpires, progVars, kernVars, histVars
<1>3. TypeFlags'
  BY DEF TypeFlags, TimerExpires, progVars, kernVars, histVars
<1>4. TypeEp0'
  BY DEF TypeEp0, TimerExpires, progVars, kernVars, histVars
<1>5. TypeEndpoints'
  BY DEF TypeEndpoints, TimerExpires, progVars, kernVars, histVars
<1>6. BuffersAccountedFor'
  BY DEF TypeFlags, TypeEndpoints, BuffersAccountedFor, TimerExpires, progVars, kernVars, histVars
<1>7. PendingIsHeld' /\ Ep0LeftAlone' /\ AnswersTheRequest'
  BY DEF TypeFlags, TypeEp0, PendingIsHeld, Ep0LeftAlone, AnswersTheRequest, TimerExpires, progVars, kernVars, histVars
<1> QED
  BY <1>1, <1>2, <1>3, <1>4, <1>5, <1>6, <1>7, TypeJoin

\* send_input() hands its buffer to the kernel.
LEMMA SendInputInv ==
    ASSUME Inv, NEW fails, SendInput(fails)
    PROVE  Inv'
<1> USE TypeParts DEF Inv
<1>1. Ordered' /\ TypeAnswers'
  BY DEF SendInput, Ordered, QuestionsInOrder, QuestionsNewer, CacheNewest, TypeAnswers, progVars, kernVars, histVars
<1>2. TypeCounts' /\ HandoversAskedFor' /\ StartsSpawned'
  BY MaxRequestsAssumption, MaxStartsAssumption, MaxResetsAssumption
     DEF TypeCounts, TypeEp0, Requests, NoRequest, StartsSpawned, HandoversAskedFor, SendInput, progVars, kernVars, histVars
<1>3. TypeFlags'
  BY DEF TypeFlags, SendInput, progVars, kernVars, histVars
<1>4. TypeEp0'
  BY DEF TypeEp0, SendInput, progVars, kernVars, histVars
<1>5. TypeEndpoints'
  BY DEF TypeEndpoints, SendInput, Done, progVars, kernVars, histVars
<1>6. BuffersAccountedFor'
  BY DEF TypeFlags, TypeEndpoints, BuffersAccountedFor, SendInput, Done, progVars, kernVars, histVars
<1>7. PendingIsHeld' /\ Ep0LeftAlone' /\ AnswersTheRequest'
  BY DEF TypeFlags, TypeEp0, PendingIsHeld, Ep0LeftAlone, AnswersTheRequest, SendInput, progVars, kernVars, histVars
<1> QED
  BY <1>1, <1>2, <1>3, <1>4, <1>5, <1>6, <1>7, TypeJoin

\* endpoint_events() takes the buffers back that the kernel is done with.
LEMMA ReapInv ==
    ASSUME Inv, NEW fails \in BOOLEAN, Reap(fails)
    PROVE  Inv'
<1> USE TypeParts DEF Inv
<1>1. Ordered' /\ TypeAnswers'
  BY DEF Reap, Ordered, QuestionsInOrder, QuestionsNewer, CacheNewest, TypeAnswers, progVars, kernVars, histVars
<1>2. TypeCounts' /\ HandoversAskedFor' /\ StartsSpawned'
  BY MaxRequestsAssumption, MaxStartsAssumption, MaxResetsAssumption
     DEF TypeCounts, TypeEp0, Requests, NoRequest, StartsSpawned, HandoversAskedFor, Reap, progVars, kernVars, histVars
<1>3. TypeFlags'
  BY DEF TypeFlags, Reap, OnOutputDone, progVars, kernVars, histVars
<1>4. TypeEp0'
  BY DEF TypeEp0, Reap, progVars, kernVars, histVars
<1>5. TypeEndpoints'
  BY DEF TypeEndpoints, Reap, Done, OnOutputDone, progVars, kernVars, histVars
<1>6. BuffersAccountedFor'
  BY DEF TypeFlags, TypeEndpoints, BuffersAccountedFor, Reap, Done, OnOutputDone, progVars, kernVars, histVars
<1>7. PendingIsHeld' /\ Ep0LeftAlone' /\ AnswersTheRequest'
  BY DEF TypeFlags, TypeEp0, PendingIsHeld, Ep0LeftAlone, AnswersTheRequest, Reap, progVars, kernVars, histVars
<1> QED
  BY <1>1, <1>2, <1>3, <1>4, <1>5, <1>6, <1>7, TypeJoin

\* disable_gadget().
LEMMA DetachInv ==
    ASSUME Inv, NEW ok \in BOOLEAN, Detach(ok)
    PROVE  Inv'
<1> USE TypeParts DEF Inv
<1>1. Ordered' /\ TypeAnswers'
  BY DEF Detach, Ordered, QuestionsInOrder, QuestionsNewer, CacheNewest, TypeAnswers, progVars, kernVars, histVars
<1>2. TypeCounts' /\ HandoversAskedFor' /\ StartsSpawned'
  BY MaxRequestsAssumption, MaxStartsAssumption, MaxResetsAssumption
     DEF TypeCounts, TypeEp0, Requests, NoRequest, StartsSpawned, HandoversAskedFor, Detach, progVars, kernVars, histVars
<1>3. TypeFlags'
  BY DEF TypeFlags, Detach, progVars, kernVars, histVars
<1>4. TypeEp0'
  BY DEF TypeEp0, Detach, Interrupted, Cancelled, progVars, kernVars, histVars
<1>5. TypeEndpoints'
  BY DEF TypeEndpoints, Detach, Done, Flushed, progVars, kernVars, histVars
<1>6. BuffersAccountedFor'
  BY DEF TypeFlags, TypeEndpoints, BuffersAccountedFor, Detach, Done, Flushed, progVars, kernVars, histVars
<1>7. PendingIsHeld' /\ Ep0LeftAlone' /\ AnswersTheRequest'
  BY DEF TypeFlags, TypeEp0, PendingIsHeld, Ep0LeftAlone, AnswersTheRequest, Detach, Interrupted, Cancelled, progVars, kernVars, histVars
<1> QED
  BY <1>1, <1>2, <1>3, <1>4, <1>5, <1>6, <1>7, TypeJoin

\* The host selects the configuration.
LEMMA HostConfiguresInv ==
    ASSUME Inv, HostConfigures
    PROVE  Inv'
<1> USE TypeParts DEF Inv
<1>1. Ordered' /\ TypeAnswers'
  BY DEF HostConfigures, Ordered, QuestionsInOrder, QuestionsNewer, CacheNewest, TypeAnswers, progVars, kernVars, histVars
<1>2. TypeCounts' /\ HandoversAskedFor' /\ StartsSpawned'
  BY MaxRequestsAssumption, MaxStartsAssumption, MaxResetsAssumption
     DEF TypeCounts, TypeEp0, Requests, NoRequest, StartsSpawned, HandoversAskedFor, HostConfigures, progVars, kernVars, histVars
<1>3. TypeFlags'
  BY DEF TypeFlags, HostConfigures, CaughtUp, progVars, kernVars, histVars
<1>4. TypeEp0'
  BY DEF TypeEp0, HostConfigures, Interrupted, progVars, kernVars, histVars
<1>5. TypeEndpoints'
  BY DEF TypeEndpoints, HostConfigures, progVars, kernVars, histVars
<1>6. BuffersAccountedFor'
  BY DEF TypeFlags, TypeEndpoints, BuffersAccountedFor, HostConfigures, progVars, kernVars, histVars
<1>7. PendingIsHeld' /\ Ep0LeftAlone' /\ AnswersTheRequest'
  BY DEF TypeFlags, TypeEp0, PendingIsHeld, Ep0LeftAlone, AnswersTheRequest, HostConfigures, Interrupted, progVars, kernVars, histVars
<1> QED
  BY <1>1, <1>2, <1>3, <1>4, <1>5, <1>6, <1>7, TypeJoin

\* The host resets the device.
LEMMA HostResetsInv ==
    ASSUME Inv, HostResets
    PROVE  Inv'
<1> USE TypeParts DEF Inv
<1>1. Ordered' /\ TypeAnswers'
  BY DEF HostResets, Ordered, QuestionsInOrder, QuestionsNewer, CacheNewest, TypeAnswers, progVars, kernVars, histVars
<1>2. TypeCounts' /\ HandoversAskedFor' /\ StartsSpawned'
  BY MaxRequestsAssumption, MaxStartsAssumption, MaxResetsAssumption
     DEF TypeCounts, TypeEp0, Requests, NoRequest, StartsSpawned, HandoversAskedFor, HostResets, progVars, kernVars, histVars
<1>3. TypeFlags'
  BY DEF TypeFlags, HostResets, progVars, kernVars, histVars
<1>4. TypeEp0'
  BY DEF TypeEp0, HostResets, Interrupted, progVars, kernVars, histVars
<1>5. TypeEndpoints'
  BY DEF TypeEndpoints, HostResets, Done, Flushed, progVars, kernVars, histVars
<1>6. BuffersAccountedFor'
  BY DEF TypeFlags, TypeEndpoints, BuffersAccountedFor, HostResets, Done, Flushed, progVars, kernVars, histVars
<1>7. PendingIsHeld' /\ Ep0LeftAlone' /\ AnswersTheRequest'
  BY DEF TypeFlags, TypeEp0, PendingIsHeld, Ep0LeftAlone, AnswersTheRequest, HostResets, Interrupted, progVars, kernVars, histVars
<1> QED
  BY <1>1, <1>2, <1>3, <1>4, <1>5, <1>6, <1>7, TypeJoin

\* The kernel completes a request.
LEMMA KernelCompletesInv ==
    ASSUME Inv, KernelCompletes
    PROVE  Inv'
<1> USE TypeParts DEF Inv
<1>1. Ordered' /\ TypeAnswers'
  BY DEF KernelCompletes, Ordered, QuestionsInOrder, QuestionsNewer, CacheNewest, TypeAnswers, progVars, kernVars, histVars
<1>2. TypeCounts' /\ HandoversAskedFor' /\ StartsSpawned'
  BY MaxRequestsAssumption, MaxStartsAssumption, MaxResetsAssumption
     DEF TypeCounts, TypeEp0, Requests, NoRequest, StartsSpawned, HandoversAskedFor, KernelCompletes, progVars, kernVars, histVars
<1>3. TypeFlags'
  BY DEF TypeFlags, KernelCompletes, progVars, kernVars, histVars
<1>4. TypeEp0'
  BY DEF TypeEp0, KernelCompletes, progVars, kernVars, histVars
<1>5. TypeEndpoints'
  BY DEF TypeEndpoints, KernelCompletes, Done, HostPolls, progVars, kernVars, histVars
<1>6. BuffersAccountedFor'
  BY DEF TypeFlags, TypeEndpoints, BuffersAccountedFor, KernelCompletes, Done, HostPolls, progVars, kernVars, histVars
<1>7. PendingIsHeld' /\ Ep0LeftAlone' /\ AnswersTheRequest'
  BY DEF TypeFlags, TypeEp0, PendingIsHeld, Ep0LeftAlone, AnswersTheRequest, KernelCompletes, progVars, kernVars, histVars
<1> QED
  BY <1>1, <1>2, <1>3, <1>4, <1>5, <1>6, <1>7, TypeJoin

\* A control request arrives.
LEMMA HostSetupInv ==
    ASSUME Inv, NEW what \in Whats, HostSetup(what)
    PROVE  Inv'
<1> USE TypeParts DEF Inv
<1>1. Ordered' /\ TypeAnswers'
  BY DEF HostSetup, Ordered, QuestionsInOrder, QuestionsNewer, CacheNewest, TypeAnswers, progVars, kernVars, histVars
<1>2. TypeCounts' /\ HandoversAskedFor' /\ StartsSpawned'
  <2>1. /\ hostNo \in 0..MaxRequests /\ hostNo < MaxRequests /\ hostNo' = hostNo + 1
        /\ handovers \in 0..MaxRequests /\ handovers' = handovers
    BY DEF HostSetup, TypeCounts, progVars
  <2>2. handovers <= hostNo
    BY <2>1, MaxRequestsAssumption DEF HandoversAskedFor
  <2>3. HandoversAskedFor'
    BY <2>1, <2>2 DEF HandoversAskedFor
  <2>4. hostNo' \in 0..MaxRequests
    BY <2>1, MaxRequestsAssumption
  <2> QED
    BY <2>3, <2>4 DEF TypeCounts, StartsSpawned, HostSetup, progVars
<1>3. TypeFlags'
  BY DEF TypeFlags, HostSetup, progVars, kernVars, histVars
<1>4. TypeEp0'
  <2>1. hostNo + 1 \in 1..MaxRequests
    BY MaxRequestsAssumption DEF HostSetup, TypeCounts
  <2>2. setupEvent' \in Requests
    BY <2>1 DEF HostSetup, Requests
  <2> QED
    BY <2>2 DEF TypeEp0, HostSetup, Interrupted, progVars
<1>5. TypeEndpoints'
  BY DEF TypeEndpoints, HostSetup, progVars, kernVars, histVars
<1>6. BuffersAccountedFor'
  BY DEF TypeFlags, TypeEndpoints, BuffersAccountedFor, HostSetup, progVars, kernVars, histVars
<1>7. PendingIsHeld' /\ Ep0LeftAlone' /\ AnswersTheRequest'
  BY DEF TypeFlags, TypeEp0, PendingIsHeld, Ep0LeftAlone, AnswersTheRequest, HostSetup, Interrupted, Requests, NoRequest, progVars, kernVars, histVars
<1> QED
  BY <1>1, <1>2, <1>3, <1>4, <1>5, <1>6, <1>7, TypeJoin

-----------------------------------------------------------------------------
(* The actions that ask, answer and forget questions.                      *)

\* The order in which start_usb_gadget() asks for the fixed reports.
LEMMA OrdersAreSequences ==
    ASSUME NEW order \in Orders(Fixed), asks \in Nat
    PROVE  LET qs == [i \in DOMAIN order |-> [id |-> order[i], no |-> asks + i]]
           IN  qs \in Seq(Questions) /\ \A i \in 1..Len(qs) : qs[i].no = asks + i
<1> DEFINE n == Cardinality(Fixed)
           qs == [i \in DOMAIN order |-> [id |-> order[i], no |-> asks + i]]
<1>1. n \in Nat
  BY FixedAssumption, FS_CardinalityType
<1>2. order \in [1..n -> Fixed]
  BY DEF Orders
<1> HIDE DEF n
<1>3. DOMAIN qs = 1..n /\ \A i \in 1..n : qs[i] \in Questions /\ qs[i].no = asks + i
  BY <1>1, <1>2 DEF Questions, Ids
<1>4. qs \in [1..n -> Questions]
  BY <1>2, <1>3
<1> HIDE DEF qs
<1>5. qs \in Seq(Questions) /\ Len(qs) = n
  BY <1>1, <1>4, <1>3
<1> QED
  BY <1>3, <1>5 DEF qs

LEMMA PadChannelsUpInv ==
    ASSUME Inv, PadChannelsUp
    PROVE  Inv'
<1> USE TypeParts DEF Inv
<1>1. Ordered' /\ TypeAnswers'
  <2>1. PICK order \in Orders(Fixed) :
           AskPad([i \in DOMAIN order |-> [id |-> order[i], no |-> asks + i]])
    BY DEF PadChannelsUp
  <2> DEFINE qs == [i \in DOMAIN order |-> [id |-> order[i], no |-> asks + i]]
  <2>2. asks \in Nat
    BY DEF TypeAnswers
  <2>3. qs \in Seq(Questions) /\ \A i \in 1..Len(qs) : qs[i].no = asks + i
    BY <2>2, OrdersAreSequences
  <2>4. AskPad(qs)
    BY <2>1
  <2> HIDE DEF qs
  <2>5. UNCHANGED <<answers, served>>
    BY DEF PadChannelsUp, histVars
  <2>6. padQueue' \in Seq(Questions) /\ asks' \in Nat /\ Ordered'
    BY <2>3, <2>4, <2>5, AskPadOrdered
  <2> QED
    BY <2>5, <2>6 DEF TypeAnswers, Questions
<1>2. TypeCounts' /\ HandoversAskedFor' /\ StartsSpawned'
  BY MaxStartsAssumption DEF PadChannelsUp, TypeCounts, HandoversAskedFor, StartsSpawned
<1>3. TypeFlags' /\ TypeEp0' /\ TypeEndpoints'
  BY DEF PadChannelsUp, TypeFlags, TypeEp0, TypeEndpoints, histVars
<1>4. BuffersAccountedFor' /\ PendingIsHeld' /\ Ep0LeftAlone' /\ AnswersTheRequest'
  BY DEF PadChannelsUp, BuffersAccountedFor, PendingIsHeld, Ep0LeftAlone, AnswersTheRequest, histVars
<1> QED
  BY <1>1, <1>2, <1>3, <1>4, TypeJoin

\* A lost answer leaves the order of the others.
LEMMA PadAnswerLostInv ==
    ASSUME Inv, PadAnswerLost
    PROVE  Inv'
<1> USE TypeParts DEF Inv
<1>1. UNCHANGED <<answers, served, asks>>
  BY DEF PadAnswerLost, progVars, histVars
<1>2. Ordered' /\ TypeAnswers'
  <2>1. /\ padQueue' \in Seq(Questions) /\ QuestionsInOrder'
        /\ \A i \in 1..Len(padQueue') :
              padQueue'[i].no <= asks /\ \A id \in Ids : answers[id] < padQueue'[i].no
    BY <1>1, OldestTaken DEF PadAnswerLost
  <2> QED
    BY <1>1, <2>1 DEF Ordered, QuestionsNewer, CacheNewest, TypeAnswers, Questions
<1>3. TypeCounts' /\ TypeFlags' /\ TypeEp0' /\ TypeEndpoints'
  BY DEF PadAnswerLost, TypeCounts, TypeFlags, TypeEp0, TypeEndpoints, progVars, kernVars, histVars
<1>4. /\ HandoversAskedFor' /\ StartsSpawned'
      /\ BuffersAccountedFor' /\ PendingIsHeld' /\ Ep0LeftAlone' /\ AnswersTheRequest'
  BY DEF PadAnswerLost, BuffersAccountedFor, PendingIsHeld, Ep0LeftAlone, AnswersTheRequest,
         HandoversAskedFor, StartsSpawned, progVars, kernVars, histVars
<1> QED
  BY <1>2, <1>3, <1>4, TypeJoin

\* on_feature_report(): what is answered is newer than every answer before it,
\* and goes to the host only if it was asked for that report.
LEMMA OnFeatureReportInv ==
    ASSUME Inv, OnFeatureReport
    PROVE  Inv'
<1> USE TypeParts DEF Inv
<1> DEFINE q == Head(padQueue)
<1>1. /\ padQueue' \in Seq(Questions) /\ q \in Questions /\ QuestionsInOrder'
      /\ \A i \in 1..Len(padQueue') :
            /\ padQueue'[i].no \in Nat /\ padQueue'[i].no <= asks /\ q.no < padQueue'[i].no
            /\ \A id \in Ids : answers[id] < padQueue'[i].no
      /\ q.no <= asks
      /\ \A id \in Ids : answers[id] < q.no
  BY OldestTaken DEF OnFeatureReport
<1>2. /\ asks' = asks /\ answers' = [answers EXCEPT ![q.id] = q.no]
      /\ served' = served \/ (served' = [served EXCEPT ![q.id] = q.no])
      /\ wrong' = wrong
  <2>1. /\ asks' = asks /\ answers' = [answers EXCEPT ![q.id] = q.no]
        /\ served' = served \/ (served' = [served EXCEPT ![q.id] = q.no])
        /\ \/ wrong' = wrong
           \/ /\ setupState = "pending" /\ pending # NoRequest /\ pending.what = q.id
              /\ wrong' = (wrong \/ pending # inHand \/ q.id # inHand.what)
    BY DEF OnFeatureReport, ReplyGet, IsAwaited
  <2>2. wrong' = wrong
    BY <2>1 DEF PendingIsHeld, TypeFlags
  <2> QED
    BY <2>1, <2>2
<1>3. q.id \in Ids /\ q.no \in Nat /\ asks \in Nat
  BY <1>1 DEF Questions, TypeAnswers
<1>4. PendingIsHeld' /\ TypeEp0'
  BY DEF OnFeatureReport, ReplyGet, IsAwaited, Cancelled, PendingIsHeld, TypeEp0
<1> HIDE DEF q
<1>5. \A id \in Ids : /\ served[id] \in Nat /\ answers[id] \in Nat
                      /\ served[id] <= answers[id] /\ answers[id] <= asks
                      /\ answers'[id] = (IF id = q.id THEN q.no ELSE answers[id])
                      /\ \/ served'[id] = served[id]
                         \/ id = q.id /\ served'[id] = q.no
  BY <1>2, <1>3 DEF TypeAnswers, Ordered, CacheNewest
<1>6. TypeAnswers'
  BY <1>1, <1>2, <1>3 DEF TypeAnswers, Questions
<1>7. QuestionsNewer'
  BY <1>1, <1>2, <1>3, <1>5 DEF QuestionsNewer
<1>8. CacheNewest'
  <2> SUFFICES ASSUME NEW id \in Ids
               PROVE  served'[id] <= answers'[id] /\ answers'[id] <= asks
    BY <1>2 DEF CacheNewest
  <2>1. CASE id = q.id
    BY <1>1, <1>3, <1>5, <2>1
  <2>2. CASE id # q.id
    BY <1>5, <2>2
  <2> QED
    BY <2>1, <2>2
<1>9. TypeFlags' /\ AnswersTheRequest'
  BY <1>2 DEF OnFeatureReport, TypeFlags, AnswersTheRequest
<1>10. TypeCounts' /\ TypeEndpoints' /\ HandoversAskedFor' /\ StartsSpawned'
  BY DEF OnFeatureReport, TypeCounts, TypeEndpoints, HandoversAskedFor, StartsSpawned
<1>11. BuffersAccountedFor' /\ Ep0LeftAlone'
  BY DEF OnFeatureReport, BuffersAccountedFor, Ep0LeftAlone
<1> QED
  BY <1>1, <1>4, <1>6, <1>7, <1>8, <1>9, <1>10, <1>11, TypeJoin DEF Ordered

\* control_events() wakes from its wait: the request, if it is still there, is
\* the one that is replied to.
LEMMA WakeOnTimerInv ==
    ASSUME Inv, WakeOnTimer
    PROVE  Inv'
<1> USE TypeParts DEF Inv
<1>1. /\ UNCHANGED <<answers, asks, padQueue>>
      /\ \/ served' = served
         \/ pending # NoRequest /\ served' = [served EXCEPT ![pending.what] = answers[pending.what]]
      /\ wrong' = wrong
  <2>1. /\ UNCHANGED <<answers, asks, padQueue>>
        /\ \/ served' = served
           \/ pending # NoRequest /\ served' = [served EXCEPT ![pending.what] = answers[pending.what]]
        /\ \/ wrong' = wrong
           \/ /\ setupState = "pending" /\ pending # NoRequest
              /\ wrong' = (wrong \/ pending # inHand \/ pending.what # inHand.what)
    BY DEF WakeOnTimer, TimeUp, ReplyGet, Fallback
  <2>2. wrong' = wrong
    BY <2>1 DEF PendingIsHeld, TypeFlags
  <2> QED
    BY <2>1, <2>2
<1>2. \A id \in Ids : /\ served[id] \in Nat /\ answers[id] \in Nat
                      /\ served[id] <= answers[id] /\ answers[id] <= asks
                      /\ \/ served'[id] = served[id]
                         \/ served'[id] = answers[id]
  BY <1>1 DEF TypeAnswers, Ordered, CacheNewest
<1>3. served' \in [Ids -> Nat]
  <2>1. \A id \in Ids : served'[id] \in Nat
    BY <1>2
  <2>2. served \in [Ids -> Nat]
    BY DEF TypeAnswers
  <2> QED
    BY <1>1, <2>1, <2>2
<1>4. Ordered' /\ TypeAnswers'
  BY <1>1, <1>2, <1>3 DEF Ordered, QuestionsInOrder, QuestionsNewer, CacheNewest, TypeAnswers
<1>5. PendingIsHeld' /\ TypeEp0'
  BY DEF WakeOnTimer, TimeUp, ReplyGet, PendingIsHeld, TypeEp0
<1>6. TypeFlags' /\ AnswersTheRequest'
  BY <1>1 DEF WakeOnTimer, TypeFlags, AnswersTheRequest
<1>7. TypeCounts' /\ TypeEndpoints' /\ HandoversAskedFor' /\ StartsSpawned'
  BY DEF WakeOnTimer, TypeCounts, TypeEndpoints, HandoversAskedFor, StartsSpawned
<1>8. BuffersAccountedFor' /\ Ep0LeftAlone'
  BY DEF WakeOnTimer, BuffersAccountedFor, Ep0LeftAlone
<1> QED
  BY <1>4, <1>5, <1>6, <1>7, <1>8, TypeJoin

\* handle_setup(): what the request read from ep0 does to the questions, the
\* answers and the detaches.
LEMMA HandleSetupKeeps ==
    ASSUME Inv, NEW handover \in BOOLEAN, HandleSetup(setupEvent, handover),
           setupEvent' = NoRequest, UNCHANGED <<answers, hostNo>>
    PROVE  /\ Ordered' /\ TypeAnswers'
           /\ handovers' \in 0..MaxRequests /\ HandoversAskedFor'
           /\ pending' \in Requests \cup {NoRequest} /\ timer' \in {timer, "running"}
           /\ \/ setupState' = "none" /\ pending' = pending
              \/ setupState' = "pending" /\ pending' # NoRequest /\ pending' = setupEvent
<1> USE TypeParts DEF Inv
<1> DEFINE r == setupEvent
<1>1. /\ answers \in [Ids -> Nat] /\ served \in [Ids -> Nat] /\ asks \in Nat
      /\ padQueue \in Seq(Questions)
  BY DEF TypeAnswers, Questions
<1>2. /\ r \in Requests \cup {NoRequest} /\ pending \in Requests \cup {NoRequest}
      /\ r # NoRequest => r \in Requests /\ r.what \in Whats
  BY DEF TypeEp0, Requests
<1>3. /\ handovers \in 0..MaxRequests /\ hostNo \in 0..MaxRequests
      /\ r # NoRequest => handovers + 1 <= hostNo
      /\ r = NoRequest => handovers <= hostNo
  BY DEF TypeCounts, HandoversAskedFor
<1>4. r.what = "pair" \/ r.what = "other" => r.what \notin Ids
  BY IdsAssumption DEF Ids
<1>5. \/ /\ setupState' = "none" /\ UNCHANGED <<pending, timer, padQueue, asks>>
         /\ served' = served
         /\ handovers' = handovers
      \/ /\ setupState' = "none" /\ UNCHANGED <<pending, timer, padQueue, asks>>
         /\ r # NoRequest /\ r.what \in Ids
         /\ served' \in {served, [served EXCEPT ![r.what] = answers[r.what]]}
         /\ handovers' = handovers
      \/ /\ setupState' = "none" /\ UNCHANGED <<pending, timer, padQueue, asks>>
         /\ r # NoRequest /\ served' = served
         /\ handovers' = handovers + DetachesSpawned(handover)
      \/ /\ setupState' = "pending" /\ pending' = r /\ timer' = "running"
         /\ r # NoRequest /\ r.what \in Ids
         /\ AskPad(<<[id |-> r.what, no |-> asks + 1]>>)
         /\ UNCHANGED <<served, handovers>>
  <2>1. CASE r = NoRequest
    BY <2>1 DEF HandleSetup
  <2>2. CASE r # NoRequest /\ r.what \in Fixed /\ answers[r.what] # 0
    BY <1>4, <2>2 DEF HandleSetup, Ids
  <2>3. CASE r # NoRequest /\ r.what \in Ids /\ ~(r.what \in Fixed /\ answers[r.what] # 0)
    BY <1>4, <2>3 DEF HandleSetup, Ids
  <2>4. CASE r # NoRequest /\ r.what = "pair"
    BY <1>4, <2>4 DEF HandleSetup, Ids
  <2>5. CASE r # NoRequest /\ r.what = "other"
    BY <1>4, <2>5 DEF HandleSetup, Ids
  <2> QED
    BY <1>2, <2>1, <2>2, <2>3, <2>4, <2>5 DEF Whats
<1> HIDE DEF r
<1>6. handovers' \in 0..MaxRequests /\ handovers' <= hostNo
  BY <1>3, <1>5, MaxRequestsAssumption DEF DetachesSpawned
<1>7. HandoversAskedFor'
  <2>1. hostNo' = hostNo /\ setupEvent' = NoRequest
    OBVIOUS
  <2>2. handovers' + 0 <= hostNo'
    BY <1>6, <2>1
  <2> QED
    BY <2>1, <2>2 DEF HandoversAskedFor, NoRequest
<1>8. CASE /\ setupState' = "none" /\ UNCHANGED <<pending, timer, padQueue, asks>>
           /\ served' = served \/ (r.what \in Ids /\ served' = [served EXCEPT ![r.what] = answers[r.what]])
  <2>1. served' \in [Ids -> Nat]
    BY <1>1, <1>8 DEF TypeAnswers
  <2>2. \A id \in Ids : /\ served[id] \in Nat /\ answers[id] \in Nat
                        /\ served[id] <= answers[id] /\ answers[id] <= asks
                        /\ served'[id] = served[id] \/ served'[id] = answers[id]
    BY <1>1, <1>8 DEF Ordered, CacheNewest
  <2>3. Ordered' /\ TypeAnswers'
    <3>1. QuestionsInOrder' /\ QuestionsNewer'
      BY <1>8 DEF Ordered, QuestionsInOrder, QuestionsNewer
    <3>2. CacheNewest'
      BY <1>8, <2>2 DEF CacheNewest
    <3> QED
      BY <1>1, <1>8, <2>1, <3>1, <3>2 DEF Ordered, TypeAnswers, Questions
  <2> QED
    BY <1>2, <1>6, <1>7, <1>8, <2>3
<1>9. CASE /\ setupState' = "pending" /\ pending' = r /\ timer' = "running"
           /\ r # NoRequest /\ r.what \in Ids
           /\ AskPad(<<[id |-> r.what, no |-> asks + 1]>>)
           /\ served' = served
  <2> DEFINE qs == <<[id |-> r.what, no |-> asks + 1]>>
  <2>1. qs \in Seq(Questions) /\ Len(qs) = 1 /\ qs[1].no = asks + 1
    BY <1>1, <1>9 DEF Questions
  <2>2. AskPad(qs)
    BY <1>9
  <2> HIDE DEF qs
  <2>3. \A i \in 1..Len(qs) : qs[i].no = asks + i
    BY <2>1
  <2>4. padQueue' \in Seq(Questions) /\ asks' \in Nat /\ Ordered'
    BY <1>9, <2>1, <2>2, <2>3, AskPadOrdered
  <2>5. TypeAnswers'
    BY <1>1, <1>9, <2>4 DEF TypeAnswers, Questions
  <2> QED
    BY <1>2, <1>6, <1>7, <1>9, <2>4, <2>5 DEF r
<1> QED
  BY <1>5, <1>8, <1>9

\* The control loop reads ep0 only when no request is waiting there for the pad.
LEMMA ReadEp0Inv ==
    ASSUME Inv, NEW handover \in BOOLEAN, NEW fails \in BOOLEAN, ReadEp0(handover, fails)
    PROVE  Inv'
<1> USE TypeParts DEF Inv
<1>1. /\ Ordered' /\ TypeAnswers'
      /\ handovers' \in 0..MaxRequests /\ HandoversAskedFor'
      /\ pending' \in Requests \cup {NoRequest} /\ timer' \in {timer, "running"}
      /\ \/ setupState' = "none" /\ pending' = pending
         \/ setupState' = "pending" /\ pending' # NoRequest /\ pending' = setupEvent
  <2>1. HandleSetup(setupEvent, handover) /\ setupEvent' = NoRequest /\ UNCHANGED <<answers, hostNo>>
    BY DEF ReadEp0
  <2> QED
    BY <2>1, HandleSetupKeeps
<1>2. TypeCounts' /\ StartsSpawned'
  BY <1>1 DEF ReadEp0, TypeCounts, StartsSpawned
<1>3. TypeEp0' /\ PendingIsHeld'
  BY <1>1 DEF ReadEp0, TypeEp0, PendingIsHeld
<1>4. TypeEndpoints' /\ BuffersAccountedFor' /\ TypeFlags'
  <2>1. /\ kIn' = kIn /\ inBusy' = inBusy
        /\ enabled' = (stateEvent = "ENABLE" \/ (enabled /\ stateEvent = "none"))
        /\ \/ kOut' = kOut /\ outBusy' = outBusy
           \/ kOut' \in {"queued", "error"} /\ outBusy' = TRUE
    BY DEF ReadEp0, OnStateEvent, SubmitOutputRead
  <2>2. TypeEndpoints'
    BY <2>1 DEF TypeEndpoints, Done
  <2>3. BuffersAccountedFor'
    BY <2>1 DEF TypeFlags, BuffersAccountedFor
  <2> QED
    BY <2>1, <2>2, <2>3 DEF ReadEp0, TypeFlags
<1>5. Ep0LeftAlone' /\ AnswersTheRequest'
  BY DEF ReadEp0, FreeToRead, PendingIsHeld, Ep0LeftAlone, AnswersTheRequest, TypeFlags
<1> QED
  BY <1>1, <1>2, <1>3, <1>4, <1>5, TypeJoin

-----------------------------------------------------------------------------
(* The results.                                                            *)

LEMMA InvInit == Init => Inv
<1> SUFFICES ASSUME Init PROVE Inv
  OBVIOUS
<1>1. TypeCounts /\ HandoversAskedFor /\ StartsSpawned
  BY MaxRequestsAssumption, MaxStartsAssumption, MaxResetsAssumption
     DEF Init, TypeCounts, HandoversAskedFor, StartsSpawned
<1>2. TypeFlags /\ TypeEp0 /\ TypeEndpoints
  BY DEF Init, TypeFlags, TypeEp0, TypeEndpoints
<1>3. TypeAnswers /\ Ordered
  BY DEF Init, TypeAnswers, Ordered, QuestionsInOrder, QuestionsNewer, CacheNewest
<1>4. BuffersAccountedFor /\ PendingIsHeld /\ Ep0LeftAlone /\ AnswersTheRequest
  BY DEF Init, BuffersAccountedFor, PendingIsHeld, Ep0LeftAlone, AnswersTheRequest
<1> QED
  BY <1>1, <1>2, <1>3, <1>4, TypeParts DEF Inv

LEMMA InvNext == Inv /\ [Next]_vars => Inv'
<1> SUFFICES ASSUME Inv, [Next]_vars PROVE Inv'
  OBVIOUS
<1>0. \A fails \in SubmitFails : fails \in BOOLEAN
  BY SubmitFailsAssumption
<1>1. CASE PadChannelsUp
  BY <1>1, PadChannelsUpInv
<1>2. CASE \E ok \in BOOLEAN : StartGadget(ok) \/ Detach(ok)
  BY <1>2, StartGadgetInv, DetachInv
<1>3. CASE \E handover \in BOOLEAN, fails \in SubmitFails : ReadEp0(handover, fails)
  BY <1>0, <1>3, ReadEp0Inv
<1>4. CASE TimerExpires \/ WakeOnTimer \/ OnFeatureReport \/ PadAnswerLost
  BY <1>4, TimerExpiresInv, WakeOnTimerInv, OnFeatureReportInv, PadAnswerLostInv
<1>5. CASE \E fails \in SubmitFails : SendInput(fails) \/ Reap(fails)
  BY <1>0, <1>5, SendInputInv, ReapInv
<1>6. CASE HostConfigures \/ HostResets \/ KernelCompletes
  BY <1>6, HostConfiguresInv, HostResetsInv, KernelCompletesInv
<1>7. CASE \E what \in Whats : HostSetup(what)
  BY <1>7, HostSetupInv
<1>8. CASE UNCHANGED vars
  <2> USE <1>8, TypeParts DEF Inv, vars
  <2>1. TypeCounts' /\ TypeFlags' /\ HandoversAskedFor' /\ StartsSpawned'
    BY DEF TypeCounts, TypeFlags, HandoversAskedFor, StartsSpawned, progVars, kernVars, histVars
  <2>2. TypeEp0' /\ TypeEndpoints' /\ TypeAnswers'
    BY DEF TypeEp0, TypeEndpoints, TypeAnswers, progVars, kernVars, histVars
  <2>3. Ordered'
    BY DEF Ordered, QuestionsInOrder, QuestionsNewer, CacheNewest, progVars, histVars
  <2>4. BuffersAccountedFor' /\ PendingIsHeld' /\ Ep0LeftAlone' /\ AnswersTheRequest'
    BY DEF BuffersAccountedFor, PendingIsHeld, Ep0LeftAlone, AnswersTheRequest, progVars, kernVars, histVars
  <2> QED
    BY <2>1, <2>2, <2>3, <2>4, TypeJoin
<1> QED
  BY <1>1, <1>2, <1>3, <1>4, <1>5, <1>6, <1>7, <1>8 DEF Next

LEMMA SpecInv == Spec => []Inv
BY InvInit, InvNext, PTL DEF Spec

\* Every variable of the USB side keeps the type its declaration gives it.
THEOREM TypeCorrect == Spec => []TypeOK
<1>1. Inv => TypeOK
  BY DEF Inv
<1> QED
  BY <1>1, SpecInv, PTL

\* in_busy_ and out_busy_ say exactly whether the kernel has the buffer, in
\* whatever order submissions, completions, resets and the detach come.
THEOREM BuffersAlwaysAccountedFor == Spec => []BuffersAccountedFor
<1>1. Inv => BuffersAccountedFor
  BY DEF Inv
<1> QED
  BY <1>1, SpecInv, PTL

\* control_events() never reads ep0 under a GET_REPORT that waits for the pad,
\* so it never stalls one.
THEOREM Ep0AlwaysLeftAlone == Spec => []Ep0LeftAlone
<1>1. Inv => Ep0LeftAlone
  BY DEF Inv
<1> QED
  BY <1>1, SpecInv, PTL

\* A GET_REPORT's answer goes to the request it was fetched for: what is written
\* to ep0 meets the request pending_get_ was stored for, or none, whatever the
\* host, the pad and the detach did meanwhile.
THEOREM AlwaysAnswersTheRequest == Spec => []AnswersTheRequest
<1>1. Inv => AnswersTheRequest
  BY DEF Inv
<1> QED
  BY <1>1, SpecInv, PTL

\* What a step gives the host for a report is no older than what it had: the
\* pad answers in the order it was asked, and answers_ is never behind.
LEMMA ServedNewer ==
    ASSUME Inv, [Next]_vars
    PROVE  \A id \in Ids : served'[id] >= served[id]
<1> USE TypeParts DEF Inv
<1>1. \A id \in Ids : /\ served[id] \in Nat /\ answers[id] \in Nat
                      /\ served[id] <= answers[id]
  BY DEF TypeAnswers, Ordered, CacheNewest
<1>2. CASE served' = served
  BY <1>1, <1>2
<1>3. CASE WakeOnTimer
  <2>1. \/ served' = served
        \/ served' = [served EXCEPT ![pending.what] = answers[pending.what]]
    BY <1>3 DEF WakeOnTimer, TimeUp, ReplyGet, Fallback
  <2>2. \A id \in Ids : served'[id] = served[id] \/ served'[id] = answers[id]
    BY <2>1 DEF TypeAnswers
  <2> QED
    BY <1>1, <2>2
<1>4. CASE OnFeatureReport
  <2> DEFINE q == Head(padQueue)
  <2>1. served' = served \/ served' = [served EXCEPT ![q.id] = q.no]
    BY <1>4 DEF OnFeatureReport, ReplyGet
  <2>2. q \in Questions /\ \A id \in Ids : answers[id] < q.no
    BY <1>4, OldestTaken DEF OnFeatureReport
  <2>3. q.no \in Nat /\ \A id \in Ids : answers[id] < q.no
    BY <2>2 DEF Questions
  <2> HIDE DEF q
  <2>4. \A id \in Ids : served'[id] = served[id] \/ served'[id] = q.no
    BY <2>1 DEF TypeAnswers
  <2> QED
    BY <1>1, <2>3, <2>4
<1>5. ASSUME NEW handover \in BOOLEAN, NEW fails \in SubmitFails, ReadEp0(handover, fails)
      PROVE  \A id \in Ids : served'[id] >= served[id]
  <2> DEFINE r == setupEvent
  <2>1. HandleSetup(r, handover) /\ (r # NoRequest => r.what \in Whats)
    BY <1>5 DEF ReadEp0, TypeEp0, Requests
  <2>2. r.what = "pair" \/ r.what = "other" => r.what \notin Ids
    BY IdsAssumption DEF Ids
  <2>3. served' = served \/ served' = [served EXCEPT ![r.what] = answers[r.what]]
    <3>1. CASE r = NoRequest
      BY <2>1, <3>1 DEF HandleSetup
    <3>2. CASE r # NoRequest /\ r.what \in Fixed /\ answers[r.what] # 0
      BY <2>1, <2>2, <3>2 DEF HandleSetup, Ids
    <3>3. CASE r # NoRequest /\ r.what \in Ids /\ ~(r.what \in Fixed /\ answers[r.what] # 0)
      BY <2>1, <2>2, <3>3 DEF HandleSetup, Ids
    <3>4. CASE r # NoRequest /\ r.what = "pair"
      BY <2>1, <2>2, <3>4 DEF HandleSetup, Ids
    <3>5. CASE r # NoRequest /\ r.what = "other"
      BY <2>1, <2>2, <3>5 DEF HandleSetup, Ids
    <3> QED
      BY <2>1, <3>1, <3>2, <3>3, <3>4, <3>5 DEF Whats
  <2> HIDE DEF r
  <2>4. \A id \in Ids : served'[id] = served[id] \/ served'[id] = answers[id]
    BY <2>3 DEF TypeAnswers
  <2> QED
    BY <1>1, <2>4
<1>6. CASE PadChannelsUp \/ TimerExpires \/ PadAnswerLost
  BY <1>1, <1>6 DEF PadChannelsUp, TimerExpires, PadAnswerLost, histVars
<1>7. CASE \E ok \in BOOLEAN : StartGadget(ok) \/ Detach(ok)
  BY <1>1, <1>7 DEF StartGadget, Detach, histVars
<1>8. CASE \E fails \in SubmitFails : SendInput(fails) \/ Reap(fails)
  BY <1>1, <1>8 DEF SendInput, Reap, histVars
<1>9. CASE \/ HostConfigures \/ HostResets \/ KernelCompletes
           \/ \E what \in Whats : HostSetup(what)
  BY <1>1, <1>9 DEF HostConfigures, HostResets, KernelCompletes, HostSetup, histVars
<1>10. CASE UNCHANGED vars
  BY <1>1, <1>10 DEF vars, histVars
<1> QED
  BY <1>2, <1>3, <1>4, <1>5, <1>6, <1>7, <1>8, <1>9, <1>10 DEF Next

\* For no report does the host get an older answer after a newer one, be it from
\* the pad, from answers_ or after the time is up.
THEOREM AlwaysNewer == Spec => AnswersOnlyNewer
<1>1. Inv /\ [Next]_vars => [\A id \in Ids : served'[id] >= served[id]]_vars
  BY ServedNewer
<1> QED
  BY <1>1, SpecInv, PTL DEF Spec, AnswersOnlyNewer

=============================================================================
