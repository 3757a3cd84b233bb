------------------------ MODULE HciCommandQueueProofs ------------------------
(***************************************************************************)
(* Theorems about HciCommandQueue, for any number of commands and any      *)
(* timeout: types, order, no command lost to a reset, and - for a          *)
(* controller that takes one command at a time - no overrun.               *)
(***************************************************************************)
EXTENDS HciCommandQueue, FiniteSetTheorems, SequenceTheorems, TLAPS

USE RoomAssumption, MinAllowanceAssumption, TimeoutAssumption, MaxCommandsAssumption

-----------------------------------------------------------------------------
(* What a pump can do.                                                     *)

\* Sets of positions and of commands are finite.
LEMMA FinitePositions ==
    ASSUME NEW n \in Nat, NEW S \in SUBSET (1..n)
    PROVE  /\ IsFiniteSet(S) /\ Cardinality(S) \in Nat
           /\ Cardinality(S) = 0 <=> S = {}
<1>1. IsFiniteSet(1..n)
  BY FS_Interval
<1>2. IsFiniteSet(S)
  BY <1>1, FS_Subset
<1>. QED
  BY <1>2, FS_CardinalityType, FS_EmptySet

\* An outcome of a pump: positions of the queue, no more than the allowance,
\* none at all while the queue is held or the allowance is spent.
LEMMA OutcomeFacts ==
    ASSUME NEW q \in Seq(Ids), NEW c \in 0..Room, NEW h \in BOOLEAN,
           NEW o \in PumpOutcomes(q, c, h)
    PROVE  /\ o.left \in 0..Len(q)
           /\ o.out \subseteq 1..o.left
           /\ o.out \subseteq 1..Len(q)
           /\ Cardinality(o.out) \in 0..c
           /\ (h \/ c = 0) => o.out = {}
<1>0. Len(q) \in Nat
  OBVIOUS
<1>1. CASE h \/ c = 0
  <2>1. o = [left |-> 0, out |-> {}]
    BY <1>1 DEF PumpOutcomes
  <2>. QED
    BY <1>0, <2>1, FS_EmptySet
<1>2. CASE ~(h \/ c = 0)
  <2>1. /\ o \in [left : 0..Len(q), out : SUBSET (1..Len(q))]
        /\ o.out \subseteq 1..o.left
        /\ \/ o.left = Len(q) /\ Cardinality(o.out) < c
           \/ o.left \in o.out /\ Cardinality(o.out) = c
    BY <1>2 DEF PumpOutcomes
  <2>2. Cardinality(o.out) \in Nat
    BY <1>0, <2>1, FinitePositions
  <2>. QED
    BY <1>0, <1>2, <2>1, <2>2
<1>. QED
  BY <1>1, <1>2

\* The part of TypeOK that is about what a pump changes.
PumpVarsOK ==
    /\ queue \in Seq(Ids) /\ credits \in 0..Room
    /\ awaiting \in BOOLEAN /\ age \in 0..Timeout + 1
    /\ inside \subseteq Ids /\ written \subseteq Ids /\ lostToReset \subseteq Ids

\* A pump keeps the types, removes a prefix of the queue and writes some of it.
LEMMA PumpFacts ==
    ASSUME TypeOK,
           NEW q \in Seq(Ids), NEW c \in 0..Room, NEW h \in BOOLEAN,
           NEW waiting \in BOOLEAN, NEW busy \in BOOLEAN,
           Pump(q, c, h, waiting, inside, busy)
    PROVE  /\ PumpVarsOK'
           /\ credits' <= c
           /\ (h \/ c = 0) => /\ credits' = c /\ inside' = inside
                              /\ written' = written /\ lostToReset' = lostToReset
           /\ ~busy => lostToReset' = lostToReset
           /\ \E left \in 0..Len(q) :
                /\ queue' = SubSeq(q, left + 1, Len(q))
                /\ \A w \in written' : w \in written \/ \E i \in 1..left : w = q[i]
<1>1. PICK o \in PumpOutcomes(q, c, h) :
        LET sent == {q[i] : i \in o.out}
        IN  /\ queue' = SubSeq(q, o.left + 1, Len(q))
            /\ credits' = c - Cardinality(o.out)
            /\ awaiting' = (waiting \/ o.out # {})
            /\ age' = IF o.out # {} THEN 0 ELSE age
            /\ inside' = IF busy THEN inside ELSE inside \cup sent
            /\ lostToReset' = IF busy THEN lostToReset \cup sent ELSE lostToReset
            /\ written' = written \cup sent
  BY DEF Pump
<1>2. /\ o.left \in 0..Len(q)
      /\ o.out \subseteq 1..o.left
      /\ o.out \subseteq 1..Len(q)
      /\ Cardinality(o.out) \in 0..c
      /\ (h \/ c = 0) => o.out = {}
  BY OutcomeFacts
<1>3. {q[i] : i \in o.out} \subseteq Ids
  BY <1>2
<1>4. queue' \in Seq(Ids)
  <2>1. Len(q) \in Nat
    OBVIOUS
  <2>. QED
    BY <1>1, <1>2, <2>1, SubSeqProperties
<1>5. credits' \in 0..Room /\ credits' <= c
  BY <1>1, <1>2
<1>6. awaiting' \in BOOLEAN
  BY <1>1
<1>7. age' \in 0..Timeout + 1
  BY <1>1 DEF TypeOK
<1>8. inside' \subseteq Ids /\ written' \subseteq Ids /\ lostToReset' \subseteq Ids
  BY <1>1, <1>3 DEF TypeOK
<1>9. ASSUME h \/ c = 0
      PROVE  /\ credits' = c /\ inside' = inside
             /\ written' = written /\ lostToReset' = lostToReset
  <2>1. o.out = {}
    BY <1>2, <1>9
  <2>2. Cardinality(o.out) = 0 /\ {q[i] : i \in o.out} = {}
    BY <2>1, FS_EmptySet
  <2>3. credits' = c
    BY <1>1, <2>2
  <2>4. \A S : S \cup {q[i] : i \in o.out} = S
    BY <2>2
  <2>. QED
    BY <1>1, <2>3, <2>4
<1>10. ~busy => lostToReset' = lostToReset
  BY <1>1
<1>11. \A w \in written' : w \in written \/ \E i \in 1..o.left : w = q[i]
  BY <1>1, <1>2
<1>12. \E left \in 0..Len(q) :
         /\ queue' = SubSeq(q, left + 1, Len(q))
         /\ \A w \in written' : w \in written \/ \E i \in 1..left : w = q[i]
  BY <1>1, <1>2, <1>11
<1>13. PumpVarsOK'
  BY <1>4, <1>5, <1>6, <1>7, <1>8 DEF PumpVarsOK
<1>. QED
  BY <1>5, <1>9, <1>10, <1>12, <1>13

-----------------------------------------------------------------------------
(* Types.                                                                  *)

\* The allowance an answer carries is a number of commands the controller holds.
LEMMA AllowanceType ==
    ASSUME NEW T \in SUBSET Ids
    PROVE  /\ Cardinality(T) \in Nat
           /\ Allowances(T) \subseteq 0..Room
<1>1. Cardinality(T) \in Nat
  BY FinitePositions DEF Ids
<1>. QED
  BY <1>1 DEF Allowances

\* Every step keeps the types.
LEMMA TypeStep == TypeOK /\ [Next]_vars => TypeOK'
<1>. SUFFICES ASSUME TypeOK, [Next]_vars
              PROVE  TypeOK'
  OBVIOUS
<1>0. /\ queue \in Seq(Ids) /\ credits \in 0..Room /\ held \in BOOLEAN
      /\ awaiting \in BOOLEAN /\ resetting \in BOOLEAN /\ 1 \in 0..Room
      /\ FALSE \in BOOLEAN
  BY DEF TypeOK
<1>1. CASE SendCmd
  <2>1. pushed + 1 \in Ids
    BY <1>1 DEF SendCmd, TypeOK, Ids
  <2>2. Append(queue, pushed + 1) \in Seq(Ids)
    BY <1>0, <2>1, AppendProperties
  <2>3. PumpVarsOK'
    <3>1. Pump(Append(queue, pushed + 1), credits, held, awaiting, inside, resetting)
      BY <1>1 DEF SendCmd
    <3>. QED
      BY <1>0, <2>2, <3>1, PumpFacts
  <2>. QED
    BY <1>1, <2>3 DEF SendCmd, TypeOK, PumpVarsOK
<1>2. CASE StartReset
  BY <1>2 DEF StartReset, TypeOK, histVars
<1>3. CASE ResetWriteFails
  <2>1. PumpVarsOK'
    BY <1>0, <1>3, PumpFacts DEF ResetWriteFails
  <2>. QED
    BY <1>3, <2>1 DEF ResetWriteFails, TypeOK, PumpVarsOK
<1>4. CASE DiscardDuringReset
  BY <1>4 DEF DiscardDuringReset, TypeOK, hostVars, histVars
<1>5. ASSUME events # <<>>
      PROVE  Tail(events) \in Seq(Event) /\ Head(events).ncmd \in 0..Room
  <2>1. Head(events) \in Event /\ Tail(events) \in Seq(Event)
    BY <1>5, HeadTailProperties DEF TypeOK
  <2>. QED
    BY <2>1 DEF Event
<1>6. CASE ResetConfirmed
  <2>1. PumpVarsOK'
    BY <1>0, <1>5, <1>6, PumpFacts DEF ResetConfirmed
  <2>. QED
    BY <1>5, <1>6, <2>1 DEF ResetConfirmed, TypeOK, PumpVarsOK
<1>7. CASE ResetTimesOut
  <2>1. PumpVarsOK'
    BY <1>0, <1>7, PumpFacts DEF ResetTimesOut
  <2>. QED
    BY <1>7, <2>1 DEF ResetTimesOut, TypeOK, PumpVarsOK
<1>8. CASE Answered
  <2>1. PumpVarsOK'
    BY <1>0, <1>5, <1>8, PumpFacts DEF Answered
  <2>. QED
    BY <1>5, <1>8, <2>1 DEF Answered, TypeOK, PumpVarsOK
<1>9. CASE GiveUp
  <2>1. PumpVarsOK'
    BY <1>0, <1>9, PumpFacts DEF GiveUp
  <2>2. early' \in BOOLEAN
    BY <1>9 DEF GiveUp, TypeOK
  <2>. QED
    BY <1>9, <2>1, <2>2 DEF GiveUp, TypeOK, PumpVarsOK
<1>10. CASE Tick
  BY <1>10 DEF Tick, TypeOK, ctrlVars, histVars
<1>11. ASSUME NEW id \in Ids, ControllerAnswers(id)
       PROVE  TypeOK'
  <2>1. inside' \subseteq Ids
    BY <1>11 DEF ControllerAnswers, TypeOK
  <2>2. Allowances(inside') \subseteq 0..Room
    BY <2>1, AllowanceType
  <2>3. PICK n \in Allowances(inside') :
          /\ events' = Append(events, [ncmd |-> n, reset |-> FALSE])
          /\ owes' = (n = 0 /\ Cardinality(inside') < Room)
    BY <1>11 DEF ControllerAnswers
  <2>4. [ncmd |-> n, reset |-> FALSE] \in Event
    BY <2>2, <2>3 DEF Event
  <2>5. events' \in Seq(Event)
    BY <2>3, <2>4, AppendProperties DEF TypeOK
  <2>6. owes' \in BOOLEAN
    BY <2>3
  <2>. QED
    BY <1>11, <2>1, <2>5, <2>6 DEF ControllerAnswers, TypeOK, hostVars, histVars
<1>12. ASSUME NEW id \in Ids, ControllerLoses(id)
       PROVE  TypeOK'
  BY <1>12 DEF ControllerLoses, TypeOK, hostVars, histVars
<1>13. CASE ControllerNoOp
  <2>1. Cardinality(inside) \in Nat
    BY AllowanceType DEF TypeOK
  <2>2. events' \in Seq(Event)
    BY <1>13, <2>1 DEF ControllerNoOp, TypeOK, Event
  <2>. QED
    BY <1>13, <2>2 DEF ControllerNoOp, TypeOK, hostVars, histVars
<1>14. CASE ControllerResets
  <2>1. Allowances({}) \subseteq 0..Room
    BY AllowanceType
  <2>2. events' \in Seq(Event) /\ owes' \in BOOLEAN
    BY <1>14, <2>1 DEF ControllerResets, TypeOK, Event
  <2>. QED
    BY <1>14, <2>2 DEF ControllerResets, TypeOK, hostVars, histVars
<1>15. CASE UNCHANGED vars
  BY <1>15 DEF vars, hostVars, ctrlVars, histVars, TypeOK
<1>. QED
  BY <1>1, <1>2, <1>3, <1>4, <1>6, <1>7, <1>8, <1>9, <1>10, <1>11, <1>12, <1>13, <1>14, <1>15
     DEF Next, Host, Controller

\* Every variable keeps its type, whatever the number of commands: in
\* particular credits_ never wraps below zero.
THEOREM TypeCorrect == Spec => []TypeOK
<1>1. Init => TypeOK
  <2>. SUFFICES ASSUME Init PROVE TypeOK
    OBVIOUS
  <2>1. [ncmd |-> 1, reset |-> FALSE] \in Event
    BY DEF Event
  <2>2. <<[ncmd |-> 1, reset |-> FALSE]>> \in Seq(Event)
    BY <2>1
  <2>3. queue = <<>> /\ (events = <<>> \/ events = <<[ncmd |-> 1, reset |-> FALSE]>>)
    BY DEF Init
  <2>4. queue \in Seq(Ids) /\ events \in Seq(Event)
    BY <2>2, <2>3, EmptySeq
  <2>5. /\ credits = 1 /\ held = FALSE /\ awaiting = FALSE /\ age = 0
        /\ phase = "starting" /\ resetAge = 0 /\ pushed = 0
        /\ inside = {} /\ resetting = FALSE /\ owes = FALSE
        /\ written = {} /\ lostToReset = {} /\ early = FALSE /\ abandoned = FALSE
    BY DEF Init
  <2>6. /\ credits \in 0..Room /\ pushed \in 0..MaxCommands
        /\ age \in 0..Timeout + 1 /\ resetAge \in 0..Timeout + 1
    BY <2>5
  <2>. QED
    BY <2>4, <2>5, <2>6, Zenon DEF TypeOK
<1>. QED
  BY <1>1, TypeStep, PTL DEF Spec

-----------------------------------------------------------------------------
(* Order.                                                                  *)

\* A queue q in order, and newer than everything written.
Sorted(q) ==
    /\ \A i \in 1..Len(q), w \in written : w < q[i]
    /\ \A i, j \in 1..Len(q) : i < j => q[i] < q[j]

\* InOrder is not inductive alone: a push keeps the order only because nothing
\* queued or written is newer than the last command pushed.
OrderInv ==
    /\ InOrder
    /\ \A i \in 1..Len(queue) : queue[i] <= pushed
    /\ \A w \in written : w <= pushed

\* A pump of an ordered queue leaves an ordered queue, with nothing new in it.
LEMMA PumpKeepsOrder ==
    ASSUME TypeOK,
           NEW q \in Seq(Ids), NEW c \in 0..Room, NEW h \in BOOLEAN,
           NEW waiting \in BOOLEAN, NEW busy \in BOOLEAN,
           Pump(q, c, h, waiting, inside, busy),
           Sorted(q), NEW n \in Nat,
           \A i \in 1..Len(q) : q[i] <= n, \A w \in written : w <= n
    PROVE  /\ InOrder'
           /\ \A i \in 1..Len(queue') : queue'[i] <= n
           /\ \A w \in written' : w <= n
<1>1. PICK left \in 0..Len(q) :
        /\ queue' = SubSeq(q, left + 1, Len(q))
        /\ \A w \in written' : w \in written \/ \E i \in 1..left : w = q[i]
  BY PumpFacts
<1>2. /\ Len(q) \in Nat /\ left \in Nat /\ left <= Len(q)
      /\ \A i \in 1..Len(q) : q[i] \in Ids
  BY LenProperties
<1>3. /\ Len(queue') = Len(q) - left
      /\ \A i \in 1..Len(q) - left : queue'[i] = q[left + i]
  <2>1. \A i \in left + 1..Len(q) : q[i] \in Ids
    BY <1>2
  <2>2. /\ Len(SubSeq(q, left + 1, Len(q)))
             = IF left + 1 <= Len(q) THEN Len(q) - (left + 1) + 1 ELSE 0
        /\ \A i \in 1..Len(q) - (left + 1) + 1 :
              SubSeq(q, left + 1, Len(q))[i] = q[(left + 1) + i - 1]
    BY <1>2, <2>1, SubSeqProperties
  <2>3. \A i \in 1..Len(q) - left : (left + 1) + i - 1 = left + i
    BY <1>2
  <2>. QED
    BY <1>1, <1>2, <2>2, <2>3
<1>4. \A i \in 1..Len(queue'), w \in written' : w < queue'[i]
  <2>. SUFFICES ASSUME NEW i \in 1..Len(queue'), NEW w \in written'
                PROVE  w < queue'[i]
    OBVIOUS
  <2>1. left + i \in 1..Len(q) /\ queue'[i] = q[left + i]
    BY <1>2, <1>3
  <2>2. CASE w \in written
    BY <2>1, <2>2 DEF Sorted
  <2>3. CASE \E k \in 1..left : w = q[k]
    <3>1. PICK k \in 1..left : w = q[k]
      BY <2>3
    <3>2. k \in 1..Len(q) /\ k < left + i
      BY <1>2, <1>3
    <3>. QED
      BY <2>1, <3>1, <3>2 DEF Sorted
  <2>. QED
    BY <1>1, <2>2, <2>3
<1>5. \A i, j \in 1..Len(queue') : i < j => queue'[i] < queue'[j]
  <2>. SUFFICES ASSUME NEW i \in 1..Len(queue'), NEW j \in 1..Len(queue'), i < j
                PROVE  queue'[i] < queue'[j]
    OBVIOUS
  <2>1. /\ left + i \in 1..Len(q) /\ queue'[i] = q[left + i]
        /\ left + j \in 1..Len(q) /\ queue'[j] = q[left + j]
        /\ left + i < left + j
    BY <1>2, <1>3
  <2>. QED
    BY <2>1 DEF Sorted
<1>6. \A i \in 1..Len(queue') : queue'[i] <= n
  BY <1>2, <1>3
<1>7. \A w \in written' : w <= n
  BY <1>1, <1>2
<1>. QED
  BY <1>4, <1>5, <1>6, <1>7 DEF InOrder

\* Every step keeps the order.
LEMMA OrderStep == TypeOK /\ OrderInv /\ [Next]_vars => OrderInv'
<1>. SUFFICES ASSUME TypeOK, OrderInv, [Next]_vars
              PROVE  OrderInv'
  OBVIOUS
<1>0. /\ queue \in Seq(Ids) /\ credits \in 0..Room /\ held \in BOOLEAN
      /\ awaiting \in BOOLEAN /\ resetting \in BOOLEAN /\ 1 \in 0..Room
      /\ FALSE \in BOOLEAN /\ pushed \in Nat
  BY DEF TypeOK
<1>1. Sorted(queue)
  BY DEF OrderInv, InOrder, Sorted
<1>2. ASSUME NEW c \in 0..Room, NEW h \in BOOLEAN, NEW waiting \in BOOLEAN,
             Pump(queue, c, h, waiting, inside, resetting), pushed' = pushed
      PROVE  OrderInv'
  BY <1>0, <1>1, <1>2, PumpKeepsOrder DEF OrderInv
<1>3. CASE SendCmd
  <2>. DEFINE q == Append(queue, pushed + 1)
  <2>1. pushed + 1 \in Ids /\ pushed' = pushed + 1
    BY <1>3 DEF SendCmd, TypeOK, Ids
  <2>2. /\ q \in Seq(Ids) /\ Len(q) = Len(queue) + 1
        /\ \A i \in 1..Len(queue) : q[i] = queue[i]
        /\ q[Len(queue) + 1] = pushed + 1
    BY <1>0, <2>1, AppendProperties
  <2>3. Len(queue) \in Nat /\ \A i \in 1..Len(queue) : queue[i] \in Ids
    BY <1>0, LenProperties
  <2>4. Ids \subseteq Nat /\ written \subseteq Ids
    BY DEF Ids, TypeOK
  <2>5. \A i \in 1..Len(q) : q[i] = pushed + 1 \/ (i \in 1..Len(queue) /\ q[i] = queue[i])
    BY <2>2, <2>3
  <2>6. \A i \in 1..Len(q), w \in written : w < q[i]
    BY <1>0, <2>3, <2>4, <2>5 DEF OrderInv, InOrder
  <2>7. \A i, j \in 1..Len(q) : i < j => q[i] < q[j]
    <3>. SUFFICES ASSUME NEW i \in 1..Len(q), NEW j \in 1..Len(q), i < j
                  PROVE  q[i] < q[j]
      OBVIOUS
    <3>1. i \in 1..Len(queue) /\ q[i] = queue[i]
      BY <2>2, <2>3
    <3>2. CASE j \in 1..Len(queue)
      BY <2>2, <3>1, <3>2 DEF OrderInv, InOrder
    <3>3. CASE j = Len(queue) + 1
      <4>1. queue[i] <= pushed
        BY <3>1 DEF OrderInv
      <4>2. queue[i] \in Nat
        BY <2>3, <2>4, <3>1
      <4>. QED
        BY <1>0, <2>2, <3>1, <3>3, <4>1, <4>2
    <3>. QED
      BY <2>2, <2>3, <3>2, <3>3
  <2>8. Sorted(q)
    BY <2>6, <2>7 DEF Sorted
  <2>9. \A i \in 1..Len(q) : q[i] <= pushed + 1
    <3>. HIDE DEF q
    <3>1. \A i \in 1..Len(queue) : queue[i] <= pushed /\ queue[i] \in Nat
      BY <2>3, <2>4 DEF OrderInv
    <3>. QED
      BY <1>0, <2>5, <3>1
  <2>10. \A w \in written : w <= pushed + 1
    BY <1>0, <2>4 DEF OrderInv
  <2>11. Pump(q, credits, held, awaiting, inside, resetting)
    BY <1>3 DEF SendCmd
  <2>12. pushed + 1 \in Nat
    BY <1>0
  <2>. HIDE DEF q
  <2>13. /\ InOrder'
         /\ \A i \in 1..Len(queue') : queue'[i] <= pushed + 1
         /\ \A w \in written' : w <= pushed + 1
    BY <1>0, <2>2, <2>8, <2>9, <2>10, <2>11, <2>12, PumpKeepsOrder
  <2>14. /\ \A i \in 1..Len(queue') : queue'[i] <= pushed'
         /\ \A w \in written' : w <= pushed'
    BY <2>1, <2>13
  <2>. QED
    BY <2>13, <2>14 DEF OrderInv
<1>4. CASE ResetWriteFails
  BY <1>0, <1>2, <1>4 DEF ResetWriteFails
<1>5. ASSUME events # <<>>
      PROVE  Head(events).ncmd \in 0..Room
  <2>1. Head(events) \in Event
    BY <1>5, HeadTailProperties DEF TypeOK
  <2>. QED
    BY <2>1 DEF Event
<1>6. CASE ResetConfirmed
  BY <1>0, <1>2, <1>5, <1>6 DEF ResetConfirmed
<1>7. CASE ResetTimesOut
  BY <1>0, <1>2, <1>7 DEF ResetTimesOut
<1>8. CASE Answered
  BY <1>0, <1>2, <1>5, <1>8 DEF Answered
<1>9. CASE GiveUp
  BY <1>0, <1>2, <1>9 DEF GiveUp
<1>10. CASE UNCHANGED <<queue, pushed, written>>
  BY <1>10 DEF OrderInv, InOrder
<1>11. \/ SendCmd \/ ResetWriteFails \/ ResetConfirmed \/ ResetTimesOut \/ Answered \/ GiveUp
       \/ UNCHANGED <<queue, pushed, written>>
  BY DEF Next, Host, Controller, vars, hostVars, ctrlVars, histVars, StartReset,
         DiscardDuringReset, Tick, ControllerAnswers, ControllerLoses,
         ControllerNoOp, ControllerResets
<1>. QED
  BY <1>3, <1>4, <1>6, <1>7, <1>8, <1>9, <1>10, <1>11

\* Commands reach the controller in the order the program asked for them, for
\* any number of them and any interleaving of answers, failures and timeouts.
THEOREM CommandsInOrder == Spec => []InOrder
<1>1. Init => OrderInv
  BY DEF Init, OrderInv, InOrder
<1>2. OrderInv => InOrder
  BY DEF OrderInv
<1>. QED
  BY <1>1, <1>2, OrderStep, TypeCorrect, PTL DEF Spec

\* Pumping a queue is, for the promise of CommandFifo, its first commands leaving.
LEMMA PumpLeaves ==
    ASSUME NEW q \in Seq(Ids), NEW c \in 0..Room, NEW h \in BOOLEAN,
           NEW waits, NEW taken, NEW busy, Pump(q, c, h, waits, taken, busy)
    PROVE  Fifo!Leaves(q)
<1>1. PICK o \in PumpOutcomes(q, c, h) :
        /\ queue' = SubSeq(q, o.left + 1, Len(q))
        /\ written' = written \cup {q[i] : i \in o.out}
  BY DEF Pump
<1>2. o.left \in 0..Len(q) /\ o.out \in SUBSET (1..o.left)
  BY OutcomeFacts
<1>3. Fifo!Leave(q, o.left, o.out)
  BY <1>1 DEF Fifo!Leave
<1>. QED
  BY <1>2, <1>3 DEF Fifo!Leaves

\* Every step of the command path is a step of CommandFifo, or none for it.
LEMMA FifoStep == TypeOK /\ [Next]_vars => [Fifo!Next]_(Fifo!vars)
<1>. SUFFICES ASSUME TypeOK, [Next]_vars
              PROVE  [Fifo!Next]_(Fifo!vars)
  OBVIOUS
<1>0. /\ queue \in Seq(Ids) /\ credits \in 0..Room /\ held \in BOOLEAN
      /\ 0 \in 0..Room /\ 1 \in 0..Room /\ FALSE \in BOOLEAN
  BY RoomAssumption DEF TypeOK
<1>1. ASSUME NEW c \in 0..Room, NEW h \in BOOLEAN, NEW waits,
             Pump(queue, c, h, waits, inside, resetting), pushed' = pushed
      PROVE  Fifo!Next
  BY <1>0, <1>1, PumpLeaves DEF Fifo!Next, Fifo!Drain
<1>2. ASSUME events # <<>>
      PROVE  Head(events).ncmd \in 0..Room
  <2>1. Head(events) \in Event
    BY <1>2, HeadTailProperties DEF TypeOK
  <2>. QED
    BY <2>1 DEF Event
<1>3. CASE SendCmd
  <2>1. pushed + 1 \in Ids /\ pushed' = pushed + 1
    BY <1>3 DEF SendCmd, TypeOK, Ids
  <2>2. Append(queue, pushed + 1) \in Seq(Ids)
    BY <1>0, <2>1, AppendProperties
  <2>3. Pump(Append(queue, pushed + 1), credits, held, awaiting, inside, resetting)
    BY <1>3 DEF SendCmd
  <2>4. Fifo!Leaves(Append(queue, pushed + 1))
    BY <1>0, <2>2, <2>3, PumpLeaves
  <2>. QED
    BY <2>1, <2>4 DEF Fifo!Next, Fifo!Ask
<1>4. CASE ResetWriteFails
  BY <1>0, <1>1, <1>4 DEF ResetWriteFails
<1>5. CASE ResetConfirmed
  BY <1>0, <1>1, <1>2, <1>5 DEF ResetConfirmed
<1>6. CASE ResetTimesOut
  BY <1>0, <1>1, <1>6 DEF ResetTimesOut
<1>7. CASE Answered
  BY <1>0, <1>1, <1>2, <1>7 DEF Answered
<1>8. CASE GiveUp
  BY <1>0, <1>1, <1>8 DEF GiveUp
<1>9. CASE UNCHANGED <<queue, pushed, written>>
  BY <1>9 DEF Fifo!vars
<1>10. \/ SendCmd \/ ResetWriteFails \/ ResetConfirmed \/ ResetTimesOut \/ Answered \/ GiveUp
       \/ UNCHANGED <<queue, pushed, written>>
  BY DEF Next, Host, Controller, vars, hostVars, ctrlVars, histVars, StartReset,
         DiscardDuringReset, Tick, ControllerAnswers, ControllerLoses,
         ControllerNoOp, ControllerResets
<1>. QED
  BY <1>3, <1>4, <1>5, <1>6, <1>7, <1>8, <1>9, <1>10

\* send_cmd(), the pump, the watchdog and the reset together implement a plain
\* first-in first-out queue, for any controller and any number of commands.
THEOREM QueueImplementsFifo == Spec => ImplementsFifo
<1>1. Init => Fifo!Init
  BY DEF Init, Fifo!Init
<1>. QED
  BY <1>1, FifoStep, TypeCorrect, PTL DEF Spec, ImplementsFifo, Fifo!Spec

-----------------------------------------------------------------------------
(* Resets.                                                                 *)

\* Why nothing is lost to a reset: until the reset is given up on, the
\* controller is resetting only while the queue is shut, and its answer is in
\* the socket only once it has finished.
ResetInv ==
    /\ held <=> phase = "resetting"
    /\ (resetting /\ ~abandoned) => phase = "resetting"
    /\ phase = "starting" => ~resetting
    /\ (phase = "starting" \/ (phase = "resetting" /\ resetting))
          => \A i \in 1..Len(events) : ~events[i].reset
    /\ NothingLostToReset

\* ResetInv survives every step: a pump loses nothing while the queue is shut
\* or the controller is not resetting.
LEMMA ResetStep == TypeOK /\ ResetInv /\ [Next]_vars => ResetInv'
<1>. SUFFICES ASSUME TypeOK, ResetInv, [Next]_vars
              PROVE  ResetInv'
  OBVIOUS
<1>0. /\ queue \in Seq(Ids) /\ credits \in 0..Room /\ held \in BOOLEAN
      /\ awaiting \in BOOLEAN /\ resetting \in BOOLEAN /\ 1 \in 0..Room
      /\ FALSE \in BOOLEAN /\ events \in Seq(Event)
      /\ pushed < MaxCommands => Append(queue, pushed + 1) \in Seq(Ids)
  BY DEF TypeOK, Ids
<1>1. ASSUME NEW q \in Seq(Ids), NEW c \in 0..Room, NEW h \in BOOLEAN, NEW waiting \in BOOLEAN,
             Pump(q, c, h, waiting, inside, resetting), h \/ ~resetting
      PROVE  lostToReset' = lostToReset
  BY <1>0, <1>1, PumpFacts
<1>2. ASSUME events # <<>>
      PROVE  /\ Head(events) = events[1] /\ 1 \in 1..Len(events)
             /\ Head(events).ncmd \in 0..Room
             /\ Len(Tail(events)) = Len(events) - 1
             /\ \A i \in 1..Len(Tail(events)) : i + 1 \in 1..Len(events) /\ Tail(events)[i] = events[i + 1]
  <2>1. /\ Head(events) \in Event
        /\ Len(Tail(events)) = Len(events) - 1
        /\ \A i \in 1..Len(Tail(events)) : Tail(events)[i] = events[i + 1]
    BY <1>0, <1>2, HeadTailProperties
  <2>2. Len(events) \in Nat \ {0}
    BY <1>0, <1>2, EmptySeq
  <2>. QED
    BY <2>1, <2>2 DEF Event
<1>3. CASE SendCmd
  <2>1. ~abandoned => lostToReset' = lostToReset
    BY <1>0, <1>1, <1>3 DEF SendCmd, ResetInv
  <2>. QED
    BY <1>3, <2>1 DEF SendCmd, ResetInv, NothingLostToReset
<1>4. CASE StartReset
  BY <1>4 DEF StartReset, ResetInv, NothingLostToReset, histVars
<1>5. CASE ResetWriteFails
  BY <1>5 DEF ResetWriteFails, ResetInv, NothingLostToReset
<1>6. CASE DiscardDuringReset
  BY <1>2, <1>6 DEF DiscardDuringReset, ResetInv, NothingLostToReset, hostVars, histVars
<1>7. CASE ResetConfirmed
  <2>1. ~resetting
    BY <1>2, <1>7 DEF ResetConfirmed, ResetInv
  <2>2. lostToReset' = lostToReset
    BY <1>0, <1>1, <1>2, <1>7, <2>1 DEF ResetConfirmed
  <2>. QED
    BY <1>7, <2>1, <2>2 DEF ResetConfirmed, ResetInv, NothingLostToReset
<1>8. CASE ResetTimesOut
  BY <1>8 DEF ResetTimesOut, ResetInv, NothingLostToReset
<1>9. CASE Answered
  <2>1. ~abandoned => ~resetting
    BY <1>9 DEF Answered, ResetInv
  <2>2. ~abandoned => lostToReset' = lostToReset
    BY <1>0, <1>1, <1>2, <1>9, <2>1 DEF Answered
  <2>. QED
    BY <1>9, <2>2 DEF Answered, ResetInv, NothingLostToReset
<1>10. CASE GiveUp
  <2>1. ~abandoned => lostToReset' = lostToReset
    BY <1>0, <1>1, <1>10 DEF GiveUp, ResetInv
  <2>. QED
    BY <1>10, <2>1 DEF GiveUp, ResetInv, NothingLostToReset
<1>11. CASE Tick
  BY <1>11 DEF Tick, ResetInv, NothingLostToReset, ctrlVars, histVars
<1>12. ASSUME NEW e \in Event, ~e.reset, events' = Append(events, e)
       PROVE  (\A i \in 1..Len(events) : ~events[i].reset) => \A i \in 1..Len(events') : ~events'[i].reset
  <2>1. /\ Len(events') = Len(events) + 1
        /\ \A i \in 1..Len(events) : events'[i] = events[i]
        /\ events'[Len(events) + 1] = e
    BY <1>0, <1>12, AppendProperties
  <2>2. Len(events) \in Nat
    BY <1>0
  <2>3. \A i \in 1..Len(events') : i \in 1..Len(events) \/ i = Len(events) + 1
    BY <2>1, <2>2
  <2>. QED
    BY <1>12, <2>1, <2>3
<1>13. ASSUME NEW id \in Ids, ControllerAnswers(id)
       PROVE  ResetInv'
  <2>1. inside' \subseteq Ids
    BY <1>13 DEF ControllerAnswers, TypeOK
  <2>2. PICK n \in Allowances(inside') : events' = Append(events, [ncmd |-> n, reset |-> FALSE])
    BY <1>13 DEF ControllerAnswers
  <2>3. [ncmd |-> n, reset |-> FALSE] \in Event /\ ~[ncmd |-> n, reset |-> FALSE].reset
    BY <2>1, <2>2, AllowanceType DEF Event
  <2>4. (\A i \in 1..Len(events) : ~events[i].reset) => \A i \in 1..Len(events') : ~events'[i].reset
    BY <1>12, <2>2, <2>3
  <2>. QED
    BY <1>13, <2>4 DEF ControllerAnswers, ResetInv, NothingLostToReset, hostVars, histVars
<1>14. ASSUME NEW id \in Ids, ControllerLoses(id)
       PROVE  ResetInv'
  BY <1>14 DEF ControllerLoses, ResetInv, NothingLostToReset, hostVars, histVars
<1>15. CASE ControllerNoOp
  <2>1. Cardinality(inside) \in Nat
    BY AllowanceType DEF TypeOK
  <2>2. /\ [ncmd |-> Room - Cardinality(inside), reset |-> FALSE] \in Event
        /\ ~[ncmd |-> Room - Cardinality(inside), reset |-> FALSE].reset
    BY <1>15, <2>1 DEF ControllerNoOp, Event
  <2>3. (\A i \in 1..Len(events) : ~events[i].reset) => \A i \in 1..Len(events') : ~events'[i].reset
    BY <1>12, <1>15, <2>2 DEF ControllerNoOp
  <2>. QED
    BY <1>15, <2>3 DEF ControllerNoOp, ResetInv, NothingLostToReset, hostVars, histVars
<1>16. CASE ControllerResets
  <2>1. phase = "starting" => ~resetting
    BY <1>16 DEF ResetInv
  <2>. QED
    BY <1>16, <2>1 DEF ControllerResets, ResetInv, NothingLostToReset, hostVars, histVars
<1>17. CASE UNCHANGED vars
  BY <1>17 DEF vars, hostVars, ctrlVars, histVars, ResetInv, NothingLostToReset
<1>. QED
  BY <1>3, <1>4, <1>5, <1>6, <1>7, <1>8, <1>9, <1>10, <1>11, <1>13, <1>14, <1>15, <1>16, <1>17
     DEF Next, Host, Controller

\* ResetInv holds at the start, whatever answer the last run left unread.
LEMMA ResetInit == Init => ResetInv
<1>. SUFFICES ASSUME Init PROVE ResetInv
  OBVIOUS
<1>1. events = <<>> \/ events = <<[ncmd |-> 1, reset |-> FALSE]>>
  BY DEF Init
<1>2. \A i \in 1..Len(events) : ~events[i].reset
  BY <1>1
<1>. QED
  BY <1>2 DEF Init, ResetInv, NothingLostToReset

\* No command - queued by this handler or by the other one, or let go by the
\* give-up timer - reaches the controller inside a reset that gets confirmed.
THEOREM ResetLosesNothing == Spec => []NothingLostToReset
<1>2. ResetInv => NothingLostToReset
  BY DEF ResetInv
<1>. QED
  BY <1>2, ResetInit, ResetStep, TypeCorrect, PTL DEF Spec

-----------------------------------------------------------------------------
(* Overrun.                                                                *)

\* The permission to write one command, for a controller with room for one.
\* It is in one place only: with the program (credits), spent on the command
\* the controller holds (inside), withheld by it (owes), or under way in an
\* answer (a grant).
IsGrant(i) == events[i].ncmd > 0
NoGrantFrom(k) == \A i \in 1..Len(events) : i >= k => ~IsGrant(i)
OneGrantFrom(k) ==
    \A i, j \in 1..Len(events) : (i >= k /\ j >= k /\ IsGrant(i) /\ IsGrant(j)) => i = j

\* After the reset: at most one permission in all.
RunningToken ==
    /\ \A a, b \in inside : a = b
    /\ credits > 0 => (inside = {} /\ ~owes /\ NoGrantFrom(1))
    /\ inside # {} => (~owes /\ NoGrantFrom(1))
    /\ owes => NoGrantFrom(1)
    /\ OneGrantFrom(1)

\* Before its answer is read: at most one permission from that answer on.  What
\* comes before it is left over from the last run, and is discarded.
ResettingToken ==
    \A k \in 1..Len(events) : events[k].reset =>
        OneGrantFrom(k) /\ (owes => NoGrantFrom(k))

TokenInv ==
    (~early /\ ~abandoned) =>
        /\ phase = "running" => RunningToken
        /\ phase # "running" => (inside = {} /\ ResettingToken)

\* A pump of a queue that is shut gives the controller nothing.
LEMMA PumpHeld ==
    ASSUME NEW q, NEW c, NEW waiting, NEW busy, held, Pump(q, c, held, waiting, inside, busy)
    PROVE  inside' = inside
<1>1. PumpOutcomes(q, c, held) = {[left |-> 0, out |-> {}]}
  BY DEF PumpOutcomes
<1>2. PICK o \in PumpOutcomes(q, c, held) :
             inside' = IF busy THEN inside ELSE inside \cup {q[i] : i \in o.out}
  BY DEF Pump
<1>3. o.out = {}
  <2>1. o = [left |-> 0, out |-> {}]
    BY <1>1, <1>2
  <2>. QED
    BY <2>1
<1>4. {q[i] : i \in o.out} = {}
  BY <1>3
<1>. QED
  BY <1>2, <1>4

\* A pump with at most one permission hands it to at most one command.
LEMMA PumpToken ==
    ASSUME TypeOK, Room = 1,
           NEW q \in Seq(Ids), NEW c \in 0..Room, NEW h \in BOOLEAN,
           NEW waiting \in BOOLEAN,
           Pump(q, c, h, waiting, inside, resetting), ~resetting
    PROVE  \/ inside' = inside /\ credits' = c
           \/ c = 1 /\ credits' = 0 /\ \E x : inside' = inside \cup {x}
<1>1. PICK o \in PumpOutcomes(q, c, h) :
        /\ credits' = c - Cardinality(o.out)
        /\ inside' = inside \cup {q[i] : i \in o.out}
  BY DEF Pump
<1>2. o.out \subseteq 1..Len(q) /\ Cardinality(o.out) \in 0..c
  BY OutcomeFacts
<1>3. Len(q) \in Nat
  OBVIOUS
<1>4. IsFiniteSet(o.out) /\ (Cardinality(o.out) = 0 <=> o.out = {})
  BY <1>2, <1>3, FinitePositions
<1>5. CASE Cardinality(o.out) = 0
  <2>1. {q[i] : i \in o.out} = {}
    BY <1>4, <1>5
  <2>2. inside' = inside
    BY <1>1, <2>1
  <2>. QED
    BY <1>1, <1>5, <2>2
<1>6. CASE Cardinality(o.out) = 1
  <2>1. PICK x : o.out = {x}
    BY <1>4, <1>6, FS_Singleton
  <2>2. {q[i] : i \in o.out} = {q[x]}
    BY <2>1
  <2>3. c = 1 /\ credits' = 0
    BY <1>1, <1>2, <1>6
  <2>. QED
    BY <1>1, <2>2, <2>3
<1>7. Cardinality(o.out) = 0 \/ Cardinality(o.out) = 1
  <2>1. c \in 0..1
    OBVIOUS
  <2>. QED
    BY <1>2, <2>1
<1>. QED
  BY <1>5, <1>6, <1>7

\* A pump with permission c, when no other permission exists if c = 1.
LEMMA PumpKeepsToken ==
    ASSUME TypeOK, Room = 1,
           NEW q \in Seq(Ids), NEW c \in 0..Room, NEW h \in BOOLEAN,
           NEW waiting \in BOOLEAN,
           Pump(q, c, h, waiting, inside, resetting), ~resetting,
           \A a, b \in inside : a = b,
           c > 0 => (inside = {} /\ ~owes /\ NoGrantFrom(1)'),
           inside # {} => (~owes /\ NoGrantFrom(1)'),
           owes => NoGrantFrom(1)', OneGrantFrom(1)', owes' = owes
    PROVE  RunningToken'
<1>1. CASE inside' = inside /\ credits' = c
  <2>1. credits' > 0 => (inside' = {} /\ ~owes' /\ NoGrantFrom(1)')
    BY <1>1
  <2>2. inside' # {} => (~owes' /\ NoGrantFrom(1)')
    BY <1>1
  <2>3. \A a, b \in inside' : a = b
    BY <1>1
  <2>. QED
    BY <2>1, <2>2, <2>3 DEF RunningToken
<1>2. CASE c = 1 /\ credits' = 0 /\ \E x : inside' = inside \cup {x}
  <2>1. inside = {} /\ ~owes /\ NoGrantFrom(1)'
    BY <1>2
  <2>2. PICK x : inside' = {x}
    BY <1>2, <2>1
  <2>3. ~(credits' > 0) /\ ~owes' /\ \A a, b \in inside' : a = b
    BY <1>2, <2>1, <2>2
  <2>. QED
    BY <2>1, <2>3 DEF RunningToken
<1>. QED
  BY <1>1, <1>2, PumpToken

\* Appending an answer: a grant joins the ones there were.
LEMMA AppendGrant ==
    ASSUME TypeOK, NEW e \in Event, events' = Append(events, e), NEW k \in Nat
    PROVE  /\ Len(events') = Len(events) + 1 /\ Len(events) \in Nat
           /\ \A i \in 1..Len(events) : events'[i] = events[i]
           /\ events'[Len(events) + 1] = e
           /\ (NoGrantFrom(k) /\ e.ncmd = 0) => NoGrantFrom(k)'
           /\ NoGrantFrom(k) => OneGrantFrom(k)'
           /\ (OneGrantFrom(k) /\ e.ncmd = 0) => OneGrantFrom(k)'
<1>1. /\ Len(events') = Len(events) + 1 /\ Len(events) \in Nat
      /\ \A i \in 1..Len(events) : events'[i] = events[i]
      /\ events'[Len(events) + 1] = e
  BY AppendProperties, LenProperties DEF TypeOK
<1>2. \A i \in 1..Len(events') : i \in 1..Len(events) \/ i = Len(events) + 1
  BY <1>1
<1>3. \A i \in 1..Len(events) : IsGrant(i)' <=> IsGrant(i)
  BY <1>1 DEF IsGrant
<1>4. e.ncmd = 0 => ~(events'[Len(events) + 1].ncmd > 0)
  BY <1>1 DEF Event
<1>5. (NoGrantFrom(k) /\ e.ncmd = 0) => NoGrantFrom(k)'
  BY <1>2, <1>3, <1>4 DEF NoGrantFrom, IsGrant
<1>6. NoGrantFrom(k) => OneGrantFrom(k)'
  BY <1>2, <1>3 DEF NoGrantFrom, OneGrantFrom
<1>7. (OneGrantFrom(k) /\ e.ncmd = 0) => OneGrantFrom(k)'
  BY <1>2, <1>3, <1>4 DEF OneGrantFrom, IsGrant
<1>. QED
  BY <1>1, <1>5, <1>6, <1>7

\* Reading an answer: what is left has the grants it had.
LEMMA TailGrant ==
    ASSUME TypeOK, events # <<>>, events' = Tail(events)
    PROVE  /\ Head(events) = events[1] /\ Head(events) \in Event
           /\ Len(events) \in Nat \ {0} /\ Len(events') = Len(events) - 1
           /\ \A i \in 1..Len(events') : i + 1 \in 1..Len(events) /\ events'[i] = events[i + 1]
           /\ \A k \in Nat \ {0} : NoGrantFrom(k + 1) => NoGrantFrom(k)'
           /\ \A k \in Nat \ {0} : OneGrantFrom(k + 1) => OneGrantFrom(k)'
           /\ (OneGrantFrom(1) /\ Head(events).ncmd > 0) => NoGrantFrom(1)'
           /\ NoGrantFrom(1) => Head(events).ncmd = 0
           /\ NoGrantFrom(1) => NoGrantFrom(2)
           /\ OneGrantFrom(1) => OneGrantFrom(2)
<1>1. /\ Head(events) = events[1] /\ Head(events) \in Event
      /\ Len(events) \in Nat \ {0} /\ Len(events') = Len(events) - 1
      /\ \A i \in 1..Len(events') : events'[i] = events[i + 1]
  BY HeadTailProperties, EmptySeq DEF TypeOK
<1>2. \A i \in 1..Len(events') : i + 1 \in 1..Len(events) /\ i \in Nat /\ i + 1 > 1
  BY <1>1
<1>3. \A i \in 1..Len(events') : IsGrant(i)' <=> IsGrant(i + 1)
  BY <1>1 DEF IsGrant
<1>4. \A k \in Nat \ {0} : NoGrantFrom(k + 1) => NoGrantFrom(k)'
  BY <1>2, <1>3 DEF NoGrantFrom
<1>5. \A k \in Nat \ {0} : OneGrantFrom(k + 1) => OneGrantFrom(k)'
  BY <1>2, <1>3 DEF OneGrantFrom
<1>6. 1 \in 1..Len(events) /\ (IsGrant(1) <=> Head(events).ncmd > 0)
  BY <1>1 DEF IsGrant
<1>7. (OneGrantFrom(1) /\ Head(events).ncmd > 0) => NoGrantFrom(1)'
  BY <1>2, <1>3, <1>6 DEF OneGrantFrom, NoGrantFrom
<1>8. NoGrantFrom(1) => Head(events).ncmd = 0
  BY <1>1, <1>6 DEF NoGrantFrom, Event
<1>9. (NoGrantFrom(1) => NoGrantFrom(2)) /\ (OneGrantFrom(1) => OneGrantFrom(2))
  BY DEF NoGrantFrom, OneGrantFrom
<1>. QED
  BY <1>1, <1>2, <1>4, <1>5, <1>7, <1>8, <1>9

\* Every step keeps at most one permission, for a controller with room for one.
LEMMA TokenStep ==
    ASSUME Room = 1
    PROVE  TypeOK /\ ResetInv /\ TokenInv /\ [Next]_vars => TokenInv'
<1>. SUFFICES ASSUME TypeOK, ResetInv, TokenInv, [Next]_vars, ~early', ~abandoned'
              PROVE  /\ phase' = "running" => RunningToken'
                     /\ phase' # "running" => (inside' = {} /\ ResettingToken')
  BY DEF TokenInv
<1>0. /\ queue \in Seq(Ids) /\ credits \in 0..Room /\ held \in BOOLEAN
      /\ awaiting \in BOOLEAN /\ resetting \in BOOLEAN /\ 1 \in 0..Room
      /\ FALSE \in BOOLEAN /\ events \in Seq(Event)
      /\ pushed < MaxCommands => Append(queue, pushed + 1) \in Seq(Ids)
  BY DEF TypeOK, Ids
<1>1. ~early /\ ~abandoned
  BY DEF Next, Host, Controller, SendCmd, StartReset, ResetWriteFails, DiscardDuringReset,
         ResetConfirmed, ResetTimesOut, Answered, GiveUp, Tick, ControllerAnswers,
         ControllerLoses, ControllerNoOp, ControllerResets, vars, hostVars, ctrlVars, histVars,
         TypeOK
<1>2. /\ phase = "running" => RunningToken
      /\ phase # "running" => (inside = {} /\ ResettingToken)
  BY <1>1 DEF TokenInv
<1>3. /\ held <=> phase = "resetting"
      /\ resetting => phase = "resetting"
      /\ (phase = "resetting" /\ resetting) => \A i \in 1..Len(events) : ~events[i].reset
  BY <1>1 DEF ResetInv
<1>4. ASSUME events' = events, owes' = owes
      PROVE  /\ \A k : (NoGrantFrom(k)' <=> NoGrantFrom(k)) /\ (OneGrantFrom(k)' <=> OneGrantFrom(k))
             /\ ResettingToken' <=> ResettingToken
  BY <1>4 DEF NoGrantFrom, OneGrantFrom, IsGrant, ResettingToken
<1>5. CASE SendCmd
  <2>1. Pump(Append(queue, pushed + 1), credits, held, awaiting, inside, resetting)
    BY <1>5 DEF SendCmd
  <2>2. Append(queue, pushed + 1) \in Seq(Ids) /\ phase' = phase /\ events' = events /\ owes' = owes
    BY <1>0, <1>5 DEF SendCmd
  <2>3. CASE phase = "running"
    BY <1>0, <1>2, <1>3, <1>4, <2>1, <2>2, <2>3, PumpKeepsToken DEF RunningToken
  <2>4. CASE phase = "resetting"
    <3>1. held
      BY <1>3, <2>4
    <3>2. inside' = inside
      BY <2>1, <3>1, PumpHeld
    <3>. QED
      BY <1>2, <1>4, <2>2, <2>4, <3>2
  <2>. QED
    BY <1>5, <2>3, <2>4 DEF SendCmd, TypeOK
<1>6. CASE StartReset
  <2>1. events' = events /\ owes' = owes /\ inside' = inside /\ phase' = "resetting" /\ phase = "starting"
    BY <1>6 DEF StartReset
  <2>. QED
    BY <1>2, <1>4, <2>1
<1>7. CASE DiscardDuringReset
  <2>1. events # <<>> /\ events' = Tail(events) /\ phase = "resetting" /\ phase' = phase
        /\ owes' = owes /\ inside' = inside
    BY <1>7 DEF DiscardDuringReset, hostVars
  <2>2. ASSUME NEW k \in 1..Len(events'), events'[k].reset
        PROVE  OneGrantFrom(k)' /\ (owes' => NoGrantFrom(k)')
    <3>1. k + 1 \in 1..Len(events) /\ events[k + 1].reset /\ k \in Nat \ {0}
      BY <2>1, <2>2, TailGrant
    <3>2. OneGrantFrom(k + 1) /\ (owes => NoGrantFrom(k + 1))
      BY <1>2, <2>1, <3>1 DEF ResettingToken
    <3>. QED
      BY <2>1, <3>1, <3>2, TailGrant
  <2>. QED
    BY <1>2, <2>1, <2>2 DEF ResettingToken
<1>8. CASE ResetConfirmed
  <2>1. /\ events # <<>> /\ events' = Tail(events) /\ phase = "resetting" /\ phase' = "running"
        /\ owes' = owes /\ Head(events).reset
        /\ Pump(queue, Head(events).ncmd, FALSE, FALSE, inside, resetting)
    BY <1>8 DEF ResetConfirmed
  <2>2. 1 \in 1..Len(events) /\ events[1].reset /\ Head(events).ncmd \in 0..Room
    BY <2>1, TailGrant DEF Event
  <2>3. ~resetting /\ inside = {} /\ OneGrantFrom(1) /\ (owes => NoGrantFrom(1))
    BY <1>2, <1>3, <2>1, <2>2 DEF ResettingToken
  <2>4. OneGrantFrom(1)' /\ (owes => NoGrantFrom(1)' /\ Head(events).ncmd = 0)
        /\ (Head(events).ncmd > 0 => NoGrantFrom(1)')
    BY <2>1, <2>3, TailGrant
  <2>5. RunningToken'
    <3>1. Head(events).ncmd > 0 => ~owes
      BY <2>2, <2>4
    <3>2. /\ \A a, b \in inside : a = b
          /\ Head(events).ncmd > 0 => (inside = {} /\ ~owes /\ NoGrantFrom(1)')
          /\ inside # {} => (~owes /\ NoGrantFrom(1)')
          /\ owes => NoGrantFrom(1)'
      BY <2>3, <2>4, <3>1
    <3>. QED
      BY <1>0, <2>1, <2>2, <2>3, <2>4, <3>2, PumpKeepsToken
  <2>. QED
    BY <2>1, <2>5
<1>9. CASE Answered
  <2>1. /\ events # <<>> /\ events' = Tail(events) /\ phase = "running" /\ phase' = "running"
        /\ owes' = owes
        /\ Pump(queue, Head(events).ncmd, held, FALSE, inside, resetting)
    BY <1>9 DEF Answered
  <2>2. Head(events).ncmd \in 0..Room /\ ~resetting /\ RunningToken
    BY <1>2, <1>3, <2>1, TailGrant DEF Event
  <2>3. /\ OneGrantFrom(1)'
        /\ NoGrantFrom(1) => NoGrantFrom(1)' /\ Head(events).ncmd = 0
        /\ Head(events).ncmd > 0 => NoGrantFrom(1)'
    BY <2>1, <2>2, TailGrant DEF RunningToken
  <2>4. Head(events).ncmd > 0 => (inside = {} /\ ~owes)
    BY <2>2, <2>3 DEF RunningToken
  <2>5. RunningToken'
    <3>1. /\ \A a, b \in inside : a = b
          /\ Head(events).ncmd > 0 => (inside = {} /\ ~owes /\ NoGrantFrom(1)')
          /\ inside # {} => (~owes /\ NoGrantFrom(1)')
          /\ owes => NoGrantFrom(1)'
      BY <2>2, <2>3, <2>4 DEF RunningToken
    <3>2. /\ queue \in Seq(Ids) /\ held \in BOOLEAN /\ FALSE \in BOOLEAN
          /\ Head(events).ncmd \in 0..Room /\ ~resetting
          /\ OneGrantFrom(1)' /\ owes' = owes
          /\ Pump(queue, Head(events).ncmd, held, FALSE, inside, resetting)
      BY <1>0, <2>1, <2>2, <2>3
    <3>. QED
      BY <3>1, <3>2, PumpKeepsToken
  <2>. QED
    BY <2>1, <2>5
<1>10. CASE GiveUp
  <2>1. /\ inside = {} /\ events = <<>> /\ ~owes /\ ~resetting
        /\ events' = events /\ owes' = owes /\ phase' = phase
        /\ Pump(queue, 1, held, FALSE, inside, resetting)
    BY <1>10 DEF GiveUp
  <2>2. Len(events') = 0
    BY <2>1
  <2>3. NoGrantFrom(1)' /\ OneGrantFrom(1)' /\ ResettingToken'
    BY <2>2 DEF NoGrantFrom, OneGrantFrom, ResettingToken
  <2>4. RunningToken'
    <3>1. /\ \A a, b \in inside : a = b
          /\ 1 > 0 => (inside = {} /\ ~owes /\ NoGrantFrom(1)')
          /\ inside # {} => (~owes /\ NoGrantFrom(1)')
          /\ owes => NoGrantFrom(1)'
      BY <2>1, <2>3
    <3>. QED
      BY <1>0, <2>1, <2>3, <3>1, PumpKeepsToken
  <2>5. phase # "running" => inside' = {}
    <3>1. phase # "running" => held
      BY <1>3, <1>10 DEF GiveUp, TypeOK
    <3>2. ASSUME held
          PROVE  inside' = inside
      <4>1. /\ Pump(queue, 1, held, FALSE, inside, resetting) /\ resetting \in BOOLEAN
            /\ queue \in Seq(Ids) /\ 1 \in 0..Room /\ held \in BOOLEAN /\ FALSE \in BOOLEAN
        BY <1>0, <2>1
      <4>. QED
        BY <3>2, <4>1, PumpFacts
    <3>. QED
      BY <2>1, <3>1, <3>2
  <2>. QED
    BY <2>1, <2>3, <2>4, <2>5
<1>11. CASE Tick \/ UNCHANGED vars
  <2>1. events' = events /\ owes' = owes /\ inside' = inside /\ phase' = phase /\ credits' = credits
    BY <1>11 DEF Tick, vars, hostVars, ctrlVars
  <2>. QED
    BY <1>2, <1>4, <2>1 DEF RunningToken
<1>12. ASSUME NEW id \in Ids, ControllerAnswers(id)
       PROVE  phase' = "running" /\ RunningToken'
  <2>1. id \in inside /\ ~resetting /\ inside' = inside \ {id} /\ phase' = phase /\ credits' = credits
    BY <1>12 DEF ControllerAnswers, hostVars
  <2>2. phase = "running" /\ RunningToken
    BY <1>2, <2>1
  <2>3. inside' = {} /\ ~(credits > 0) /\ NoGrantFrom(1)
    BY <2>1, <2>2 DEF RunningToken
  <2>4. PICK n \in Allowances(inside') :
          /\ events' = Append(events, [ncmd |-> n, reset |-> FALSE])
          /\ owes' = (n = 0 /\ Cardinality(inside') < Room)
    BY <1>12 DEF ControllerAnswers
  <2>5. n \in 0..Room /\ [ncmd |-> n, reset |-> FALSE] \in Event
    BY <2>3, <2>4, AllowanceType DEF Event
  <2>6. OneGrantFrom(1)' /\ (owes' => NoGrantFrom(1)')
    BY <2>3, <2>4, <2>5, AppendGrant
  <2>. QED
    BY <2>1, <2>2, <2>3, <2>6 DEF RunningToken
<1>13. ASSUME NEW id \in Ids, ControllerLoses(id)
       PROVE  phase' = "running" /\ RunningToken'
  <2>1. /\ id \in inside /\ inside' = inside \ {id} /\ phase' = phase /\ credits' = credits
        /\ events' = events /\ owes' = owes
    BY <1>13 DEF ControllerLoses, hostVars
  <2>. QED
    BY <1>2, <1>4, <2>1 DEF RunningToken
<1>14. CASE ControllerNoOp
  <2>. DEFINE e == [ncmd |-> Room - Cardinality(inside), reset |-> FALSE]
  <2>1. /\ owes /\ ~resetting /\ ~owes' /\ events' = Append(events, e)
        /\ phase' = phase /\ credits' = credits /\ inside' = inside
        /\ Cardinality(inside) < Room
    BY <1>14 DEF ControllerNoOp, hostVars
  <2>2. e \in Event
    BY <2>1, AllowanceType DEF Event, TypeOK
  <2>. HIDE DEF e
  <2>3. CASE phase = "running"
    <3>1. inside = {} /\ ~(credits > 0) /\ NoGrantFrom(1)
      BY <1>2, <2>1, <2>3 DEF RunningToken
    <3>2. OneGrantFrom(1)'
      BY <2>1, <2>2, <3>1, AppendGrant
    <3>. QED
      BY <2>1, <2>3, <3>1, <3>2 DEF RunningToken
  <2>4. CASE phase # "running"
    <3>1. ASSUME NEW k \in 1..Len(events'), events'[k].reset
          PROVE  OneGrantFrom(k)'
      <4>1. /\ Len(events') = Len(events) + 1 /\ Len(events) \in Nat
            /\ \A i \in 1..Len(events) : events'[i] = events[i]
            /\ events'[Len(events) + 1] = e
        BY <2>1, <2>2, AppendGrant
      <4>2. ~e.reset
        BY DEF e
      <4>3. k \in 1..Len(events) /\ events[k].reset /\ k \in Nat
        BY <3>1, <4>1, <4>2
      <4>4. NoGrantFrom(k)
        BY <1>2, <2>1, <2>4, <4>3 DEF ResettingToken
      <4>. QED
        BY <2>1, <2>2, <4>3, <4>4, AppendGrant
    <3>. QED
      BY <1>2, <2>1, <2>4, <3>1 DEF ResettingToken
  <2>. QED
    BY <2>3, <2>4
<1>15. CASE ControllerResets
  <2>1. resetting /\ inside' = {} /\ phase' = phase /\ phase = "resetting"
    BY <1>3, <1>15 DEF ControllerResets, hostVars
  <2>2. PICK n \in Allowances({}) :
          /\ events' = Append(events, [ncmd |-> n, reset |-> TRUE])
          /\ owes' = (n = 0)
    BY <1>15 DEF ControllerResets
  <2>. DEFINE e == [ncmd |-> n, reset |-> TRUE]
  <2>3. e \in Event
    BY <2>2, AllowanceType DEF Event
  <2>4. e.ncmd = n
    OBVIOUS
  <2>. HIDE DEF e
  <2>5. /\ Len(events') = Len(events) + 1 /\ Len(events) \in Nat
        /\ \A i \in 1..Len(events) : events'[i] = events[i]
        /\ events'[Len(events) + 1] = e
    BY <2>2, <2>3, AppendGrant DEF e
  <2>6. ASSUME NEW k \in 1..Len(events'), events'[k].reset
        PROVE  OneGrantFrom(k)' /\ (owes' => NoGrantFrom(k)')
    <3>1. k = Len(events) + 1
      BY <1>3, <2>1, <2>5, <2>6
    <3>2. \A i \in 1..Len(events') : i >= k => i = k
      BY <2>5, <3>1
    <3>3. n = 0 => ~(events'[k].ncmd > 0)
      BY <2>4, <2>5, <3>1
    <3>. QED
      BY <2>2, <3>2, <3>3 DEF OneGrantFrom, NoGrantFrom, IsGrant
  <2>. QED
    BY <2>1, <2>6 DEF ResettingToken
<1>16. ~ResetWriteFails /\ ~ResetTimesOut
  BY DEF ResetWriteFails, ResetTimesOut
<1>. QED
  BY <1>5, <1>6, <1>7, <1>8, <1>9, <1>10, <1>11, <1>12, <1>13, <1>14, <1>15, <1>16
     DEF Next, Host, Controller

\* A controller that takes one command at a time is never handed a second one,
\* through losses, give-ups, "wait" answers and the reset, unless an answer
\* came after the program had stopped waiting for it or the reset was never
\* confirmed.
THEOREM OneCommandAtATime ==
    ASSUME Room = 1
    PROVE  Spec => []NoOverrun
<1>1. Init => TokenInv
  <2>. SUFFICES ASSUME Init PROVE TokenInv
    OBVIOUS
  <2>1. events = <<>> \/ events = <<[ncmd |-> 1, reset |-> FALSE]>>
    BY DEF Init
  <2>2. \A i \in 1..Len(events) : ~events[i].reset
    BY <2>1
  <2>. QED
    BY <2>2 DEF Init, TokenInv, ResettingToken
<1>2. TypeOK /\ TokenInv => NoOverrun
  <2>. SUFFICES ASSUME TypeOK, TokenInv, ~early, ~abandoned
                PROVE  Cardinality(inside) <= 1
    BY DEF NoOverrun
  <2>1. \A a, b \in inside : a = b
    BY DEF TokenInv, RunningToken, TypeOK
  <2>2. inside = {} \/ \E a : inside = {a}
    BY <2>1
  <2>. QED
    <3>1. CASE inside = {}
      BY <3>1, FS_EmptySet
    <3>2. CASE \E a : inside = {a}
      BY <3>2, FS_Singleton
    <3>. QED
      BY <2>2, <3>1, <3>2
<1>4. TypeOK /\ ResetInv /\ TokenInv /\ [Next]_vars => TokenInv'
  BY TokenStep
<1>. QED
  BY <1>1, <1>2, <1>4, ResetInit, ResetStep, TypeCorrect, PTL DEF Spec

=============================================================================
