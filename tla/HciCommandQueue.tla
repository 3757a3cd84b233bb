--------------------------- MODULE HciCommandQueue ---------------------------
(***************************************************************************)
(* The HCI command path of one Bluetooth adapter: the queue of             *)
(* HciCommandQueue.h, the code that feeds it and drains it                 *)
(* (send_cmd, pump_commands, watch_commands and reset_controller of        *)
(* HciCommands.cpp, the Command Complete / Command Status handlers of      *)
(* HciEvents.cpp), the socket, and the controller at the other end.        *)
(*                                                                         *)
(* A command is the number it was pushed with, so "in order" means         *)
(* "increasing".  Time is counted in ticks: `age' since the last write,    *)
(* `resetAge' since the reset was written, both saturating one tick past   *)
(* the value the code compares them with.                                  *)
(***************************************************************************)
EXTENDS Integers, Sequences, FiniteSets

CONSTANTS
    Room,         \* commands the controller can hold; the BT400's is 1
    MinAllowance, \* smallest allowance its answers carry: 1, or 0 for "wait"
    Timeout,      \* ticks an unanswered command is waited for (2 s)
    MaxCommands   \* bound: how many commands the program pushes

ASSUME RoomAssumption == Room \in Nat \ {0}
ASSUME MinAllowanceAssumption == MinAllowance \in {0, 1}
ASSUME TimeoutAssumption == Timeout \in Nat
ASSUME MaxCommandsAssumption == MaxCommands \in Nat

VARIABLES
    queue,        \* queue_: commands not yet written, oldest first
    credits,      \* credits_: what the controller will still take
    held,         \* held_: shut for the length of a reset
    awaiting,     \* awaiting_: a write has had no answer yet
    age,          \* ticks since last_write_
    phase,        \* where handle() is: about to reset, in it, past it
    resetAge,     \* ticks since the Reset was written
    pushed,       \* number of commands pushed so far
    \* the controller and the socket (external)
    inside,       \* commands the controller has taken and not answered
    resetting,    \* it is processing a Reset
    owes,         \* it answered "0 more" and has had room since
    events,       \* answers in the socket, oldest first
    \* history
    written,      \* the commands ever written to the controller
    lostToReset,  \* commands that reached the controller inside a reset
    early,        \* a command was given up on while its answer was still due
    abandoned     \* a reset was not confirmed, and the queue opened anyway

hostVars == <<queue, credits, held, awaiting, age, phase, resetAge, pushed>>
ctrlVars == <<inside, resetting, owes, events>>
histVars == <<written, lostToReset, early, abandoned>>
vars == <<hostVars, ctrlVars, histVars>>

Ids == 1..MaxCommands

\* An answer: Command Complete or Command Status, with the allowance it carries.
\* reset: it is the Command Complete of the Reset itself.
Event == [ncmd : 0..Room, reset : BOOLEAN]

-----------------------------------------------------------------------------
(* The queue's own operations that are more than one assignment.           *)

\* Bug: next() without its look at the allowance - everything goes out.
PumpOutcomesUnmetered(q, c, h) ==
    {[left |-> IF h THEN 0 ELSE Len(q), out |-> IF h THEN {} ELSE 1..Len(q)]}

\* Bug: next() without its look at the hold.
PumpOutcomesUnheld(q, c, h) ==
    IF c = 0 \/ q = <<>>
      THEN {[left |-> 0, out |-> {}]}
      ELSE {[left |-> 1, out |-> {1}]}

\* pump_commands() is one loop without a suspension point: commands leave from
\* the front, each written or (write error) dropped, until the allowance is
\* spent or the queue is empty.  An outcome is how many left, and the positions
\* among them that were really written.
PumpOutcomes(q, c, h) ==
    IF h \/ c = 0
      THEN {[left |-> 0, out |-> {}]}
      ELSE {o \in [left : 0..Len(q), out : SUBSET (1..Len(q))] :
              /\ o.out \subseteq 1..o.left
              /\ \/ o.left = Len(q) /\ Cardinality(o.out) < c
                 \/ o.left \in o.out /\ Cardinality(o.out) = c}

\* What pump_commands() does to everything, from a queue q with allowance c:
\* each write spends a credit, restarts the clock and reaches the controller,
\* which throws it away if it is in the middle of a reset.  waiting: awaiting_
\* as the caller left it.
Pump(q, c, h, waiting, taken, busy) ==
    \E o \in PumpOutcomes(q, c, h) :
        LET sent == {q[i] : i \in o.out}
        IN  /\ queue' = SubSeq(q, o.left + 1, Len(q))
            /\ credits' = c - Cardinality(o.out)
            /\ awaiting' = (waiting \/ o.out # {})
            /\ age' = IF o.out # {} THEN 0 ELSE age
            /\ inside' = IF busy THEN taken ELSE taken \cup sent
            /\ lostToReset' = IF busy THEN lostToReset \cup sent ELSE lostToReset
            /\ written' = written \cup sent

-----------------------------------------------------------------------------
(* The program.                                                            *)

\* Bug: push() puts the new command in front of the ones that wait.
SendCmdAtFront ==
    /\ phase # "starting"
    /\ pushed < MaxCommands
    /\ pushed' = pushed + 1
    /\ Pump(<<pushed + 1>> \o queue, credits, held, awaiting, inside, resetting)
    /\ UNCHANGED <<held, phase, resetAge, resetting, owes, events, early, abandoned>>

\* send_cmd(): push, then pump.  Called by this handler and by the other one,
\* at any time - also while this adapter is being reset.
SendCmd ==
    /\ phase # "starting"
    /\ pushed < MaxCommands
    /\ pushed' = pushed + 1
    /\ Pump(Append(queue, pushed + 1), credits, held, awaiting, inside, resetting)
    /\ UNCHANGED <<held, phase, resetAge, resetting, owes, events, early, abandoned>>

\* reset_controller(), up to its first suspension: the queue is shut and the
\* Reset written past it.
StartReset ==
    /\ phase = "starting"
    /\ phase' = "resetting"
    /\ held' = TRUE
    /\ resetAge' = 0
    /\ resetting' = TRUE
    /\ UNCHANGED <<queue, credits, awaiting, age, pushed, inside, owes, events, histVars>>

\* The write of the Reset fails: the queue opens again and handle() goes on.
ResetWriteFails ==
    /\ phase = "starting"
    /\ phase' = "running"
    /\ held' = FALSE
    /\ abandoned' = TRUE
    /\ Pump(queue, credits, FALSE, awaiting, inside, resetting)
    /\ UNCHANGED <<resetAge, pushed, resetting, owes, events, early>>

\* reset_controller() reads a packet that is not the answer to the Reset:
\* it belongs to the state being thrown away.
DiscardDuringReset ==
    /\ phase = "resetting"
    /\ resetAge <= Timeout
    /\ events # <<>> /\ ~Head(events).reset
    /\ events' = Tail(events)
    /\ UNCHANGED <<hostVars, inside, resetting, owes, histVars>>

\* reset_controller() reads the answer to the Reset.
ResetConfirmed ==
    /\ phase = "resetting"
    /\ resetAge <= Timeout
    /\ events # <<>> /\ Head(events).reset
    /\ events' = Tail(events)
    /\ phase' = "running"
    /\ held' = FALSE
    /\ Pump(queue, Head(events).ncmd, FALSE, FALSE, inside, resetting)
    /\ UNCHANGED <<resetAge, pushed, resetting, owes, early, abandoned>>

\* The deadline passes: the queue opens without an answer.
ResetTimesOut ==
    /\ phase = "resetting"
    /\ resetAge > Timeout
    /\ phase' = "running"
    /\ held' = FALSE
    /\ abandoned' = TRUE
    /\ Pump(queue, credits, FALSE, awaiting, inside, resetting)
    /\ UNCHANGED <<resetAge, pushed, resetting, owes, events, early>>

\* handle_cmd_complete() / handle_cmd_status(): answered(), then pump.
Answered ==
    /\ phase = "running"
    /\ events # <<>>
    /\ events' = Tail(events)
    /\ Pump(queue, Head(events).ncmd, held, FALSE, inside, resetting)
    /\ UNCHANGED <<held, phase, resetAge, pushed, resetting, owes, early, abandoned>>

overdue == awaiting /\ credits = 0 /\ age > Timeout

\* Bug: give_up() stops waiting and leaves the allowance at zero.
GiveUpKeepsNoCredit ==
    /\ phase # "starting"
    /\ overdue
    /\ early' = (early \/ inside # {} \/ events # <<>> \/ owes \/ resetting)
    /\ Pump(queue, 0, held, FALSE, inside, resetting)
    /\ UNCHANGED <<held, phase, resetAge, pushed, resetting, owes, events, abandoned>>

\* watch_commands(): an overdue command is given up on.
GiveUp ==
    /\ phase # "starting"
    /\ overdue
    /\ early' = (early \/ inside # {} \/ events # <<>> \/ owes \/ resetting)
    /\ Pump(queue, 1, held, FALSE, inside, resetting)
    /\ UNCHANGED <<held, phase, resetAge, pushed, resetting, owes, events, abandoned>>

Tick ==
    /\ \/ awaiting /\ age <= Timeout
       \/ phase = "resetting" /\ resetAge <= Timeout
    /\ age' = IF awaiting /\ age <= Timeout THEN age + 1 ELSE age
    /\ resetAge' = IF phase = "resetting" /\ resetAge <= Timeout THEN resetAge + 1 ELSE resetAge
    /\ UNCHANGED <<queue, credits, held, awaiting, phase, pushed, ctrlVars, histVars>>

-----------------------------------------------------------------------------
(* The controller.                                                         *)

\* What it says in an answer: the room it has, or "wait" if it ever says that.
Allowances(taken) ==
    {MinAllowance} \cup
    (IF Cardinality(taken) < Room THEN {Room - Cardinality(taken)} ELSE {})

\* It answers one of the commands it holds.
ControllerAnswers(id) ==
    /\ id \in inside /\ ~resetting
    /\ inside' = inside \ {id}
    /\ \E n \in Allowances(inside') :
          /\ events' = Append(events, [ncmd |-> n, reset |-> FALSE])
          /\ owes' = (n = 0 /\ Cardinality(inside') < Room)
    /\ UNCHANGED <<hostVars, resetting, histVars>>

\* It loses a command without ever answering it.
ControllerLoses(id) ==
    /\ id \in inside
    /\ inside' = inside \ {id}
    /\ UNCHANGED <<hostVars, resetting, owes, events, histVars>>

\* After an answer that allowed nothing, the no-op Command Complete that does.
ControllerNoOp ==
    /\ owes /\ ~resetting
    /\ Cardinality(inside) < Room
    /\ owes' = FALSE
    /\ events' = Append(events, [ncmd |-> Room - Cardinality(inside), reset |-> FALSE])
    /\ UNCHANGED <<hostVars, inside, resetting, histVars>>

\* It finishes a reset: everything it held is gone, and it says so.
ControllerResets ==
    /\ resetting
    /\ resetting' = FALSE
    /\ inside' = {}
    /\ \E n \in Allowances({}) :
          /\ events' = Append(events, [ncmd |-> n, reset |-> TRUE])
          /\ owes' = (n = 0)
    /\ UNCHANGED <<hostVars, histVars>>

-----------------------------------------------------------------------------
\* A run starts with whatever the last one left: a command unanswered, an
\* answer unread, or neither.
Init ==
    /\ queue = <<>> /\ credits = 1 /\ held = FALSE /\ awaiting = FALSE /\ age = 0
    /\ phase = "starting" /\ resetAge = 0 /\ pushed = 0
    /\ inside = {} /\ resetting = FALSE /\ owes = FALSE
    /\ events \in {<<>>, <<[ncmd |-> 1, reset |-> FALSE]>>}
    /\ written = {} /\ lostToReset = {} /\ early = FALSE /\ abandoned = FALSE

Host ==
    \/ SendCmd \/ StartReset \/ ResetWriteFails \/ DiscardDuringReset
    \/ ResetConfirmed \/ ResetTimesOut \/ Answered \/ GiveUp

Controller ==
    \/ \E id \in Ids : ControllerAnswers(id) \/ ControllerLoses(id)
    \/ ControllerNoOp \/ ControllerResets

Next == Host \/ Controller \/ Tick

Spec == Init /\ [][Next]_vars

\* Time passes, the io_context runs what is ready, and a controller that said
\* "wait" says "go" one day.  Whether it answers a command is left open.
Fairness ==
    /\ WF_vars(Tick)
    /\ WF_vars(StartReset \/ ResetWriteFails)
    /\ WF_vars(DiscardDuringReset \/ ResetConfirmed \/ ResetTimesOut)
    /\ WF_vars(Answered)
    /\ WF_vars(GiveUp)
    /\ WF_vars(ControllerNoOp)

FairSpec == Spec /\ Fairness

-----------------------------------------------------------------------------
(* Properties.                                                             *)

\* Every variable has the type its declaration gives it.
TypeOK ==
    /\ queue \in Seq(Ids)
    /\ credits \in 0..Room
    /\ held \in BOOLEAN /\ awaiting \in BOOLEAN
    /\ age \in 0..Timeout + 1 /\ resetAge \in 0..Timeout + 1
    /\ phase \in {"starting", "resetting", "running"}
    /\ pushed \in 0..MaxCommands
    /\ inside \subseteq Ids
    /\ resetting \in BOOLEAN /\ owes \in BOOLEAN
    /\ events \in Seq(Event)
    /\ written \subseteq Ids
    /\ lostToReset \subseteq Ids
    /\ early \in BOOLEAN /\ abandoned \in BOOLEAN

\* "One goes out only while the controller has room for it": the controller
\* never holds more commands than it can, as long as no reset was left
\* unconfirmed and no command was given up on while its answer was still on the
\* way.  Losing a command and giving up on it is not an exception.  This is about
\* a controller with room for one: with more, an allowance that is read late counts
\* room that a command written meanwhile has taken.
NoOverrun == (~early /\ ~abandoned) => Cardinality(inside) <= Room

\* "Nothing else may reach the controller until it says the reset is done":
\* no command is lost to a reset, whoever queued it and whatever timer fired
\* meanwhile, unless the reset was never confirmed.
NothingLostToReset == ~abandoned => lostToReset = {}

\* Commands reach the controller in the order they were asked for, across
\* holds, write errors and give-ups: what still waits is newer than anything
\* written, and waits in order.
InOrder ==
    /\ \A i \in 1..Len(queue), w \in written : w < queue[i]
    /\ \A i, j \in 1..Len(queue) : i < j => queue[i] < queue[j]

\* The command path keeps the promise of CommandFifo.
Fifo == INSTANCE CommandFifo WITH waiting <- queue, sent <- written, asked <- pushed

\* Callers can rely on send_cmd() as on a plain first-in first-out: across holds,
\* resets, write errors and give-ups no command overtakes another, goes out twice
\* or is taken from the middle.
ImplementsFifo == Fifo!Spec

Queued(id) == \E i \in 1..Len(queue) : queue[i] = id

\* No command waits for ever: a controller that swallows one, answers late or
\* says "wait" delays the queue and does not wedge it - unless it both says
\* "wait" and answers something the program had stopped waiting for.
EveryCommandLeaves ==
    \A id \in Ids : Queued(id) ~> (~Queued(id) \/ (MinAllowance = 0 /\ (early \/ abandoned)))

\* Comment in HciCommandQueue.h: a command the controller never answers "is given
\* up on after a timeout rather than wedging everything behind it".
NeverWedged == \A id \in Ids : Queued(id) ~> ~Queued(id)

=============================================================================
