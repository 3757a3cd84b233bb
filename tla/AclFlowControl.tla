---------------------------- MODULE AclFlowControl ----------------------------
(***************************************************************************)
(* AclFlowControl.h: how many ACL packets the controller still holds, per  *)
(* link, against the pool it reported.  The class has no I/O of its own,   *)
(* so it is a record and the operations on it:                             *)
(*   max       max_packets_, 0 until Read Buffer Size is answered          *)
(*   inFlight  in_flight_, a function on the handles it has an entry for   *)
(*   total     total_                                                      *)
(*   idle      ticks since last_completion_, saturating past WriteOff      *)
(***************************************************************************)
EXTENDS Integers

CONSTANTS
    Depth,      \* depth_: 2 on the console link, 3 on the pad's
    WriteOff    \* write_off_after_ in ticks (3 s)

ASSUME DepthAssumption == Depth \in Nat \ {0}
ASSUME WriteOffAssumption == WriteOff \in Nat

\* Its type, over a set of handles.
IsAcl(a, handles) ==
    /\ a = [max |-> a.max, inFlight |-> a.inFlight, total |-> a.total, idle |-> a.idle]
    /\ a.max \in Nat
    /\ \E hs \in SUBSET handles : a.inFlight \in [hs -> Nat]
    /\ a.total \in Int
    /\ a.idle \in 0..WriteOff + 1

NewAcl(max) == [max |-> max, inFlight |-> [h \in {} |-> 0], total |-> 0, idle |-> 0]

\* on_sent(): in_flight_[handle]++ creates the entry if there is none.
OnSent(a, handle) ==
    [a EXCEPT !.inFlight = [h \in DOMAIN a.inFlight \cup {handle} |->
                              IF h = handle
                                THEN IF h \in DOMAIN a.inFlight THEN a.inFlight[h] + 1 ELSE 1
                                ELSE a.inFlight[h]],
              !.total = @ + 1]

\* What on_completed() leaves of a link's count: never below zero.
Remaining(was, done) == IF done >= was THEN 0 ELSE was - done

\* on_completed(): a handle without an entry is ignored, clock and all.
OnCompleted(a, handle, done) ==
    IF handle \notin DOMAIN a.inFlight THEN a
    ELSE LET was == a.inFlight[handle]
             now == Remaining(was, done)
         IN  [a EXCEPT !.inFlight[handle] = now,
                       !.total = @ - (was - now),
                       !.idle = 0]

\* Bug: nobody tells the flow control.
OnDisconnectIgnored(a, handle) == a

\* Bug: the link's entry goes and its packets stay in the total.
OnDisconnectKeepsTotal(a, handle) ==
    [a EXCEPT !.inFlight = [h \in DOMAIN a.inFlight \ {handle} |-> a.inFlight[h]]]

\* on_disconnect(): what the link held is gone with it.
OnDisconnect(a, handle) ==
    IF handle \notin DOMAIN a.inFlight THEN a
    ELSE [a EXCEPT !.total = @ - a.inFlight[handle],
                   !.inFlight = [h \in DOMAIN a.inFlight \ {handle} |-> a.inFlight[h]]]

Budget(a) ==
    IF a.max = 0 \/ Depth <= a.max - 1 THEN Depth ELSE a.max - 1

\* has_room() finds credits outstanding and nothing completed for too long.
WritesOff(a) == a.max # 0 /\ a.total > 0 /\ a.idle > WriteOff

\* Bug: "<=" for "<".
HasRoomOffByOne(a) == a.max = 0 \/ WritesOff(a) \/ a.total <= Budget(a)

\* has_room(): its answer, and what asking does to the state.
HasRoom(a) == a.max = 0 \/ WritesOff(a) \/ a.total < Budget(a)
AfterHasRoom(a) ==
    IF WritesOff(a)
      THEN [a EXCEPT !.inFlight = [h \in {} |-> 0], !.total = 0, !.idle = 0]
      ELSE a

\* The clock the class reads.
Later(a) == [a EXCEPT !.idle = IF @ <= WriteOff THEN @ + 1 ELSE @]

=============================================================================
