-------------------------------- MODULE Bonds --------------------------------
(***************************************************************************)
(* The two bonds the relay lives by, across runs: the pad's link key and   *)
(* the one the console issues for a controller.  Each has a file           *)
(* (main.cpp), copies in the handlers, and a truth at the other end: the   *)
(* key the pad or the console really holds.  The events are the security   *)
(* events of HciEvents.cpp, the pairing reports the console writes over    *)
(* USB (Handover.cpp), and the process being stopped at any moment, also   *)
(* before and in the middle of a save, which may itself be refused.        *)
(*                                                                         *)
(* A key is the number it was made with, 0 is none (and, in report 0x0a,   *)
(* the zeros the console writes once it has issued one).  An address is    *)
(* set or not.                                                             *)
(***************************************************************************)
EXTENDS Integers

CONSTANTS
    Pads,        \* controllers the relay may be run with
    MaxKeys      \* bound: keys ever made

ASSUME MaxKeysAssumption == MaxKeys \in Nat

VARIABLES
    padFile,     \* LINK_KEY_FILE
    consoleFile, \* CONSOLE_KEY_FILE
    \* the running process
    up,
    pad,         \* ds_addr: the controller of this run
    padKey,      \* link_key_ of the pad-facing handler
    padLink,     \* where the authentication of the pad's link is
    told,        \* what the last Link Key Request of the pad got
    seen,        \* console_pairing_seen_ of the pad-facing handler
    capturedKey, \* its console_link_key_
    known,       \* its console_addr_ is set
    detached,    \* a pair command has taken the gadget off the bus
    expects,     \* console_addr_ of the console-facing handler is set
    calls,       \* bt_addr_ of the console-facing handler is set
    consoleKey,  \* link_key_ of the console-facing handler
    \* the pads and the console (external)
    padHolds,    \* the key each pad holds for us
    issued,      \* the key the console holds for each controller
    made,        \* keys made so far
    \* history
    aired,       \* in this run, the console agreed on a key over the air
    unsaved,     \* controllers whose newest key, agreed on over the air, never got
                 \* to the file, which was left as it was
    wrongKeys    \* handovers with a key the console does not hold: after such an
                 \* agreement in this run ("aired"), after one an earlier run could
                 \* not save ("unsaved"), or without either ("stale")

files == <<padFile, consoleFile>>
padSide == <<pad, padKey, padLink, told>>
consoleSide == <<seen, capturedKey, known, detached, expects, calls, consoleKey>>
peers == <<padHolds, issued, made>>
history == <<aired, unsaved, wrongKeys>>
bondsVars == <<files, up, padSide, consoleSide, peers, history>>

\* A file that is not there, or was truncated and never filled, does not load.
NoPadFile == [ok |-> FALSE, pad |-> CHOOSE p \in Pads : TRUE, key |-> 0]
NoConsoleFile == [ok |-> FALSE, pad |-> CHOOSE p \in Pads : TRUE, key |-> 0, addr |-> FALSE]

\* How save_state() or save_console_pairing() goes: through, the open is
\* refused (logged, and the process goes on), or the process is killed before
\* the file is truncated, or between that and the last write.
Saves == {"done", "refused", "killed", "torn"}
Survives(save) == save \in {"done", "refused"}
KeepsOld(save) == save \in {"refused", "killed"}
FileAfter(save, old, new, none) ==
    IF save = "done" THEN new ELSE IF save = "torn" THEN none ELSE old

-----------------------------------------------------------------------------
(* The process.                                                            *)

\* Bug: the pairing is used whichever controller it was made for.
MatchesAny(p) == consoleFile.ok

\* load_console_pairing(): only the pairing of this controller counts.
Matches(p) == consoleFile.ok /\ consoleFile.pad = p

\* main(), to the start of the handlers: p is the saved pad, or the one named
\* on the command line.
Start(p) ==
    /\ ~up
    /\ padFile.ok => p = padFile.pad
    /\ up' = TRUE
    /\ pad' = p
    /\ padKey' = padFile.key
    /\ padLink' = "down" /\ told' = 0
    /\ seen' = Matches(p)
    /\ capturedKey' = IF Matches(p) THEN consoleFile.key ELSE 0
    /\ known' = (Matches(p) /\ consoleFile.addr)
    /\ expects' = (Matches(p) /\ consoleFile.addr)
    /\ detached' = FALSE /\ calls' = FALSE /\ consoleKey' = 0 /\ aired' = FALSE
    /\ UNCHANGED <<files, peers, unsaved, wrongKeys>>

\* The process ends, and what it had in memory with it.
Forget ==
    /\ up' = FALSE
    /\ padKey' = 0 /\ padLink' = "down" /\ told' = 0
    /\ seen' = FALSE /\ capturedKey' = 0 /\ known' = FALSE /\ detached' = FALSE
    /\ expects' = FALSE /\ calls' = FALSE /\ consoleKey' = 0 /\ aired' = FALSE
    /\ UNCHANGED pad

Stop ==
    /\ up
    /\ Forget
    /\ UNCHANGED <<files, peers, unsaved, wrongKeys>>

\* Between runs: --fresh-pairing removes the pad's file.
FreshPairing ==
    /\ ~up /\ padFile.ok
    /\ padFile' = NoPadFile
    /\ UNCHANGED <<consoleFile, up, padSide, consoleSide, peers, history>>

-----------------------------------------------------------------------------
(* The pad's link.                                                         *)

\* handle_link_key_request(): the key in memory, or none.
PadAsksForKey ==
    /\ up /\ padLink = "down"
    /\ padLink' = "answered"
    /\ told' = padKey
    /\ UNCHANGED <<files, up, pad, padKey, consoleSide, peers, history>>

\* Told there is no key, a pad in pairing mode agrees on one: the events up to
\* handle_link_key_notify(), which saves it.
PadPairs(save) ==
    /\ up /\ padLink = "answered" /\ told = 0
    /\ made < MaxKeys
    /\ made' = made + 1
    /\ padHolds' = [padHolds EXCEPT ![pad] = made + 1]
    /\ padFile' = FileAfter(save, padFile, [ok |-> TRUE, pad |-> pad, key |-> made + 1], NoPadFile)
    /\ IF Survives(save)
         THEN padLink' = "paired" /\ UNCHANGED <<up, pad, padKey, told, consoleSide, aired>>
         ELSE Forget
    /\ UNCHANGED <<consoleFile, issued, unsaved, wrongKeys>>

\* Bug: the file goes whether or not it was its key that failed.
KeyRejectedAlways == TRUE

\* handle_auth_complete() drops a key only if it had one.
KeyRejected == padKey # 0

\* handle_auth_complete() with a failure: the key we told is not the pad's.
PadAuthFails ==
    /\ up /\ padLink = "answered"
    /\ told = 0 \/ told # padHolds[pad]
    /\ padLink' = "down"
    /\ padKey' = 0
    /\ padFile' = IF KeyRejected THEN NoPadFile ELSE padFile
    /\ UNCHANGED <<consoleFile, up, pad, told, consoleSide, peers, history>>

\* The link is over, after an authentication or without one reaching us.
PadLinkEnds ==
    /\ up /\ padLink # "down"
    /\ padLink' = "down"
    /\ UNCHANGED <<files, up, pad, padKey, told, consoleSide, peers, history>>

\* The pad is reset, or bonded to somebody else.
PadForgets(p) ==
    /\ padHolds[p] # 0
    /\ padHolds' = [padHolds EXCEPT ![p] = 0]
    /\ UNCHANGED <<files, up, padSide, consoleSide, issued, made, history>>

-----------------------------------------------------------------------------
(* The console's bond.                                                     *)

SavePairing(addr, key, save) ==
    consoleFile' = FileAfter(save, consoleFile,
                             [ok |-> TRUE, pad |-> pad, key |-> key, addr |-> addr], NoConsoleFile)

IsKey(key) == key # 0

\* l2cap_send_feature_set() with report 0x0a: the console's address, and a key
\* the first time it meets this controller, zeros ever after.
PairingSet(key, save) ==
    /\ up /\ ~detached
    /\ IF issued[pad] = 0
         THEN /\ made < MaxKeys
              /\ key = made + 1
              /\ made' = made + 1
              /\ issued' = [issued EXCEPT ![pad] = key]
         ELSE key = 0 /\ UNCHANGED <<made, issued>>
    /\ IF IsKey(key)
         THEN /\ SavePairing(TRUE, key, save)
              /\ IF Survives(save)
                   THEN /\ seen' = TRUE /\ capturedKey' = key /\ known' = TRUE
                        /\ UNCHANGED <<up, padSide, detached, expects, calls, consoleKey, aired>>
                   ELSE Forget
         ELSE /\ save = "done"
              /\ known' = (known \/ seen)
              /\ UNCHANGED <<consoleFile, up, padSide, seen, capturedKey, detached, expects,
                             calls, consoleKey, aired>>
    /\ UNCHANGED <<padFile, padHolds, unsaved, wrongKeys>>

\* Why the captured key may not be the console's.
Excuse == IF aired THEN "aired" ELSE IF pad \in unsaved THEN "unsaved" ELSE "stale"

\* l2cap_send_feature_set() with the pair command, then connect_to_console():
\* after it the gadget is gone, so there is one per run.  linked: the console
\* has called already.  Without an address nobody is called or expected.
PairCommand(linked) ==
    /\ up /\ seen /\ ~detached
    /\ linked => expects
    /\ detached' = TRUE
    /\ IF linked
         THEN UNCHANGED <<calls, expects, consoleKey, wrongKeys>>
         ELSE /\ calls' = known /\ expects' = known
              /\ consoleKey' = capturedKey
              /\ wrongKeys' = IF capturedKey = issued[pad] THEN wrongKeys
                              ELSE wrongKeys \cup {Excuse}
    /\ UNCHANGED <<files, up, padSide, seen, capturedKey, known, peers, aired, unsaved>>

\* The console's link asks for a key, is told there is none, and the console
\* agrees on a fresh one: handle_link_key_notify() saves it for bt_addr_.
ConsolePairs(save) ==
    /\ up /\ expects /\ consoleKey = 0
    /\ made < MaxKeys
    /\ made' = made + 1
    /\ issued' = [issued EXCEPT ![pad] = made + 1]
    /\ SavePairing(calls, made + 1, save)
    /\ unsaved' = IF KeepsOld(save) THEN unsaved \cup {pad} ELSE unsaved \ {pad}
    /\ IF Survives(save)
         THEN aired' = TRUE /\ UNCHANGED <<up, padSide, consoleSide>>
         ELSE Forget
    /\ UNCHANGED <<padFile, padHolds, wrongKeys>>

\* handle_auth_complete() with a failure on the console's link: the key is
\* dropped from memory, and no file is touched.
ConsoleAuthFails ==
    /\ up /\ calls
    /\ consoleKey # issued[pad]
    /\ consoleKey' = 0
    /\ UNCHANGED <<files, up, padSide, seen, capturedKey, known, detached, expects, calls, peers,
                   history>>

-----------------------------------------------------------------------------
BondsInit ==
    /\ padFile = NoPadFile /\ consoleFile = NoConsoleFile
    /\ up = FALSE /\ pad \in Pads /\ padKey = 0 /\ padLink = "down" /\ told = 0
    /\ seen = FALSE /\ capturedKey = 0 /\ known = FALSE /\ detached = FALSE
    /\ expects = FALSE /\ calls = FALSE /\ consoleKey = 0
    /\ padHolds = [p \in Pads |-> 0] /\ issued = [p \in Pads |-> 0] /\ made = 0
    /\ aired = FALSE /\ unsaved = {} /\ wrongKeys = {}

BondsNext ==
    \/ \E p \in Pads : Start(p) \/ PadForgets(p)
    \/ Stop \/ FreshPairing
    \/ PadAsksForKey \/ PadAuthFails \/ PadLinkEnds
    \/ \E save \in Saves : PadPairs(save) \/ ConsolePairs(save)
    \/ \E key \in 0..MaxKeys, save \in Saves : PairingSet(key, save)
    \/ \E linked \in BOOLEAN : PairCommand(linked)
    \/ ConsoleAuthFails

BondsSpec == BondsInit /\ [][BondsNext]_bondsVars

-----------------------------------------------------------------------------
(* Properties.                                                             *)

\* Every variable has the type its declaration gives it, and a file that loads
\* holds a key.
BondsTypeOK ==
    /\ padFile \in [ok : BOOLEAN, pad : Pads, key : 0..MaxKeys]
    /\ consoleFile \in [ok : BOOLEAN, pad : Pads, key : 0..MaxKeys, addr : BOOLEAN]
    /\ padFile.ok <=> padFile.key # 0
    /\ consoleFile.ok <=> consoleFile.key # 0
    /\ pad \in Pads /\ padKey \in 0..MaxKeys /\ told \in 0..MaxKeys
    /\ padLink \in {"down", "answered", "paired"}
    /\ capturedKey \in 0..MaxKeys /\ consoleKey \in 0..MaxKeys
    /\ \A b \in {up, seen, known, detached, expects, calls, aired} : b \in BOOLEAN
    /\ unsaved \subseteq Pads /\ wrongKeys \subseteq {"aired", "unsaved", "stale"}
    /\ padHolds \in [Pads -> 0..MaxKeys] /\ issued \in [Pads -> 0..MaxKeys]
    /\ made \in 0..MaxKeys

\* The file with the key the pad of this run honours is lost only to pairing
\* again (or to the user), whatever authentications fail meanwhile.
GoodKeyKept ==
    [][(up /\ padFile.ok /\ padFile.pad = pad /\ padFile.key = padHolds[pad])
          => (padFile' = padFile \/ made' # made)]_bondsVars

\* The console is always met with the key it holds for this controller: across
\* restarts, swapped pads, and saves refused, torn or cut off - with two
\* exceptions, both after a key agreed on over the air: the two agreed on it in
\* this very run, or in an earlier one that could not save it, so that the older
\* pairing is still on file.
HandoverUsesIssuedKey == "stale" \notin wrongKeys

\* Comment in handle_link_key_notify(): a key agreed on over the air "is the bond
\* that link actually holds now".
HandoverUsesNewestKey == wrongKeys = {}

\* Comment in main(): the console's address "has to be known before it or
\* anything else calls in", so a pairing on file names its console.
SavedPairingNamesConsole == consoleFile.ok => consoleFile.addr

=============================================================================
