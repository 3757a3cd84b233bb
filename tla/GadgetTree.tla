----------------------------- MODULE GadgetTree -----------------------------
(***************************************************************************)
(* How the USB gadget is put together in configfs and FunctionFS, bound,   *)
(* detached and taken apart (USBHandler.cpp), over runs of the process     *)
(* that may be killed between any two system calls.  The tree outlives the *)
(* process: what a run finds is what the last one left.                    *)
(*                                                                         *)
(* init_gadget(), teardown_gadget_tree() and remove_gadget() are lists of  *)
(* steps, one system call (or one loop over entries of a kind) each; `todo'*)
(* is what is left of the list the process is in.  Any call may fail.      *)
(* The kernel's rules about what can be removed, mounted and bound are     *)
(* external.                                                               *)
(***************************************************************************)
EXTENDS Integers, Sequences

CONSTANT MaxRuns      \* bound: times the process starts

ASSUME MaxRunsAssumption == MaxRuns \in Nat

VARIABLES
    phase,        \* "off", "init", "up", "dropping" or "exit"
    todo,         \* the steps the process has before it
    created,      \* gadget_created_
    mounted,      \* mounted_
    files,        \* which of ep0, the endpoint files and the AIO context it holds
    setUp,        \* init_gadget() has returned true
    started,      \* usb_started_
    bound,        \* bound_
    ps5Side,      \* the PS5-facing handler, whose gadget was never set up, exists
    \* the kernel (external)
    tree,         \* what there is below usb_gadget/
    mount,        \* the FunctionFS instance is mounted
    accepted,     \* what of the function it has taken: descriptors, strings
    udc,          \* the gadget is bound to a UDC
    runs,
    \* history
    refused,      \* an unbind of this run had no effect
    exists        \* usbg_create_gadget() met a gadget that was already there
                  \* although none had

progVars == <<phase, todo, created, mounted, files, setUp, started, bound, ps5Side>>
kernVars == <<tree, mount, accepted, udc>>
vars == <<progVars, kernVars, runs, refused, exists>>

Files == {"ep0", "endpoints", "aio"}
Descriptions == {"descriptors", "strings"}
Nodes == {"g0", "strings", "ffs", "config", "configStrings", "uac1", "uac1Link", "ffsLink"}

-----------------------------------------------------------------------------
(* The lists of steps.                                                     *)

Call(c) == <<"call", c>>
Make(n) == <<"make", n>>
Remove(n) == <<"remove", n>>
Open(f) == <<"open", f>>
Write(d) == <<"write", d>>

Calls == {"unbind", "umount", "umount_own", "close", "usbg_init", "mount", "watch"}
Steps ==
    {"call", "make", "remove", "open", "write"} \X (Calls \cup Nodes \cup Files \cup Descriptions)

\* Bug: the unmount is left to close_function(), which a killed run never reaches.
TeardownStepsMounted ==
    <<Call("unbind"), Remove("uac1Link"), Remove("ffsLink"), Remove("configStrings"),
      Remove("config"), Remove("uac1"), Remove("ffs"), Remove("strings"), Remove("g0")>>

\* teardown_gadget_tree(), when there is a tree.
TeardownSteps ==
    <<Call("unbind"), Call("umount"), Remove("uac1Link"), Remove("ffsLink"),
      Remove("configStrings"), Remove("config"), Remove("uac1"), Remove("ffs"),
      Remove("strings"), Remove("g0")>>

Teardown == IF "g0" \in tree THEN TeardownSteps ELSE <<>>

\* init_gadget() after the teardown, with add_audio_function() and open_function().
BuildSteps ==
    <<Call("usbg_init"), Make("g0"), Make("strings"), Make("ffs"), Make("config"),
      Make("configStrings"), Make("uac1"), Make("uac1Link"), Make("ffsLink"),
      Call("mount"), Open("ep0"), Write("descriptors"), Write("strings"),
      Open("endpoints"), Open("aio"), Call("watch")>>

\* Bug: the tree is taken apart before the function is closed.
RemoveStepsTreeFirst(made) ==
    (IF made THEN Teardown ELSE <<>>) \o <<Call("close"), Call("umount_own")>>

\* remove_gadget() of a handler that made a gadget, or did not.
RemoveSteps(made) ==
    <<Call("close"), Call("umount_own")>> \o (IF made THEN Teardown ELSE <<>>)

-----------------------------------------------------------------------------
(* The kernel.                                                             *)

\* The FunctionFS instance is in use: mounted, or detached with files open.
InUse == mount \/ files # {}

\* A piece of the tree can go if nothing in it or linked to it remains, and not
\* while the gadget is bound.
Removable(n) ==
    /\ ~udc
    /\ CASE n = "g0"     -> tree \cap {"config", "uac1", "ffs", "strings"} = {}
         [] n = "config" -> tree \cap {"uac1Link", "ffsLink", "configStrings"} = {}
         [] n = "uac1"   -> "uac1Link" \notin tree
         [] n = "ffs"    -> "ffsLink" \notin tree /\ ~InUse
         [] OTHER        -> TRUE

\* What a directory or link needs to be made.
Makeable(n) ==
    /\ n \notin tree
    /\ CASE n = "g0"            -> TRUE
         [] n = "configStrings" -> "config" \in tree
         [] n = "uac1Link"      -> {"config", "uac1"} \subseteq tree
         [] n = "ffsLink"       -> {"config", "ffs"} \subseteq tree
         [] OTHER               -> "g0" \in tree

\* The function's last file closes: it forgets its descriptors, and a gadget
\* that has it is unbound.
FilesClose ==
    /\ accepted' = {}
    /\ udc' = (udc /\ accepted # Descriptions)

-----------------------------------------------------------------------------
(* Steps of teardown and removal.  None of them looks at the result.       *)

At(step) == todo # <<>> /\ Head(todo) = step
Goes == todo' = Tail(todo)

\* unbind_udc().  ok: the write takes effect.
Unbind(ok) ==
    /\ At(Call("unbind"))
    /\ Goes
    /\ udc' = (udc /\ ~ok)
    /\ refused' = (refused \/ ~ok)
    /\ UNCHANGED <<phase, created, mounted, files, setUp, started, bound, ps5Side, tree,
                   mount, accepted, runs, exists>>

\* umount2(MNT_DETACH): in teardown whatever is mounted, in close_function()
\* if this handler mounted it.
Umount ==
    /\ At(Call("umount")) \/ At(Call("umount_own"))
    /\ Goes
    /\ IF At(Call("umount")) \/ mounted THEN mount' = FALSE ELSE UNCHANGED mount
    /\ mounted' = (mounted /\ At(Call("umount")))
    /\ UNCHANGED <<phase, created, files, setUp, started, bound, ps5Side, tree, accepted,
                   udc, runs, refused, exists>>

\* A piece of the tree; it stays if it cannot go.
RemoveNode(n) ==
    /\ At(Remove(n))
    /\ Goes
    /\ tree' = IF Removable(n) THEN tree \ {n} ELSE tree
    /\ UNCHANGED <<phase, created, mounted, files, setUp, started, bound, ps5Side, mount,
                   accepted, udc, runs, refused, exists>>

\* close_function(): the AIO context, the endpoint files, ep0.
CloseFiles ==
    /\ At(Call("close"))
    /\ Goes
    /\ files' = {}
    /\ IF files # {} THEN FilesClose ELSE UNCHANGED <<accepted, udc>>
    /\ UNCHANGED <<phase, created, mounted, setUp, started, bound, ps5Side, tree, mount,
                   runs, refused, exists>>

-----------------------------------------------------------------------------
(* Steps of init_gadget().  A failure ends it, except in the audio         *)
(* function.                                                               *)

Building == phase = "init"

\* init_gadget() returns.
Returns(ok) == todo' = <<>> /\ phase' = "up" /\ setUp' = ok

\* A step of the build that goes through (ok), or not.
Builds(ok) ==
    IF ok THEN Goes /\ UNCHANGED <<phase, setUp>> ELSE Returns(FALSE)

\* usbg_init() changes nothing.
UsbgInit(ok) ==
    /\ Building /\ At(Call("usbg_init"))
    /\ Builds(ok)
    /\ UNCHANGED <<created, mounted, files, started, bound, ps5Side, kernVars, runs,
                   refused, exists>>

\* add_audio_function(): what the gadget does without when it cannot be made.
Audio == {"uac1", "uac1Link"}

\* Directories libusbgx fills with attributes or strings, which may fail with
\* the directory there; it does not take it away again.
Filled == {"g0", "strings", "config", "configStrings"}

\* The last step of usbg_create_gadget(): it makes g0, writes its attributes and
\* its strings, and only when it has returned is gadget_created_ set.
CreatesGadget(n) == n = "strings"

\* Directories and links by way of libusbgx, and the audio function.
MakeNode(n, ok) ==
    /\ Building /\ At(Make(n))
    /\ LET made == ok /\ Makeable(n)
       IN  /\ \/ made /\ tree' = tree \cup {n}
              \/ ~made /\ Makeable(n) /\ n \in Filled /\ tree' = tree \cup {n}
              \/ ~made /\ UNCHANGED tree
           /\ exists' = (exists \/ (n = "g0" /\ n \in tree /\ ~refused))
           /\ created' = (created \/ (CreatesGadget(n) /\ made))
           /\ Builds(made \/ n \in Audio)
    /\ UNCHANGED <<mounted, files, started, bound, ps5Side, mount, accepted, udc, runs,
                   refused>>

\* open_function(): mount.
Mount(ok) ==
    /\ Building /\ At(Call("mount"))
    /\ LET works == ok /\ "ffs" \in tree /\ ~InUse
       IN  /\ mount' = (mount \/ works) /\ mounted' = works
           /\ Builds(works)
    /\ UNCHANGED <<created, files, started, bound, ps5Side, tree, accepted, udc, runs,
                   refused, exists>>

\* open_function(): its files, one after the other, and the AIO context.
OpenFile(f, ok) ==
    /\ Building /\ At(Open(f))
    /\ files' = IF ok THEN files \cup {f} ELSE files
    /\ Builds(ok)
    /\ UNCHANGED <<created, mounted, started, bound, ps5Side, kernVars, runs, refused,
                   exists>>

\* open_function(): what it writes to ep0.
Describe(d, ok) ==
    /\ Building /\ At(Write(d))
    /\ accepted' = IF ok THEN accepted \cup {d} ELSE accepted
    /\ Builds(ok)
    /\ UNCHANGED <<created, mounted, files, started, bound, ps5Side, tree, mount, udc,
                   runs, refused, exists>>

\* open_function(): ep0_ready_ and aio_ready_, which the event loops need.
Watch ==
    /\ Building /\ At(Call("watch"))
    /\ Returns(TRUE)
    /\ UNCHANGED <<created, mounted, files, started, bound, ps5Side, kernVars, runs,
                   refused, exists>>

-----------------------------------------------------------------------------
(* The process.                                                            *)

\* The pad-facing handler is constructed: init_gadget().
StartRun ==
    /\ phase = "off" /\ runs < MaxRuns
    /\ runs' = runs + 1
    /\ phase' = "init" /\ todo' = Teardown \o BuildSteps
    /\ ps5Side' = TRUE /\ refused' = FALSE
    /\ UNCHANGED <<created, mounted, files, setUp, started, bound, kernVars, exists>>

\* Bug: removal goes ahead in a handler that made no gadget.
MadeOneAlways == TRUE

\* gadget_created_ of the PS5-facing handler.
MadeOne == FALSE

\* The PS5-facing adapter could not be claimed: ps5_side.reset().
DropPs5Side ==
    /\ phase = "up" /\ ps5Side /\ ~started
    /\ ps5Side' = FALSE
    /\ phase' = "dropping" /\ todo' = IF MadeOne THEN Teardown ELSE <<>>
    /\ UNCHANGED <<created, mounted, files, setUp, started, bound, kernVars, runs, refused,
                   exists>>

Dropped ==
    /\ phase = "dropping" /\ todo = <<>>
    /\ phase' = "up"
    /\ UNCHANGED <<todo, created, mounted, files, setUp, started, bound, ps5Side, kernVars,
                   runs, refused, exists>>

\* start_usb_gadget() after its sleep, with enable_gadget().  ok: there is a UDC
\* and the bind itself does not fail.
EnableGadget(ok) ==
    /\ phase = "up" /\ ~started
    /\ started' = TRUE
    /\ LET works == /\ "ep0" \in files
                    /\ ok /\ "ffsLink" \in tree /\ accepted = Descriptions
       IN  bound' = works /\ udc' = (udc \/ works)
    /\ UNCHANGED <<phase, todo, created, mounted, files, setUp, ps5Side, tree, mount,
                   accepted, runs, refused, exists>>

\* disable_gadget(), when the console takes over by Bluetooth.
DisableGadget(ok) ==
    /\ phase = "up" /\ bound
    /\ bound' = FALSE
    /\ udc' = (udc /\ ~ok)
    /\ UNCHANGED <<phase, todo, created, mounted, files, setUp, started, ps5Side, tree,
                   mount, accepted, runs, refused, exists>>

\* main() returns: the handlers are destroyed, the PS5-facing one first.
Exit ==
    /\ phase = "up"
    /\ phase' = "exit" /\ todo' = RemoveSteps(created)
    /\ UNCHANGED <<created, mounted, files, setUp, started, bound, ps5Side, kernVars, runs,
                   refused, exists>>

Forgotten ==
    /\ phase' = "off" /\ todo' = <<>>
    /\ created' = FALSE /\ mounted' = FALSE /\ files' = {} /\ setUp' = FALSE
    /\ started' = FALSE /\ bound' = FALSE /\ ps5Side' = FALSE

Exited ==
    /\ phase = "exit" /\ todo = <<>>
    /\ Forgotten
    /\ UNCHANGED <<kernVars, runs, refused, exists>>

\* Killed between two calls: its files close, the tree and the mount stay.
Kill ==
    /\ phase # "off"
    /\ Forgotten
    /\ IF files # {} THEN FilesClose ELSE UNCHANGED <<accepted, udc>>
    /\ UNCHANGED <<tree, mount, runs, refused, exists>>

-----------------------------------------------------------------------------
Init ==
    /\ phase = "off" /\ todo = <<>> /\ created = FALSE /\ mounted = FALSE /\ files = {}
    /\ setUp = FALSE /\ started = FALSE /\ bound = FALSE /\ ps5Side = FALSE
    /\ tree = {} /\ mount = FALSE /\ accepted = {} /\ udc = FALSE
    /\ runs = 0 /\ refused = FALSE /\ exists = FALSE

Next ==
    \/ StartRun \/ Umount \/ CloseFiles \/ Watch
    \/ DropPs5Side \/ Dropped \/ Exit \/ Exited \/ Kill
    \/ \E ok \in BOOLEAN :
          \/ Unbind(ok) \/ UsbgInit(ok) \/ Mount(ok)
          \/ EnableGadget(ok) \/ DisableGadget(ok)
          \/ \E n \in Nodes : MakeNode(n, ok)
          \/ \E f \in Files : OpenFile(f, ok)
          \/ \E d \in Descriptions : Describe(d, ok)
    \/ \E n \in Nodes : RemoveNode(n)

Spec == Init /\ [][Next]_vars

-----------------------------------------------------------------------------
(* Properties.                                                             *)

\* Every variable has the type its declaration gives it.
TypeOK ==
    /\ phase \in {"off", "init", "up", "dropping", "exit"}
    /\ tree \subseteq Nodes /\ files \subseteq Files
    /\ accepted \subseteq Descriptions
    /\ todo \in Seq(Steps) /\ runs \in 0..MaxRuns
    /\ {created, mounted, setUp, started, bound, ps5Side, mount, udc, refused, exists}
         \subseteq BOOLEAN

\* "A leftover means the last run did not get to tear its gadget down": wherever
\* a run was killed - half way up, bound, detached or half way down - the next
\* one removes all of it and never meets a gadget that exists, unless the kernel
\* would not let go of the UDC.
LeftoversGo == ~exists

\* A run that ends by itself leaves neither mount nor binding behind, and of the
\* tree nothing, however far init_gadget() had come when a call failed.  Two
\* exceptions: the kernel would not let go of the UDC, and usbg_create_gadget()
\* itself failed half way - gadget_created_ is then still false, remove_gadget()
\* skips the teardown, and the bare gadget stays for the next run to clear.
LeavesNothing ==
    (phase = "exit" /\ todo = <<>>) =>
       \/ refused
       \/ /\ ~mount /\ ~udc
          /\ tree = {} \/ (~created /\ tree \subseteq {"g0", "strings"})

\* From a successful init_gadget() until exit the gadget is complete and its
\* function mounted, whatever else is destroyed meanwhile - the handler that
\* has no gadget above all.
WholeWhileUp ==
    (phase \in {"up", "dropping"} /\ setUp)
       => (Nodes \ Audio \subseteq tree /\ mount)

\* "USB gadget setup failed - the PS5 will not see a controller": a gadget is
\* bound only if it was set up.
SetUpBeforeBound == bound => setUp

=============================================================================
