-------------------------- MODULE GadgetTreeProofs ---------------------------
(***************************************************************************)
(* The gadget's tree, for every number of runs and every place they are    *)
(* killed or fail at.  The process is at a position of one of three lists  *)
(* of steps; the inductive invariant says what of the tree, the mount and  *)
(* the binding is there at each position.                                  *)
(***************************************************************************)
EXTENDS GadgetTree, SequenceTheorems, TLAPS

\* What is left of a list from position k on.
From(s, k) == SubSeq(s, k, Len(s))

\* The lists: init_gadget() over a leftover (without one it starts at 11), and
\* remove_gadget() with and without a tree to take apart.
InitSteps == TeardownSteps \o BuildSteps
FullRemoval == <<Call("close"), Call("umount_own")>> \o TeardownSteps
BareRemoval == <<Call("close"), Call("umount_own")>>

-----------------------------------------------------------------------------
(* The inductive invariant.                                                *)

\* Nothing in the tree is without what it hangs from; the mount has its
\* function and the binding its gadget.
TreeShape ==
    /\ tree \subseteq Nodes
    /\ tree # {} => "g0" \in tree
    /\ "configStrings" \in tree => "config" \in tree
    /\ "uac1Link" \in tree => {"config", "uac1"} \subseteq tree
    /\ "ffsLink" \in tree => {"config", "ffs"} \subseteq tree
    /\ mount => "ffs" \in tree
    /\ udc => "g0" \in tree

\* Nothing is left of the gadget.
Clean == tree = {} /\ ~mount /\ ~udc

\* At most what a usbg_create_gadget() that failed half way leaves.
Bare == tree \subseteq {"g0", "strings"} /\ ~mount /\ ~udc

\* What is gone before step k of teardown_gadget_tree().
Gone(k) ==
    /\ k > 1 => ~udc
    /\ k > 2 => ~mount
    /\ k > 3 => "uac1Link" \notin tree
    /\ k > 4 => "ffsLink" \notin tree
    /\ k > 5 => "configStrings" \notin tree
    /\ k > 6 => "config" \notin tree
    /\ k > 7 => "uac1" \notin tree
    /\ k > 8 => "ffs" \notin tree
    /\ k > 9 => "strings" \notin tree
    /\ k > 10 => "g0" \notin tree

\* What is there before step k of init_gadget(), with the audio function aside.
There(k) ==
    /\ k > 12 => "g0" \in tree
    /\ k > 13 => "strings" \in tree
    /\ k > 14 => "ffs" \in tree
    /\ k > 15 => "config" \in tree
    /\ k > 16 => "configStrings" \in tree
    /\ k > 19 => "ffsLink" \in tree
    /\ k > 20 => mount

\* init_gadget() before its step k.
InInit(k) ==
    /\ todo = From(InitSteps, k)
    /\ k <= 21 => files = {}
    /\ (k <= 13 => ~created) /\ (k > 13 => created)
    /\ k <= 10 => refused \/ Gone(k)
    /\ k \in 11..12 => refused \/ Clean
    /\ k = 13 => refused \/ Bare
    /\ There(k)

\* The event loop runs, or the PS5-facing handler is being dropped.
InUp ==
    /\ todo = <<>>
    /\ created => "g0" \in tree
    /\ ~created => refused \/ Bare

\* remove_gadget() before its step k, of a handler that made a gadget.
InFullRemoval(k) ==
    /\ todo = From(FullRemoval, k)
    /\ k > 1 => files = {}
    /\ refused \/ Gone(k - 2)

InBareRemoval(k) ==
    /\ todo = From(BareRemoval, k)
    /\ ~created /\ (refused \/ Bare)

\* Where the process is.
Position ==
    \/ phase = "off" /\ todo = <<>> /\ files = {} /\ ~created
    \/ phase = "init" /\ \E k \in 1..26 : InInit(k)
    \/ phase \in {"up", "dropping"} /\ InUp
    \/ phase = "exit" /\ \E k \in 1..13 : InFullRemoval(k)
    \/ phase = "exit" /\ \E k \in 1..3 : InBareRemoval(k)

Inv == TreeShape /\ Position /\ LeftoversGo /\ WholeWhileUp

-----------------------------------------------------------------------------
(* Lists and positions.                                                    *)

\* A step taken off what is left of a list leaves what is left one further on.
LEMMA FromStep ==
    ASSUME NEW s \in Seq(Steps), NEW k \in 1..Len(s)
    PROVE  From(s, k) # <<>> /\ Head(From(s, k)) = s[k] /\ Tail(From(s, k)) = From(s, k + 1)
<1>1. Len(s) \in Nat
  OBVIOUS
<1>2. \A i \in k..Len(s) : s[i] \in Steps
  BY <1>1
<1>3. Len(SubSeq(s, k, Len(s))) = Len(s) - k + 1
  BY <1>1, <1>2, SubSeqProperties
<1>4. SubSeq(s, k, Len(s)) # <<>>
  <2>1. Len(s) - k + 1 # 0 /\ Len(<<>>) = 0
    BY <1>1
  <2> QED
    BY <1>3, <2>1
<1>5. Len(s) \in k..Len(s)
  BY <1>1
<1> QED
  BY <1>4, <1>5, HeadTailOfSubSeq DEF From

LEMMA FromEnd ==
    ASSUME NEW s \in Seq(Steps)
    PROVE  From(s, Len(s) + 1) = <<>> /\ From(s, 1) = s
<1>1. Len(s) \in Nat /\ Len(s) < Len(s) + 1
  OBVIOUS
<1> QED
  BY <1>1, SubSeqEmpty, SubSeqFull DEF From

LEMMA StepKinds ==
    /\ \A c \in Calls : Call(c) \in Steps
    /\ \A n \in Nodes : Make(n) \in Steps /\ Remove(n) \in Steps
    /\ \A f \in Files : Open(f) \in Steps
    /\ \A d \in Descriptions : Write(d) \in Steps
BY DEF Steps, Call, Make, Remove, Open, Write

LEMMA TeardownList ==
    /\ TeardownSteps \in Seq(Steps) /\ Len(TeardownSteps) = 10
    /\ TeardownSteps[1] = Call("unbind")
    /\ TeardownSteps[2] = Call("umount")
    /\ TeardownSteps[3] = Remove("uac1Link")
    /\ TeardownSteps[4] = Remove("ffsLink")
    /\ TeardownSteps[5] = Remove("configStrings")
    /\ TeardownSteps[6] = Remove("config")
    /\ TeardownSteps[7] = Remove("uac1")
    /\ TeardownSteps[8] = Remove("ffs")
    /\ TeardownSteps[9] = Remove("strings")
    /\ TeardownSteps[10] = Remove("g0")
<1>1. /\ Call("unbind") \in Steps /\ Call("umount") \in Steps
      /\ Remove("uac1Link") \in Steps /\ Remove("ffsLink") \in Steps
      /\ Remove("configStrings") \in Steps /\ Remove("config") \in Steps
      /\ Remove("uac1") \in Steps /\ Remove("ffs") \in Steps
      /\ Remove("strings") \in Steps /\ Remove("g0") \in Steps
  BY StepKinds DEF Calls, Nodes, Files, Descriptions
<1> QED
  BY <1>1 DEF TeardownSteps

LEMMA BuildList ==
    /\ BuildSteps \in Seq(Steps) /\ Len(BuildSteps) = 16
    /\ BuildSteps[1] = Call("usbg_init")
    /\ BuildSteps[2] = Make("g0")
    /\ BuildSteps[3] = Make("strings")
    /\ BuildSteps[4] = Make("ffs")
    /\ BuildSteps[5] = Make("config")
    /\ BuildSteps[6] = Make("configStrings")
    /\ BuildSteps[7] = Make("uac1")
    /\ BuildSteps[8] = Make("uac1Link")
    /\ BuildSteps[9] = Make("ffsLink")
    /\ BuildSteps[10] = Call("mount")
    /\ BuildSteps[11] = Open("ep0")
    /\ BuildSteps[12] = Write("descriptors")
    /\ BuildSteps[13] = Write("strings")
    /\ BuildSteps[14] = Open("endpoints")
    /\ BuildSteps[15] = Open("aio")
    /\ BuildSteps[16] = Call("watch")
<1>1. /\ Call("usbg_init") \in Steps /\ Make("g0") \in Steps /\ Make("strings") \in Steps
      /\ Make("ffs") \in Steps /\ Make("config") \in Steps
      /\ Make("configStrings") \in Steps /\ Make("uac1") \in Steps
      /\ Make("uac1Link") \in Steps /\ Make("ffsLink") \in Steps
      /\ Call("mount") \in Steps /\ Open("ep0") \in Steps
      /\ Write("descriptors") \in Steps /\ Write("strings") \in Steps
      /\ Open("endpoints") \in Steps /\ Open("aio") \in Steps /\ Call("watch") \in Steps
  BY StepKinds DEF Calls, Nodes, Files, Descriptions
<1> QED
  BY <1>1 DEF BuildSteps

LEMMA BareList ==
    /\ BareRemoval \in Seq(Steps) /\ Len(BareRemoval) = 2
    /\ BareRemoval[1] = Call("close") /\ BareRemoval[2] = Call("umount_own")
<1>1. /\ Call("close") \in Steps /\ Call("umount_own") \in Steps
  BY StepKinds DEF Calls, Nodes, Files, Descriptions
<1> QED
  BY <1>1 DEF BareRemoval

LEMMA InitList ==
    /\ InitSteps \in Seq(Steps) /\ Len(InitSteps) = 26
    /\ InitSteps[1] = Call("unbind")
    /\ InitSteps[2] = Call("umount")
    /\ InitSteps[3] = Remove("uac1Link")
    /\ InitSteps[4] = Remove("ffsLink")
    /\ InitSteps[5] = Remove("configStrings")
    /\ InitSteps[6] = Remove("config")
    /\ InitSteps[7] = Remove("uac1")
    /\ InitSteps[8] = Remove("ffs")
    /\ InitSteps[9] = Remove("strings")
    /\ InitSteps[10] = Remove("g0")
    /\ InitSteps[11] = Call("usbg_init")
    /\ InitSteps[12] = Make("g0")
    /\ InitSteps[13] = Make("strings")
    /\ InitSteps[14] = Make("ffs")
    /\ InitSteps[15] = Make("config")
    /\ InitSteps[16] = Make("configStrings")
    /\ InitSteps[17] = Make("uac1")
    /\ InitSteps[18] = Make("uac1Link")
    /\ InitSteps[19] = Make("ffsLink")
    /\ InitSteps[20] = Call("mount")
    /\ InitSteps[21] = Open("ep0")
    /\ InitSteps[22] = Write("descriptors")
    /\ InitSteps[23] = Write("strings")
    /\ InitSteps[24] = Open("endpoints")
    /\ InitSteps[25] = Open("aio")
    /\ InitSteps[26] = Call("watch")
<1>1. /\ InitSteps \in Seq(Steps) /\ Len(InitSteps) = 26
      /\ \A i \in 1..26 : InitSteps[i] = IF i <= 10 THEN TeardownSteps[i] ELSE BuildSteps[i - 10]
  <2>1. TeardownSteps \in Seq(Steps) /\ BuildSteps \in Seq(Steps) /\ Len(TeardownSteps) = 10 /\ Len(BuildSteps) = 16
    BY TeardownList, BuildList
  <2>2. 10 + 16 = 26
    OBVIOUS
  <2> QED
    <3>1. /\ TeardownSteps \o BuildSteps \in Seq(Steps)
          /\ Len(TeardownSteps \o BuildSteps) = Len(TeardownSteps) + Len(BuildSteps)
          /\ \A i \in 1..Len(TeardownSteps) + Len(BuildSteps) :
                (TeardownSteps \o BuildSteps)[i] =
                   IF i <= Len(TeardownSteps) THEN TeardownSteps[i]
                                              ELSE BuildSteps[i - Len(TeardownSteps)]
      BY <2>1, ConcatProperties, Zenon
    <3> QED
      BY <2>1, <2>2, <3>1 DEF InitSteps
<1>2. \A i \in 1..10 : InitSteps[i] = TeardownSteps[i]
  <2> TAKE i \in 1..10
  <2>1. i \in 1..26 /\ i <= 10
    OBVIOUS
  <2> QED
    BY <1>1, <2>1
<1>3. \A i \in 1..16 : InitSteps[i + 10] = BuildSteps[i]
  <2> TAKE i \in 1..16
  <2>1. i + 10 \in 1..26 /\ ~(i + 10 <= 10) /\ (i + 10) - 10 = i
    OBVIOUS
  <2> QED
    BY <1>1, <2>1
<1> HIDE DEF InitSteps
<1> QED
  BY <1>1, <1>2, <1>3, TeardownList, BuildList

LEMMA FullList ==
    /\ FullRemoval \in Seq(Steps) /\ Len(FullRemoval) = 12
    /\ FullRemoval[1] = Call("close")
    /\ FullRemoval[2] = Call("umount_own")
    /\ FullRemoval[3] = Call("unbind")
    /\ FullRemoval[4] = Call("umount")
    /\ FullRemoval[5] = Remove("uac1Link")
    /\ FullRemoval[6] = Remove("ffsLink")
    /\ FullRemoval[7] = Remove("configStrings")
    /\ FullRemoval[8] = Remove("config")
    /\ FullRemoval[9] = Remove("uac1")
    /\ FullRemoval[10] = Remove("ffs")
    /\ FullRemoval[11] = Remove("strings")
    /\ FullRemoval[12] = Remove("g0")
<1>1. /\ FullRemoval \in Seq(Steps) /\ Len(FullRemoval) = 12
      /\ \A i \in 1..12 : FullRemoval[i] = IF i <= 2 THEN BareRemoval[i] ELSE TeardownSteps[i - 2]
  <2>1. BareRemoval \in Seq(Steps) /\ TeardownSteps \in Seq(Steps) /\ Len(BareRemoval) = 2 /\ Len(TeardownSteps) = 10
    BY TeardownList, BareList
  <2>2. 2 + 10 = 12 /\ FullRemoval = BareRemoval \o TeardownSteps
    BY DEF FullRemoval, BareRemoval
  <2> QED
    <3>1. /\ BareRemoval \o TeardownSteps \in Seq(Steps)
          /\ Len(BareRemoval \o TeardownSteps) = Len(BareRemoval) + Len(TeardownSteps)
          /\ \A i \in 1..Len(BareRemoval) + Len(TeardownSteps) :
                (BareRemoval \o TeardownSteps)[i] =
                   IF i <= Len(BareRemoval) THEN BareRemoval[i]
                                            ELSE TeardownSteps[i - Len(BareRemoval)]
      BY <2>1, ConcatProperties, Zenon
    <3> QED
      BY <2>1, <2>2, <3>1
<1>2. \A i \in 1..2 : FullRemoval[i] = BareRemoval[i]
  <2> TAKE i \in 1..2
  <2>1. i \in 1..12 /\ i <= 2
    OBVIOUS
  <2> QED
    BY <1>1, <2>1
<1>3. \A i \in 1..10 : FullRemoval[i + 2] = TeardownSteps[i]
  <2> TAKE i \in 1..10
  <2>1. i + 2 \in 1..12 /\ ~(i + 2 <= 2) /\ (i + 2) - 2 = i
    OBVIOUS
  <2> QED
    BY <1>1, <2>1
<1> QED
  <2>1. /\ FullRemoval[1] = Call("close") /\ FullRemoval[2] = Call("umount_own")
    BY <1>2, BareList
  <2> QED
    BY <1>1, <1>3, <2>1, TeardownList

\* Without a leftover init_gadget() starts with what follows the teardown.
LEMMA FromBuild == From(InitSteps, 11) = BuildSteps
<1>1. TeardownSteps \in Seq(Steps) /\ BuildSteps \in Seq(Steps) /\ Len(TeardownSteps) = 10 /\ Len(BuildSteps) = 16
  BY TeardownList, BuildList
<1>2. SubSeq(TeardownSteps \o BuildSteps, 11, 26) = SubSeq(BuildSteps, 1, 16)
  <2>1. 11 \in Len(TeardownSteps)+1 .. Len(TeardownSteps)+Len(BuildSteps) /\ 26 \in Len(TeardownSteps)+1 .. Len(TeardownSteps)+Len(BuildSteps)
    BY <1>1
  <2>2. 11 - Len(TeardownSteps) = 1 /\ 26 - Len(TeardownSteps) = 16
    BY <1>1
  <2> QED
    <3>1. SubSeq(TeardownSteps \o BuildSteps, 11, 26)
             = SubSeq(BuildSteps, 11 - Len(TeardownSteps), 26 - Len(TeardownSteps))
      BY <1>1, <2>1, SubSeqOfConcat2, Zenon
    <3> QED
      BY <2>2, <3>1
<1>3. SubSeq(BuildSteps, 1, 16) = BuildSteps
  BY <1>1, SubSeqFull
<1> QED
  BY <1>2, <1>3, InitList DEF From, InitSteps

\* Which step of init_gadget() is which.
LEMMA InitAt ==
    ASSUME NEW k \in 1..26
    PROVE  /\ InitSteps[k] = Call("unbind") => k = 1
           /\ InitSteps[k] = Call("umount") => k = 2
           /\ InitSteps[k] # Call("close") /\ InitSteps[k] # Call("umount_own")
           /\ InitSteps[k] = Call("usbg_init") => k = 11
           /\ InitSteps[k] = Call("mount") => k = 20
           /\ InitSteps[k] = Call("watch") => k = 26
           /\ \A f \in Files : InitSteps[k] = Open(f) => k \in {21, 24, 25}
           /\ \A d \in Descriptions : InitSteps[k] = Write(d) => k \in {22, 23}
           /\ \A n \in Nodes : InitSteps[k] = Remove(n) =>
                 \/ k = 3 /\ n = "uac1Link"
                 \/ k = 4 /\ n = "ffsLink"
                 \/ k = 5 /\ n = "configStrings"
                 \/ k = 6 /\ n = "config"
                 \/ k = 7 /\ n = "uac1"
                 \/ k = 8 /\ n = "ffs"
                 \/ k = 9 /\ n = "strings"
                 \/ k = 10 /\ n = "g0"
           /\ \A n \in Nodes : InitSteps[k] = Make(n) =>
                 \/ k = 12 /\ n = "g0"
                 \/ k = 13 /\ n = "strings"
                 \/ k = 14 /\ n = "ffs"
                 \/ k = 15 /\ n = "config"
                 \/ k = 16 /\ n = "configStrings"
                 \/ k = 17 /\ n = "uac1"
                 \/ k = 18 /\ n = "uac1Link"
                 \/ k = 19 /\ n = "ffsLink"
<1>1. \A c : /\ Call(c)[1] = "call" /\ Call(c)[2] = c /\ Make(c)[1] = "make" /\ Make(c)[2] = c
             /\ Remove(c)[1] = "remove" /\ Remove(c)[2] = c
             /\ Open(c)[1] = "open" /\ Open(c)[2] = c /\ Write(c)[1] = "write" /\ Write(c)[2] = c
  BY DEF Call, Make, Remove, Open, Write
<1>2. /\ InitSteps[1][1] = "call" /\ InitSteps[1][2] = "unbind"
      /\ InitSteps[2][1] = "call" /\ InitSteps[2][2] = "umount"
      /\ InitSteps[11][1] = "call" /\ InitSteps[11][2] = "usbg_init"
      /\ InitSteps[20][1] = "call" /\ InitSteps[20][2] = "mount"
      /\ InitSteps[26][1] = "call" /\ InitSteps[26][2] = "watch"
  <2>1. /\ InitSteps[1] = Call("unbind")
        /\ InitSteps[2] = Call("umount")
        /\ InitSteps[11] = Call("usbg_init")
        /\ InitSteps[20] = Call("mount")
        /\ InitSteps[26] = Call("watch")
    BY InitList, Zenon
  <2>2. \A c : Call(c)[1] = "call" /\ Call(c)[2] = c
    BY DEF Call
  <2> QED
    BY <2>1, <2>2, Zenon
<1>3. /\ InitSteps[3][1] = "remove" /\ InitSteps[3][2] = "uac1Link"
      /\ InitSteps[4][1] = "remove" /\ InitSteps[4][2] = "ffsLink"
      /\ InitSteps[5][1] = "remove" /\ InitSteps[5][2] = "configStrings"
      /\ InitSteps[6][1] = "remove" /\ InitSteps[6][2] = "config"
      /\ InitSteps[7][1] = "remove" /\ InitSteps[7][2] = "uac1"
      /\ InitSteps[8][1] = "remove" /\ InitSteps[8][2] = "ffs"
      /\ InitSteps[9][1] = "remove" /\ InitSteps[9][2] = "strings"
      /\ InitSteps[10][1] = "remove" /\ InitSteps[10][2] = "g0"
  <2>1. /\ InitSteps[3] = Remove("uac1Link")
        /\ InitSteps[4] = Remove("ffsLink")
        /\ InitSteps[5] = Remove("configStrings")
        /\ InitSteps[6] = Remove("config")
        /\ InitSteps[7] = Remove("uac1")
        /\ InitSteps[8] = Remove("ffs")
        /\ InitSteps[9] = Remove("strings")
        /\ InitSteps[10] = Remove("g0")
    BY InitList, Zenon
  <2>2. \A c : Remove(c)[1] = "remove" /\ Remove(c)[2] = c
    BY DEF Remove
  <2> QED
    BY <2>1, <2>2, Zenon
<1>4. /\ InitSteps[12][1] = "make" /\ InitSteps[12][2] = "g0"
      /\ InitSteps[13][1] = "make" /\ InitSteps[13][2] = "strings"
      /\ InitSteps[14][1] = "make" /\ InitSteps[14][2] = "ffs"
      /\ InitSteps[15][1] = "make" /\ InitSteps[15][2] = "config"
      /\ InitSteps[16][1] = "make" /\ InitSteps[16][2] = "configStrings"
      /\ InitSteps[17][1] = "make" /\ InitSteps[17][2] = "uac1"
      /\ InitSteps[18][1] = "make" /\ InitSteps[18][2] = "uac1Link"
      /\ InitSteps[19][1] = "make" /\ InitSteps[19][2] = "ffsLink"
  <2>1. /\ InitSteps[12] = Make("g0")
        /\ InitSteps[13] = Make("strings")
        /\ InitSteps[14] = Make("ffs")
        /\ InitSteps[15] = Make("config")
        /\ InitSteps[16] = Make("configStrings")
        /\ InitSteps[17] = Make("uac1")
        /\ InitSteps[18] = Make("uac1Link")
        /\ InitSteps[19] = Make("ffsLink")
    BY InitList, Zenon
  <2>2. \A c : Make(c)[1] = "make" /\ Make(c)[2] = c
    BY DEF Make
  <2> QED
    BY <2>1, <2>2, Zenon
<1>5. /\ InitSteps[21][1] = "open" /\ InitSteps[21][2] = "ep0"
      /\ InitSteps[24][1] = "open" /\ InitSteps[24][2] = "endpoints"
      /\ InitSteps[25][1] = "open" /\ InitSteps[25][2] = "aio"
  <2>1. /\ InitSteps[21] = Open("ep0")
        /\ InitSteps[24] = Open("endpoints")
        /\ InitSteps[25] = Open("aio")
    BY InitList, Zenon
  <2>2. \A c : Open(c)[1] = "open" /\ Open(c)[2] = c
    BY DEF Open
  <2> QED
    BY <2>1, <2>2, Zenon
<1>6. /\ InitSteps[22][1] = "write" /\ InitSteps[22][2] = "descriptors"
      /\ InitSteps[23][1] = "write" /\ InitSteps[23][2] = "strings"
  <2>1. /\ InitSteps[22] = Write("descriptors")
        /\ InitSteps[23] = Write("strings")
    BY InitList, Zenon
  <2>2. \A c : Write(c)[1] = "write" /\ Write(c)[2] = c
    BY DEF Write
  <2> QED
    BY <2>1, <2>2, Zenon
<1>7. \/ k \in {1, 2, 11, 20, 26} /\ InitSteps[k][1] = "call"
      \/ k \in 3..10 /\ InitSteps[k][1] = "remove"
      \/ k \in 12..19 /\ InitSteps[k][1] = "make"
      \/ k \in {21, 24, 25} /\ InitSteps[k][1] = "open"
      \/ k \in {22, 23} /\ InitSteps[k][1] = "write"
  <2>1. CASE k \in {1, 2, 11, 20, 26}
    BY <1>2, <2>1
  <2>2. CASE k \in 3..10
    BY <1>3, <2>2
  <2>3. CASE k \in 12..19
    BY <1>4, <2>3
  <2>4. CASE k \in {21, 24, 25}
    BY <1>5, <2>4
  <2>5. CASE k \in {22, 23}
    BY <1>6, <2>5
  <2>6. k \in {1, 2, 11, 20, 26} \/ k \in 3..10 \/ k \in 12..19 \/ k \in {21, 24, 25} \/ k \in {22, 23}
    OBVIOUS
  <2> QED
    BY <2>1, <2>2, <2>3, <2>4, <2>5, <2>6
<1>8. /\ InitSteps[k] = Call("unbind") => k = 1
      /\ InitSteps[k] = Call("umount") => k = 2
      /\ InitSteps[k] # Call("close") /\ InitSteps[k] # Call("umount_own")
      /\ InitSteps[k] = Call("usbg_init") => k = 11
      /\ InitSteps[k] = Call("mount") => k = 20
      /\ InitSteps[k] = Call("watch") => k = 26
  BY <1>1, <1>2, <1>7
<1>9. \A f \in Files : InitSteps[k] = Open(f) => k \in {21, 24, 25}
  BY <1>1, <1>7
<1>10. \A d \in Descriptions : InitSteps[k] = Write(d) => k \in {22, 23}
  BY <1>1, <1>7
<1>11. ASSUME NEW n \in Nodes, InitSteps[k] = Remove(n)
      PROVE  \/ k = 3 /\ n = "uac1Link"
             \/ k = 4 /\ n = "ffsLink"
             \/ k = 5 /\ n = "configStrings"
             \/ k = 6 /\ n = "config"
             \/ k = 7 /\ n = "uac1"
             \/ k = 8 /\ n = "ffs"
             \/ k = 9 /\ n = "strings"
             \/ k = 10 /\ n = "g0"
  <2>1. k \in 3..10 /\ InitSteps[k][2] = n
    BY <1>1, <1>7, <1>11
  <2> QED
    BY <1>3, <2>1
<1>12. ASSUME NEW n \in Nodes, InitSteps[k] = Make(n)
       PROVE  \/ k = 12 /\ n = "g0"
              \/ k = 13 /\ n = "strings"
              \/ k = 14 /\ n = "ffs"
              \/ k = 15 /\ n = "config"
              \/ k = 16 /\ n = "configStrings"
              \/ k = 17 /\ n = "uac1"
              \/ k = 18 /\ n = "uac1Link"
              \/ k = 19 /\ n = "ffsLink"
  <2>1. k \in 12..19 /\ InitSteps[k][2] = n
    BY <1>1, <1>7, <1>12
  <2> QED
    BY <1>4, <2>1
<1> QED
  BY <1>8, <1>9, <1>10, <1>11, <1>12

\* Which step of remove_gadget() is which.
LEMMA RemovalAt ==
    ASSUME NEW k \in 1..12
    PROVE  /\ FullRemoval[k] = Call("close") => k = 1
           /\ FullRemoval[k] = Call("umount_own") => k = 2
           /\ FullRemoval[k] = Call("unbind") => k = 3
           /\ FullRemoval[k] = Call("umount") => k = 4
           /\ \A n \in Nodes : FullRemoval[k] = Remove(n) =>
                 \/ k = 5 /\ n = "uac1Link"
                 \/ k = 6 /\ n = "ffsLink"
                 \/ k = 7 /\ n = "configStrings"
                 \/ k = 8 /\ n = "config"
                 \/ k = 9 /\ n = "uac1"
                 \/ k = 10 /\ n = "ffs"
                 \/ k = 11 /\ n = "strings"
                 \/ k = 12 /\ n = "g0"
<1>1. \A c, x : /\ Call(c)[1] = "call" /\ Call(c)[2] = c
                /\ Remove(c)[1] = "remove" /\ Remove(c)[2] = c
  BY DEF Call, Remove
<1>2. k \in {1,2} \/ k \in {3, 4} \/ k \in 5..12
  OBVIOUS
<1>3. CASE k \in {1, 2}
  BY <1>1, <1>3, FullList
<1>4. CASE k \in {3, 4}
  BY <1>1, <1>4, FullList
<1>5. CASE k \in 5..12
  BY <1>1, <1>5, FullList
<1> QED
  BY <1>2, <1>3, <1>4, <1>5

LEMMA BareAt ==
    ASSUME NEW k \in 1..2
    PROVE  /\ BareRemoval[k] = Call("close") => k = 1
           /\ BareRemoval[k] = Call("umount_own") => k = 2
           /\ BareRemoval[k] # Call("unbind") /\ BareRemoval[k] # Call("umount")
           /\ \A n \in Nodes : BareRemoval[k] # Remove(n)
<1>1. \A c, x : /\ Call(c)[1] = "call" /\ Call(c)[2] = c /\ Remove(c)[1] = "remove"
  BY DEF Call, Remove
<1>2. k = 1 \/ k = 2
  OBVIOUS
<1> QED
  BY <1>1, <1>2, BareList

\* A process with a step before it is in the middle of one of its lists.
LEMMA AStep ==
    ASSUME Position, todo # <<>>
    PROVE  \/ /\ phase = "init"
              /\ \E k \in 1..26 : /\ InInit(k) /\ Head(todo) = InitSteps[k]
                                  /\ Tail(todo) = From(InitSteps, k + 1)
           \/ /\ phase = "exit"
              /\ \E k \in 1..12 : /\ InFullRemoval(k) /\ Head(todo) = FullRemoval[k]
                                  /\ Tail(todo) = From(FullRemoval, k + 1)
           \/ /\ phase = "exit"
              /\ \E k \in 1..2 : /\ InBareRemoval(k) /\ Head(todo) = BareRemoval[k]
                                 /\ Tail(todo) = From(BareRemoval, k + 1)
<1>1. CASE phase = "init" /\ \E k \in 1..26 : InInit(k)
  BY <1>1, InitList, FromStep DEF InInit
<1>2. CASE phase = "exit" /\ \E k \in 1..13 : InFullRemoval(k)
  <2>1. PICK k \in 1..13 : InFullRemoval(k)
    BY <1>2
  <2>2. k # 13
    <3>1. From(FullRemoval, 12 + 1) = <<>>
      BY FullList, FromEnd
    <3> QED
      BY <2>1, <3>1 DEF InFullRemoval
  <2>3. k \in 1..12
    BY <2>2
  <2> QED
    BY <1>2, <2>1, <2>3, FullList, FromStep DEF InFullRemoval
<1>3. CASE phase = "exit" /\ \E k \in 1..3 : InBareRemoval(k)
  <2>1. PICK k \in 1..3 : InBareRemoval(k)
    BY <1>3
  <2>2. k # 3
    <3>1. From(BareRemoval, 2 + 1) = <<>>
      BY BareList, FromEnd
    <3> QED
      BY <2>1, <3>1 DEF InBareRemoval
  <2>3. k \in 1..2
    BY <2>2
  <2> QED
    BY <1>3, <2>1, <2>3, BareList, FromStep DEF InBareRemoval
<1>4. ~(phase = "off" /\ todo = <<>>) /\ ~InUp
  BY DEF InUp
<1> QED
  BY <1>1, <1>2, <1>3, <1>4 DEF Position

-----------------------------------------------------------------------------
(* Steps of teardown and removal.                                          *)

LEMMA UnbindInv ==
    ASSUME Inv, NEW ok \in BOOLEAN, Unbind(ok)
    PROVE  Inv'
<1>1. TreeShape' /\ LeftoversGo' /\ phase' = phase
  BY DEF Inv, TreeShape, LeftoversGo, Unbind
<1>2. todo # <<>> /\ Head(todo) = Call("unbind") /\ todo' = Tail(todo)
  BY DEF Unbind, At, Goes
<1>3. Position
  BY DEF Inv
<1>4. CASE /\ phase = "init"
           /\ \E k \in 1..26 : /\ InInit(k) /\ Head(todo) = InitSteps[k]
                               /\ Tail(todo) = From(InitSteps, k + 1)
  <2>1. PICK k \in 1..26 : /\ InInit(k) /\ Head(todo) = InitSteps[k]
                           /\ Tail(todo) = From(InitSteps, k + 1)
    BY <1>4
  <2>2. k = 1
    BY <1>2, <2>1, InitAt
  <2>3. InInit(2)'
    BY <1>2, <2>1, <2>2 DEF InInit, Gone, There, Unbind
  <2> QED
    BY <1>1, <1>4, <2>3 DEF Inv, Position, WholeWhileUp
<1>5. CASE /\ phase = "exit"
           /\ \E k \in 1..12 : /\ InFullRemoval(k) /\ Head(todo) = FullRemoval[k]
                               /\ Tail(todo) = From(FullRemoval, k + 1)
  <2>1. PICK k \in 1..12 : /\ InFullRemoval(k) /\ Head(todo) = FullRemoval[k]
                           /\ Tail(todo) = From(FullRemoval, k + 1)
    BY <1>5
  <2>2. k = 3
    BY <1>2, <2>1, RemovalAt
  <2>3. InFullRemoval(4)'
    BY <1>2, <2>1, <2>2 DEF InFullRemoval, Gone, Unbind
  <2> QED
    BY <1>1, <1>5, <2>3 DEF Inv, Position, WholeWhileUp
<1>6. ~\E k \in 1..2 : Head(todo) = BareRemoval[k]
  BY <1>2, BareAt
<1> QED
  BY <1>2, <1>3, <1>4, <1>5, <1>6, AStep

LEMMA UmountInv ==
    ASSUME Inv, Umount
    PROVE  Inv'
<1>1. TreeShape' /\ LeftoversGo' /\ phase' = phase
  BY DEF Inv, TreeShape, LeftoversGo, Umount
<1>2. /\ todo # <<>> /\ todo' = Tail(todo)
      /\ Head(todo) = Call("umount") \/ Head(todo) = Call("umount_own")
  BY DEF Umount, At, Goes
<1>3. Position
  BY DEF Inv
<1>4. CASE /\ phase = "init"
           /\ \E k \in 1..26 : /\ InInit(k) /\ Head(todo) = InitSteps[k]
                               /\ Tail(todo) = From(InitSteps, k + 1)
  <2>1. PICK k \in 1..26 : /\ InInit(k) /\ Head(todo) = InitSteps[k]
                           /\ Tail(todo) = From(InitSteps, k + 1)
    BY <1>4
  <2>2. k = 2 /\ At(Call("umount"))
    BY <1>2, <2>1, InitAt DEF At
  <2>3. mount' = FALSE
    BY <2>2 DEF Umount
  <2>4. InInit(3)'
    BY <1>2, <2>1, <2>2, <2>3 DEF InInit, Gone, There, Umount
  <2> QED
    BY <1>1, <1>4, <2>4 DEF Inv, Position, WholeWhileUp
<1>5. CASE /\ phase = "exit"
           /\ \E k \in 1..12 : /\ InFullRemoval(k) /\ Head(todo) = FullRemoval[k]
                               /\ Tail(todo) = From(FullRemoval, k + 1)
  <2>1. PICK k \in 1..12 : /\ InFullRemoval(k) /\ Head(todo) = FullRemoval[k]
                           /\ Tail(todo) = From(FullRemoval, k + 1)
    BY <1>5
  <2>2. k = 2 \/ (k = 4 /\ At(Call("umount")))
    BY <1>2, <2>1, RemovalAt DEF At
  <2>3. k = 4 => mount' = FALSE
    BY <2>2 DEF Umount
  <2>4. InFullRemoval(k + 1)'
    BY <1>2, <2>1, <2>2, <2>3 DEF InFullRemoval, Gone, Umount
  <2>5. k + 1 \in 1..13
    BY <2>2
  <2> QED
    BY <1>1, <1>5, <2>4, <2>5 DEF Inv, Position, WholeWhileUp
<1>6. CASE /\ phase = "exit"
           /\ \E k \in 1..2 : /\ InBareRemoval(k) /\ Head(todo) = BareRemoval[k]
                              /\ Tail(todo) = From(BareRemoval, k + 1)
  <2>1. PICK k \in 1..2 : /\ InBareRemoval(k) /\ Head(todo) = BareRemoval[k]
                          /\ Tail(todo) = From(BareRemoval, k + 1)
    BY <1>6
  <2>2. InBareRemoval(k + 1)' /\ k + 1 \in 1..3
    BY <1>2, <2>1 DEF InBareRemoval, Bare, Umount
  <2> QED
    BY <1>1, <1>6, <2>2 DEF Inv, Position, WholeWhileUp
<1> QED
  BY <1>2, <1>3, <1>4, <1>5, <1>6, AStep

\* Removing one piece keeps the shape of the tree.
LEMMA RemoveNodeShape ==
    ASSUME TreeShape, NEW n \in Nodes, RemoveNode(n)
    PROVE  TreeShape'
<1>1. tree' \subseteq tree /\ UNCHANGED <<mount, udc>>
  BY DEF RemoveNode
<1>2. CASE tree' = tree
  BY <1>1, <1>2 DEF TreeShape
<1>3. CASE Removable(n) /\ tree' = tree \ {n}
  <2>1. ~udc
    BY <1>3 DEF Removable
  <2>2. CASE n = "g0"
    <3>1. tree \cap {"config", "uac1", "ffs", "strings"} = {}
      BY <1>3, <2>2 DEF Removable
    <3>2. tree' = {}
      BY <1>3, <2>2, <3>1 DEF TreeShape, Nodes
    <3> QED
      BY <1>1, <2>1, <3>1, <3>2 DEF TreeShape
  <2>3. CASE n = "config"
    <3>1. tree \cap {"uac1Link", "ffsLink", "configStrings"} = {}
      BY <1>3, <2>3 DEF Removable
    <3> QED
      BY <1>1, <1>3, <2>1, <2>3, <3>1 DEF TreeShape
  <2>4. CASE n = "uac1"
    <3>1. "uac1Link" \notin tree
      BY <1>3, <2>4 DEF Removable
    <3> QED
      BY <1>1, <1>3, <2>1, <2>4, <3>1 DEF TreeShape
  <2>5. CASE n = "ffs"
    <3>1. "ffsLink" \notin tree /\ ~mount
      BY <1>3, <2>5 DEF Removable, InUse
    <3> QED
      BY <1>1, <1>3, <2>1, <2>5, <3>1 DEF TreeShape
  <2>6. CASE n \in {"strings", "configStrings", "uac1Link", "ffsLink"}
    BY <1>1, <1>3, <2>1, <2>6 DEF TreeShape
  <2> QED
    BY <2>2, <2>3, <2>4, <2>5, <2>6 DEF Nodes
<1> QED
  BY <1>2, <1>3 DEF RemoveNode

\* In the order of teardown_gadget_tree() every piece can go, once the binding
\* and the mount have.
LEMMA TeardownStepGone ==
    ASSUME TreeShape, NEW n \in Nodes, RemoveNode(n), files = {},
           NEW k \in 3..10, Gone(k),
           \/ k = 3 /\ n = "uac1Link"
           \/ k = 4 /\ n = "ffsLink"
           \/ k = 5 /\ n = "configStrings"
           \/ k = 6 /\ n = "config"
           \/ k = 7 /\ n = "uac1"
           \/ k = 8 /\ n = "ffs"
           \/ k = 9 /\ n = "strings"
           \/ k = 10 /\ n = "g0"
    PROVE  Gone(k + 1)'
<1>1. Removable(n)
  BY DEF Gone, Removable, InUse
<1>2. tree' = tree \ {n} /\ UNCHANGED <<mount, udc>>
  BY <1>1 DEF RemoveNode
<1> QED
  BY <1>2 DEF Gone

\* After the last piece nothing is left.
LEMMA GoneIsClean ==
    ASSUME TreeShape', Gone(11)'
    PROVE  Clean'
BY DEF TreeShape, Gone, Clean, Nodes

LEMMA RemoveNodeInv ==
    ASSUME Inv, NEW n \in Nodes, RemoveNode(n)
    PROVE  Inv'
<1>1. TreeShape' /\ LeftoversGo' /\ phase' = phase
  BY RemoveNodeShape DEF Inv, LeftoversGo, RemoveNode
<1>2. todo # <<>> /\ Head(todo) = Remove(n) /\ todo' = Tail(todo)
  BY DEF RemoveNode, At, Goes
<1>3. Position /\ TreeShape
  BY DEF Inv
<1>4. CASE /\ phase = "init"
           /\ \E k \in 1..26 : /\ InInit(k) /\ Head(todo) = InitSteps[k]
                               /\ Tail(todo) = From(InitSteps, k + 1)
  <2>1. PICK k \in 1..26 : /\ InInit(k) /\ Head(todo) = InitSteps[k]
                           /\ Tail(todo) = From(InitSteps, k + 1)
    BY <1>4
  <2>2. \/ k = 3 /\ n = "uac1Link"
        \/ k = 4 /\ n = "ffsLink"
        \/ k = 5 /\ n = "configStrings"
        \/ k = 6 /\ n = "config"
        \/ k = 7 /\ n = "uac1"
        \/ k = 8 /\ n = "ffs"
        \/ k = 9 /\ n = "strings"
        \/ k = 10 /\ n = "g0"
    BY <1>2, <2>1, InitAt
  <2>3. k \in 3..10 /\ files = {}
    BY <2>1, <2>2 DEF InInit
  <2>4. refused \/ Gone(k + 1)'
    BY <1>3, <2>1, <2>2, <2>3, TeardownStepGone DEF InInit
  <2>5. k = 10 => refused \/ Clean'
    BY <1>1, <2>4, GoneIsClean
  <2>6. InInit(k + 1)'
    BY <1>2, <2>1, <2>3, <2>4, <2>5 DEF InInit, There, RemoveNode
  <2> QED
    <3>1. k + 1 \in 1..26
      BY <2>3
    <3> QED
      BY <1>1, <1>4, <2>6, <3>1 DEF Inv, Position, WholeWhileUp
<1>5. CASE /\ phase = "exit"
           /\ \E k \in 1..12 : /\ InFullRemoval(k) /\ Head(todo) = FullRemoval[k]
                               /\ Tail(todo) = From(FullRemoval, k + 1)
  <2>1. PICK k \in 1..12 : /\ InFullRemoval(k) /\ Head(todo) = FullRemoval[k]
                           /\ Tail(todo) = From(FullRemoval, k + 1)
    BY <1>5
  <2> DEFINE j == k - 2
  <2>2. k \in 5..12 /\ j \in 3..10 /\
        (\/ j = 3 /\ n = "uac1Link"
         \/ j = 4 /\ n = "ffsLink"
         \/ j = 5 /\ n = "configStrings"
         \/ j = 6 /\ n = "config"
         \/ j = 7 /\ n = "uac1"
         \/ j = 8 /\ n = "ffs"
         \/ j = 9 /\ n = "strings"
         \/ j = 10 /\ n = "g0")
    BY <1>2, <2>1, RemovalAt
  <2>3. files = {} /\ (refused \/ Gone(j))
    BY <2>1, <2>2 DEF InFullRemoval
  <2> HIDE DEF j
  <2>4. refused \/ Gone(j + 1)'
    BY <1>3, <2>2, <2>3, TeardownStepGone
  <2>5. j + 1 = (k + 1) - 2
    BY <2>1 DEF j
  <2>6. InFullRemoval(k + 1)'
    BY <1>2, <2>1, <2>3, <2>4, <2>5 DEF InFullRemoval, RemoveNode
  <2>7. k + 1 \in 1..13
    BY <2>2
  <2> QED
    BY <1>1, <1>5, <2>6, <2>7 DEF Inv, Position, WholeWhileUp
<1>6. ~\E k \in 1..2 : Head(todo) = BareRemoval[k]
  BY <1>2, BareAt
<1> QED
  BY <1>2, <1>3, <1>4, <1>5, <1>6, AStep

LEMMA CloseFilesInv ==
    ASSUME Inv, CloseFiles
    PROVE  Inv'
<1>1. udc' => udc
  BY DEF CloseFiles, FilesClose
<1>2. TreeShape' /\ LeftoversGo' /\ phase' = phase
  BY <1>1 DEF Inv, TreeShape, LeftoversGo, CloseFiles
<1>3. todo # <<>> /\ Head(todo) = Call("close") /\ todo' = Tail(todo)
  BY DEF CloseFiles, At, Goes
<1>4. Position
  BY DEF Inv
<1>5. ~\E k \in 1..26 : Head(todo) = InitSteps[k]
  BY <1>3, InitAt
<1>6. CASE /\ phase = "exit"
           /\ \E k \in 1..12 : /\ InFullRemoval(k) /\ Head(todo) = FullRemoval[k]
                               /\ Tail(todo) = From(FullRemoval, k + 1)
  <2>1. PICK k \in 1..12 : /\ InFullRemoval(k) /\ Head(todo) = FullRemoval[k]
                           /\ Tail(todo) = From(FullRemoval, k + 1)
    BY <1>6
  <2>2. k = 1
    BY <1>3, <2>1, RemovalAt
  <2>3. InFullRemoval(2)'
    BY <1>1, <1>3, <2>1, <2>2 DEF InFullRemoval, Gone, CloseFiles
  <2> QED
    BY <1>2, <1>6, <2>3 DEF Inv, Position, WholeWhileUp
<1>7. CASE /\ phase = "exit"
           /\ \E k \in 1..2 : /\ InBareRemoval(k) /\ Head(todo) = BareRemoval[k]
                              /\ Tail(todo) = From(BareRemoval, k + 1)
  <2>1. PICK k \in 1..2 : /\ InBareRemoval(k) /\ Head(todo) = BareRemoval[k]
                          /\ Tail(todo) = From(BareRemoval, k + 1)
    BY <1>7
  <2>2. InBareRemoval(k + 1)' /\ k + 1 \in 1..3
    BY <1>1, <1>3, <2>1 DEF InBareRemoval, Bare, CloseFiles
  <2> QED
    BY <1>2, <1>7, <2>2 DEF Inv, Position, WholeWhileUp
<1> QED
  BY <1>3, <1>4, <1>5, <1>6, <1>7, AStep

-----------------------------------------------------------------------------
(* Steps of init_gadget().                                                 *)

\* A step of init_gadget() is at its position of the list.
LEMMA BuildingAt ==
    ASSUME Inv, Building, todo # <<>>
    PROVE  \E k \in 1..26 : /\ InInit(k) /\ Head(todo) = InitSteps[k]
                            /\ Tail(todo) = From(InitSteps, k + 1)
<1>1. phase = "init" /\ Position
  BY DEF Inv, Building
<1> QED
  BY <1>1, AStep

\* A failure ends init_gadget(), with what it has made still there, or nothing
\* made and nothing left over.
LEMMA GivesUp ==
    ASSUME TreeShape', LeftoversGo', Returns(FALSE),
           created' => "g0" \in tree', ~created' => refused' \/ Bare'
    PROVE  Inv'
BY DEF Inv, Returns, Position, InUp, WholeWhileUp

LEMMA UsbgInitInv ==
    ASSUME Inv, NEW ok \in BOOLEAN, UsbgInit(ok)
    PROVE  Inv'
<1>1. /\ TreeShape' /\ LeftoversGo' /\ UNCHANGED <<created, files, tree, mount, udc, refused>>
  BY DEF Inv, TreeShape, LeftoversGo, UsbgInit, kernVars
<1>2. Building /\ todo # <<>> /\ Head(todo) = Call("usbg_init") /\ Builds(ok)
  BY DEF UsbgInit, At
<1>3. PICK k \in 1..26 : /\ InInit(k) /\ Head(todo) = InitSteps[k]
                         /\ Tail(todo) = From(InitSteps, k + 1)
  BY <1>2, BuildingAt
<1>4. k = 11
  BY <1>2, <1>3, InitAt
<1>5. CASE ok
  <2>1. phase' = "init" /\ todo' = From(InitSteps, 12)
    BY <1>2, <1>3, <1>4, <1>5 DEF Builds, Goes, Building
  <2>2. InInit(12)'
    BY <1>1, <1>3, <1>4, <2>1 DEF InInit, Clean, There
  <2> QED
    BY <1>1, <2>1, <2>2 DEF Inv, Position, WholeWhileUp
<1>6. CASE ~ok
  <2>1. Returns(FALSE)
    BY <1>2, <1>6 DEF Builds
  <2>2. ~created' /\ (refused' \/ Bare')
    <3>1. ~created /\ (refused \/ Clean)
      BY <1>3, <1>4 DEF InInit
    <3> QED
      BY <1>1, <3>1 DEF Clean, Bare
  <2> QED
    BY <1>1, <2>1, <2>2, GivesUp
<1> QED
  BY <1>5, <1>6

LEMMA MakeNodeInv ==
    ASSUME Inv, NEW n \in Nodes, NEW ok \in BOOLEAN, MakeNode(n, ok)
    PROVE  Inv'
<1> DEFINE made == ok /\ Makeable(n)
<1>1. /\ (made => tree' = tree \cup {n}) /\ (tree' = tree \cup {n} \/ tree' = tree)
      /\ tree' = tree \/ Makeable(n)
      /\ exists' = (exists \/ (n = "g0" /\ n \in tree /\ ~refused))
      /\ created' = (created \/ (n = "strings" /\ made))
      /\ Builds(made \/ n \in Audio)
      /\ UNCHANGED <<mounted, files, mount, udc, refused>>
  BY DEF MakeNode, CreatesGadget
<1>2. Building /\ todo # <<>> /\ Head(todo) = Make(n)
  BY DEF MakeNode, At
<1>3. PICK k \in 1..26 : /\ InInit(k) /\ Head(todo) = InitSteps[k]
                         /\ Tail(todo) = From(InitSteps, k + 1)
  BY <1>2, BuildingAt
<1>4. \/ k = 12 /\ n = "g0"
      \/ k = 13 /\ n = "strings"
      \/ k = 14 /\ n = "ffs"
      \/ k = 15 /\ n = "config"
      \/ k = 16 /\ n = "configStrings"
      \/ k = 17 /\ n = "uac1"
      \/ k = 18 /\ n = "uac1Link"
      \/ k = 19 /\ n = "ffsLink"
  BY <1>2, <1>3, InitAt
<1>5. Makeable(n) =>
              /\ n \notin tree
              /\ \/ n = "g0"
                 \/ n = "configStrings" /\ "config" \in tree
                 \/ n = "uac1Link" /\ {"config", "uac1"} \subseteq tree
                 \/ n = "ffsLink" /\ {"config", "ffs"} \subseteq tree
                 \/ n \in {"strings", "ffs", "config", "uac1"} /\ "g0" \in tree
  <2>1. CASE n \in {"strings", "ffs", "config", "uac1"}
    BY <2>1 DEF Makeable
  <2>2. CASE n = "g0"
    BY <2>2 DEF Makeable
  <2>3. CASE n = "configStrings"
    BY <2>3 DEF Makeable
  <2>4. CASE n = "uac1Link"
    BY <2>4 DEF Makeable
  <2>5. CASE n = "ffsLink"
    BY <2>5 DEF Makeable
  <2> QED
    BY <2>1, <2>2, <2>3, <2>4, <2>5 DEF Nodes
<1> HIDE DEF made
<1>10. /\ n = "g0" => k = 12 /\ ~created /\ (refused \/ Clean)
       /\ n = "strings" => k = 13 /\ ~created /\ (refused \/ Bare)
  BY <1>3, <1>4 DEF InInit
<1>11. n \notin {"g0", "strings"} => k \in 14..19 /\ created
  BY <1>3, <1>4 DEF InInit
<1>6. TreeShape'
  <2>1. CASE tree' = tree
    BY <1>1, <2>1 DEF Inv, TreeShape
  <2>2. CASE tree' = tree \cup {n} /\ Makeable(n)
    BY <1>1, <1>5, <2>2 DEF Inv, TreeShape
  <2> QED
    BY <1>1, <2>1, <2>2
<1>7. LeftoversGo'
  BY <1>1, <1>10 DEF Inv, LeftoversGo, Clean
<1>12. n \in {"g0", "strings"} => refused' \/ Bare'
  BY <1>1, <1>10 DEF Clean, Bare
<1>8. CASE made \/ n \in Audio
  <2>1. phase' = "init" /\ todo' = From(InitSteps, k + 1)
    BY <1>1, <1>2, <1>3, <1>8 DEF Builds, Goes, Building
  <2>2. There(k + 1)'
    BY <1>1, <1>3, <1>4, <1>8 DEF InInit, There, Audio
  <2>3. /\ k + 1 = 13 => ~created' /\ (refused' \/ Bare')
        /\ k + 1 > 13 => created'
        /\ k + 1 \in 13..20
    <3>1. n = "strings" => made
      BY <1>8 DEF Audio
    <3>2. k + 1 \in 13..20 /\ (k + 1 = 13 <=> n = "g0") /\ (n = "strings" => k + 1 = 14)
      BY <1>4
    <3>3. n = "g0" => ~created' /\ (refused' \/ Bare')
      BY <1>1, <1>10, <1>12
    <3>4. n # "g0" => created'
      BY <1>1, <1>11, <3>1
    <3> QED
      BY <3>2, <3>3, <3>4
  <2>4. InInit(k + 1)'
    BY <1>1, <1>3, <1>4, <2>1, <2>2, <2>3 DEF InInit
  <2>5. k + 1 \in 1..26
    BY <1>4
  <2> QED
    BY <1>6, <1>7, <2>1, <2>4, <2>5 DEF Inv, Position, WholeWhileUp
<1>9. CASE ~made /\ n \notin Audio
  <2>1. Returns(FALSE)
    BY <1>1, <1>9 DEF Builds
  <2>2. created' => "g0" \in tree'
    <3>1. created' => created
      BY <1>1, <1>9
    <3>2. created => k > 13
      BY <1>10, <1>11
    <3>3. k > 13 => "g0" \in tree
      BY <1>3 DEF InInit, There
    <3> QED
      BY <1>1, <3>1, <3>2, <3>3
  <2>3. ~created' => refused' \/ Bare'
    BY <1>1, <1>11, <1>12
  <2> QED
    BY <1>6, <1>7, <2>1, <2>2, <2>3, GivesUp
<1> QED
  BY <1>8, <1>9

LEMMA MountInv ==
    ASSUME Inv, NEW ok \in BOOLEAN, Mount(ok)
    PROVE  Inv'
<1> DEFINE works == ok /\ "ffs" \in tree /\ ~InUse
<1>1. /\ mount' = (mount \/ works) /\ Builds(works)
      /\ UNCHANGED <<created, files, tree, udc, refused, exists>>
  BY DEF Mount
<1>2. Building /\ todo # <<>> /\ Head(todo) = Call("mount")
  BY DEF Mount, At
<1>3. PICK k \in 1..26 : /\ InInit(k) /\ Head(todo) = InitSteps[k]
                         /\ Tail(todo) = From(InitSteps, k + 1)
  BY <1>2, BuildingAt
<1>4. k = 20 /\ created /\ There(20) /\ files = {}
  <2>1. k = 20
    BY <1>2, <1>3, InitAt
  <2> QED
    BY <1>3, <2>1 DEF InInit
<1>5. TreeShape' /\ LeftoversGo'
  BY <1>1, <1>4 DEF Inv, TreeShape, LeftoversGo, There
<1> HIDE DEF works
<1>6. CASE works
  <2>1. phase' = "init" /\ todo' = From(InitSteps, 21)
    BY <1>1, <1>2, <1>3, <1>4, <1>6 DEF Builds, Goes, Building
  <2>2. InInit(21)'
    <3>1. mount' = TRUE
      BY <1>1, <1>6
    <3>2. There(21)'
      BY <1>1, <1>4, <3>1 DEF There
    <3> QED
      BY <1>1, <1>4, <2>1, <3>2 DEF InInit
  <2> QED
    BY <1>5, <2>1, <2>2 DEF Inv, Position, WholeWhileUp
<1>7. CASE ~works
  <2>1. Returns(FALSE)
    BY <1>1, <1>7 DEF Builds
  <2>2. created' /\ "g0" \in tree'
    BY <1>1, <1>4 DEF There
  <2> QED
    BY <1>5, <2>1, <2>2, GivesUp
<1> QED
  BY <1>6, <1>7

LEMMA OpenFileInv ==
    ASSUME Inv, NEW f \in Files, NEW ok \in BOOLEAN, OpenFile(f, ok)
    PROVE  Inv'
<1>1. /\ TreeShape' /\ LeftoversGo' /\ UNCHANGED <<created, tree, mount, udc, refused>>
  BY DEF Inv, TreeShape, LeftoversGo, OpenFile, kernVars
<1>2. Building /\ todo # <<>> /\ Head(todo) = Open(f) /\ Builds(ok)
  BY DEF OpenFile, At
<1>3. PICK k \in 1..26 : /\ InInit(k) /\ Head(todo) = InitSteps[k]
                         /\ Tail(todo) = From(InitSteps, k + 1)
  BY <1>2, BuildingAt
<1>4. k \in {21, 24, 25} /\ created /\ There(k)
  <2>1. k \in {21, 24, 25}
    <3>1. \A x \in Files : InitSteps[k] = Open(x) => k \in {21, 24, 25}
      BY InitAt, Zenon
    <3>2. InitSteps[k] = Open(f)
      BY <1>2, <1>3
    <3> QED
      BY <3>1, <3>2, Zenon
  <2> QED
    BY <1>3, <2>1 DEF InInit
<1>5. CASE ok
  <2>1. phase' = "init" /\ todo' = From(InitSteps, k + 1)
    BY <1>2, <1>3, <1>5 DEF Builds, Goes, Building
  <2>2. There(k + 1)'
    BY <1>1, <1>4 DEF There
  <2>3. InInit(k + 1)'
    BY <1>1, <1>3, <1>4, <2>1, <2>2 DEF InInit
  <2>4. k + 1 \in 1..26
    BY <1>4
  <2> QED
    BY <1>1, <2>1, <2>3, <2>4 DEF Inv, Position, WholeWhileUp
<1>6. CASE ~ok
  <2>1. Returns(FALSE)
    BY <1>2, <1>6 DEF Builds
  <2>2. created' /\ "g0" \in tree'
    BY <1>1, <1>4 DEF There
  <2> QED
    BY <1>1, <2>1, <2>2, GivesUp
<1> QED
  BY <1>5, <1>6

LEMMA DescribeInv ==
    ASSUME Inv, NEW d \in Descriptions, NEW ok \in BOOLEAN, Describe(d, ok)
    PROVE  Inv'
<1>1. /\ TreeShape' /\ LeftoversGo' /\ UNCHANGED <<created, tree, mount, udc, refused>>
  BY DEF Inv, TreeShape, LeftoversGo, Describe
<1>2. Building /\ todo # <<>> /\ Head(todo) = Write(d) /\ Builds(ok)
  BY DEF Describe, At
<1>3. PICK k \in 1..26 : /\ InInit(k) /\ Head(todo) = InitSteps[k]
                         /\ Tail(todo) = From(InitSteps, k + 1)
  BY <1>2, BuildingAt
<1>4. k \in {22, 23} /\ created /\ There(k)
  <2>1. k \in {22, 23}
    <3>1. \A x \in Descriptions : InitSteps[k] = Write(x) => k \in {22, 23}
      BY InitAt, Zenon
    <3>2. InitSteps[k] = Write(d)
      BY <1>2, <1>3
    <3> QED
      BY <3>1, <3>2, Zenon
  <2> QED
    BY <1>3, <2>1 DEF InInit
<1>5. CASE ok
  <2>1. phase' = "init" /\ todo' = From(InitSteps, k + 1)
    BY <1>2, <1>3, <1>5 DEF Builds, Goes, Building
  <2>2. There(k + 1)'
    BY <1>1, <1>4 DEF There
  <2>3. InInit(k + 1)'
    BY <1>1, <1>3, <1>4, <2>1, <2>2 DEF InInit
  <2>4. k + 1 \in 1..26
    BY <1>4
  <2> QED
    BY <1>1, <2>1, <2>3, <2>4 DEF Inv, Position, WholeWhileUp
<1>6. CASE ~ok
  <2>1. Returns(FALSE)
    BY <1>2, <1>6 DEF Builds
  <2>2. created' /\ "g0" \in tree'
    BY <1>1, <1>4 DEF There
  <2> QED
    BY <1>1, <2>1, <2>2, GivesUp
<1> QED
  BY <1>5, <1>6

\* init_gadget() returns true: the gadget is whole.
LEMMA WatchInv ==
    ASSUME Inv, Watch
    PROVE  Inv'
<1>1. /\ TreeShape' /\ LeftoversGo' /\ UNCHANGED <<created, tree, mount>>
      /\ phase' = "up" /\ todo' = <<>>
  BY DEF Inv, TreeShape, LeftoversGo, Watch, Returns, kernVars
<1>2. Building /\ todo # <<>> /\ Head(todo) = Call("watch")
  BY DEF Watch, At
<1>3. PICK k \in 1..26 : /\ InInit(k) /\ Head(todo) = InitSteps[k]
                         /\ Tail(todo) = From(InitSteps, k + 1)
  BY <1>2, BuildingAt
<1>4. created /\ There(26)
  <2>1. k = 26
    BY <1>2, <1>3, InitAt
  <2> QED
    BY <1>3, <2>1 DEF InInit
<1>5. WholeWhileUp'
  BY <1>1, <1>4 DEF WholeWhileUp, There, Nodes, Audio
<1>6. InUp'
  BY <1>1, <1>4 DEF InUp, There
<1> QED
  BY <1>1, <1>5, <1>6 DEF Inv, Position

-----------------------------------------------------------------------------
(* The process.                                                            *)

LEMMA StartRunInv ==
    ASSUME Inv, StartRun
    PROVE  Inv'
<1>1. /\ TreeShape' /\ LeftoversGo' /\ UNCHANGED <<created, files, tree, mount, udc>>
      /\ phase' = "init" /\ todo' = Teardown \o BuildSteps
  BY DEF Inv, TreeShape, LeftoversGo, StartRun, kernVars
<1>2. files = {} /\ ~created
  BY DEF Inv, StartRun, Position
<1>3. CASE "g0" \in tree
  <2>1. todo' = From(InitSteps, 1)
    BY <1>1, <1>3, FromEnd, InitList DEF Teardown, InitSteps
  <2>2. InInit(1)'
    BY <1>1, <1>2, <2>1 DEF InInit, Gone, There
  <2> QED
    BY <1>1, <2>2 DEF Inv, Position, WholeWhileUp
<1>4. CASE "g0" \notin tree
  <2>1. <<>> \o BuildSteps = BuildSteps
    <3>1. BuildSteps \in Seq(Steps)
      BY BuildList
    <3> QED
      BY <3>1, ConcatEmptySeq
  <2>2. todo' = From(InitSteps, 11)
    BY <1>1, <1>4, <2>1, FromBuild DEF Teardown
  <2>3. Clean'
    BY <1>1, <1>4 DEF Clean, Inv, TreeShape
  <2>4. InInit(11)'
    BY <1>1, <1>2, <2>2, <2>3 DEF InInit, There
  <2> QED
    BY <1>1, <2>4 DEF Inv, Position, WholeWhileUp
<1> QED
  BY <1>3, <1>4

\* Dropping the handler that made no gadget touches none of it.
LEMMA DropInv ==
    ASSUME Inv, DropPs5Side \/ Dropped
    PROVE  Inv'
<1>1. /\ TreeShape' /\ LeftoversGo' /\ UNCHANGED <<created, tree, mount, udc, refused, setUp>>
      /\ phase \in {"up", "dropping"} /\ phase' \in {"up", "dropping"}
  BY DEF Inv, TreeShape, LeftoversGo, DropPs5Side, Dropped, kernVars
<1>2. InUp
  BY <1>1 DEF Inv, Position
<1>3. todo' = <<>>
  BY DEF DropPs5Side, MadeOne, Dropped
<1>4. InUp'
  BY <1>1, <1>2, <1>3 DEF InUp, Bare
<1>5. WholeWhileUp'
  BY <1>1 DEF Inv, WholeWhileUp
<1> QED
  BY <1>1, <1>4, <1>5 DEF Inv, Position

LEMMA EnableGadgetInv ==
    ASSUME Inv, NEW ok \in BOOLEAN, EnableGadget(ok)
    PROVE  Inv'
<1>1. /\ LeftoversGo' /\ UNCHANGED <<created, tree, mount, refused, setUp, todo, phase>> /\ phase = "up"
      /\ udc' => udc \/ "ffsLink" \in tree
  BY DEF Inv, LeftoversGo, EnableGadget
<1>2. InUp
  BY <1>1 DEF Inv, Position
<1>3. TreeShape'
  BY <1>1 DEF Inv, TreeShape
<1>4. InUp'
  BY <1>1, <1>2 DEF InUp, Bare
<1>5. WholeWhileUp'
  BY <1>1 DEF Inv, WholeWhileUp
<1> QED
  BY <1>1, <1>3, <1>4, <1>5 DEF Inv, Position

LEMMA DisableGadgetInv ==
    ASSUME Inv, NEW ok \in BOOLEAN, DisableGadget(ok)
    PROVE  Inv'
<1>1. /\ LeftoversGo' /\ UNCHANGED <<created, tree, mount, refused, setUp, todo, phase>> /\ phase = "up"
      /\ udc' => udc
  BY DEF Inv, LeftoversGo, DisableGadget
<1>2. InUp
  BY <1>1 DEF Inv, Position
<1>3. TreeShape'
  BY <1>1 DEF Inv, TreeShape
<1>4. InUp'
  BY <1>1, <1>2 DEF InUp, Bare
<1>5. WholeWhileUp'
  BY <1>1 DEF Inv, WholeWhileUp
<1> QED
  BY <1>1, <1>3, <1>4, <1>5 DEF Inv, Position

LEMMA ExitInv ==
    ASSUME Inv, Exit
    PROVE  Inv'
<1>1. /\ TreeShape' /\ LeftoversGo' /\ UNCHANGED <<created, tree, mount, udc, refused>>
      /\ phase = "up" /\ phase' = "exit" /\ todo' = RemoveSteps(created)
  BY DEF Inv, TreeShape, LeftoversGo, Exit, kernVars
<1>2. InUp
  BY <1>1 DEF Inv, Position
<1>3. CASE created
  <2>1. Teardown = TeardownSteps
    BY <1>2, <1>3 DEF InUp, Teardown
  <2>2. todo' = FullRemoval
    BY <1>1, <1>3, <2>1 DEF RemoveSteps, FullRemoval
  <2>3. todo' = From(FullRemoval, 1)
    BY <2>2, FromEnd, FullList
  <2>4. InFullRemoval(1)'
    BY <2>3 DEF InFullRemoval, Gone
  <2> QED
    BY <1>1, <2>4 DEF Inv, Position, WholeWhileUp
<1>4. CASE ~created
  <2>1. BareRemoval \o <<>> = BareRemoval
    <3>1. BareRemoval \in Seq(Steps)
      BY BareList
    <3> QED
      BY <3>1, ConcatEmptySeq
  <2>2. todo' = BareRemoval
    BY <1>1, <1>4, <2>1 DEF RemoveSteps, BareRemoval
  <2>3. todo' = From(BareRemoval, 1)
    BY <2>2, FromEnd, BareList
  <2>4. InBareRemoval(1)'
    BY <1>1, <1>2, <1>4, <2>3 DEF InBareRemoval, InUp, Bare
  <2> QED
    BY <1>1, <2>4 DEF Inv, Position, WholeWhileUp
<1> QED
  BY <1>3, <1>4

\* The process is gone, by itself or killed: what it forgets is not the tree's.
LEMMA GoneInv ==
    ASSUME Inv, Exited \/ Kill
    PROVE  Inv'
<1>1. /\ Forgotten /\ UNCHANGED <<tree, mount, exists>>
      /\ udc' => udc
  BY DEF Exited, Kill, FilesClose, kernVars
<1>2. TreeShape' /\ LeftoversGo'
  BY <1>1 DEF Inv, TreeShape, LeftoversGo
<1> QED
  BY <1>1, <1>2 DEF Inv, Position, Forgotten, WholeWhileUp

-----------------------------------------------------------------------------
(* The results.                                                            *)

LEMMA InvInit == Init => Inv
BY DEF Init, Inv, TreeShape, Position, LeftoversGo, WholeWhileUp

LEMMA InvNext == Inv /\ [Next]_vars => Inv'
<1> SUFFICES ASSUME Inv, [Next]_vars PROVE Inv'
  OBVIOUS
<1>1. CASE \/ StartRun \/ Umount \/ CloseFiles \/ Watch
           \/ DropPs5Side \/ Dropped \/ Exit \/ Exited \/ Kill
  BY <1>1, StartRunInv, UmountInv, CloseFilesInv, WatchInv, DropInv, ExitInv, GoneInv
<1>2. ASSUME NEW ok \in BOOLEAN, \/ Unbind(ok) \/ UsbgInit(ok) \/ Mount(ok)
                                 \/ EnableGadget(ok) \/ DisableGadget(ok)
      PROVE  Inv'
  BY <1>2, UnbindInv, UsbgInitInv, MountInv, EnableGadgetInv, DisableGadgetInv
<1>3. ASSUME NEW ok \in BOOLEAN, NEW n \in Nodes, MakeNode(n, ok)
      PROVE  Inv'
  BY <1>3, MakeNodeInv
<1>4. ASSUME NEW ok \in BOOLEAN, NEW f \in Files, OpenFile(f, ok)
      PROVE  Inv'
  BY <1>4, OpenFileInv
<1>5. ASSUME NEW ok \in BOOLEAN, NEW d \in Descriptions, Describe(d, ok)
      PROVE  Inv'
  BY <1>5, DescribeInv
<1>6. ASSUME NEW n \in Nodes, RemoveNode(n)
      PROVE  Inv'
  BY <1>6, RemoveNodeInv
<1>7. CASE UNCHANGED vars
  <2>1. TreeShape' /\ LeftoversGo' /\ WholeWhileUp'
    BY <1>7 DEF vars, progVars, kernVars, Inv, TreeShape, LeftoversGo, WholeWhileUp
  <2>2. Position'
    BY <1>7 DEF vars, progVars, kernVars, Inv, Position, InInit, InUp, InFullRemoval,
                InBareRemoval, Gone, There, Clean, Bare
  <2> QED
    BY <2>1, <2>2 DEF Inv
<1> QED
  BY <1>1, <1>2, <1>3, <1>4, <1>5, <1>6, <1>7 DEF Next

LEMMA SpecInv == Spec => []Inv
BY InvInit, InvNext, PTL DEF Spec

\* Wherever a run was killed, the next one takes apart all that was left and
\* usbg_create_gadget() never meets a gadget that exists, unless the kernel did
\* not let go of the UDC - for any number of runs.
THEOREM LeftoversAlwaysGo == Spec => []LeftoversGo
<1>1. Inv => LeftoversGo
  BY DEF Inv
<1> QED
  BY <1>1, SpecInv, PTL

\* From a successful init_gadget() until exit the gadget is complete and its
\* function mounted.
THEOREM AlwaysWholeWhileUp == Spec => []WholeWhileUp
<1>1. Inv => WholeWhileUp
  BY DEF Inv
<1> QED
  BY <1>1, SpecInv, PTL

\* remove_gadget() at its end leaves neither mount nor binding behind, and of the
\* tree nothing, however far init_gadget() had come - or the bare gadget, when
\* usbg_create_gadget() itself failed - unless an unbind had no effect.
THEOREM AlwaysLeavesNothing == Spec => []LeavesNothing
<1>1. Inv => LeavesNothing
  <2> SUFFICES ASSUME Inv, phase = "exit", todo = <<>>
               PROVE  \/ refused
                      \/ /\ ~mount /\ ~udc
                         /\ tree = {} \/ (~created /\ tree \subseteq {"g0", "strings"})
    BY DEF LeavesNothing
  <2>1. CASE \E k \in 1..13 : InFullRemoval(k)
    <3>1. PICK k \in 1..13 : InFullRemoval(k)
      BY <2>1
    <3>2. k = 13
      <4>1. k \in 1..12 => From(FullRemoval, k) # <<>>
        BY FullList, FromStep
      <4> QED
        BY <3>1, <4>1 DEF InFullRemoval
    <3>3. refused \/ Gone(11)
      BY <3>1, <3>2 DEF InFullRemoval
    <3>4. TreeShape
      BY DEF Inv
    <3> QED
      BY <3>3, <3>4 DEF TreeShape, Gone, Nodes
  <2>2. CASE \E k \in 1..3 : InBareRemoval(k)
    BY <2>2 DEF InBareRemoval, Bare
  <2> QED
    BY <2>1, <2>2 DEF Inv, Position
<1> QED
  BY <1>1, SpecInv, PTL

=============================================================================
