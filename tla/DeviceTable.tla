---------------------------- MODULE DeviceTable ----------------------------
(***************************************************************************)
(* The start-up of simPokey and its global device table: main(),           *)
(* connectToDevice() and the teardown in intHandler() of src/src/main.c,   *)
(* loadConfiguredDevices() and loadSimulatorDetails() of                   *)
(* src/src/config/config.c, getDeviceBySerialNumber() and dumpDevices()    *)
(* of src/src/device/pokey/pokey.c.                                        *)
(*                                                                         *)
(* devices[] is used twice.  loadConfiguredDevices() fills slot k with     *)
(* entry k of the configuration; main() then walks the boards found on the *)
(* network, searches the table for the serial number of board i and stores *)
(* the connected copy in slot i, whatever slot i held.  Slots, boards and  *)
(* loop counters are numbered from 0, as in the code.                      *)
(*                                                                         *)
(* SIGINT interrupts main()'s thread, which then stands still until the    *)
(* handler returns, or any other thread once there is one; then main()     *)
(* goes on while the handler asks and while it tears the table down, slot  *)
(* by slot.  What it reads of a device_t freed meanwhile may be anything.  *)
(*                                                                         *)
(* An access the code makes to a null or uninitialised pointer, or outside *)
(* an array, ends the behaviour: pc = "crashed", and outcome names the     *)
(* access.  Where the build may also survive the access, both are steps.   *)
(***************************************************************************)
EXTENDS Integers, Sequences, FiniteSets

CONSTANTS
    MAX_DEVICES,  \* number of slots of devices[], pokey.h:13
    INT_MAX,      \* largest signed int; serial numbers are unsigned ints
    Configs,      \* the configuration files a behaviour may start from
    Networks,     \* the answers of the network enumeration: serial numbers in arrival order
    NULL,         \* the null pointer
    Missing,      \* a setting absent from the configuration
    Garbage,      \* a value read from memory nobody wrote, or that was freed
    Main,         \* the thread of main()
    Others        \* the threads of the command line and of the loops

Slots == 0 .. MAX_DEVICES - 1
UInt == 0 .. 2 * INT_MAX + 1

\* A configuration: the "devices" list (each entry reduced to its serial number, the
\* numeral of its string) and how much of the "simulator" section is there.  A file that
\* cannot be read behaves like one without "devices": main() ignores the result of
\* initConfiguration().
Config == [devices : Seq(Int \cup {Missing}) \cup {Missing},
           simulator : {"absent", "partial", "full"}]

ASSUME ConstantsAssumption ==
    /\ MAX_DEVICES \in Nat \ {0}
    /\ INT_MAX \in Nat
    /\ Configs \subseteq Config
    /\ Networks \subseteq Seq(UInt)
    /\ NULL \notin [entry : Slots \cup {Garbage}, serial : Int \cup {Garbage},
                    hasPokey : BOOLEAN, pokey : Nat \cup {Garbage}]
    /\ Missing \notin Int /\ Missing \notin Seq(Int \cup {Missing})
    /\ Garbage \notin Int
    /\ Main \notin Others

Threads == {Main} \cup Others

VARIABLES
    pc,               \* where the main thread is
    outcome,          \* how the process ended: "none" while it runs
    config,           \* the configuration file
    devices,          \* the global device table
    freed,            \* the slots whose device_t is freed
    activeDevices,    \* length of the "devices" list once loaded
    simConfig,        \* pointer to the simulator's address
    network,          \* networkDeviceSummary[]
    numberOfDevices,  \* boards found by the enumeration
    i,                \* counter of the running loop
    device,           \* the copy main() is preparing
    connected,        \* boards with an open connection
    threads,          \* loop threads started: the board, and the argument handed over
    handler,          \* of each thread, where it is in intHandler()
    owed              \* auxiliary: the boards in the table when the first teardown began

table == <<devices, freed, activeDevices>>
found == <<network, numberOfDevices>>
links == <<connected, threads>>
quitting == <<handler, owed>>
vars == <<pc, outcome, config, table, simConfig, found, i, device, links, quitting>>

-----------------------------------------------------------------------------
Halted == {"exited", "crashed"}
Running == pc \notin Halted

\* A device_t.  entry is the configuration entry it was loaded from and so identifies its
\* pins[], which copies share; pokey is the board it is connected to.
DeviceEntry == [entry : Slots \cup {Garbage}, serial : Int \cup {Garbage},
                hasPokey : BOOLEAN, pokey : Nat \cup {Garbage}]
Garbled == [entry |-> Garbage, serial |-> Garbage, hasPokey |-> FALSE, pokey |-> Garbage]

InBounds(k) == k < MAX_DEVICES

\* snprintf("%d") of an unsigned serial number: the upper half of the range prints as
\* negative numbers.
SerialText_Truncated(n) == n % (INT_MAX + 1)
SerialText(n) == IF n <= INT_MAX THEN n ELSE n - 2 * (INT_MAX + 1)

Outside == [at |-> "out", slot |-> 0]
TeardownSteps == {"stop", "disconnect", "free"}
TearsDown(t) == handler[t].at \in TeardownSteps
TearingDown == \E t \in Threads : TearsDown(t)

End(how, at) == outcome' = how /\ pc' = at
Crash(how) == End(how, "crashed")

Init ==
    /\ pc = "zlog_init" /\ outcome = "none"
    /\ config \in Configs
    /\ devices = [k \in Slots |-> NULL] /\ freed = {}
    /\ activeDevices = 0 /\ numberOfDevices = 0
    /\ network = <<>> /\ simConfig = NULL
    /\ i = 0 /\ device = NULL
    /\ connected = {} /\ threads = {}
    /\ handler = [t \in Threads |-> Outside] /\ owed = {}

\* main() opens the log; without a log file or category it returns.
StartLogging ==
    /\ pc = "zlog_init"
    /\ \/ pc' = "loadConfiguredDevices" /\ UNCHANGED outcome
       \/ End("returned", "exited")
    /\ UNCHANGED <<config, table, simConfig, found, i, device, links>>

-----------------------------------------------------------------------------
(* loadConfiguredDevices(): one step per entry of the configuration. *)

\* The serialNumber local is not initialised: an entry without one gets whatever the stack
\* slot holds, the previous entry's string in the unoptimised build.
SerialRead(k) ==
    IF config.devices[k + 1] # Missing THEN {config.devices[k + 1]}
    ELSE {Garbage} \cup {devices[j].serial : j \in {k - 1} \cap Slots}

NoDevicesSection ==
    /\ pc = "loadConfiguredDevices" /\ config.devices = Missing
    /\ Crash("config")
    /\ UNCHANGED <<config, table, simConfig, found, i, device, links>>

LoadEntry ==
    /\ pc = "loadConfiguredDevices" /\ config.devices # Missing
    /\ i < Len(config.devices)
    /\ \/ /\ InBounds(i)
          /\ \E serial \in SerialRead(i) :
                devices' = [devices EXCEPT ![i] =
                    [entry |-> i, serial |-> serial, hasPokey |-> FALSE, pokey |-> Garbage]]
          /\ i' = i + 1
          /\ UNCHANGED <<pc, outcome>>
       \/ /\ InBounds(i)
          /\ Garbage \in SerialRead(i)  \* the log line prints it
          /\ Crash("uninitialised")
          /\ UNCHANGED <<devices, i>>
       \/ /\ ~InBounds(i)
          /\ Crash("bounds")
          /\ UNCHANGED <<devices, i>>
    /\ UNCHANGED <<config, freed, activeDevices, simConfig, found, device, links>>

LoadDone ==
    /\ pc = "loadConfiguredDevices" /\ config.devices # Missing
    /\ i = Len(config.devices)
    /\ activeDevices' = i /\ i' = 0
    /\ pc' = "loadSimulatorDetails"
    /\ UNCHANGED <<outcome, config, devices, freed, simConfig, found, device, links>>

\* loadSimulatorDetails(): simConfig stays null without a complete section, and main()
\* ignores the result; a string that is not there leaves an uninitialised local, which may
\* or may not look null and is printed if not.
LoadSimulator ==
    /\ pc = "loadSimulatorDetails"
    /\ \/ /\ simConfig' \in CASE config.simulator = "full" -> {"set"}
                              [] config.simulator = "partial" -> {NULL, Garbage}
                              [] config.simulator = "absent" -> {NULL}
          /\ pc' = "enumerate" /\ UNCHANGED outcome
       \/ config.simulator = "partial" /\ Crash("uninitialised") /\ UNCHANGED simConfig
    /\ UNCHANGED <<config, table, found, i, device, links>>

-----------------------------------------------------------------------------
(* main() from the enumeration of the boards to the simulator loop. *)

\* PK_EnumerateNetworkDevices() writes through networkDeviceSummary, which main() never
\* points anywhere: with boards to write, the process may end here.
Enumerate ==
    /\ pc = "enumerate"
    /\ \E answer \in Networks :
          \/ /\ network' = answer /\ numberOfDevices' = Len(answer)
             /\ pc' = "initSimConnection" /\ UNCHANGED outcome
          \/ /\ answer # <<>>
             /\ Crash("uninitialised") /\ UNCHANGED found
    /\ UNCHANGED <<config, table, simConfig, i, device, links>>

InitSim ==
    /\ pc = "initSimConnection"
    /\ \/ simConfig # NULL /\ pc' = "cliThread" /\ UNCHANGED outcome
       \/ simConfig # "set" /\ Crash("simConfig")
    /\ UNCHANGED <<config, table, simConfig, found, i, device, links>>

StartCli ==
    /\ pc = "cliThread"
    /\ \/ pc' = "match" /\ UNCHANGED outcome
       \/ End("returned", "exited")
    /\ UNCHANGED <<config, table, simConfig, found, i, device, links>>

\* getDeviceBySerialNumber() looks at these slots in order, and stops at the first one it
\* cannot read or whose serial number is the text of board i.
SearchRange_OneMore == 0 .. numberOfDevices
SearchRange_Loaded == 0 .. activeDevices - 1
SearchRange == 0 .. numberOfDevices - 1

SerialMatches(k) == devices[k].serial = SerialText(network[i + 1])
Readable(k) == InBounds(k) /\ devices[k] # NULL
PassesBy(k) == Readable(k) /\ (~SerialMatches(k) \/ k \in freed)
Reaches(k) == k \in SearchRange /\ \A j \in 0 .. k - 1 : PassesBy(j)

\* A freed device_t may still be what it was.
Copies(k) == {copy \in {devices[k], Garbled} : IF copy = devices[k] THEN SerialMatches(k) ELSE k \in freed}

SearchHit ==
    /\ pc = "match" /\ i < numberOfDevices
    /\ \E k \in SearchRange : Reaches(k) /\ Readable(k) /\ device' \in Copies(k)
    /\ pc' = "connect"
    /\ UNCHANGED <<outcome, config, table, simConfig, found, i, links>>

SearchMiss_StaysOnBoard ==
    /\ pc = "match" /\ i < numberOfDevices
    /\ \A k \in SearchRange : PassesBy(k)
    /\ i' = i
    /\ UNCHANGED <<pc, outcome, config, table, simConfig, found, device, links>>
SearchMiss ==
    /\ pc = "match" /\ i < numberOfDevices
    /\ \A k \in SearchRange : PassesBy(k)
    /\ i' = i + 1
    /\ UNCHANGED <<pc, outcome, config, table, simConfig, found, device, links>>

\* The search reads a slot that is not there, or follows an uninitialised serial number.
SearchCrash ==
    /\ pc = "match" /\ i < numberOfDevices
    /\ \E k \in SearchRange :
          /\ Reaches(k)
          /\ \/ ~InBounds(k) /\ Crash("bounds")
             \/ InBounds(k) /\ devices[k] = NULL /\ Crash("slot")
             \/ Readable(k) /\ devices[k].serial = Garbage /\ Crash("uninitialised")
    /\ UNCHANGED <<config, table, simConfig, found, i, device, links>>

\* connectToDevice() and hasPokey.
Connect ==
    /\ pc = "connect"
    /\ \/ /\ device' = [device EXCEPT !.hasPokey = TRUE, !.pokey = i]
          /\ connected' = connected \cup {i}
          /\ pc' = "configure" /\ UNCHANGED i
       \/ /\ i' = i + 1 /\ pc' = "match"
          /\ UNCHANGED <<device, connected>>
    /\ UNCHANGED <<outcome, config, table, simConfig, found, threads>>

\* dumpDevices() reads every loaded slot, and prints what it has for a serial number.
Dump ==
    \/ /\ \A k \in 0 .. activeDevices - 1 : Readable(k)'
       /\ pc' = "startThread" /\ UNCHANGED outcome
    \/ \E k \in 0 .. activeDevices - 1 :
          \/ ~Readable(k)' /\ Crash("dump")
          \/ Readable(k)' /\ devices'[k].serial = Garbage /\ Crash("uninitialised")

StoredAt_WhereFound == device.entry
StoredAt_NextSlot == i + 1
StoredAt == i

\* syncDeviceName() to dumpDevices().  What the calls before the last do to the board's name
\* and pins is the subject of other modules; here they store the copy.
Configure ==
    /\ pc = "configure"
    /\ IF InBounds(StoredAt)
       THEN /\ devices' = [devices EXCEPT ![StoredAt] = device]
            /\ freed' = freed \ {StoredAt}
            /\ Dump
       ELSE Crash("bounds") /\ UNCHANGED <<devices, freed>>
    /\ UNCHANGED <<config, activeDevices, simConfig, found, i, device, links>>

\* pthread_create(..., startDeviceLoop, &y): the argument is the address of a local of
\* main(), not the device.  If the thread cannot be created main() prints so and goes on.
LoopArgument_Counter == i
LoopArgument == Garbage
StartThread ==
    /\ pc = "startThread"
    /\ \/ threads' = threads \cup {[board |-> i, arg |-> LoopArgument]}
       \/ UNCHANGED threads
    /\ i' = i + 1 /\ pc' = "match"
    /\ UNCHANGED <<outcome, config, table, simConfig, found, device, connected>>

EnterSimLoop ==
    /\ pc = "match" /\ i >= numberOfDevices
    /\ pc' = "simLoop"
    /\ UNCHANGED <<outcome, config, table, simConfig, found, i, device, links>>

\* The simulator's event loop may end, and then main() returns.
SimLoopEnds ==
    /\ pc = "simLoop"
    /\ End("returned", "exited")
    /\ UNCHANGED <<config, table, simConfig, found, i, device, links>>

\* What main() does of its own accord, while no handler runs in its thread.
InMain == handler[Main].at = "out" /\ UNCHANGED quitting
MainStep ==
    /\ InMain
    /\ \/ StartLogging \/ NoDevicesSection \/ LoadEntry \/ LoadDone \/ LoadSimulator
       \/ Enumerate \/ InitSim \/ StartCli
       \/ SearchHit \/ SearchMiss \/ SearchCrash
       \/ Connect \/ Configure \/ StartThread \/ EnterSimLoop

-----------------------------------------------------------------------------
(* The other threads, and intHandler() in whichever thread. *)

\* startDeviceLoop() takes its argument for a device_t: it writes the loop pointer and
\* follows the pokey pointer of memory that is neither.
LoopThreadCrashes ==
    /\ Running
    /\ \E t \in threads : t.arg = LoopArgument
    /\ Crash("loopArgument")
    /\ UNCHANGED <<config, table, simConfig, found, i, device, links, quitting>>

\* There are other threads from StartCli on.
Alive(t) == t = Main \/ pc \in {"match", "connect", "configure", "startThread", "simLoop"}

InHandler == UNCHANGED <<config, devices, activeDevices, simConfig, found, i, device, threads>>
GoTo(t, at, slot) == handler' = [handler EXCEPT ![t] = [at |-> at, slot |-> slot]]

\* What is asked, answered and done to the disposition of SIGINT is the subject of Prompt.
\* Here every thread may be interrupted, and be answered either way or never.
Interrupt(t) ==
    /\ handler[t].at = "out" /\ Alive(t)
    /\ GoTo(t, "asking", 0)
    /\ UNCHANGED <<pc, outcome, freed, connected, owed>> /\ InHandler

AnswerNo(t) ==
    /\ handler[t].at = "asking"
    /\ GoTo(t, "out", 0)
    /\ UNCHANGED <<pc, outcome, freed, connected, owed>> /\ InHandler

\* Teardown of slots 0 to numberOfDevices - 1: each is read three times, for its loop, its
\* board and itself.
FirstTornDown_SkipsOne == 1
FirstTornDown == 0
TornDown_OneMore(k) == k <= numberOfDevices
TornDown(k) == k < numberOfDevices

InTable == {devices[k].pokey : k \in {l \in Slots : devices[l] # NULL /\ devices[l].hasPokey}}
AnswerYes(t) ==
    /\ handler[t].at = "asking"
    /\ GoTo(t, "stop", FirstTornDown)
    /\ owed' = IF TearingDown THEN owed ELSE InTable
    /\ UNCHANGED <<pc, outcome, freed, connected>> /\ InHandler

\* uv_stop() of the loop of a slot.  No loop field was ever written.
StopLoop(t) ==
    LET k == handler[t].slot IN
    /\ handler[t].at = "stop" /\ TornDown(k)
    /\ \/ Readable(k) /\ GoTo(t, "disconnect", k) /\ UNCHANGED <<pc, outcome>>
       \/ Readable(k) /\ Crash("uninitialised") /\ UNCHANGED handler
       \/ InBounds(k) /\ devices[k] = NULL /\ Crash("teardown") /\ UNCHANGED handler
       \/ ~InBounds(k) /\ Crash("bounds") /\ UNCHANGED handler
    /\ UNCHANGED <<freed, connected, owed>> /\ InHandler

\* PK_DisconnectDevice().  The board of a freed device_t may not be there to be read any more,
\* and a device that was never connected has none.
Disconnect(t) ==
    LET k == handler[t].slot IN
    /\ handler[t].at = "disconnect"
    /\ \/ GoTo(t, "free", k)
          /\ \/ connected' = connected \ {devices[k].pokey}
             \/ k \in freed /\ UNCHANGED connected
          /\ UNCHANGED <<pc, outcome>>
       \/ ~devices[k].hasPokey /\ Crash("uninitialised") /\ UNCHANGED <<handler, connected>>
    /\ UNCHANGED <<freed, owed>> /\ InHandler

Free(t) ==
    LET k == handler[t].slot IN
    /\ handler[t].at = "free"
    /\ GoTo(t, "stop", k + 1)
    /\ freed' = freed \cup {k}
    /\ UNCHANGED <<pc, outcome, connected, owed>> /\ InHandler

Quit(t) ==
    /\ handler[t].at = "stop" /\ ~TornDown(handler[t].slot)
    /\ End("quit", "exited")
    /\ UNCHANGED <<handler, freed, connected, owed>> /\ InHandler

Teardown(t) == Running /\ (StopLoop(t) \/ Disconnect(t) \/ Free(t) \/ Quit(t))

\* zlog_fini() and free() take away what the other threads go on using: the log and its
\* category, and the devices.
FreedMemoryCrash ==
    /\ Running
    /\ \E t, u \in Threads : t # u /\ TearsDown(t) /\ Alive(u)
    /\ Crash("freed")
    /\ UNCHANGED <<config, table, simConfig, found, i, device, links, quitting>>

-----------------------------------------------------------------------------
Next ==
    \/ MainStep
    \/ InMain /\ SimLoopEnds
    \/ LoopThreadCrashes \/ FreedMemoryCrash
    \/ \E t \in Threads :
          \/ Running /\ (Interrupt(t) \/ AnswerNo(t) \/ AnswerYes(t))
          \/ Teardown(t)

Spec == Init /\ [][Next]_vars

\* main() goes on whenever its thread is not in the handler: every call it makes returns (the
\* enumeration after its 800 ms).  A teardown that has begun goes on too.  Nothing is assumed
\* of the simulator, of the loop threads or of the user, who may never answer.
FairSpec == Spec /\ WF_vars(MainStep) /\ \A t \in Threads : WF_vars(Teardown(t))

-----------------------------------------------------------------------------
(* Properties. *)

\* The enumeration answered with each board once.
DistinctBoards == \A a, b \in DOMAIN network : network[a] = network[b] => a = b

TypeOK ==
    /\ pc \in {"zlog_init", "loadConfiguredDevices", "loadSimulatorDetails", "enumerate",
               "initSimConnection", "cliThread", "match", "connect", "configure",
               "startThread", "simLoop", "exited", "crashed"}
    /\ outcome \in {"none", "returned", "quit", "config", "bounds", "simConfig", "slot",
                    "dump", "uninitialised", "loopArgument", "teardown", "freed"}
    /\ config \in Configs
    /\ devices \in [Slots -> DeviceEntry \cup {NULL}]
    /\ activeDevices \in Nat /\ numberOfDevices \in Nat /\ i \in Nat
    /\ simConfig \in {NULL, Garbage, "set"}
    /\ network \in Seq(UInt) /\ numberOfDevices = Len(network)
    /\ device \in DeviceEntry \cup {NULL}
    /\ connected \subseteq Nat
    /\ threads \subseteq [board : Nat, arg : {LoopArgument}]
    /\ freed \subseteq Slots
    /\ handler \in [Threads -> [at : {"out", "asking"} \cup TeardownSteps, slot : Nat]]
    /\ owed \subseteq Nat

\* A slot that holds a connected device holds the one of the board with the slot's number,
\* and its serial number is that board's unless it was copied from freed memory; until a
\* teardown begins the board's connection is open.  So the second use of devices[] never
\* mixes boards up (main.c:97-130).
ServedSlotIsItsBoard ==
    \A k \in Slots \ freed : devices[k] # NULL /\ devices[k].hasPokey =>
        /\ k < numberOfDevices
        /\ devices[k].pokey = k
        /\ devices[k].entry # Garbage => devices[k].serial = SerialText(network[k + 1])
        /\ Running /\ ~TearingDown => k \in connected

\* getDeviceBySerialNumber() copies a device_t with its pins[] pointers.  Two connected
\* devices nevertheless never share pins, unless the enumeration reported a board twice:
\* that rests on the text of the serial numbers being different for different boards.
ConnectedDevicesShareNoPins ==
    DistinctBoards =>
        \A k, l \in Slots \ freed :
            /\ devices[k] # NULL /\ devices[k].hasPokey
            /\ devices[l] # NULL /\ devices[l].hasPokey
            /\ devices[k].entry = devices[l].entry /\ devices[k].entry # Garbage
            => k = l

\* dumpDevices() reads every slot below activeDevices without looking, after main() has
\* stored copies in slots of its own choice: none of those slots is ever null or outside
\* devices[].
DumpReadsLoadedSlots == outcome # "dump"

\* The search and the teardown read slots up to the number of boards found, not of entries
\* loaded.  They meet an empty slot only if there are more boards than entries.
EmptySlotOnlyWhenOutnumbered ==
    outcome \in {"slot", "teardown"} => numberOfDevices > activeDevices

\* ... and if there are more boards (each reported once) than entries, some board is
\* unknown, its search runs into an empty slot, and main() never reaches its loop; but for
\* what it may read while a teardown frees the devices.
RunsOnlyWithinConfiguration ==
    pc = "simLoop" /\ DistinctBoards /\ ~TearingDown => numberOfDevices <= activeDevices

\* An index outside devices[], of the load, the search, the store or the teardown, is used
\* only with more than MAX_DEVICES entries or boards; exactly MAX_DEVICES of them fit.
BoundsHoldUpToMaxDevices ==
    outcome = "bounds" => \/ numberOfDevices > MAX_DEVICES
                          \/ Len(config.devices) > MAX_DEVICES

\* A "y" at the prompt closes every board that was in the table when the first teardown
\* began, in however many threads it is answered.  Answered in main()'s own thread only, it
\* leaves no connection open but the one of the board main() had connected and not stored
\* yet (main.c:111-119); a teardown in another thread walks past the slots main() goes on
\* filling behind it, and owes nothing for those (main.c:34-41).
QuitClosesConnections ==
    outcome = "quit" =>
        /\ connected \cap owed = {}
        /\ (\A t \in Others : ~TearsDown(t)) => connected \subseteq {i}

\* The three together: every index used on devices[], by whichever of the two counts it is
\* bounded, in main() or in the teardown of intHandler(), names a slot that is there and
\* filled, but for the two cases named.
IndexesStayInside ==
    DumpReadsLoadedSlots /\ EmptySlotOnlyWhenOutnumbered /\ BoundsHoldUpToMaxDevices

\* main() passes board i over although an entry has its serial number, and no teardown has
\* freed the devices it searches.
PassesOver(entries) ==
    /\ pc = "match" /\ pc' = "match" /\ i < numberOfDevices /\ i' = i + 1 /\ ~TearingDown
    /\ \E e \in entries : config.devices[e + 1] = SerialText(network[i + 1])

\* Storing the copies only overwrites slots already walked past: a board whose entry is at
\* its own position or later, within the search range, is found unless a teardown has begun.
EntriesAheadAreFound ==
    [][~PassesOver({e \in 0 .. Len(config.devices) - 1 : i <= e /\ e < numberOfDevices})]_vars

\* main.c:123 "start a thread per device": no board with an entry is passed over.
EveryConfiguredBoardIsFound ==
    [][~PassesOver(0 .. Len(config.devices) - 1)]_vars

\* Start-up comes to an end: main() reaches the simulator loop or the process is over, if
\* the user does not keep main()'s thread at the prompt for ever, by no answer or by one
\* interrupt after the other (main.c:29).
StartupEnds ==
    <>[](handler[Main].at # "asking") => <>(pc \in Halted \cup {"simLoop"})
=============================================================================
