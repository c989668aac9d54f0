------------------------- MODULE DeviceTableProofs -------------------------
(***************************************************************************)
(* Proofs, for every table size, word size, configuration and network, of  *)
(* the type invariant and of the safety properties of DeviceTable.         *)
(*                                                                         *)
(* None of those properties is inductive.  Safe adds what they rest on:    *)
(* which slots still are as loaded, what the copy in preparation is, and   *)
(* that the boards passed so far have entries when there are more boards   *)
(* than entries (TableSafe); and, of the teardown, that main() only stores *)
(* ahead of the boards owed, and that those a teardown has passed or freed *)
(* are closed (QuitSafe).  Every part is stated so that it survives the    *)
(* end of the process.                                                     *)
(***************************************************************************)
EXTENDS DeviceTable, FiniteSetTheorems, TLAPS

Loading == {"zlog_init", "loadConfiguredDevices"}
BetweenLoadAndMatch == {"loadSimulatorDetails", "enumerate", "initSimConnection", "cliThread"}
Matching == {"match", "connect", "configure", "startThread"}

Filled(k) == devices[k] # NULL
Served(k) == Filled(k) /\ devices[k].hasPokey
TextOf(b) == SerialText(network[b + 1])

\* Slot k holds entry k as loadConfiguredDevices() left it.
Fresh(k) ==
    /\ Filled(k) /\ devices[k].entry = k
    /\ config.devices[k + 1] # Missing => devices[k].serial = config.devices[k + 1]

\* Some entry of the configuration has this serial number.
Known(serial) == \E e \in 1 .. Len(config.devices) : config.devices[e] = serial

\* The first slot main() has not stored anything in yet, nor passed.
Front == IF pc = "startThread" THEN i + 1 ELSE i

OutcomeInv == Running <=> outcome = "none"

LoadingInv ==
    /\ pc = "zlog_init" => i = 0
    /\ pc \in Loading =>
        /\ activeDevices = 0
        /\ i <= MAX_DEVICES
        /\ i > 0 => config.devices # Missing /\ i <= Len(config.devices)
        /\ \A k \in Slots : IF k < i THEN Fresh(k) ELSE devices[k] = NULL

LoadedInv ==
    /\ \A k \in 0 .. activeDevices - 1 : k \in Slots /\ Filled(k)
    /\ pc \in BetweenLoadAndMatch \cup Matching \cup {"simLoop"} =>
        config.devices # Missing /\ activeDevices = Len(config.devices)

AheadInv ==
    /\ pc \in BetweenLoadAndMatch => i = 0
    /\ pc \in BetweenLoadAndMatch \cup Matching =>
        \A k \in Slots : k >= Front =>
            IF k < activeDevices THEN Fresh(k) ELSE devices[k] = NULL

NetworkInv ==
    pc \in Loading \cup {"loadSimulatorDetails", "enumerate"} => network = <<>>

PreparedInv ==
    /\ pc \in {"connect", "configure"} =>
        /\ i < numberOfDevices /\ device # NULL
        /\ \/ device.serial = TextOf(i)
           \/ TearingDown /\ device.entry = Garbage /\ device.serial = Garbage
    /\ pc = "configure" => device.hasPokey /\ device.pokey = i
    /\ pc = "configure" => i \in connected \/ TearingDown

\* What ServedSlotIsItsBoard says, of the slots with a freed device too.
ServedInv ==
    \A k \in Slots : Served(k) =>
        /\ k < numberOfDevices /\ devices[k].pokey = k
        /\ devices[k].entry = Garbage \/ devices[k].serial = TextOf(k)
        /\ Running => k \in connected \/ TearingDown

ConnectedInv ==
    Running => TearingDown \/ \A b \in connected :
        \/ pc = "configure" /\ b = i
        \/ b \in Slots /\ b < numberOfDevices /\ Served(b)

\* Copies of one entry agree on the serial number, those of freed memory included.
EntryInv ==
    /\ \A k, l \in Slots : Filled(k) /\ Filled(l) /\ devices[k].entry = devices[l].entry
                           => devices[k].serial = devices[l].serial
    /\ \A k \in Slots : Filled(k) /\ devices[k].entry = Garbage => devices[k].serial = Garbage
    /\ pc \in {"connect", "configure"} =>
        \A l \in Slots : Filled(l) /\ device.entry = devices[l].entry
                         => device.serial = devices[l].serial
    /\ pc \in {"connect", "configure"} /\ device.entry = Garbage => device.serial = Garbage

SerialInv ==
    /\ \A k \in Slots : Filled(k) => devices[k].serial = Garbage \/ Known(devices[k].serial)
    /\ pc \in {"connect", "configure"} => device.serial = Garbage \/ Known(device.serial)

OutnumberedInv ==
    /\ pc \in Matching \cup {"simLoop"} /\ numberOfDevices > activeDevices =>
        \/ TearingDown
        \/ \A b \in 0 .. Front - 1 : b < numberOfDevices => Known(TextOf(b))
    /\ pc = "simLoop" => i >= numberOfDevices

EndInv ==
    DumpReadsLoadedSlots /\ EmptySlotOnlyWhenOutnumbered /\ BoundsHoldUpToMaxDevices

TableSafe ==
    /\ OutcomeInv /\ LoadingInv /\ LoadedInv /\ AheadInv /\ NetworkInv /\ PreparedInv
    /\ ServedInv /\ ConnectedInv /\ EntryInv /\ SerialInv /\ OutnumberedInv /\ EndInv

\* main() stores ahead of what it has stored.
FrontInv ==
    Running => \A k \in Slots : Served(k) => k < Front /\ pc \in Matching \cup {"simLoop"}

HandlerInv ==
    /\ freed # {} => TearingDown
    /\ \A k \in freed : Filled(k)
    /\ \A t \in Threads : handler[t].at \in {"disconnect", "free"} =>
        handler[t].slot \in Slots /\ Filled(handler[t].slot)

\* What is owed is in the table as long as a teardown can still get there ...
OwedInv == Running => \A b \in owed : b \in Slots /\ Served(b)

\* ... and closed once one has passed it or freed it.
PassedBy(t, b) ==
    /\ TearsDown(t)
    /\ \/ b < handler[t].slot
       \/ b = handler[t].slot /\ handler[t].at = "free"
ClosedInv ==
    \A b \in owed : b \in freed \/ (\E t \in Threads : PassedBy(t, b)) => b \notin connected

\* main() opens no connection while its thread tears the table down.
OnlyMain == TearsDown(Main) /\ \A t \in Others : ~TearsDown(t)
MainInv == OnlyMain => connected \subseteq owed \cup {i}

QuitSafe ==
    FrontInv /\ HandlerInv /\ OwedInv /\ ClosedInv /\ MainInv /\ QuitClosesConnections

Safe == TableSafe /\ QuitSafe

-----------------------------------------------------------------------------
(* Types. *)

LEMMA ConfigTypes ==
    ASSUME TypeOK, config.devices # Missing
    PROVE  /\ config.devices \in Seq(Int \cup {Missing})
           /\ Len(config.devices) \in Nat
           /\ \A e \in 1 .. Len(config.devices) : config.devices[e] \in Int \cup {Missing}
<1>1. config.devices \in Seq(Int \cup {Missing})
  BY ConstantsAssumption DEF TypeOK, Config
<1>. QED  BY <1>1

\* Text and number of a serial number are one to one: this is what keeps boards apart.
LEMMA SerialTextInjective ==
    ASSUME NEW m \in UInt, NEW n \in UInt, SerialText(m) = SerialText(n)
    PROVE  m = n
BY ConstantsAssumption DEF UInt, SerialText

LEMMA SerialTextType ==
    ASSUME NEW n \in UInt
    PROVE  SerialText(n) \in Int
BY ConstantsAssumption DEF UInt, SerialText

LEMMA NullIsNoEntry == NULL \notin DeviceEntry
BY ConstantsAssumption DEF DeviceEntry

\* An uninitialised serial number is the previous entry's or no number at all.
LEMMA SerialReadType ==
    ASSUME TypeOK, LoadEntry, i > 0 => devices[i - 1] # NULL
    PROVE  SerialRead(i) \subseteq Int \cup {Garbage}
<1>1. i \in Nat /\ i + 1 \in 1 .. Len(config.devices)
  BY ConfigTypes DEF TypeOK, LoadEntry
<1>2. config.devices[i + 1] \in Int \cup {Missing}
  BY <1>1, ConfigTypes DEF LoadEntry
<1>3. ASSUME NEW j \in {i - 1} \cap Slots PROVE devices[j].serial \in Int \cup {Garbage}
  <2>1. devices[j] \in DeviceEntry
    BY <1>1, <1>3, ConstantsAssumption DEF TypeOK, Slots
  <2>. QED  BY <2>1 DEF DeviceEntry
<1>. QED  BY <1>2, <1>3 DEF SerialRead

\* The handlers are where they were: a step of main() or of a loop thread.
LEMMA TearingDownUnchanged ==
    ASSUME UNCHANGED quitting
    PROVE  /\ TearingDown' <=> TearingDown
           /\ OnlyMain' <=> OnlyMain
           /\ \A t \in Threads : \A b \in Nat : PassedBy(t, b)' <=> PassedBy(t, b)
BY DEF quitting, TearingDown, TearsDown, OnlyMain, PassedBy

\* A copy of freed memory is a device_t; any other is the entry found.
LEMMA GarbledType == Garbled \in DeviceEntry
BY DEF Garbled, DeviceEntry

LEMMA CopiesType ==
    ASSUME TypeOK, NEW k \in SearchRange, Readable(k), NEW copy \in Copies(k)
    PROVE  /\ k \in Slots /\ devices[k] \in DeviceEntry /\ copy \in DeviceEntry
           /\ \/ copy = devices[k] /\ SerialMatches(k)
              \/ copy = Garbled /\ k \in freed
<1>1. k \in Slots /\ devices[k] \in DeviceEntry
  BY ConstantsAssumption DEF TypeOK, SearchRange, Readable, InBounds, Slots
<1>. QED  BY <1>1, GarbledType DEF Copies

LEMMA InitType == Init => TypeOK
<1>. SUFFICES ASSUME Init PROVE TypeOK
  OBVIOUS
<1>1. handler \in [Threads -> [at : {"out", "asking"} \cup TeardownSteps, slot : Nat]]
  BY DEF Init, Outside
<1>. QED  BY <1>1, ConstantsAssumption DEF Init, TypeOK, Slots

\* The steps of main() and of the loop threads, with what they all leave alone.
MainSteps ==
    \/ StartLogging \/ NoDevicesSection \/ LoadEntry \/ LoadDone \/ LoadSimulator
    \/ Enumerate \/ InitSim \/ StartCli
    \/ SearchHit \/ SearchMiss \/ SearchCrash
    \/ Connect \/ Configure \/ StartThread \/ EnterSimLoop \/ SimLoopEnds
    \/ LoopThreadCrashes \/ FreedMemoryCrash

HandlerSteps(t) == Interrupt(t) \/ AnswerNo(t) \/ AnswerYes(t) \/ Teardown(t)

LEMMA NextSplits ==
    ASSUME Next
    PROVE  \/ /\ MainSteps /\ UNCHANGED quitting
              /\ handler[Main].at = "out" \/ LoopThreadCrashes \/ FreedMemoryCrash
           \/ \E t \in Threads : Running /\ HandlerSteps(t)
<1>1. ASSUME MainStep \/ (InMain /\ SimLoopEnds)
      PROVE  MainSteps /\ UNCHANGED quitting /\ handler[Main].at = "out"
  BY <1>1 DEF MainStep, InMain, MainSteps
<1>2. ASSUME LoopThreadCrashes \/ FreedMemoryCrash
      PROVE  MainSteps /\ UNCHANGED quitting
  BY <1>2 DEF LoopThreadCrashes, FreedMemoryCrash, MainSteps, quitting
<1>. QED  BY <1>1, <1>2 DEF Next, HandlerSteps, Teardown

LEMMA MainType ==
    ASSUME TypeOK, Safe, MainSteps, UNCHANGED quitting
    PROVE  TypeOK'
<1>. USE DEF TypeOK, End, Crash, table, found, links, quitting
<1>1. ASSUME StartLogging PROVE TypeOK'
  BY <1>1 DEF StartLogging
<1>2. ASSUME NoDevicesSection PROVE TypeOK'
  BY <1>2 DEF NoDevicesSection
<1>3. ASSUME LoadEntry PROVE TypeOK'
  <2>1. CASE ~InBounds(i) \/ UNCHANGED devices
    BY <1>3, <2>1 DEF LoadEntry
  <2>2. CASE InBounds(i) /\ ~ UNCHANGED devices
    <3>1. i \in Slots /\ (i > 0 => i - 1 \in Slots /\ devices[i - 1] # NULL)
      BY <1>3, <2>2, ConstantsAssumption
         DEF LoadEntry, InBounds, Slots, Safe, TableSafe, LoadingInv, Loading, Fresh, Filled
    <3>2. SerialRead(i) \subseteq Int \cup {Garbage}
      BY <1>3, <3>1, SerialReadType
    <3>3. PICK serial \in SerialRead(i) : devices' = [devices EXCEPT ![i] =
                [entry |-> i, serial |-> serial, hasPokey |-> FALSE, pokey |-> Garbage]]
      BY <1>3, <2>2 DEF LoadEntry
    <3>4. devices' \in [Slots -> DeviceEntry \cup {NULL}]
      BY <3>1, <3>2, <3>3 DEF DeviceEntry
    <3>. QED  BY <1>3, <3>4 DEF LoadEntry
  <2>. QED  BY <2>1, <2>2
<1>4. ASSUME LoadDone PROVE TypeOK'
  BY <1>4 DEF LoadDone
<1>5. ASSUME LoadSimulator PROVE TypeOK'
  <2>1. simConfig' \in {NULL, Garbage, "set"}
    BY <1>5, ConstantsAssumption DEF LoadSimulator, Config
  <2>. QED  BY <1>5, <2>1 DEF LoadSimulator
<1>6. ASSUME Enumerate PROVE TypeOK'
  <2>1. \A answer \in Networks : answer \in Seq(UInt) /\ Len(answer) \in Nat
    BY ConstantsAssumption
  <2>. QED  BY <1>6, <2>1 DEF Enumerate
<1>7. ASSUME InitSim PROVE TypeOK'
  BY <1>7 DEF InitSim
<1>8. ASSUME StartCli PROVE TypeOK'
  BY <1>8 DEF StartCli
<1>9. ASSUME SearchHit PROVE TypeOK'
  <2>1. device' \in DeviceEntry
    BY <1>9, CopiesType DEF SearchHit
  <2>. QED  BY <1>9, <2>1 DEF SearchHit
<1>10. ASSUME SearchMiss PROVE TypeOK'
  BY <1>10 DEF SearchMiss
<1>11. ASSUME SearchCrash PROVE TypeOK'
  BY <1>11 DEF SearchCrash
<1>12. ASSUME Connect PROVE TypeOK'
  <2>1. device \in DeviceEntry
    BY <1>12 DEF Connect, Safe, TableSafe, PreparedInv
  <2>2. [device EXCEPT !.hasPokey = TRUE, !.pokey = i] \in DeviceEntry
    BY <2>1 DEF DeviceEntry
  <2>. QED  BY <1>12, <2>2 DEF Connect
<1>13. ASSUME Configure PROVE TypeOK'
  BY <1>13 DEF Configure, Dump, StoredAt
<1>14. ASSUME StartThread PROVE TypeOK'
  BY <1>14 DEF StartThread
<1>15. ASSUME EnterSimLoop PROVE TypeOK'
  BY <1>15 DEF EnterSimLoop
<1>16. ASSUME SimLoopEnds PROVE TypeOK'
  BY <1>16 DEF SimLoopEnds
<1>17. ASSUME LoopThreadCrashes PROVE TypeOK'
  BY <1>17 DEF LoopThreadCrashes
<1>18. ASSUME FreedMemoryCrash PROVE TypeOK'
  BY <1>18 DEF FreedMemoryCrash
<1>. QED
  BY <1>1, <1>2, <1>3, <1>4, <1>5, <1>6, <1>7, <1>8, <1>9, <1>10, <1>11, <1>12, <1>13,
     <1>14, <1>15, <1>16, <1>17, <1>18 DEF MainSteps

LEMMA HandlerType ==
    ASSUME TypeOK, Safe, NEW t \in Threads, Running, HandlerSteps(t)
    PROVE  TypeOK'
<1>. USE DEF TypeOK, End, Crash, InHandler, TeardownSteps
<1>1. handler' \in [Threads -> [at : {"out", "asking"} \cup TeardownSteps, slot : Nat]]
  <2>1. ASSUME NEW at \in {"out", "asking"} \cup TeardownSteps, NEW slot \in Nat,
               GoTo(t, at, slot)
        PROVE  handler' \in [Threads -> [at : {"out", "asking"} \cup TeardownSteps, slot : Nat]]
    BY <2>1 DEF GoTo
  <2>2. handler[t].slot \in Nat /\ handler[t].slot + 1 \in Nat /\ 0 \in Nat
    OBVIOUS
  <2>3. CASE Interrupt(t) \/ AnswerNo(t) \/ AnswerYes(t)
    BY <2>1, <2>2, <2>3 DEF Interrupt, AnswerNo, AnswerYes, FirstTornDown
  <2>4. CASE Teardown(t)
    BY <2>1, <2>2, <2>4 DEF Teardown, StopLoop, Disconnect, Free, Quit
  <2>. QED  BY <2>3, <2>4 DEF HandlerSteps
<1>2. freed' \subseteq Slots
  BY DEF HandlerSteps, Teardown, Interrupt, AnswerNo, AnswerYes, StopLoop, Disconnect, Free,
         Quit, Safe, QuitSafe, HandlerInv
<1>3. owed' \subseteq Nat
  <2>1. InTable \subseteq Nat
    BY ConstantsAssumption DEF InTable, Slots, Safe, TableSafe, ServedInv, Served, Filled
  <2>. QED
    BY <2>1 DEF HandlerSteps, Teardown, Interrupt, AnswerNo, AnswerYes, StopLoop, Disconnect,
                Free, Quit
<1>4. connected' \subseteq Nat /\ UNCHANGED <<config, devices, activeDevices, simConfig, network,
                                           numberOfDevices, i, device, threads>>
  BY DEF HandlerSteps, Teardown, Interrupt, AnswerNo, AnswerYes, StopLoop, Disconnect, Free,
         Quit, found
<1>5. \/ UNCHANGED <<pc, outcome>>
      \/ pc' = "crashed" /\ outcome' \in {"uninitialised", "teardown", "bounds"}
      \/ pc' = "exited" /\ outcome' = "quit"
  BY DEF HandlerSteps, Teardown, Interrupt, AnswerNo, AnswerYes, StopLoop, Disconnect, Free,
         Quit
<1>. QED  BY <1>1, <1>2, <1>3, <1>4, <1>5

LEMMA NextType ==
    ASSUME TypeOK, Safe, [Next]_vars
    PROVE  TypeOK'
<1>1. CASE UNCHANGED vars
  BY <1>1 DEF vars, TypeOK, table, found, links, quitting
<1>. QED  BY <1>1, NextSplits, MainType, HandlerType

LEMMA InitSafe == Init => Safe
<1>. SUFFICES ASSUME Init PROVE Safe
  OBVIOUS
<1>1. TableSafe
  BY ConstantsAssumption
     DEF Init, TableSafe, OutcomeInv, LoadingInv, LoadedInv, AheadInv, NetworkInv, PreparedInv,
       ServedInv, ConnectedInv, EntryInv, SerialInv, OutnumberedInv, EndInv,
       DumpReadsLoadedSlots, EmptySlotOnlyWhenOutnumbered, BoundsHoldUpToMaxDevices,
       Running, Halted, Loading, BetweenLoadAndMatch, Matching, Served, Filled, Slots
<1>2. QuitSafe
  BY DEF Init, Outside, QuitSafe, FrontInv, HandlerInv, OwedInv, ClosedInv, MainInv, OnlyMain,
         TearsDown, TeardownSteps, Threads, QuitClosesConnections, Served, Filled
<1>. QED  BY <1>1, <1>2 DEF Safe

\* The board in preparation has an entry: its text is a number, never garbage.
LEMMA PreparedIsKnown ==
    ASSUME TypeOK, Safe, pc \in {"connect", "configure"}
    PROVE  TearingDown \/ Known(TextOf(i))
<1>1. i + 1 \in 1 .. Len(network)
  BY DEF TypeOK, Safe, TableSafe, PreparedInv
<1>2. TextOf(i) \in Int
  BY <1>1, SerialTextType DEF TypeOK, TextOf
<1>. QED  BY <1>2, ConstantsAssumption DEF Safe, TableSafe, PreparedInv, SerialInv

LEMMA MainTableSafe ==
    ASSUME TypeOK, Safe, MainSteps, UNCHANGED quitting, TypeOK'
    PROVE  TableSafe'
<1>0. TearingDown' <=> TearingDown
  BY TearingDownUnchanged
<1>. USE ConstantsAssumption, <1>0
     DEF Safe, TableSafe, OutcomeInv, LoadingInv, LoadedInv, AheadInv, NetworkInv, PreparedInv,
       ServedInv, ConnectedInv, EntryInv, SerialInv, OutnumberedInv, EndInv,
       DumpReadsLoadedSlots, EmptySlotOnlyWhenOutnumbered, BoundsHoldUpToMaxDevices,
       Running, Halted, Loading, BetweenLoadAndMatch, Matching,
       Filled, Slots, Fresh, Known, Served, TextOf, Front, End, Crash, table, found, links
<1>1. ASSUME StartLogging PROVE TableSafe'
  BY <1>1 DEF StartLogging
<1>2. ASSUME NoDevicesSection PROVE TableSafe'
  BY <1>2 DEF NoDevicesSection
<1>3. ASSUME LoadEntry PROVE TableSafe'
  <2>1. CASE pc' = "crashed" /\ UNCHANGED <<devices, i>>
    <3>1. BoundsHoldUpToMaxDevices'
      BY <1>3, <2>1, ConfigTypes DEF LoadEntry, InBounds, TypeOK
    <3>. QED  BY <1>3, <2>1, <3>1 DEF LoadEntry
  <2>2. CASE InBounds(i) /\ i' = i + 1 /\ pc' = pc
    <3>1. i \in Slots /\ devices[i] = NULL /\ i + 1 \in 1 .. Len(config.devices)
      BY <1>3, <2>2, ConfigTypes DEF LoadEntry, InBounds, TypeOK
    <3>2. PICK serial \in SerialRead(i) : devices' = [devices EXCEPT ![i] =
                [entry |-> i, serial |-> serial, hasPokey |-> FALSE, pokey |-> Garbage]]
      BY <1>3, <2>2 DEF LoadEntry
    <3>3. /\ devices'[i].entry = i /\ devices'[i].serial = serial /\ ~devices'[i].hasPokey
          /\ devices'[i] # NULL
          /\ \A k \in Slots \ {i} : devices'[k] = devices[k]
      <4>1. devices'[i] =
                [entry |-> i, serial |-> serial, hasPokey |-> FALSE, pokey |-> Garbage]
        BY <3>1, <3>2 DEF TypeOK
      <4>2. serial \in Int \cup {Garbage}
        <5>1. i > 0 => devices[i - 1] # NULL
          BY <1>3 DEF LoadEntry, TypeOK
        <5>. QED  BY <1>3, <3>2, <5>1, SerialReadType
      <4>3. devices'[i] \in DeviceEntry
        BY <3>1, <4>1, <4>2 DEF DeviceEntry
      <4>4. devices'[i] # NULL
        BY <4>3, NullIsNoEntry
      <4>. QED  BY <3>1, <3>2, <4>1, <4>4 DEF TypeOK
    <3>4. config.devices[i + 1] # Missing => serial = config.devices[i + 1]
      BY <3>2 DEF SerialRead
    <3>5. serial = Garbage \/ Known(serial)
      <4>1. CASE config.devices[i + 1] # Missing
        BY <3>1, <3>4, <4>1
      <4>2. CASE config.devices[i + 1] = Missing
        <5>1. \A j \in {i - 1} \cap Slots : devices[j] # NULL
          BY <1>3, <3>1 DEF LoadEntry, TypeOK
        <5>. QED  BY <3>2, <4>2, <5>1 DEF SerialRead
      <4>. QED  BY <4>1, <4>2
    <3>6. numberOfDevices = 0 /\ (connected = {} \/ TearingDown)
      BY <1>3 DEF LoadEntry, TypeOK
    <3>7. LoadingInv'
      BY <1>3, <2>2, <3>1, <3>3, <3>4 DEF LoadEntry, TypeOK
    <3>8. ServedInv' /\ ConnectedInv'
      BY <1>3, <3>3, <3>6 DEF LoadEntry
    <3>9. EntryInv' /\ SerialInv'
      <4>1. pc = "loadConfiguredDevices" /\ pc' = pc /\ UNCHANGED config
        BY <1>3, <2>2 DEF LoadEntry
      <4>2. \A k \in Slots \ {i} : devices[k] # NULL => devices[k].entry = k
        BY <3>1, <4>1
      <4>3. EntryInv'
        <5>1. ASSUME NEW k \in Slots, NEW l \in Slots, Filled(k)', Filled(l)',
                     devices'[k].entry = devices'[l].entry
              PROVE  devices'[k].serial = devices'[l].serial
          BY <3>3, <4>1, <4>2, <5>1
        <5>2. ASSUME NEW k \in Slots, Filled(k)', devices'[k].entry = Garbage
              PROVE  devices'[k].serial = Garbage
          BY <3>3, <4>1, <4>2, <5>2
        <5>. QED  BY <4>1, <5>1, <5>2
      <4>4. SerialInv'
        BY <3>3, <3>5, <4>1
      <4>. QED  BY <4>3, <4>4
    <3>10. OutcomeInv' /\ LoadedInv' /\ AheadInv' /\ NetworkInv' /\ PreparedInv'
      BY <1>3, <2>2 DEF LoadEntry, TypeOK
    <3>11. OutnumberedInv' /\ EndInv'
      BY <1>3, <2>2 DEF LoadEntry, TypeOK
    <3>. QED  BY <3>7, <3>8, <3>9, <3>10, <3>11
  <2>. QED  BY <1>3, <2>1, <2>2 DEF LoadEntry
<1>4. ASSUME LoadDone PROVE TableSafe'
  BY <1>4, ConfigTypes DEF LoadDone, TypeOK
<1>5. ASSUME LoadSimulator PROVE TableSafe'
  BY <1>5 DEF LoadSimulator
<1>6. ASSUME Enumerate PROVE TableSafe'
  BY <1>6 DEF Enumerate, TypeOK
<1>7. ASSUME InitSim PROVE TableSafe'
  BY <1>7 DEF InitSim
<1>8. ASSUME StartCli PROVE TableSafe'
  BY <1>8 DEF StartCli
<1>9. ASSUME SearchHit PROVE TableSafe'
  <2>1. PICK k \in SearchRange : Readable(k) /\ device' \in Copies(k)
    BY <1>9 DEF SearchHit
  <2>2. /\ k \in Slots /\ devices[k] # NULL /\ devices[k] \in DeviceEntry
        /\ device' \in DeviceEntry /\ device' # NULL
        /\ \/ device' = devices[k] /\ SerialMatches(k)
           \/ device' = Garbled /\ k \in freed
    BY <2>1, CopiesType, NullIsNoEntry DEF Readable
  <2>3. PreparedInv'
    BY <1>9, <2>2 DEF SearchHit, SerialMatches, Garbled, QuitSafe, HandlerInv
  <2>4. EntryInv' /\ SerialInv'
    <3>1. CASE device' = devices[k]
      BY <1>9, <2>2, <3>1 DEF SearchHit
    <3>2. CASE device' = Garbled
      BY <1>9, <2>2, <3>2 DEF SearchHit, Garbled
    <3>. QED  BY <2>2, <3>1, <3>2
  <2>. QED  BY <1>9, <2>3, <2>4 DEF SearchHit
<1>10. ASSUME SearchMiss PROVE TableSafe'
  <2>1. numberOfDevices <= activeDevices
    <3>1. SUFFICES ASSUME numberOfDevices > activeDevices PROVE FALSE
      BY DEF TypeOK
    \* Nothing has been stored yet at the first slot past both the entries and board i.
    <3>2. PICK m \in {i, activeDevices} : m >= i /\ m >= activeDevices
      BY DEF TypeOK
    <3>3. m \in SearchRange /\ ~Readable(m)
      BY <1>10, <3>1, <3>2 DEF SearchMiss, SearchRange, Readable, InBounds, TypeOK
    <3>. QED  BY <1>10, <3>3 DEF SearchMiss, PassesBy
  <2>2. AheadInv' /\ OutnumberedInv'
    BY <1>10, <2>1 DEF SearchMiss, TypeOK
  <2>3. EndInv'
    BY <1>10 DEF SearchMiss
  <2>. QED  BY <1>10, <2>2, <2>3 DEF SearchMiss
<1>11. ASSUME SearchCrash PROVE TableSafe'
  BY <1>11 DEF SearchCrash, SearchRange, Readable, InBounds, TypeOK
<1>12. ASSUME Connect PROVE TableSafe'
  <2>1. device \in DeviceEntry
    BY <1>12 DEF Connect, TypeOK
  <2>2. CASE pc' = "match"
    <3>1. OutnumberedInv'
      <4>1. TearingDown \/ Known(TextOf(i))
        BY <1>12, PreparedIsKnown DEF Connect
      <4>2. UNCHANGED <<config, network, numberOfDevices, activeDevices>> /\ i' = i + 1
        BY <1>12, <2>2 DEF Connect
      <4>3. ASSUME numberOfDevices > activeDevices, NEW b \in 0 .. i
            PROVE  b < numberOfDevices => TearingDown \/ Known(TextOf(b))
        <5>1. CASE b = i
          BY <4>1, <5>1
        <5>2. CASE b \in 0 .. i - 1
          BY <1>12, <4>3, <5>2 DEF Connect
        <5>. QED  BY <4>3, <5>1, <5>2 DEF TypeOK
      <4>. QED  BY <2>2, <4>2, <4>3 DEF TypeOK
    <3>2. AheadInv' /\ ConnectedInv'
      BY <1>12, <2>2 DEF Connect, TypeOK
    <3>. QED  BY <1>12, <2>2, <3>1, <3>2 DEF Connect
  <2>3. CASE pc' = "configure"
    <3>1. /\ device'.entry = device.entry /\ device'.serial = device.serial
          /\ device'.hasPokey /\ device'.pokey = i /\ device' # NULL
          /\ connected' = connected \cup {i} /\ i' = i
      <4>1. [device EXCEPT !.hasPokey = TRUE, !.pokey = i] \in DeviceEntry
        BY <2>1 DEF DeviceEntry, TypeOK
      <4>2. device' = [device EXCEPT !.hasPokey = TRUE, !.pokey = i]
        BY <1>12, <2>3 DEF Connect
      <4>3. device' # NULL
        BY <4>1, <4>2, NullIsNoEntry
      <4>. QED  BY <1>12, <2>1, <2>3, <4>2, <4>3 DEF Connect, DeviceEntry
    <3>2. PreparedInv'
      BY <1>12, <2>3, <3>1 DEF Connect, TypeOK
    <3>3. ServedInv' /\ ConnectedInv'
      BY <1>12, <2>3, <3>1 DEF Connect, TypeOK
    <3>4. EntryInv' /\ SerialInv'
      BY <1>12, <2>3, <3>1 DEF Connect, TypeOK
    <3>5. OutcomeInv' /\ LoadingInv' /\ LoadedInv' /\ AheadInv' /\ NetworkInv'
      BY <1>12, <2>3, <3>1 DEF Connect, TypeOK
    <3>6. OutnumberedInv' /\ EndInv'
      BY <1>12, <2>3, <3>1 DEF Connect, TypeOK
    <3>. QED  BY <3>2, <3>3, <3>4, <3>5, <3>6
  <2>. QED  BY <1>12, <2>2, <2>3 DEF Connect
<1>13. ASSUME Configure PROVE TableSafe'
  <2>1. CASE ~InBounds(i)
    <3>1. BoundsHoldUpToMaxDevices'
      BY <1>13, <2>1 DEF Configure, Dump, StoredAt, InBounds, TypeOK
    <3>. QED  BY <1>13, <2>1, <3>1 DEF Configure, Dump, StoredAt
  <2>2. CASE InBounds(i) /\ devices' = [devices EXCEPT ![i] = device]
    <3>1. /\ i \in Slots /\ i < numberOfDevices /\ devices'[i] = device /\ device # NULL
          /\ \A k \in Slots \ {i} : devices'[k] = devices[k]
      BY <1>13, <2>2 DEF Configure, Dump, InBounds, TypeOK
    <3>2. \/ pc' = "startThread" /\ UNCHANGED outcome
          \/ pc' = "crashed" /\ outcome' = "uninitialised"
      <4>1. ASSUME NEW k \in 0 .. activeDevices - 1 PROVE k \in Slots /\ Readable(k)'
        <5>1. k \in Slots /\ devices[k] # NULL /\ k < MAX_DEVICES
          BY <4>1
        <5>2. devices'[k] # NULL
          BY <3>1, <5>1
        <5>. QED  BY <5>1, <5>2 DEF Readable, InBounds
      <4>. QED  BY <1>13, <2>2, <4>1 DEF Configure, Dump, StoredAt
    <3>3. OutcomeInv' /\ LoadingInv' /\ LoadedInv' /\ NetworkInv' /\ PreparedInv'
      <4>1. pc = "configure" /\ UNCHANGED <<config, activeDevices, i, device>>
        BY <1>13 DEF Configure
      <4>2. OutcomeInv' /\ LoadingInv' /\ NetworkInv' /\ PreparedInv'
        BY <3>2, <4>1
      <4>3. LoadedInv'
        BY <3>1, <3>2, <4>1
      <4>. QED  BY <4>2, <4>3
    <3>4. AheadInv'
      BY <1>13, <3>1, <3>2 DEF Configure, Dump, TypeOK
    <3>5. ServedInv' /\ ConnectedInv'
      BY <1>13, <3>1, <3>2 DEF Configure, Dump, TypeOK
    <3>6. EntryInv' /\ SerialInv'
      <4>1. pc = "configure" /\ UNCHANGED config /\ pc' \notin {"connect", "configure"}
        BY <1>13, <3>2 DEF Configure, Dump
      <4>2. \A k \in Slots : \/ k = i /\ devices'[k] = device
                             \/ k # i /\ devices'[k] = devices[k]
        BY <3>1
      <4>3. EntryInv'
        <5>1. ASSUME NEW k \in Slots, NEW l \in Slots, Filled(k)', Filled(l)',
                     devices'[k].entry = devices'[l].entry
              PROVE  devices'[k].serial = devices'[l].serial
          BY <4>1, <4>2, <5>1
        <5>2. ASSUME NEW k \in Slots, Filled(k)', devices'[k].entry = Garbage
              PROVE  devices'[k].serial = Garbage
          BY <4>1, <4>2, <5>2
        <5>. QED  BY <4>1, <5>1, <5>2
      <4>4. SerialInv'
        BY <4>1, <4>2
      <4>. QED  BY <4>3, <4>4
    <3>7. OutnumberedInv'
      <4>1. /\ pc = "configure" /\ pc' \in {"startThread", "crashed"}
            /\ UNCHANGED <<config, network, numberOfDevices, activeDevices, i>>
        BY <1>13, <3>2 DEF Configure
      <4>2. TearingDown \/ Known(TextOf(i))
        BY <4>1, PreparedIsKnown
      <4>3. ASSUME numberOfDevices > activeDevices, NEW b \in 0 .. i
            PROVE  b < numberOfDevices => TearingDown \/ Known(TextOf(b))
        <5>1. CASE b = i
          BY <4>2, <5>1
        <5>2. CASE b \in 0 .. i - 1
          BY <4>1, <4>3, <5>2
        <5>. QED  BY <4>3, <5>1, <5>2 DEF TypeOK
      <4>4. pc' = "startThread" => 0 .. Front' - 1 = 0 .. i
        BY <4>1 DEF TypeOK
      <4>5. \A b : Known(TextOf(b))' <=> Known(TextOf(b))
        BY <4>1
      <4>. QED  BY <4>1, <4>3, <4>4, <4>5
    <3>8. EndInv'
      <4>1. UNCHANGED <<config, numberOfDevices, activeDevices>>
        BY <1>13 DEF Configure
      <4>. QED  BY <3>2, <4>1
    <3>. QED  BY <3>3, <3>4, <3>5, <3>6, <3>7, <3>8
  <2>. QED  BY <1>13, <2>1, <2>2 DEF Configure, Dump, StoredAt
<1>14. ASSUME StartThread PROVE TableSafe'
  <2>1. /\ pc = "startThread" /\ pc' = "match" /\ i' = i + 1 /\ Front' = Front
        /\ UNCHANGED <<outcome, config, table, found, device, connected>>
    BY <1>14 DEF StartThread, TypeOK
  <2>2. OutcomeInv' /\ LoadingInv' /\ LoadedInv' /\ NetworkInv' /\ PreparedInv' /\ EndInv'
    BY <2>1
  <2>3. AheadInv'
    BY <2>1
  <2>4. ServedInv' /\ ConnectedInv' /\ EntryInv' /\ SerialInv'
    BY <2>1
  <2>5. OutnumberedInv'
    BY <2>1
  <2>. QED  BY <2>2, <2>3, <2>4, <2>5
<1>15. ASSUME EnterSimLoop PROVE TableSafe'
  BY <1>15 DEF EnterSimLoop, TypeOK
<1>16. ASSUME SimLoopEnds PROVE TableSafe'
  BY <1>16 DEF SimLoopEnds
<1>17. ASSUME LoopThreadCrashes PROVE TableSafe'
  BY <1>17 DEF LoopThreadCrashes
<1>18. ASSUME FreedMemoryCrash PROVE TableSafe'
  BY <1>18 DEF FreedMemoryCrash
<1>. QED
  BY <1>1, <1>2, <1>3, <1>4, <1>5, <1>6, <1>7, <1>8, <1>9, <1>10, <1>11, <1>12, <1>13,
     <1>14, <1>15, <1>16, <1>17, <1>18 DEF MainSteps

-----------------------------------------------------------------------------
(* The teardown. *)

\* The slots owed are behind the board in preparation, and those of a table that is being
\* loaded are not served.
LEMMA OwedIsBehind ==
    ASSUME TypeOK, Safe, Running
    PROVE  /\ pc \notin Matching \cup {"simLoop"} => owed = {}
           /\ pc \in {"connect", "configure"} => i \notin owed
BY DEF TypeOK, Safe, QuitSafe, OwedInv, FrontInv, Front

\* What the steps of main() and of the loop threads do to the table and the connections.
LEMMA MainMoves ==
    ASSUME TypeOK, Safe, MainSteps, UNCHANGED quitting, TypeOK', TableSafe'
    PROVE  /\ Running
           /\ freed' \subseteq freed
           /\ \/ connected' = connected
              \/ pc = "connect" /\ connected' = connected \cup {i}
           /\ \A k \in Slots :
                 \/ devices'[k] = devices[k]
                 \/ /\ devices'[k] # NULL
                    /\ devices'[k].hasPokey => pc = "configure" /\ pc' # "match" /\ k = i
                    /\ pc = "configure" => k = i
                    /\ pc \in Loading \cup {"configure"}
<1>. USE DEF Running, Halted, Crash, End, table, found, links
<1>1. CASE LoadEntry
  <2>1. CASE UNCHANGED devices
    BY <1>1, <2>1 DEF LoadEntry
  <2>2. CASE InBounds(i) /\ i' = i + 1 /\ pc' = pc /\ ~ UNCHANGED devices
    <3>1. i \in Slots
      BY <2>2, ConstantsAssumption DEF InBounds, Slots, TypeOK
    <3>2. PICK serial \in SerialRead(i) : devices' = [devices EXCEPT ![i] =
                [entry |-> i, serial |-> serial, hasPokey |-> FALSE, pokey |-> Garbage]]
      BY <1>1, <2>2 DEF LoadEntry
    <3>3. ~devices'[i].hasPokey /\ \A k \in Slots \ {i} : devices'[k] = devices[k]
      BY <3>1, <3>2 DEF TypeOK
    <3>4. devices'[i] # NULL
      BY <1>1, <2>2, <3>1 DEF LoadEntry, TableSafe, LoadingInv, Loading, Fresh, Filled, TypeOK
    <3>. QED  BY <1>1, <3>3, <3>4 DEF LoadEntry, Loading
  <2>. QED  BY <1>1, <2>1, <2>2 DEF LoadEntry
<1>2. CASE Configure
  <2>1. CASE InBounds(i)
    <3>1. devices' = [devices EXCEPT ![i] = device] /\ i \in Slots
      BY <1>2, <2>1, ConstantsAssumption DEF Configure, StoredAt, InBounds, Slots, TypeOK
    <3>2. devices'[i] = device /\ \A k \in Slots \ {i} : devices'[k] = devices[k]
      BY <3>1 DEF TypeOK
    <3>3. device # NULL
      BY <1>2 DEF Configure, Safe, TableSafe, PreparedInv
    <3>. QED  BY <1>2, <2>1, <3>2, <3>3 DEF Configure, Dump, StoredAt
  <2>2. CASE ~InBounds(i)
    BY <1>2, <2>2 DEF Configure, StoredAt
  <2>. QED  BY <2>1, <2>2
<1>3. CASE ~LoadEntry /\ ~Configure
  BY <1>3
     DEF MainSteps, StartLogging, NoDevicesSection, LoadDone, LoadSimulator, Enumerate, InitSim,
         StartCli, SearchHit, SearchMiss, SearchCrash, Connect, StartThread, EnterSimLoop,
         SimLoopEnds, LoopThreadCrashes, FreedMemoryCrash
<1>. QED  BY <1>1, <1>2, <1>3

LEMMA MainQuitSafe ==
    ASSUME TypeOK, Safe, MainSteps, UNCHANGED quitting, TypeOK', TableSafe',
           handler[Main].at = "out" \/ LoopThreadCrashes \/ FreedMemoryCrash
    PROVE  QuitSafe'
<1>0. Running /\ UNCHANGED <<handler, owed>>
  BY MainMoves DEF quitting
<1>1. /\ TearingDown' <=> TearingDown
      /\ OnlyMain' <=> OnlyMain
      /\ \A t \in Threads : \A b \in Nat : PassedBy(t, b)' <=> PassedBy(t, b)
  BY TearingDownUnchanged
<1>2. QuitClosesConnections'
  <2>1. outcome = "none" /\ outcome' # "quit"
    BY <1>0
       DEF MainSteps, StartLogging, NoDevicesSection, LoadEntry, LoadDone, LoadSimulator,
           Enumerate, InitSim, StartCli, SearchHit, SearchMiss, SearchCrash, Connect,
           Configure, Dump, StartThread, EnterSimLoop, SimLoopEnds, LoopThreadCrashes,
           FreedMemoryCrash, End, Crash, Safe, TableSafe, OutcomeInv
  <2>. QED  BY <2>1 DEF QuitClosesConnections
<1>3. FrontInv'
  <2>1. SUFFICES ASSUME Running', NEW k \in Slots, Served(k)'
                 PROVE  k < Front' /\ pc' \in Matching \cup {"simLoop"}
    BY DEF FrontInv
  <2>. USE DEF MainSteps, StartLogging, NoDevicesSection, LoadEntry, LoadDone, LoadSimulator,
               Enumerate, InitSim, StartCli, SearchHit, SearchMiss, SearchCrash, Connect,
               Configure, Dump, StartThread, EnterSimLoop, SimLoopEnds, LoopThreadCrashes,
               FreedMemoryCrash, Crash, End, Front, Matching, Running, Halted, TypeOK
  <2>2. CASE devices'[k] = devices[k]
    <3>1. k < Front /\ pc \in Matching \cup {"simLoop"} /\ k \in Nat
      BY <1>0, <2>1, <2>2, ConstantsAssumption
         DEF Safe, QuitSafe, FrontInv, Slots, Served, Filled
    <3>. QED  BY <2>1, <3>1
  <2>3. CASE pc = "configure" /\ k = i
    BY <2>1, <2>3
  <2>. QED  BY <2>1, <2>2, <2>3, MainMoves DEF Served
<1>4. HandlerInv'
  <2>1. \A k \in Slots : Filled(k) => Filled(k)'
    BY MainMoves DEF Filled
  <2>2. freed' \subseteq freed /\ freed \subseteq Slots
    BY MainMoves DEF TypeOK
  <2>. QED  BY <1>0, <1>1, <2>1, <2>2 DEF Safe, QuitSafe, HandlerInv
<1>5. OwedInv'
  <2>1. SUFFICES ASSUME NEW b \in owed PROVE b \in Slots /\ Served(b)'
    BY <1>0 DEF OwedInv
  <2>2. b \in Slots /\ Served(b)
    BY <1>0, <2>1 DEF Safe, QuitSafe, OwedInv
  <2>3. devices'[b] = devices[b]
    BY <1>0, <2>1, <2>2, OwedIsBehind, MainMoves DEF Loading, Matching
  <2>. QED  BY <2>2, <2>3 DEF Served, Filled
<1>6. ClosedInv'
  <2>1. SUFFICES ASSUME NEW b \in owed, b \in freed' \/ \E t \in Threads : PassedBy(t, b)'
                 PROVE  b \notin connected'
    BY <1>0 DEF ClosedInv
  <2>2. b \in freed \/ \E t \in Threads : PassedBy(t, b)
    BY <1>1, <2>1, MainMoves DEF TypeOK
  <2>3. b \notin connected
    BY <2>1, <2>2 DEF Safe, QuitSafe, ClosedInv
  <2>. QED  BY <1>0, <2>1, <2>3, OwedIsBehind, MainMoves
<1>7. MainInv'
  <2>1. OnlyMain => UNCHANGED <<connected, i>>
    BY DEF OnlyMain, TearsDown, TeardownSteps, LoopThreadCrashes, FreedMemoryCrash, links
  <2>. QED  BY <1>0, <1>1, <2>1 DEF Safe, QuitSafe, MainInv
<1>. QED  BY <1>2, <1>3, <1>4, <1>5, <1>6, <1>7 DEF QuitSafe

\* A teardown that has begun goes on to the end of the process.
LEMMA TeardownGoesOn ==
    ASSUME TypeOK, NEW t \in Threads, HandlerSteps(t)
    PROVE  TearingDown => TearingDown'
<1>1. \A u \in Threads : u # t => handler'[u] = handler[u]
  BY DEF HandlerSteps, Teardown, Interrupt, AnswerNo, AnswerYes, StopLoop, Disconnect, Free,
         Quit, GoTo, TypeOK
<1>2. TearsDown(t) => TearsDown(t)'
  BY DEF HandlerSteps, Teardown, Interrupt, AnswerNo, AnswerYes, StopLoop, Disconnect, Free,
         Quit, GoTo, TypeOK, TearsDown, TeardownSteps
<1>. QED  BY <1>1, <1>2 DEF TearingDown, TearsDown

LEMMA HandlerTableSafe ==
    ASSUME TypeOK, Safe, NEW t \in Threads, Running, HandlerSteps(t), TypeOK'
    PROVE  TableSafe'
<1>1. TearingDown => TearingDown'
  BY TeardownGoesOn
<1>2. connected' = connected \/ TearingDown
  BY DEF HandlerSteps, Teardown, Interrupt, AnswerNo, AnswerYes, StopLoop, Disconnect, Free,
         Quit, TearingDown, TearsDown, TeardownSteps
<1>3. UNCHANGED <<config, devices, activeDevices, simConfig, network, numberOfDevices, i,
                  device, threads>>
  BY DEF HandlerSteps, Teardown, Interrupt, AnswerNo, AnswerYes, StopLoop, Disconnect, Free,
         Quit, InHandler, found
<1>4. \/ UNCHANGED <<pc, outcome>>
      \/ pc' = "crashed" /\ outcome' = "uninitialised"
      \/ pc' = "crashed" /\ outcome' = "teardown" /\ numberOfDevices > activeDevices
      \/ pc' = "crashed" /\ outcome' = "bounds" /\ numberOfDevices > MAX_DEVICES
      \/ pc' = "exited" /\ outcome' = "quit"
  <2>1. CASE StopLoop(t)
    <3>. DEFINE k == handler[t].slot
    <3>1. k \in Nat /\ k < numberOfDevices
      BY <2>1 DEF StopLoop, TornDown, TypeOK
    <3>2. k < activeDevices => k \in Slots /\ devices[k] # NULL
      BY <3>1 DEF Safe, TableSafe, LoadedInv, Filled, TypeOK
    <3>. QED
      BY <2>1, <3>1, <3>2, ConstantsAssumption DEF StopLoop, InBounds, Crash, End, TypeOK
  <2>2. CASE ~StopLoop(t)
    BY <2>2 DEF HandlerSteps, Teardown, Interrupt, AnswerNo, AnswerYes, Disconnect, Free, Quit,
                End, Crash
  <2>. QED  BY <2>1, <2>2
<1>. USE DEF Filled, Fresh, Known, Served, TextOf, Front, Running, Halted, Loading,
             BetweenLoadAndMatch, Matching
<1>5. OutcomeInv' /\ LoadingInv' /\ LoadedInv' /\ AheadInv' /\ NetworkInv'
  BY <1>3, <1>4
     DEF Safe, TableSafe, OutcomeInv, LoadingInv, LoadedInv, AheadInv, NetworkInv
<1>6. PreparedInv' /\ ServedInv' /\ ConnectedInv'
  BY <1>1, <1>2, <1>3, <1>4 DEF Safe, TableSafe, PreparedInv, ServedInv, ConnectedInv
<1>7. EntryInv' /\ SerialInv' /\ OutnumberedInv'
  BY <1>1, <1>3, <1>4 DEF Safe, TableSafe, EntryInv, SerialInv, OutnumberedInv
<1>8. EndInv'
  BY <1>3, <1>4
     DEF Safe, TableSafe, EndInv, DumpReadsLoadedSlots, EmptySlotOnlyWhenOutnumbered,
         BoundsHoldUpToMaxDevices
<1>. QED  BY <1>5, <1>6, <1>7, <1>8 DEF TableSafe

LEMMA HandlerQuitSafe ==
    ASSUME TypeOK, Safe, NEW t \in Threads, Running, HandlerSteps(t), TypeOK', TableSafe'
    PROVE  QuitSafe'
<1>1. UNCHANGED <<devices, numberOfDevices, activeDevices, i>>
  BY DEF HandlerSteps, Teardown, Interrupt, AnswerNo, AnswerYes, StopLoop, Disconnect, Free,
         Quit, InHandler, found
<1>2. TearingDown => TearingDown'
  BY TeardownGoesOn
<1>3. \A u \in Threads : u # t => handler'[u] = handler[u]
  BY DEF HandlerSteps, Teardown, Interrupt, AnswerNo, AnswerYes, StopLoop, Disconnect, Free,
         Quit, GoTo, TypeOK
<1>4. FrontInv'
  <2>1. UNCHANGED pc \/ ~Running'
    BY DEF HandlerSteps, Teardown, Interrupt, AnswerNo, AnswerYes, StopLoop, Disconnect, Free,
           Quit, End, Crash, Running, Halted
  <2>. QED  BY <1>1, <2>1 DEF Safe, QuitSafe, FrontInv, Front, Served, Filled
<1>5. \A b \in owed : /\ b \in Slots /\ Served(b) /\ devices[b].pokey = b
                      /\ b < numberOfDevices
  BY DEF Safe, QuitSafe, OwedInv, TableSafe, ServedInv
<1>. USE DEF Safe, QuitSafe
<1>6. CASE Interrupt(t) \/ AnswerNo(t)
  <2>1. /\ UNCHANGED <<pc, outcome, freed, connected, owed>>
        /\ ~TearsDown(t) /\ ~TearsDown(t)'
        /\ handler'[t].at \in {"asking", "out"}
    BY <1>6 DEF Interrupt, AnswerNo, GoTo, TypeOK, TearsDown, TeardownSteps
  <2>2. \A u \in Threads : TearsDown(u)' <=> TearsDown(u)
    BY <1>3, <2>1 DEF TearsDown
  <2>3. HandlerInv' /\ OwedInv'
    BY <1>1, <1>2, <1>3, <2>1 DEF HandlerInv, OwedInv, Running, Served, Filled
  <2>4. ClosedInv'
    BY <1>3, <2>1, <2>2 DEF ClosedInv, PassedBy
  <2>5. MainInv'
    BY <1>1, <2>1, <2>2 DEF MainInv, OnlyMain, Threads
  <2>6. QuitClosesConnections'
    BY <2>1 DEF QuitClosesConnections, TableSafe, OutcomeInv
  <2>. QED  BY <1>4, <2>3, <2>4, <2>5, <2>6
<1>7. CASE AnswerYes(t)
  <2>1. /\ UNCHANGED <<pc, outcome, freed, connected>>
        /\ ~TearsDown(t) /\ TearsDown(t)'
        /\ handler'[t] = [at |-> "stop", slot |-> 0]
        /\ owed' = IF TearingDown THEN owed ELSE InTable
    BY <1>7 DEF AnswerYes, FirstTornDown, GoTo, TypeOK, TearsDown, TeardownSteps
  <2>2. TearingDown'
    BY <2>1 DEF TearingDown
  <2>3. HandlerInv'
    BY <1>1, <1>3, <2>1, <2>2 DEF HandlerInv, Filled
  <2>4. \A b \in InTable : b \in Slots /\ Served(b)
    BY DEF InTable, TableSafe, ServedInv, Served, Filled
  <2>5. OwedInv'
    BY <1>1, <1>5, <2>1, <2>4 DEF OwedInv, Served, Filled
  <2>6. ClosedInv'
    <3>1. SUFFICES ASSUME NEW b \in owed', b \in freed \/ \E u \in Threads : PassedBy(u, b)'
                   PROVE  b \notin connected
      BY <2>1 DEF ClosedInv
    <3>2. b \in Nat
      BY DEF TypeOK
    <3>3. ~PassedBy(t, b)'
      BY <2>1, <3>2 DEF PassedBy
    <3>4. \A u \in Threads : u # t => (PassedBy(u, b)' <=> PassedBy(u, b))
      BY <1>3 DEF PassedBy, TearsDown
    <3>5. b \in freed \/ \E u \in Threads : PassedBy(u, b)
      BY <3>1, <3>3, <3>4
    <3>6. TearingDown
      BY <3>5 DEF HandlerInv, PassedBy, TearingDown
    <3>. QED  BY <2>1, <3>1, <3>5, <3>6 DEF ClosedInv
  <2>7. MainInv'
    <3>1. SUFFICES ASSUME OnlyMain' PROVE connected \subseteq owed' \cup {i}
      BY <1>1, <2>1 DEF MainInv
    <3>2. t = Main /\ ~TearingDown
      BY <1>3, <2>1, <3>1 DEF OnlyMain, TearingDown, TearsDown, Threads
    <3>3. ASSUME NEW b \in connected, b # i PROVE b \in InTable
      <4>1. b \in Slots /\ Served(b)
        BY <3>2, <3>3 DEF TableSafe, ConnectedInv
      <4>2. devices[b].pokey = b
        BY <4>1 DEF TableSafe, ServedInv
      <4>. QED  BY <4>1, <4>2 DEF InTable, Served, Filled
    <3>. QED  BY <2>1, <3>2, <3>3
  <2>8. QuitClosesConnections'
    BY <2>1 DEF QuitClosesConnections, TableSafe, OutcomeInv
  <2>. QED  BY <1>4, <2>3, <2>5, <2>6, <2>7, <2>8
<1>8. CASE Teardown(t)
  <2>1. owed' = owed /\ TearsDown(t) /\ TearsDown(t)' /\ handler[t].slot \in Nat
    BY <1>8 DEF Teardown, StopLoop, Disconnect, Free, Quit, GoTo, TypeOK, TearsDown,
                TeardownSteps
  <2>2. TearingDown /\ TearingDown'
    BY <2>1 DEF TearingDown
  <2>3. connected' \subseteq connected
    BY <1>8 DEF Teardown, StopLoop, Disconnect, Free, Quit
  <2>4. HandlerInv'
    <3>1. ASSUME handler'[t].at \in {"disconnect", "free"}
          PROVE  handler'[t].slot \in Slots /\ Filled(handler'[t].slot)
      BY <1>8, <3>1, ConstantsAssumption
         DEF Teardown, StopLoop, Disconnect, Free, Quit, GoTo, TypeOK, HandlerInv, Filled,
             Readable, InBounds, Slots
    <3>2. ASSUME NEW k \in freed' PROVE Filled(k)
      BY <1>8, <3>2 DEF Teardown, StopLoop, Disconnect, Free, Quit, HandlerInv
    <3>. QED  BY <1>1, <1>3, <2>2, <3>1, <3>2 DEF HandlerInv, Filled
  <2>5. OwedInv'
    BY <1>1, <1>5, <2>1 DEF OwedInv, Served, Filled
  <2>6. ClosedInv'
    <3>1. SUFFICES ASSUME NEW b \in owed, b \in freed' \/ \E u \in Threads : PassedBy(u, b)',
                          b \notin freed, ~\E u \in Threads : PassedBy(u, b)
                   PROVE  b \notin connected'
      BY <2>1, <2>3 DEF ClosedInv
    <3>2. \A u \in Threads : u # t => (PassedBy(u, b)' <=> PassedBy(u, b))
      BY <1>3 DEF PassedBy, TearsDown
    <3>3. b \in Nat /\ devices[b].pokey = b
      BY <1>5 DEF TypeOK
    \* Only the disconnection takes a board past.
    <3>4. CASE Disconnect(t)
      <4>1. b \notin freed'
        BY <3>1, <3>4 DEF Disconnect
      <4>2. PassedBy(t, b)' /\ ~PassedBy(t, b)
        BY <3>1, <3>2, <4>1
      <4>3. b = handler[t].slot
        BY <2>1, <3>3, <3>4, <4>2 DEF Disconnect, PassedBy, GoTo, TypeOK
      <4>4. connected' = connected \ {b}
        <5>1. Served(b)
          BY <1>5
        <5>2. UNCHANGED handler => ~PassedBy(t, b)'
          BY <4>2 DEF PassedBy, TearsDown
        <5>. QED  BY <3>1, <3>3, <3>4, <4>2, <4>3, <5>1, <5>2 DEF Disconnect, Served
      <4>. QED  BY <4>4
    <3>5. CASE ~Disconnect(t)
      <4>1. PassedBy(t, b)' => PassedBy(t, b)
        BY <1>8, <2>1, <3>3, <3>5
           DEF Teardown, StopLoop, Free, Quit, PassedBy, GoTo, TypeOK
      <4>2. b \in freed' => PassedBy(t, b)
        BY <1>8, <2>1, <3>1, <3>5 DEF Teardown, StopLoop, Free, Quit, PassedBy
      <4>. QED  BY <3>1, <3>2, <4>1, <4>2
    <3>. QED  BY <3>4, <3>5
  <2>7. MainInv'
    <3>1. OnlyMain' => OnlyMain
      BY <1>3, <2>1 DEF OnlyMain, TearsDown, Threads
    <3>. QED  BY <1>1, <2>1, <2>3, <3>1 DEF MainInv
  <2>8. QuitClosesConnections'
    <3>1. CASE Quit(t)
      <4>1. numberOfDevices <= handler[t].slot
        BY <2>1, <3>1 DEF Quit, TornDown, TypeOK
      <4>2. \A b \in owed : PassedBy(t, b)
        BY <1>5, <2>1, <4>1, ConstantsAssumption DEF PassedBy, TypeOK
      <4>3. connected \cap owed = {}
        BY <4>2 DEF ClosedInv
      <4>4. UNCHANGED <<connected, handler>>
        BY <3>1 DEF Quit
      <4>5. ASSUME \A u \in Others : ~TearsDown(u) PROVE connected \subseteq {i}
        <5>1. OnlyMain
          BY <2>1, <4>5 DEF OnlyMain, Threads
        <5>. QED  BY <4>3, <5>1 DEF MainInv
      <4>6. (\A u \in Others : ~TearsDown(u)') => \A u \in Others : ~TearsDown(u)
        BY <4>4 DEF TearsDown
      <4>. QED  BY <1>1, <2>1, <4>3, <4>4, <4>5, <4>6 DEF QuitClosesConnections
    <3>2. CASE ~Quit(t)
      <4>1. outcome # "quit" /\ outcome' # "quit"
        BY <1>8, <3>2 DEF Teardown, StopLoop, Disconnect, Free, End, Crash, TableSafe, OutcomeInv
      <4>. QED  BY <4>1 DEF QuitClosesConnections
    <3>. QED  BY <3>1, <3>2
  <2>. QED  BY <1>4, <2>4, <2>5, <2>6, <2>7, <2>8
<1>. QED  BY <1>6, <1>7, <1>8 DEF HandlerSteps

LEMMA NextSafe ==
    ASSUME TypeOK, Safe, [Next]_vars, TypeOK'
    PROVE  Safe'
<1>1. CASE UNCHANGED vars
  <2>1. UNCHANGED <<pc, outcome, config, devices, freed, activeDevices, simConfig, network,
                    numberOfDevices, i, device, connected, threads, handler, owed>>
    BY <1>1 DEF vars, table, found, links, quitting
  <2>2. TableSafe'
    BY <2>1
       DEF Safe, TableSafe, OutcomeInv, LoadingInv, LoadedInv, AheadInv, NetworkInv,
           PreparedInv, ServedInv, ConnectedInv, EntryInv, SerialInv, OutnumberedInv, EndInv,
           DumpReadsLoadedSlots, EmptySlotOnlyWhenOutnumbered, BoundsHoldUpToMaxDevices,
           Running, Filled, Fresh, Known, Served, TextOf, Front, TearingDown, TearsDown
  <2>3. QuitSafe'
    BY <2>1
       DEF Safe, QuitSafe, FrontInv, HandlerInv, OwedInv, ClosedInv, MainInv, OnlyMain,
           PassedBy, QuitClosesConnections, Running, Filled, Served, Front, TearingDown,
           TearsDown
  <2>. QED  BY <2>2, <2>3 DEF Safe
<1>2. CASE MainSteps /\ UNCHANGED quitting
           /\ (handler[Main].at = "out" \/ LoopThreadCrashes \/ FreedMemoryCrash)
  BY <1>2, MainTableSafe, MainQuitSafe DEF Safe
<1>3. ASSUME NEW t \in Threads, Running, HandlerSteps(t) PROVE Safe'
  BY <1>3, HandlerTableSafe, HandlerQuitSafe DEF Safe
<1>. QED  BY <1>1, <1>2, <1>3, NextSplits

-----------------------------------------------------------------------------
(* Theorems. *)

IInv == TypeOK /\ Safe

LEMMA IInvInvariant == Spec => []IInv
<1>1. Init => IInv
  BY InitType, InitSafe DEF IInv
<1>2. IInv /\ [Next]_vars => IInv'
  BY NextType, NextSafe DEF IInv
<1>. QED  BY <1>1, <1>2, PTL DEF Spec

\* Every variable keeps its type; in particular no step of main() makes a device_t out of
\* a null slot or of a board that was not found.
THEOREM TypeCorrect == Spec => []TypeOK
BY IInvInvariant, PTL DEF IInv

\* A slot with a connected device belongs to the board of the slot's number, in the table
\* that is filled by entry and overwritten by board (main.c:97-130).
THEOREM SlotsBelongToBoards == Spec => []ServedSlotIsItsBoard
<1>1. IInv => ServedSlotIsItsBoard
  BY ConstantsAssumption
     DEF IInv, Safe, TableSafe, ServedInv, Served, Filled, TextOf, ServedSlotIsItsBoard
<1>. QED  BY <1>1, IInvInvariant, PTL

\* dumpDevices() never follows a null slot, whatever copies main() has stored before
\* (pokey.c:95-103).
THEOREM DumpIsSafe == Spec => []DumpReadsLoadedSlots
<1>1. IInv => DumpReadsLoadedSlots
  BY DEF IInv, Safe, TableSafe, EndInv
<1>. QED  BY <1>1, IInvInvariant, PTL

\* The search and the teardown meet a null slot only with more boards than entries
\* (pokey.c:107-116, main.c:34-36).
THEOREM NullSlotMeansOutnumbered == Spec => []EmptySlotOnlyWhenOutnumbered
<1>1. IInv => EmptySlotOnlyWhenOutnumbered
  BY DEF IInv, Safe, TableSafe, EndInv
<1>. QED  BY <1>1, IInvInvariant, PTL

\* The unchecked indices into devices[] stay inside for up to MAX_DEVICES entries and
\* boards, the full table included (config.c:76, main.c:119, main.c:36, pokey.c:110).
THEOREM TableIsLargeEnough == Spec => []BoundsHoldUpToMaxDevices
<1>1. IInv => BoundsHoldUpToMaxDevices
  BY DEF IInv, Safe, TableSafe, EndInv
<1>. QED  BY <1>1, IInvInvariant, PTL

\* The three together: indices that two different counts bound, the teardown's among them,
\* stay inside the part of devices[] that is there and filled, but for the cases they name.
THEOREM IndexesAreSound == Spec => []IndexesStayInside
<1>1. IInv => IndexesStayInside
  BY DEF IInv, Safe, TableSafe, EndInv, IndexesStayInside
<1>. QED  BY <1>1, IInvInvariant, PTL

\* Every board in the table when a teardown begins is closed when the process ends by it,
\* whichever threads run teardowns and whatever main() stores meanwhile; and if only
\* main()'s thread does, no connection is open but the one of the board in preparation
\* (main.c:34-41).
THEOREM QuitClosesTheTable == Spec => []QuitClosesConnections
<1>1. IInv => QuitClosesConnections
  BY DEF IInv, Safe, QuitSafe
<1>. QED  BY <1>1, IInvInvariant, PTL

\* Two connected devices with the pins of one entry are one device: the search goes by the
\* text of the serial number, and different boards have different texts (main.c:106).
THEOREM PinsAreNotShared == Spec => []ConnectedDevicesShareNoPins
<1>1. ASSUME IInv PROVE ConnectedDevicesShareNoPins
  <2>1. SUFFICES ASSUME DistinctBoards, NEW k \in Slots, NEW l \in Slots,
                        Served(k), Served(l), devices[k].entry = devices[l].entry,
                        devices[k].entry # Garbage
                 PROVE  k = l
    BY DEF ConnectedDevicesShareNoPins, Served, Filled
  <2>2. devices[k].serial = devices[l].serial
    BY <1>1, <2>1 DEF IInv, Safe, TableSafe, EntryInv, Served
  <2>3. /\ k < numberOfDevices /\ devices[k].serial = SerialText(network[k + 1])
        /\ l < numberOfDevices /\ devices[l].serial = SerialText(network[l + 1])
    BY <1>1, <2>1 DEF IInv, Safe, TableSafe, ServedInv, TextOf
  <2>4. k + 1 \in DOMAIN network /\ l + 1 \in DOMAIN network
    BY <1>1, <2>3, ConstantsAssumption DEF IInv, TypeOK, Slots
  <2>5. network[k + 1] \in UInt /\ network[l + 1] \in UInt
    BY <1>1, <2>4 DEF IInv, TypeOK
  <2>6. network[k + 1] = network[l + 1]
    BY <2>2, <2>3, <2>5, SerialTextInjective
  <2>. QED  BY <2>1, <2>4, <2>6, ConstantsAssumption DEF DistinctBoards, Slots
<1>. QED  BY <1>1, IInvInvariant, PTL

\* With more boards than entries start-up never gets to the simulator loop: every board
\* passed before the first empty slot was found, so has an entry of its own, and there are
\* not enough of them.  A teardown that frees the entries it is found by ends the argument.
THEOREM OutnumberedNeverRuns == Spec => []RunsOnlyWithinConfiguration
<1>1. ASSUME IInv PROVE RunsOnlyWithinConfiguration
  <2>1. SUFFICES ASSUME pc = "simLoop", DistinctBoards, ~TearingDown,
                        numberOfDevices > activeDevices
                 PROVE  FALSE
    BY <1>1 DEF RunsOnlyWithinConfiguration, IInv, TypeOK
  <2>. DEFINE Boards == 1 .. numberOfDevices
              Entries == 1 .. activeDevices
              f == [b \in Boards |->
                       CHOOSE e \in Entries : config.devices[e] = SerialText(network[b])]
  <2>2. /\ numberOfDevices \in Nat /\ activeDevices \in Nat
        /\ numberOfDevices = Len(network) /\ network \in Seq(UInt)
        /\ activeDevices = Len(config.devices)
    BY <1>1, <2>1 DEF IInv, TypeOK, Safe, TableSafe, LoadedInv
  <2>3. ASSUME NEW b \in Boards
        PROVE  \E e \in Entries : config.devices[e] = SerialText(network[b])
    <3>1. b - 1 \in 0 .. Front - 1 /\ b - 1 < numberOfDevices /\ (b - 1) + 1 = b
      BY <1>1, <2>1, <2>2 DEF IInv, TypeOK, Safe, TableSafe, OutnumberedInv, Front
    <3>2. Known(TextOf(b - 1))
      BY <1>1, <2>1, <3>1 DEF IInv, Safe, TableSafe, OutnumberedInv
    <3>. QED  BY <2>2, <3>1, <3>2 DEF Known, TextOf
  <2>4. \A b \in Boards : f[b] \in Entries /\ config.devices[f[b]] = SerialText(network[b])
    BY <2>3
  <2>5. /\ IsFiniteSet(Boards) /\ Cardinality(Boards) = numberOfDevices
        /\ IsFiniteSet(Entries) /\ Cardinality(Entries) = activeDevices
    <3>1. ASSUME NEW n \in Nat PROVE IsFiniteSet(1 .. n) /\ Cardinality(1 .. n) = n
      BY FS_Interval
    <3>. QED  BY <2>2, <3>1
  <2>6. PICK a, b \in Boards : a # b /\ f[a] = f[b]
    <3>1. f \in [Boards -> Entries]
      BY <2>4
    <3>2. Cardinality(Entries) < Cardinality(Boards)
      BY <2>1, <2>2, <2>5
    <3>. HIDE DEF Boards, Entries, f
    <3>. QED  BY <2>5, <3>1, <3>2, FS_PigeonHole
  <2>7. network[a] \in UInt /\ network[b] \in UInt /\ a \in DOMAIN network /\ b \in DOMAIN network
    BY <2>2
  <2>8. SerialText(network[a]) = SerialText(network[b])
    BY <2>4, <2>6
  <2>9. network[a] = network[b]
    BY <2>7, <2>8, SerialTextInjective
  <2>. QED  BY <2>1, <2>6, <2>7, <2>9 DEF DistinctBoards
<1>. QED  BY <1>1, IInvInvariant, PTL

\* main() passes no board over whose entry is in the search range and not behind the
\* board's own position, before a teardown: those slots still are as
\* loadConfiguredDevices() left them.
THEOREM SearchFindsEntriesAhead == Spec => EntriesAheadAreFound
<1>. DEFINE Reachable == {e \in 0 .. Len(config.devices) - 1 : i <= e /\ e < numberOfDevices}
<1>1. ASSUME IInv, [Next]_vars PROVE ~PassesOver(Reachable)
  <2>1. SUFFICES ASSUME PassesOver(Reachable) PROVE FALSE
    OBVIOUS
  <2>2. i \in Nat /\ i' = i + 1 /\ pc = "match" /\ pc' = "match" /\ i < numberOfDevices
    BY <1>1, <2>1 DEF PassesOver, IInv, TypeOK
  <2>3. SearchMiss
    <3>1. CASE UNCHANGED vars
      BY <2>2, <3>1 DEF vars
    <3>2. ASSUME NEW t \in Threads, HandlerSteps(t) PROVE FALSE
      BY <2>2, <3>2 DEF HandlerSteps, Teardown, Interrupt, AnswerNo, AnswerYes, StopLoop,
                        Disconnect, Free, Quit, InHandler
    <3>3. CASE MainSteps
      BY <2>2, <3>3
         DEF MainSteps, StartLogging, NoDevicesSection, LoadEntry, LoadDone, LoadSimulator,
             Enumerate, InitSim, StartCli, SearchHit, SearchCrash, Connect, Configure,
             StartThread, EnterSimLoop, SimLoopEnds, LoopThreadCrashes, FreedMemoryCrash, End,
             Crash
    <3>. QED  BY <1>1, <3>1, <3>2, <3>3, NextSplits
  <2>4. PICK e \in Reachable : config.devices[e + 1] = SerialText(network[i + 1])
    BY <2>1 DEF PassesOver
  <2>5. config.devices # Missing /\ activeDevices = Len(config.devices)
        /\ numberOfDevices = Len(network) /\ network \in Seq(UInt)
    BY <1>1, <2>2 DEF IInv, Safe, TableSafe, LoadedInv, Matching, TypeOK
  <2>6. e \in Nat /\ e >= i /\ e < activeDevices /\ e < numberOfDevices
    BY <1>1, <2>2, <2>4, <2>5, ConfigTypes DEF IInv, TypeOK
  <2>7. e \in SearchRange /\ (Readable(e) => e \in Slots)
    BY <1>1, <2>6, ConstantsAssumption
       DEF SearchRange, Readable, InBounds, Slots, IInv, TypeOK
  <2>8. SerialText(network[i + 1]) # Missing
    <3>1. network[i + 1] \in UInt
      BY <2>2, <2>5
    <3>. QED  BY <3>1, SerialTextType, ConstantsAssumption
  <2>9. ASSUME Readable(e) PROVE SerialMatches(e)
    <3>1. Fresh(e)
      BY <1>1, <2>2, <2>6, <2>7, <2>9 DEF IInv, Safe, TableSafe, AheadInv, Matching, Front
    <3>. QED  BY <2>4, <2>8, <3>1 DEF Fresh, SerialMatches
  <2>10. e \notin freed
    BY <1>1, <2>1 DEF PassesOver, IInv, Safe, QuitSafe, HandlerInv
  <2>. QED  BY <2>3, <2>7, <2>9, <2>10 DEF SearchMiss, PassesBy
<1>2. IInv /\ [Next]_vars => [~PassesOver(Reachable)]_vars
  BY <1>1
<1>. QED  BY <1>2, IInvInvariant, PTL DEF Spec, EntriesAheadAreFound

=============================================================================
