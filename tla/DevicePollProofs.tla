-------------------------- MODULE DevicePollProofs --------------------------
(***************************************************************************)
(* Proofs, for any board and any list of ports, of the safety properties   *)
(* of DevicePoll and of its refinement of InputTracker.                    *)
(*                                                                         *)
(* The refinement takes the read of the board for the instant at which the *)
(* levels are taken over.  The invariant says that the callback then only  *)
(* catches up: the ports it has gone through have what the read found.     *)
(***************************************************************************)
EXTENDS DevicePoll, SequenceTheorems, TLAPS

CaughtUp ==
    /\ pc \notin {"recording", "crashed"} => i = 0
    /\ pc = "recording" /\ ~Disconnected =>
        \A k \in InputPorts : k <= i => value[k] = mirror[Ports[k].pin]

\* A loop made in time has its stop_flag from uv_stop() to its end.
StopInv ==
    /\ handlerThread = "none" <=> handler = "away"
    /\ met => handlerThread = "other"
    /\ pc = "starting" => passedInTime
    /\ madeInTime => passedInTime
    /\ madeInTime /\ ~BeforeStop /\ pc \notin {"starting", "ended", "crashed"} => stop_flag

IInv == TypeOK /\ CaughtUp /\ StopInv

LEMMA PortsAreTyped ==
  /\ Len(Ports) \in Nat
  /\ \A k \in Indices : Ports[k].pin \in Int /\ Ports[k].input \in BOOLEAN
<1>1. Ports \in Seq([pin : Int, input : BOOLEAN])
  BY PortsAssumption
<1>2. Len(Ports) \in Nat /\ Ports \in [1 .. Len(Ports) -> [pin : Int, input : BOOLEAN]]
  BY <1>1, LenProperties
<1>. QED  BY <1>2 DEF Indices

LEMMA PortOfPin ==
  ASSUME NEW k \in Indices
  PROVE  PortOf(Ports[k].pin) = k
<1>1. \A l \in Indices : Ports[l].pin = Ports[k].pin => l = k
  BY PortsAssumption DEF Indices
<1>2. PortOf(Ports[k].pin) \in Indices /\ Ports[PortOf(Ports[k].pin)].pin = Ports[k].pin
  BY DEF PortOf
<1>. QED  BY <1>1, <1>2

LEMMA LevelsAreBytes == Levels \subseteq Bytes /\ 0 \in Levels
BY PortsAssumption DEF Levels

-----------------------------------------------------------------------------
(* The invariant. *)

LEMMA InitIInv == Init => IInv
<1>. SUFFICES ASSUME Init  PROVE IInv
  OBVIOUS
<1>1. TypeOK
  <2>1. i \in 0 .. Len(Ports)
    BY PortsAreTyped DEF Init
  <2>2. value \in [Indices -> Bytes] /\ previousValue \in [Indices -> Bytes]
    BY LevelsAreBytes DEF Init
  <2>3. /\ stop_flag \in BOOLEAN /\ met \in BOOLEAN
        /\ madeInTime \in BOOLEAN /\ passedInTime \in BOOLEAN
    BY Zenon DEF Init
  <2>. QED  BY <2>1, <2>2, <2>3 DEF Init, TypeOK
<1>2. CaughtUp /\ StopInv
  BY DEF Init, CaughtUp, StopInv, BeforeStop
<1>. QED  BY <1>1, <1>2 DEF IInv

\* What one pass over a port finds, and what it leaves.
LEMMA RecordedPort ==
  ASSUME IInv, Record
  PROVE  /\ i \in Nat /\ i' = i + 1 /\ i' \in Indices /\ i' \in 0 .. Len(Ports)
         /\ value' \in [Indices -> Bytes] /\ previousValue' \in [Indices -> Bytes]
         /\ \A k \in Indices : k # i' => value'[k] = value[k]
         /\ i' \in InputPorts /\ ~Disconnected => value'[i'] = mirror[Ports[i'].pin]
<1>1. i \in Nat /\ i' = i + 1 /\ i' \in Indices /\ i' \in 0 .. Len(Ports)
  BY PortsAreTyped DEF IInv, TypeOK, Record, Indices
<1>2. Latest(i') \subseteq Bytes
  BY LevelsAreBytes DEF IInv, TypeOK, Latest, OnBoard
<1>3. i' \in InputPorts /\ ~Disconnected =>
          Ports[i'].input /\ Latest(i') = {mirror[Ports[i'].pin]}
  BY DEF InputPorts, Latest
<1>4. CASE UNCHANGED ports
  <2>2. value' = value /\ previousValue' = previousValue
    BY <1>4 DEF ports
  <2>1. Ports[i'].input => value[i'] \in Latest(i')
    BY <1>1, <2>2 DEF Record, IInv, TypeOK
  <2>. QED  BY <1>1, <1>3, <2>1, <2>2 DEF IInv, TypeOK
<1>5. ASSUME NEW stored \in Latest(i'),
             previousValue' = [previousValue EXCEPT ![i'] = value[i']],
             value' = [value EXCEPT ![i'] = stored]
      PROVE  /\ value' \in [Indices -> Bytes] /\ previousValue' \in [Indices -> Bytes]
             /\ \A k \in Indices : k # i' => value'[k] = value[k]
             /\ i' \in InputPorts /\ ~Disconnected => value'[i'] = mirror[Ports[i'].pin]
  BY <1>1, <1>2, <1>3, <1>5 DEF IInv, TypeOK
<1>6. \/ UNCHANGED ports
      \/ \E stored \in Latest(i') :
            /\ previousValue' = [previousValue EXCEPT ![i'] = value[i']]
            /\ value' = [value EXCEPT ![i'] = stored]
  BY DEF Record
<1>. QED  BY <1>1, <1>4, <1>5, <1>6

LEMMA NextTypeOK == IInv /\ [Next]_vars => TypeOK'
<1>. SUFFICES ASSUME IInv, [Next]_vars  PROVE TypeOK'
  OBVIOUS
<1>. USE DEF IInv, TypeOK
<1>1. CASE Change \/ Quit \/ Finish
  BY <1>1 DEF Change, Quit, Finish, Then, ports, teardown, times
<1>2. CASE StartLoop
  <2>1. BeforeStop \in BOOLEAN
    BY DEF BeforeStop
  <2>. QED  BY <1>2, <2>1 DEF StartLoop, At, ports, teardown
<1>7. CASE Iterate
  <2>1. BeforeStop \in BOOLEAN
    BY DEF BeforeStop
  <2>. QED  BY <1>7, <2>1 DEF Iterate, At, ports, teardown
<1>8. CASE NotDue \/ LoopEnds
  BY <1>8 DEF NotDue, LoopEnds, At, ports, teardown, times
<1>9. CASE StopLoop
  BY <1>9 DEF StopLoop, Then, ports, times
<1>3. CASE Ask \/ Read \/ ReadFails
  BY <1>3 DEF Ask, Read, ReadFails, At, Disconnected, ports, teardown, times
<1>4. CASE Record
  <2>1. /\ i' \in 0 .. Len(Ports)
        /\ value' \in [Indices -> Bytes] /\ previousValue' \in [Indices -> Bytes]
    BY <1>4, RecordedPort
  <2>2. met' \in BOOLEAN
    BY <1>4 DEF Record, Disconnected
  <2>. QED  BY <1>4, <2>1, <2>2 DEF Record, teardown, times
<1>5. CASE Done
  BY <1>5, PortsAreTyped DEF Done, At, ports, teardown, times
<1>10. CASE CallbackCrashes
  <2>1. met' \in BOOLEAN /\ pc' = "crashed"
    BY <1>10, Zenon DEF CallbackCrashes
  <2>. QED  BY <1>10, <2>1 DEF CallbackCrashes, ports, teardown, times
<1>6. CASE UNCHANGED vars
  BY <1>6 DEF vars, ports, teardown, times
<1>. QED  BY <1>1, <1>2, <1>3, <1>4, <1>5, <1>6, <1>7, <1>8, <1>9, <1>10 DEF Next, Loop, Handle

LEMMA NextCaughtUp == IInv /\ [Next]_vars => CaughtUp'
<1>. SUFFICES ASSUME IInv, [Next]_vars  PROVE CaughtUp'
  OBVIOUS
<1>. USE DEF IInv, CaughtUp
<1>1. CASE Change \/ Quit \/ Handle
  <2>1. /\ UNCHANGED <<mirror, i, ports>>
        /\ pc' = pc \/ (pc = "starting" /\ pc' = "crashed")
        /\ Disconnected => Disconnected'
    BY <1>1 DEF Change, Quit, Handle, StopLoop, Finish, Then, Disconnected, teardown
  <2>. QED  BY <2>1 DEF ports
<1>2. CASE StartLoop \/ Iterate \/ NotDue \/ LoopEnds \/ Ask \/ ReadFails
  BY <1>2 DEF StartLoop, Iterate, NotDue, LoopEnds, Ask, ReadFails, At
<1>3. CASE Read
  BY <1>3, PortsAreTyped DEF Read, At, InputPorts, Indices
<1>4. CASE Record
  <2>1. UNCHANGED <<pc, mirror, teardown>> /\ pc = "recording"
    BY <1>4 DEF Record, At
  <2>2. ASSUME ~Disconnected, NEW k \in InputPorts, k <= i'
        PROVE  value'[k] = mirror[Ports[k].pin]
    <3>1. k \in Indices /\ k \in Int /\ i \in Int /\ i' = i + 1
      BY <1>4, RecordedPort DEF InputPorts, Indices
    <3>2. CASE k = i'
      BY <1>4, <2>2, <3>2, RecordedPort
    <3>3. CASE k # i'
      BY <1>4, <2>1, <2>2, <3>1, <3>3, RecordedPort
    <3>. QED  BY <3>2, <3>3
  <2>. QED  BY <2>1, <2>2 DEF Disconnected, teardown
<1>5. CASE Done \/ CallbackCrashes
  BY <1>5 DEF Done, CallbackCrashes, At
<1>6. CASE UNCHANGED vars
  BY <1>6 DEF vars, ports, teardown, Disconnected
<1>. QED  BY <1>1, <1>2, <1>3, <1>4, <1>5, <1>6 DEF Next, Loop

LEMMA NextStopInv == IInv /\ [Next]_vars => StopInv'
<1>. SUFFICES ASSUME IInv, [Next]_vars  PROVE StopInv'
  OBVIOUS
<1>. USE DEF IInv, TypeOK, StopInv, BeforeStop, Disconnected
<1>1. CASE Change
  BY <1>1 DEF Change, teardown, times
<1>2. CASE Quit
  BY <1>2 DEF Quit, times
<1>3. CASE StopLoop
  BY <1>3 DEF StopLoop, Then, times
<1>4. CASE Finish
  BY <1>4 DEF Finish, Then, times
<1>5. CASE StartLoop
  BY <1>5 DEF StartLoop, At, teardown
<1>6. CASE Iterate
  BY <1>6 DEF Iterate, At, teardown
<1>7. CASE NotDue \/ LoopEnds \/ Done
  BY <1>7 DEF NotDue, LoopEnds, Done, At, teardown, times
<1>8. CASE Ask \/ Read \/ ReadFails \/ Record \/ CallbackCrashes
  <2>1. /\ met' => met \/ Disconnected
        /\ handlerThread # "loop"
        /\ pc \notin {"starting", "ended", "crashed"} /\ pc' # "starting"
        /\ UNCHANGED <<stop_flag, teardown, times>>
    BY <1>8 DEF Ask, Read, ReadFails, Record, CallbackCrashes, At
  <2>. QED  BY <2>1 DEF teardown, times
<1>9. CASE UNCHANGED vars
  BY <1>9 DEF vars, teardown, times
<1>. QED  BY <1>1, <1>2, <1>3, <1>4, <1>5, <1>6, <1>7, <1>8, <1>9 DEF Next, Loop, Handle

LEMMA IInvInvariant == Spec => []IInv
<1>1. IInv /\ [Next]_vars => IInv'
  BY NextTypeOK, NextCaughtUp, NextStopInv DEF IInv
<1>. QED  BY <1>1, InitIInv, PTL DEF Spec

\* Every variable keeps its type.
THEOREM TypeCorrect == Spec => []TypeOK
BY IInvInvariant, PTL DEF IInv

\* At most the iteration that was past the look at stop_flag meets what the handler freed,
\* and only if the signal came to another thread, unless the stop came before the loop was
\* made (main.c:36-38).
THEOREM TeardownIsMetOnce == Spec => []OnlyLastCallbackMeetsTeardown
<1>1. IInv => OnlyLastCallbackMeetsTeardown
  BY DEF IInv, StopInv, OnlyLastCallbackMeetsTeardown
<1>. QED  BY <1>1, IInvInvariant, PTL

-----------------------------------------------------------------------------
(* The refinement. *)

Seen == [p \in Watched |-> IF pc = "recording" THEN mirror[p] ELSE value[PortOf(p)]]

LEMMA WatchedPort ==
  ASSUME NEW p \in Watched
  PROVE  /\ PortOf(p) \in InputPorts /\ PortOf(p) \in Indices
         /\ Ports[PortOf(p)].pin = p /\ p \in Pins
<1>1. PICK k \in InputPorts : p = Ports[k].pin
  BY DEF Watched
<1>2. PortOf(p) = k /\ k \in Indices /\ p \in Pins
  BY <1>1, PortOfPin DEF InputPorts, OnBoard
<1>. QED  BY <1>1, <1>2

LEMMA SeenType == TypeOK => Seen \in [Watched -> Bytes]
BY WatchedPort, LevelsAreBytes DEF TypeOK, Seen

\* While the board is connected, going through the ports, and ending, shows nothing new.
LEMMA CatchingUpIsSilent ==
  ASSUME IInv, ~Disconnected, Record \/ Done
  PROVE  Seen' = Seen
<1>1. CASE Record
  BY <1>1 DEF Record, At, Seen
<1>2. CASE Done
  <2>1. ASSUME NEW p \in Watched  PROVE mirror[p] = value[PortOf(p)]
    <3>1. PortOf(p) \in InputPorts /\ Ports[PortOf(p)].pin = p
      BY WatchedPort
    <3>2. pc = "recording" /\ PortOf(p) <= i
      BY <1>2, <3>1, PortsAreTyped DEF Done, At, InputPorts, Indices
    <3>. QED  BY <3>1, <3>2 DEF IInv, CaughtUp
  <2>2. pc = "recording" /\ pc' = "check" /\ UNCHANGED <<mirror, value>>
    BY <1>2 DEF Done, At, ports
  <2>. QED  BY <2>1, <2>2 DEF Seen
<1>. QED  BY <1>1, <1>2

\* Until the board is disconnected, the callback takes over the levels of all inputs at the
\* instant of the read (pokey.c:134-156).
THEOREM ImplementsInputTracker == Spec => TrackerSpec
<1>1. Init => Tracker!Init
  <2>. SUFFICES ASSUME Init
                PROVE  Seen \in [Watched -> Levels] /\ (~Disconnected) = TRUE
    BY DEF Init, Tracker!Init, Seen
  <2>. QED  BY WatchedPort, LevelsAreBytes DEF Init, Seen, Disconnected
<1>2. ASSUME IInv, TypeOK', [Next]_vars
      PROVE  \/ Tracker!Change \/ Tracker!Observe \/ Tracker!Disconnect \/ Tracker!Drift
             \/ UNCHANGED <<level, Seen, ~Disconnected>>
  <2>1. CASE Change
    BY <1>2, <2>1 DEF Change, Tracker!Change, Seen, Disconnected, TypeOK, teardown, ports
  <2>2. CASE Quit \/ Handle
    <3>1. UNCHANGED <<level, mirror, value>>
      BY <2>2 DEF Quit, Handle, StopLoop, Finish, ports
    <3>2. pc' = pc \/ (pc = "starting" /\ pc' = "crashed")
      BY <2>2 DEF Quit, Handle, StopLoop, Finish
    <3>3. Seen' = Seen
      BY <3>1, <3>2 DEF Seen
    <3>4. Disconnected => Disconnected'
      BY <2>2 DEF Quit, Handle, StopLoop, Finish, Then, Disconnected
    <3>5. CASE Disconnected' = Disconnected
      BY <3>1, <3>3, <3>5
    <3>6. CASE Disconnected' # Disconnected
      <4>1. ~Disconnected /\ Disconnected'
        BY <3>4, <3>6 DEF Disconnected
      <4>. QED  BY <3>1, <3>3, <4>1 DEF Tracker!Disconnect, Seen
    <3>. QED  BY <3>5, <3>6
  <2>3. CASE Loop
    <3>1. level' = level /\ Disconnected' = Disconnected
      BY <2>3 DEF Loop, StartLoop, Iterate, NotDue, LoopEnds, Ask, Read, ReadFails, Record,
                  Done, CallbackCrashes, Disconnected, teardown
    <3>2. CASE Disconnected
      <4>1. Seen' \in [Watched -> Bytes]
        <5>1. (TypeOK => Seen \in [Watched -> Bytes])'
          BY SeenType, PTL
        <5>. QED  BY <1>2, <5>1
      <4>. QED  BY <3>1, <3>2, <4>1 DEF Tracker!Drift, Seen
    <3>3. CASE ~Disconnected
      <4>1. CASE StartLoop \/ Iterate \/ NotDue \/ LoopEnds \/ Ask \/ ReadFails
        <5>1. pc # "recording" /\ pc' # "recording" /\ UNCHANGED value
          BY <4>1 DEF StartLoop, Iterate, NotDue, LoopEnds, Ask, ReadFails, At, ports
        <5>. QED  BY <3>1, <5>1 DEF Seen
      <4>2. CASE Read
        <5>1. Seen' = [p \in Watched |-> level[p]]
          BY <4>2 DEF Read, Seen
        <5>. QED  BY <3>1, <3>3, <5>1 DEF Tracker!Observe, Seen
      <4>3. CASE Record \/ Done
        BY <1>2, <3>1, <3>3, <4>3, CatchingUpIsSilent
      <4>4. CASE CallbackCrashes
        BY <3>3, <4>4 DEF CallbackCrashes
      <4>. QED  BY <2>3, <4>1, <4>2, <4>3, <4>4 DEF Loop
    <3>. QED  BY <3>2, <3>3
  <2>4. CASE UNCHANGED vars
    BY <2>4 DEF vars, ports, teardown, Seen, Disconnected
  <2>. QED  BY <1>2, <2>1, <2>2, <2>3, <2>4 DEF Next
<1>3. IInv /\ IInv' /\ [Next]_vars =>
        [Tracker!Change \/ Tracker!Observe \/ Tracker!Disconnect \/ Tracker!Drift]_<<level, Seen, ~Disconnected>>
  BY <1>2 DEF IInv
<1>. QED  BY <1>1, <1>3, IInvInvariant, PTL DEF Spec, TrackerSpec, Tracker!Spec, Seen
=============================================================================
