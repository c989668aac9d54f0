----------------------------- MODULE DevicePoll -----------------------------
(***************************************************************************)
(* The polling loop of one device, and its end.  startDeviceLoop() of      *)
(* src/src/device/pokey/pokey.c starts a repeating libuv timer whose       *)
(* callback, digitalIOTimerCallback(), reads all inputs of the board into  *)
(* the mirror of PoKeysLib and then goes through the ports.  intHandler()  *)
(* of src/src/main.c, once it got its yes, stops the loop, disconnects the *)
(* board, which frees the mirror, frees the device and ends the process.   *)
(*                                                                         *)
(* The levels of the pins change at any time, also while the callback goes *)
(* through the ports.  The read takes them all at one instant, or fails.   *)
(* The handler runs in the thread of the loop, which then waits for good,  *)
(* or in another one.  What the callback reads from freed memory, or from  *)
(* behind the mirror, is any byte; freed memory may also end the process.  *)
(*                                                                         *)
(* The module starts with a thread that has the device it serves.          *)
(***************************************************************************)
EXTENDS Integers, Sequences

CONSTANTS
    Pins,   \* the pins of the board
    Ports,  \* the ports of the device, each a pin and whether it is a digital input
    Bytes   \* values of a byte

Levels == {0, 1}

\* PinConfig gives different ports different pins; the board need not have them.
ASSUME PortsAssumption ==
    /\ Ports \in Seq([pin : Int, input : BOOLEAN])
    /\ \A k, l \in 1 .. Len(Ports) : Ports[k].pin = Ports[l].pin => k = l
    /\ Pins \subseteq Int
    /\ Levels \subseteq Bytes

Indices == 1 .. Len(Ports)

VARIABLES
    pc,             \* of the loop's thread, see TypeOK
    stop_flag,      \* of the libuv loop
    level,          \* the level of each pin
    mirror,         \* DigitalValueGet of each pin
    i,              \* ports the callback has gone through
    value,          \* of each port
    previousValue,  \* of each port
    handler,        \* what intHandler() does next
    handlerThread,  \* "none" until it is called, then "loop" or "other"
    madeInTime,     \* auxiliary: the loop was not made after uv_stop()
    passedInTime,   \* auxiliary: the loop last looked at stop_flag before uv_stop()
    met             \* auxiliary: the callback has used freed memory

ports == <<value, previousValue>>
teardown == <<handler, handlerThread>>
times == <<madeInTime, passedInTime>>
vars == <<pc, stop_flag, level, mirror, i, ports, teardown, times, met>>

Init ==
    /\ pc = "starting"
    /\ stop_flag = FALSE
    /\ level \in [Pins -> Levels]
    /\ mirror \in [Pins -> Levels]
    /\ i = 0
    /\ value = [k \in Indices |-> 0]
    /\ previousValue = [k \in Indices |-> 0]
    /\ handler = "away" /\ handlerThread = "none"
    /\ madeInTime = TRUE /\ passedInTime = TRUE
    /\ met = FALSE

Change ==
    /\ level' \in [Pins -> Levels]
    /\ UNCHANGED <<pc, stop_flag, mirror, i, ports, teardown, times, met>>

-----------------------------------------------------------------------------
(* The loop. *)

Running == pc # "crashed" /\ handler # "over"
At(position) == pc = position /\ Running /\ handlerThread # "loop"

BeforeStop == handler \in {"away", "stop"}

\* PK_DisconnectDevice() has freed the mirror, and free() the device.
Disconnected == handler \in {"exit", "over"}

\* uv_loop_new(), uv_timer_init(), uv_timer_start(), which may fail.
StartLoop ==
    /\ At("starting")
    /\ pc' \in {"check", "ended"} /\ madeInTime' = BeforeStop
    /\ UNCHANGED <<stop_flag, level, mirror, i, ports, teardown, passedInTime, met>>

\* uv_run() looks at stop_flag, runs the timer if it is due, and waits until it is.
Iterate ==
    /\ At("check") /\ ~stop_flag
    /\ pc' = "timers" /\ passedInTime' = BeforeStop
    /\ UNCHANGED <<madeInTime, stop_flag, level, mirror, i, ports, teardown, met>>

NotDue ==
    /\ At("timers")
    /\ pc' = "check"
    /\ UNCHANGED <<stop_flag, level, mirror, i, ports, teardown, times, met>>

LoopEnds ==
    /\ At("check") /\ stop_flag
    /\ pc' = "ended" /\ stop_flag' = FALSE
    /\ UNCHANGED <<level, mirror, i, ports, teardown, times, met>>

-----------------------------------------------------------------------------
(* The callback. *)

\* PK_DigitalIOGet() asks the board...
Ask ==
    /\ At("timers")
    /\ pc' = "asking" /\ met' = (met \/ Disconnected)
    /\ UNCHANGED <<stop_flag, level, mirror, i, ports, teardown, times>>

\* ... and gets an answer,
Read ==
    /\ At("asking")
    /\ mirror' = level
    /\ pc' = "recording" /\ met' = (met \/ Disconnected)
    /\ UNCHANGED <<stop_flag, level, i, ports, teardown, times>>

\* or none: what is left in the mirror then is not looked at.
ReadFails ==
    /\ At("asking")
    /\ mirror' \in [Pins -> Levels]
    /\ pc' = "check" /\ met' = (met \/ Disconnected)
    /\ UNCHANGED <<stop_flag, level, i, ports, teardown, times>>

OnBoard(k) == Ports[k].pin \in Pins

\* Pins[pin - 1].DigitalValueGet, from behind the array or from freed memory if need be.
Latest_Live(k) == IF OnBoard(k) THEN {level[Ports[k].pin]} ELSE Bytes
Latest(k) == IF OnBoard(k) /\ ~Disconnected THEN {mirror[Ports[k].pin]} ELSE Bytes

\* valid is not looked at, and the value is read twice.
Record ==
    /\ At("recording") /\ i < Len(Ports)
    /\ i' = i + 1
    /\ \/ \E compared \in Latest(i'), stored \in Latest(i') :
            /\ Ports[i'].input /\ value[i'] # compared
            /\ previousValue' = [previousValue EXCEPT ![i'] = value[i']]
            /\ value' = [value EXCEPT ![i'] = stored]
       \/ /\ Ports[i'].input => value[i'] \in Latest(i')
          /\ UNCHANGED ports
    /\ met' = (met \/ Disconnected)
    /\ UNCHANGED <<pc, stop_flag, level, mirror, teardown, times>>

Done_CountsOn ==
    /\ At("recording") /\ i = Len(Ports)
    /\ pc' = "check" /\ i' = i + 1
    /\ UNCHANGED <<stop_flag, level, mirror, ports, teardown, times, met>>
Done_KeepsIndex ==
    /\ At("recording") /\ i = Len(Ports)
    /\ pc' = "check"
    /\ UNCHANGED <<stop_flag, level, mirror, i, ports, teardown, times, met>>
Done ==
    /\ At("recording") /\ i = Len(Ports)
    /\ pc' = "check" /\ i' = 0
    /\ UNCHANGED <<stop_flag, level, mirror, ports, teardown, times, met>>

\* Freed memory ends the process.
CallbackCrashes ==
    /\ At("timers") \/ At("asking") \/ At("recording")
    /\ Disconnected
    /\ pc' = "crashed" /\ met' = TRUE
    /\ UNCHANGED <<stop_flag, level, mirror, i, ports, teardown, times>>

Loop ==
    \/ StartLoop \/ Iterate \/ NotDue \/ LoopEnds
    \/ Ask \/ Read \/ ReadFails \/ Record \/ Done \/ CallbackCrashes

-----------------------------------------------------------------------------
(* The handler. *)

\* A yes, in one of the threads.
Quit ==
    /\ Running /\ handler = "away"
    /\ handler' = "stop"
    /\ handlerThread' \in {"other"} \cup (IF pc = "ended" THEN {} ELSE {"loop"})
    /\ UNCHANGED <<pc, stop_flag, level, mirror, i, ports, times, met>>

Then(from, to) == Running /\ handler = from /\ handler' = to /\ UNCHANGED handlerThread

\* uv_stop(device->loop): there is no loop, and nothing in the field, before StartLoop.
StopLoop_Forgotten ==
    /\ Then("stop", "disconnect")
    /\ UNCHANGED <<pc, stop_flag, level, mirror, i, ports, times, met>>
StopLoop ==
    /\ Then("stop", "disconnect")
    /\ IF pc = "starting"
       THEN pc' \in {"starting", "crashed"} /\ UNCHANGED stop_flag
       ELSE stop_flag' = TRUE /\ UNCHANGED pc
    /\ UNCHANGED <<level, mirror, i, ports, times, met>>

\* PK_DisconnectDevice() and free(), then exit().
Finish ==
    /\ Then("disconnect", "exit") \/ Then("exit", "over")
    /\ UNCHANGED <<pc, stop_flag, level, mirror, i, ports, times, met>>

Handle == StopLoop \/ Finish

Next == Change \/ Loop \/ Quit \/ Handle

Spec == Init /\ [][Next]_vars

\* The threads keep running, the loop until it is stopped and the handler once it is called:
\* the timer repeats and the callback ends.  Nothing says that the board ever answers.
FairSpec == Spec /\ WF_vars(Loop) /\ WF_vars(Handle)

-----------------------------------------------------------------------------
(* Properties. *)

TypeOK ==
    /\ pc \in {"starting", "check", "timers", "asking", "recording", "ended", "crashed"}
    /\ stop_flag \in BOOLEAN /\ met \in BOOLEAN
    /\ madeInTime \in BOOLEAN /\ passedInTime \in BOOLEAN
    /\ level \in [Pins -> Levels] /\ mirror \in [Pins -> Levels]
    /\ i \in 0 .. Len(Ports)
    /\ value \in [Indices -> Bytes] /\ previousValue \in [Indices -> Bytes]
    /\ handler \in {"away", "stop", "disconnect", "exit", "over"}
    /\ handlerThread \in {"none", "loop", "other"}

\* main.c:36-38: uv_stop() before the rest leaves one iteration at most that meets what is
\* torn down, the one that was past the look at stop_flag, and only if the signal came to
\* another thread; but a stop that comes before the loop is made is lost.
OnlyLastCallbackMeetsTeardown ==
    met => /\ handlerThread = "other"
           /\ madeInTime => passedInTime

\* Until the board is disconnected, the callback takes over the levels of all inputs it has
\* at one instant, that of the read, however they change while it goes through the ports and
\* whatever ports on other pins get; it changes nothing when the read fails.
InputPorts == {k \in Indices : Ports[k].input /\ OnBoard(k)}
Watched == {Ports[k].pin : k \in InputPorts}
PortOf(pin) == CHOOSE k \in Indices : Ports[k].pin = pin
Tracker == INSTANCE InputTracker WITH
    connected <- ~Disconnected,
    seen <- [p \in Watched |-> IF pc = "recording" THEN mirror[p] ELSE value[PortOf(p)]]
TrackerSpec == Tracker!Spec

\* If the board answers again and again, an input that keeps its level is recorded with it.
SteadyLevelIsSeen ==
    []<><<Read>>_vars =>
        \A k \in InputPorts : \A v \in Levels :
            <>[](level[Ports[k].pin] = v) => <>[](value[k] = v)
=============================================================================
