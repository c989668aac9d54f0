---------------------------- MODULE InputTracker ----------------------------
(***************************************************************************)
(* What polling the inputs of a board promises: from time to time the      *)
(* levels of all watched inputs are taken over at one instant, as long as  *)
(* the board is connected.  A change between two such instants may go      *)
(* unseen, and nothing is promised afterwards.  DevicePoll implements it.  *)
(***************************************************************************)
CONSTANTS Pins, Levels, Watched, Bytes

VARIABLES level, seen, connected

Init ==
    /\ level \in [Pins -> Levels]
    /\ seen \in [Watched -> Levels]
    /\ connected = TRUE

Change ==
    /\ level' \in [Pins -> Levels]
    /\ UNCHANGED <<seen, connected>>

Observe ==
    /\ connected
    /\ seen' = [p \in Watched |-> level[p]]
    /\ UNCHANGED <<level, connected>>

Disconnect ==
    /\ connected /\ connected' = FALSE
    /\ UNCHANGED <<level, seen>>

Drift ==
    /\ ~connected
    /\ seen' \in [Watched -> Bytes]
    /\ UNCHANGED <<level, connected>>

Spec == Init /\ [][Change \/ Observe \/ Disconnect \/ Drift]_<<level, seen, connected>>
=============================================================================
