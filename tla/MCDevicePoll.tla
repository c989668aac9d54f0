---------------------------- MODULE MCDevicePoll ----------------------------
(* A small instance of DevicePoll for TLC: two inputs of the board around one on a pin it   *)
(* does not have. *)
EXTENDS DevicePoll

MCPorts == <<[pin |-> 2, input |-> TRUE], [pin |-> 9, input |-> TRUE],
             [pin |-> 1, input |-> TRUE]>>
=============================================================================
