---------------------------- MODULE MCDeviceName ----------------------------
(* A small instance of DeviceName for TLC. *)
EXTENDS DeviceName

\* Texts shorter than, as long as, and longer than what is copied.
MCNames == UNION {[1 .. len -> Letters] : len \in 0 .. WIDTH + 1}
=============================================================================
