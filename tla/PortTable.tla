----------------------------- MODULE PortTable -----------------------------
(***************************************************************************)
(* What loading the pins of a device promises: a set of ports that only    *)
(* grows, one port at a time, and in which every pin has at most one port. *)
(* PinConfig implements it.                                                *)
(***************************************************************************)
CONSTANT Port  \* records with at least a field pin

VARIABLE ports

Init == ports = {}

Accept ==
    \E port \in ports' \ ports :
        /\ port \in Port
        /\ \A other \in ports : other.pin # port.pin
        /\ ports' = ports \cup {port}

Spec == Init /\ [][Accept]_ports
=============================================================================
