----------------------------- MODULE DeviceName -----------------------------
(***************************************************************************)
(* The name of a board over several starts of the program: at each start   *)
(* main() connects to the board and syncDeviceName() of                    *)
(* src/src/device/pokey/pokey.c compares the name the board has with the   *)
(* configured one, and writes it back if they differ.                      *)
(*                                                                         *)
(* Names are compared and copied as C does: strncmp() stops at the end of  *)
(* a text, memcpy() does not, and copies what lies behind a text shorter   *)
(* than WIDTH.                                                             *)
(***************************************************************************)
EXTENDS Naturals, Sequences

CONSTANTS
    WIDTH,    \* characters compared and copied: MAX_DEVICE_NAME_LENGTH
    FIELD,    \* characters of DeviceName in sPoKeysDevice_Data: 30
    Letters,  \* the characters of names
    NUL,      \* the character that ends a text
    Names     \* the names of the device in the configuration

ASSUME ConstantsAssumption ==
    /\ WIDTH \in Nat \ {0} /\ FIELD \in Nat /\ WIDTH <= FIELD
    /\ NUL \notin Letters
    /\ Names \subseteq Seq(Letters)

Fields == [1 .. FIELD -> Letters \cup {NUL}]

VARIABLES
    pc,      \* "stopped", "connected", "synced", "failed"
    name,    \* device->name
    board,   \* the name the board keeps
    mirror   \* DeviceData.DeviceName of PoKeysLib

vars == <<pc, name, board, mirror>>

\* Character n of a text in memory; behind its end anything may be found.
CharAt(text, n) ==
    CASE n <= Len(text) -> {text[n]}
      [] n = Len(text) + 1 -> {NUL}
      [] OTHER -> Letters \cup {NUL}

\* strncmp(...) = 0.
SameName_Prefix(field, text) ==
    \A n \in 1 .. WIDTH : n <= Len(text) => field[n] = text[n]
SameName_Negated(field, text) ==
    \E n \in 1 .. WIDTH : n <= Len(text) + 1 /\ field[n] \notin CharAt(text, n)
SameName(field, text) ==
    \A n \in 1 .. WIDTH : n <= Len(text) + 1 => field[n] \in CharAt(text, n)

\* memcpy().
Overwritten(field, text) ==
    {f \in Fields :
        /\ \A n \in WIDTH + 1 .. FIELD : f[n] = field[n]
        /\ \A n \in 1 .. WIDTH : f[n] \in CharAt(text, n)}

Init ==
    /\ pc = "stopped"
    /\ name \in Names
    /\ board \in Fields
    /\ mirror = board

\* A start, with a configuration that may have been edited.
Connect ==
    /\ pc = "stopped"
    /\ name' \in Names
    /\ mirror' = board
    /\ pc' = "connected"
    /\ UNCHANGED board

Keep ==
    /\ pc = "connected" /\ SameName(mirror, name)
    /\ pc' = "synced"
    /\ UNCHANGED <<name, board, mirror>>

Reset_Text ==
    /\ pc = "connected" /\ ~SameName(mirror, name)
    /\ mirror' = name
    /\ board' = mirror'
    /\ pc' = "synced"
    /\ UNCHANGED name
Reset ==
    /\ pc = "connected" /\ ~SameName(mirror, name)
    /\ mirror' \in Overwritten(mirror, name)
    /\ board' = mirror'
    /\ pc' = "synced"
    /\ UNCHANGED name

\* PK_DeviceNameSet() reports an error, which main() does not look at: the board may have
\* taken the name or not.
ResetFails ==
    /\ pc = "connected" /\ ~SameName(mirror, name)
    /\ mirror' \in Overwritten(mirror, name)
    /\ board' \in {board, mirror'}
    /\ pc' = "failed"
    /\ UNCHANGED name

Stop ==
    /\ pc \in {"synced", "failed"}
    /\ pc' = "stopped"
    /\ UNCHANGED <<name, board, mirror>>

Next == Connect \/ Keep \/ Reset \/ ResetFails \/ Stop

Spec == Init /\ [][Next]_vars

-----------------------------------------------------------------------------
(* Properties. *)

TypeOK ==
    /\ pc \in {"stopped", "connected", "synced", "failed"}
    /\ name \in Names
    /\ board \in Fields /\ mirror \in Fields

\* The field holds the text: its characters, and then an end unless the field is full.
Holds(field, text) ==
    /\ \A n \in 1 .. Len(text) : n <= FIELD => field[n] = text[n]
    /\ Len(text) < FIELD => field[Len(text) + 1] = NUL

\* A name that leaves room for its end is the board's name after every start whose write
\* the board accepts, whatever the board was called before and whatever lies behind the
\* name in memory.
ShortNameIsExact ==
    pc = "synced" /\ Len(name) < WIDTH => Holds(board, name)

\* main.c:115 "check the name on the pokey and update": any name of up to WIDTH characters.
NameIsUpdated ==
    pc = "synced" /\ Len(name) <= WIDTH => Holds(board, name)

\* A board that has the name keeps it: starting again with the same configuration writes
\* nothing.
NothingToReset ==
    [][board' # board => ~Holds(board, name)]_vars
=============================================================================
