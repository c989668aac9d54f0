-------------------------- MODULE DeviceNameProofs --------------------------
(***************************************************************************)
(* Proofs of the safety properties of DeviceName for any widths, letters   *)
(* and names.  They rest on two facts about the string functions: what     *)
(* strncmp() finds equal and what memcpy() has written hold a text that is *)
(* shorter than what is compared, its end included; and a field that holds *)
(* a text is found equal to it.                                            *)
(***************************************************************************)
EXTENDS DeviceName, TLAPS

LEMMA NamesAreTexts ==
  ASSUME NEW text \in Names
  PROVE  /\ Len(text) \in Nat
         /\ \A n \in 1 .. Len(text) : text[n] \in Letters
BY ConstantsAssumption

LEMMA CharsOfText ==
  ASSUME NEW text \in Names, NEW n \in 1 .. FIELD
  PROVE  /\ n <= Len(text) => CharAt(text, n) = {text[n]}
         /\ n = Len(text) + 1 => CharAt(text, n) = {NUL}
         /\ CharAt(text, n) \subseteq Letters \cup {NUL}
BY NamesAreTexts, ConstantsAssumption DEF CharAt

LEMMA EqualHolds ==
  ASSUME NEW field \in Fields, NEW text \in Names, Len(text) < WIDTH,
         \A n \in 1 .. WIDTH : n <= Len(text) + 1 => field[n] \in CharAt(text, n)
  PROVE  Holds(field, text)
<1>1. Len(text) \in Nat /\ Len(text) + 1 \in 1 .. WIDTH /\ WIDTH <= FIELD
  BY NamesAreTexts, ConstantsAssumption
<1>2. ASSUME NEW n \in 1 .. Len(text)  PROVE field[n] = text[n]
  <2>1. n \in 1 .. WIDTH /\ n \in 1 .. FIELD /\ n <= Len(text) /\ n <= Len(text) + 1
    BY <1>1, ConstantsAssumption
  <2>. QED  BY <2>1, CharsOfText
<1>3. field[Len(text) + 1] = NUL
  <2>1. Len(text) + 1 \in 1 .. FIELD /\ Len(text) + 1 <= Len(text) + 1
    BY <1>1, ConstantsAssumption
  <2>. QED  BY <1>1, <2>1, CharsOfText
<1>. QED  BY <1>2, <1>3 DEF Holds

LEMMA HoldsIsEqual ==
  ASSUME NEW field \in Fields, NEW text \in Names, Holds(field, text)
  PROVE  SameName(field, text)
<1>. SUFFICES ASSUME NEW n \in 1 .. WIDTH, n <= Len(text) + 1
              PROVE  field[n] \in CharAt(text, n)
  BY DEF SameName
<1>1. Len(text) \in Nat /\ n \in 1 .. FIELD
  BY NamesAreTexts, ConstantsAssumption
<1>2. CASE n <= Len(text)
  BY <1>1, <1>2, CharsOfText DEF Holds
<1>3. CASE n = Len(text) + 1
  <2>1. Len(text) < FIELD
    BY <1>1, <1>3, ConstantsAssumption
  <2>2. field[Len(text) + 1] = NUL
    BY <2>1 DEF Holds
  <2>. QED  BY <1>1, <1>3, <2>2, CharsOfText
<1>. QED  BY <1>1, <1>2, <1>3

\* What is compared is what the board has.
MirrorInv == pc = "connected" => mirror = board

IInv == TypeOK /\ ShortNameIsExact /\ MirrorInv

LEMMA InitIInv == Init => IInv
BY DEF Init, IInv, TypeOK, ShortNameIsExact, MirrorInv

LEMMA NextIInv == IInv /\ [Next]_vars => IInv'
<1>. SUFFICES ASSUME IInv, [Next]_vars  PROVE IInv'
  OBVIOUS
<1>. USE DEF IInv, TypeOK, ShortNameIsExact, MirrorInv
<1>1. CASE Connect
  BY <1>1 DEF Connect
<1>2. CASE Keep
  <2>1. Len(name) < WIDTH => Holds(mirror, name)
    BY <1>2, EqualHolds DEF Keep, SameName
  <2>. QED  BY <1>2, <2>1 DEF Keep
<1>3. CASE Reset
  <2>1. /\ mirror' \in Fields /\ board' = mirror' /\ name' = name /\ pc' = "synced"
        /\ \A n \in 1 .. WIDTH : mirror'[n] \in CharAt(name, n)
    BY <1>3 DEF Reset, Overwritten
  <2>2. Len(name) < WIDTH => Holds(mirror', name)
    BY <2>1, EqualHolds
  <2>. QED  BY <2>1, <2>2
<1>4. CASE ResetFails
  BY <1>4 DEF ResetFails, Overwritten
<1>5. CASE Stop
  BY <1>5 DEF Stop
<1>6. CASE UNCHANGED vars
  BY <1>6 DEF vars, Holds
<1>. QED  BY <1>1, <1>2, <1>3, <1>4, <1>5, <1>6 DEF Next

LEMMA IInvInvariant == Spec => []IInv
BY InitIInv, NextIInv, PTL DEF Spec

\* Every variable keeps its type: what is copied never leaves the field.
THEOREM TypeCorrect == Spec => []TypeOK
BY IInvInvariant, PTL DEF IInv

\* A name that leaves room for its end is the board's after every accepted start
\* (pokey.c:25-28).
THEOREM ShortNamesAreExact == Spec => []ShortNameIsExact
BY IInvInvariant, PTL DEF IInv

\* A board that has the name is left alone (pokey.c:25).
THEOREM NamesAreWrittenOnce == Spec => NothingToReset
<1>1. ASSUME IInv, Reset \/ ResetFails  PROVE ~Holds(board, name)
  <2>1. ~SameName(board, name) /\ board \in Fields /\ name \in Names
    BY <1>1 DEF IInv, TypeOK, MirrorInv, Reset, ResetFails
  <2>. QED  BY <2>1, HoldsIsEqual
<1>2. IInv /\ [Next]_vars => [board' # board => ~Holds(board, name)]_vars
  BY <1>1 DEF Next, Connect, Keep, Stop, vars
<1>. QED  BY <1>2, IInvInvariant, PTL DEF Spec, NothingToReset
=============================================================================
