---------------------------- MODULE OrderedTable ----------------------------
(***************************************************************************)
(* What the hash table of src/src/uthash.h promises: a collection of       *)
(* elements with different keys, in an order of the caller's choice.       *)
(* UtHash implements it.                                                   *)
(***************************************************************************)
EXTENDS Naturals, Sequences, SequencesExt

CONSTANTS
    Elements,  \* the structures that can be put into the table
    KeyOf,     \* the key of each
    Rank       \* cmpfcn(x, y) is Rank[x] - Rank[y]

VARIABLE order  \* the elements in the table, first to last

Keys(s) == {KeyOf[x] : x \in Range(s)}
Without(s, key) ==
    IF key \in Keys(s) THEN RemoveAt(s, CHOOSE n \in DOMAIN s : KeyOf[s[n]] = key) ELSE s

\* s with x before the first element that is greater.
Inserted(s, x) ==
    LET greater == {n \in DOMAIN s : Rank[s[n]] > Rank[x]}
        place == IF greater = {} THEN Len(s) + 1 ELSE Min(greater)
    IN InsertAt(s, place, x)

\* t has the elements of s by rank, those of equal rank as they were in s.
StablySorted(t, s) ==
    /\ Len(t) = Len(s) /\ Range(t) = Range(s)
    /\ \A m, n \in DOMAIN t : m < n =>
        \/ Rank[t[m]] < Rank[t[n]]
        \/ Rank[t[m]] = Rank[t[n]] /\ \E k, l \in DOMAIN s : k < l /\ s[k] = t[m] /\ s[l] = t[n]

Init == order = <<>>

Add(x) == KeyOf[x] \notin Keys(order) /\ order' = Append(order, x)
AddInorder(x) == KeyOf[x] \notin Keys(order) /\ order' = Inserted(order, x)
Replace(x) == order' = Append(Without(order, KeyOf[x]), x)
ReplaceInorder(x) == order' = Inserted(Without(order, KeyOf[x]), x)
Delete(x) == x \in Range(order) /\ order' = Without(order, KeyOf[x])
Clear == order' = <<>>
Sort == StablySorted(order', order)

Next ==
    \/ Clear \/ Sort
    \/ \E x \in Elements :
        Add(x) \/ AddInorder(x) \/ Replace(x) \/ ReplaceInorder(x) \/ Delete(x)

Spec == Init /\ [][Next]_order
=============================================================================
