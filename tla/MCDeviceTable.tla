--------------------------- MODULE MCDeviceTable ---------------------------
(* Small instances of DeviceTable for TLC. *)
EXTENDS DeviceTable

CONSTANT MaxLoaded  \* longest "devices" list, and longest answer, explored in full

UpTo(S, n) == UNION {[1 .. len -> S] : len \in 0 .. n}

\* Serial numbers 1 .. 3 of a 2-bit word: 2 and 3 have the top bit set.  A configuration
\* names them as they are printed (-2 and -1) or as the label on the board shows them (2).
EntryTexts == {1, -2, 2, Missing}

\* One entry more than there are slots is enough to overrun the table, whatever it says.
MCConfigs ==
    [devices : UpTo(EntryTexts, MaxLoaded) \cup {Missing, <<1, -2, -1>>}, simulator : {"full"}]
    \cup [devices : {<<1>>}, simulator : {"absent", "partial", "full"}]

\* Beside shorter answers, three boards: all different, or one reported twice.
MCNetworks == UpTo({1, 2, 3}, MaxLoaded) \cup {<<1, 2, 3>>, <<2, 1, 1>>}
=============================================================================
