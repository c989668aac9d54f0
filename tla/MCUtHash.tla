------------------------------ MODULE MCUtHash ------------------------------
(***************************************************************************)
(* A small instance of UtHash for TLC.  Two elements have the same key.    *)
(* All hash values but one agree in their lower four bits, so that the     *)
(* buckets double in vain until expansion is inhibited; ranks are few, so  *)
(* that the sort has to be stable.                                         *)
(***************************************************************************)
EXTENDS UtHash

MCKeyOf == <<"a", "a", "b", "c", "d", "e">>
MChashv == <<0, 0, 16, 32, 48, 4>>
MCRank == <<2, 1, 1, 2, 1, 0>>
=============================================================================
