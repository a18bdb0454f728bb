--------------------------- MODULE MCKeyedPunches ---------------------------
(***************************************************************************)
(* Small instances of KeyedPunches for TLC.                                *)
(***************************************************************************)
EXTENDS KeyedPunches, TLC

CONSTANTS p1, p2, p3, k1, day, night

\* Posts are alike until they are sent.
PostSymmetry == Permutations(Posts)

=============================================================================
