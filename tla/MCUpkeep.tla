----------------------------- MODULE MCUpkeep -----------------------------
EXTENDS Upkeep, TLC

CONSTANTS cA, cB, r1, p1, s1, s2, s3

MCKeepOf == [s \in Saves |-> IF s = s1 THEN 0 ELSE 1]
MCDaysOf == [s \in Saves |-> CASE s = s1 -> 30 [] s = s2 -> 0 [] s = s3 -> 7]

(* The configs are alike.                                                    *)
ConfigsAreAlike == Permutations(Configs)
=============================================================================
