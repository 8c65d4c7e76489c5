---------------------------- MODULE MCCountCache ----------------------------
(* Small instances of CountCache: both rows of an odd generation are        *)
(* messages and only the second of an even one, so that a count carried     *)
(* over a rewrite shows.                                                    *)
EXTENDS CountCache, TLC

MCMessages == [g \in 0..MaxMod |-> IF g % 2 = 1 THEN {0, 1} ELSE {1}]

\* Callers are alike, and so are workers.
MCSymmetry == Permutations(Rounds) \cup Permutations(Workers)
=============================================================================
