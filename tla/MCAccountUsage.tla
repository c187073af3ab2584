--------------------------- MODULE MCAccountUsage ---------------------------
(* Values of the constants for TLC. *)
EXTENDS AccountUsage, TLC

CONSTANTS p1, p2, ta, tb, c1, c2

OneProvider == {p1}
TwoProviders == {p1, p2}
TwoTokens == {ta, tb}
GatedToken == {ta}
NoProvider == {}
OneCall == {c1}
TwoCalls == {c1, c2}

Interchangeable == Permutations(Calls)
=============================================================================
