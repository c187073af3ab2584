-------------------------- MODULE MCSessionBindings --------------------------
(***************************************************************************)
(* Small instances of SessionBindings for TLC.                             *)
(***************************************************************************)
EXTENDS SessionBindings, TLC

CONSTANTS s1, s2, p1, p2, ra, rb, f1

TwoSessions == {s1, s2}
OwnCli == [s \in Sessions |-> s]
TwoProviders == {p1, p2}
TwoRoutes == {ra, rb}
OneFingerprint == {f1}

Interchangeable == Permutations(Providers) \cup Permutations(Routes) \cup Permutations(Fingerprints)
=============================================================================
