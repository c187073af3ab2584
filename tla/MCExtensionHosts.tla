-------------------------- MODULE MCExtensionHosts --------------------------
(***************************************************************************)
(* A small instance of ExtensionHosts for TLC.                             *)
(***************************************************************************)
EXTENDS ExtensionHosts, TLC

CONSTANTS p1, p2, a1, a2, b1, h1, h2, h3, l1, l2, c1, c2, d1

TwoPlugins == {p1, p2}

\* Two versions, or two time limits, of the first plugin.
ThreeKeys == {a1, a2, b1}
PluginOfKey == [k \in ThreeKeys |-> IF k = b1 THEN p2 ELSE p1]

ThreeHosts == {h1, h2, h3}
TwoLocks == {l1, l2}
TwoCallers == {c1, c2}
OneTask == {d1}

\* Evictions in the one, hosts of both plugins in the other.
BothRegistries == {<<"gateway", 1>>, <<"commands", 2>>}

Interchangeable ==
    Permutations(ThreeHosts) \cup Permutations(TwoLocks) \cup Permutations(TwoCallers)

=============================================================================
