------------------------------ MODULE MCCliProxy ------------------------------
(* Values of the constants for TLC. *)
EXTENDS CliProxy, TLC

CONSTANTS u1, u2, o1, o2

TwoUpstreams == {u1, u2}
TwoOrigins == {o1, o2}

\* The gateway on 127.0.0.1, and on another host (WSL, custom).
OneLoopback == {o1}

EveryWrite == Writes
NoWrite == {}

Interchangeable == Permutations(TwoUpstreams)
=============================================================================
