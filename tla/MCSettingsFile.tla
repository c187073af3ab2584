---------------------------- MODULE MCSettingsFile ----------------------------
(* Values of the constants for TLC. *)
EXTENDS SettingsFile

CONSTANTS a, b, r1

TwoOwners == {a, b}
OneReader == {r1}
=============================================================================
