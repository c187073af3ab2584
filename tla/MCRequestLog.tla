---------------------------- MODULE MCRequestLog ----------------------------
(* Values of the constants for TLC. *)
EXTENDS RequestLog

CONSTANTS r1, r2

OneRequest == {r1}
TwoRequests == {r1, r2}
================================================================================
