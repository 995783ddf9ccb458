-------------------------- MODULE MCCircularBuffer --------------------------
(* Small instances of CircularBuffer.                                      *)
EXTENDS CircularBuffer

CONSTANTS w1, r1, a, b
=============================================================================
