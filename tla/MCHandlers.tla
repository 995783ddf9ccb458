----------------------------- MODULE MCHandlers -----------------------------
(* The threads of the daemon on a small instance.                          *)
EXTENDS Handlers, TLC

CONSTANTS h1, h2, tcp1, tcp2, net

Symmetry == Permutations(HandlerThreads)
=============================================================================
