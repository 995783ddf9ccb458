------------------------- MODULE MCSocketAddresses -------------------------
(* Small instances of SocketAddresses.                                     *)
EXTENDS SocketAddresses, TLC

CONSTANTS r1, r2, lo, h1, h2

Symmetry == Permutations(HandlerThreads) \cup Permutations(Remotes \ Loopbacks)
=============================================================================
