-------------------------- MODULE MCPeerConnections --------------------------
(* Small instances of PeerConnections.                                     *)
EXTENDS PeerConnections, TLC

CONSTANTS d1, d2, h1, h2, h3

\* Two CONNECTs of one daemon and one of the other.
MCHome == h1 :> d1 @@ h2 :> d1 @@ h3 :> d2
MCTargets == h1 :> {d1, d2, Loopback} @@ h2 :> {d1, d2, Loopback} @@ h3 :> {d1}
MCSlots == d1 :> 2 @@ d2 :> 1

\* h1 and h2 have the same daemon and the same targets.
MCSymmetry == Permutations({h1, h2})
=============================================================================
