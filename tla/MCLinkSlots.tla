----------------------------- MODULE MCLinkSlots -----------------------------
(***************************************************************************)
(* Two slots, so that a third link evicts; two consumers, a peer.          *)
(***************************************************************************)
EXTENDS LinkSlots, TLC

CONSTANTS alice, bob, peer, r1, r2, x1, x2, given
Symmetry == Permutations({alice, bob}) \cup Permutations({r1, r2})
=============================================================================
