-------------------------- MODULE MCGatewayDistance --------------------------
(***************************************************************************)
(* Two members that hear each other and each a stock node: one with a      *)
(* wired interface, which n1's operator refuses to count, and one that is  *)
(* a way out only on n1's operator's word.                                 *)
(***************************************************************************)
EXTENDS GatewayDistance, TLC

CONSTANTS n1, n2, wired, router

Pair == {n1, n2, wired, router}
PairHears ==
  (n1 :> {n2, wired, router}) @@ (n2 :> {n1, wired}) @@ (wired :> {n1, n2}) @@ (router :> {n1})
PairNamed == [n \in Pair |-> IF n = n1 THEN {router} ELSE {}]
PairRefused == [n \in Pair |-> IF n = n1 THEN {wired} ELSE {}]
=============================================================================
