----------------------------- MODULE MCChannel -----------------------------
(***************************************************************************)
(* Values for the constants of Channel that a .cfg cannot write down.      *)
(***************************************************************************)
EXTENDS Channel

(* A channel that never measures a round trip keeps the slow ceiling.      *)
NoRtt  == {"none"}
(* A link that gets faster and slower earns and loses every ceiling.       *)
AllRtt == {"none", "slow", "medium", "fast"}
=============================================================================
