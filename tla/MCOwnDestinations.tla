-------------------------- MODULE MCOwnDestinations --------------------------
(***************************************************************************)
(* Two connections, a send that waits for a path and one receipt at a      *)
(* time, two interfaces, two ratchets retained.                            *)
(***************************************************************************)
EXTENDS OwnDestinations

MCHandles == {"h1", "h2"}
MCSends   == {"m1", "m2"}
=============================================================================
