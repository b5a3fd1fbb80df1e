---------------------------- MODULE LinkService ----------------------------
(***************************************************************************)
(* What establishing a link promises its two ends: the callee offers a     *)
(* fresh key whenever it answers a request, the caller comes up once, on   *)
(* one of the keys offered, and the callee comes up only under the key the *)
(* caller took. A caller that hung up never comes back.                    *)
(***************************************************************************)
EXTENDS Naturals

VARIABLES caller, callerKey, callee, calleeKey
svars == <<caller, callerKey, callee, calleeKey>>

Init ==
  /\ caller = "idle" /\ callerKey = 0
  /\ callee = "idle" /\ calleeKey = 0

Call ==
  /\ caller = "idle"
  /\ caller' = "opening"
  /\ UNCHANGED <<callerKey, callee, calleeKey>>

Offer ==
  /\ caller # "idle" /\ callee = "idle"
  /\ callee' = "opening" /\ calleeKey' = calleeKey + 1
  /\ UNCHANGED <<caller, callerKey>>

Accept ==
  /\ caller = "opening"
  /\ caller' = "up" /\ callerKey' \in 1 .. calleeKey
  /\ UNCHANGED <<callee, calleeKey>>

Confirm ==
  /\ callee = "opening" /\ callerKey = calleeKey
  /\ callee' = "up"
  /\ UNCHANGED <<caller, callerKey, calleeKey>>

CallerEnds ==
  /\ caller \in {"opening", "up"}
  /\ caller' = "closed"
  /\ UNCHANGED <<callerKey, callee, calleeKey>>

CalleeEnds ==
  /\ callee \in {"opening", "up"}
  /\ callee' = "idle"
  /\ UNCHANGED <<caller, callerKey, calleeKey>>

Next == Call \/ Offer \/ Accept \/ Confirm \/ CallerEnds \/ CalleeEnds
Spec == Init /\ [][Next]_svars
=============================================================================
