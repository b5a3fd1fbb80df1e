--------------------------- MODULE RequestService ---------------------------
(***************************************************************************)
(* What rnsd promises whoever issues a request over a link: one answer,    *)
(* and a failure is an answer. A response is what the remote end replied.  *)
(***************************************************************************)
CONSTANT Requests
VARIABLES stage, replied
svars == <<stage, replied>>

Init ==
  /\ stage = [r \in Requests |-> "none"]
  /\ replied = {}

(* A request with nobody to take it is refused on the spot.                *)
Issue(r) ==
  /\ stage[r] = "none"
  /\ \E s \in {"open", "failed"} : stage' = [stage EXCEPT ![r] = s]
  /\ UNCHANGED replied

Reply(r) ==
  /\ stage[r] # "none" /\ r \notin replied
  /\ replied' = replied \cup {r}
  /\ UNCHANGED stage

Respond(r) ==
  /\ stage[r] = "open" /\ r \in replied
  /\ stage' = [stage EXCEPT ![r] = "responded"]
  /\ UNCHANGED replied

Fail(r) ==
  /\ stage[r] = "open"
  /\ stage' = [stage EXCEPT ![r] = "failed"]
  /\ UNCHANGED replied

Next == \E r \in Requests : Issue(r) \/ Reply(r) \/ Respond(r) \/ Fail(r)
Spec == Init /\ [][Next]_svars
=============================================================================
