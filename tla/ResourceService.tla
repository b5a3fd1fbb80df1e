-------------------------- MODULE ResourceService --------------------------
(***************************************************************************)
(* What a resource transfer promises: the transfer of the data that a      *)
(* sender offers ends once, and as delivered only when it was.  The        *)
(* converse is not promised: the data may have arrived, more than once     *)
(* even, at a receiver whose sender has given up.  A transfer that was     *)
(* cancelled for a bad request has not ended until it is swept: a proof    *)
(* that comes in between makes it a delivery.                              *)
(***************************************************************************)
EXTENDS Naturals

VARIABLES sender, delivered
svars == <<sender, delivered>>

Init == sender = "idle" /\ delivered = 0

Offer ==
  /\ sender = "idle"
  /\ sender' = "offering"
  /\ UNCHANGED delivered

Deliver ==
  /\ sender # "idle"
  /\ delivered' = delivered + 1
  /\ UNCHANGED sender

Confirm ==
  /\ sender \in {"offering", "cancelled"} /\ delivered > 0
  /\ sender' = "done"
  /\ UNCHANGED delivered

Cancel ==
  /\ sender = "offering"
  /\ sender' = "cancelled"
  /\ UNCHANGED delivered

GiveUp ==
  /\ sender \in {"offering", "cancelled"}
  /\ sender' = "failed"
  /\ UNCHANGED delivered

Next == Offer \/ Deliver \/ Confirm \/ Cancel \/ GiveUp
Spec == Init /\ [][Next]_svars
=============================================================================
