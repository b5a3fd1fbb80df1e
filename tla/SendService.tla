----------------------------- MODULE SendService -----------------------------
(***************************************************************************)
(* What rnsd promises whoever sends an opportunistic packet (ports.h,      *)
(* RNSD_DEST_STATUS): one outcome, and after "sent" one word on the      *)
(* proof, which is "delivered" only when the other end proved it.  A       *)
(* cancel is answered whenever it comes, and ends a send that was still    *)
(* waiting.  Nobody is told of the sends of a predecessor.                 *)
(***************************************************************************)
EXTENDS SequencesExt

CONSTANT Sends
VARIABLES
  told,       \* what the sender was told, send by send
  owner,      \* "none" before the send, "open" while its sender stays, "gone"
  cancelled,  \* sends whose sender has cancelled them
  proved      \* sends the other end has proved
svars == <<told, owner, cancelled, proved>>

Init ==
  /\ told = [s \in Sends |-> <<>>]
  /\ owner = [s \in Sends |-> "none"]
  /\ cancelled = {} /\ proved = {}

Refusals == {"refused", "failed"}
Says(s, word) == Contains(told[s], word)

May(s, word) ==
  /\ owner[s] = "open"
  /\ \/ word \in Refusals \cup {"sent"} /\ told[s] = <<>>
     \/ /\ word \in {"delivered", "no proof"} /\ Says(s, "sent")
        /\ ~Says(s, "delivered") /\ ~Says(s, "no proof")
        /\ word = "delivered" => s \in proved'
     \/ word = "cancelled" /\ s \in cancelled'

Told(s) ==
  \/ told'[s] = told[s]
  \/ \E word \in Refusals \cup {"sent", "delivered", "no proof", "cancelled"} :
       May(s, word) /\ told'[s] = Append(told[s], word)

Owned(s) == owner'[s] = owner[s] \/ <<owner[s], owner'[s]>> \in {<<"none", "open">>, <<"open", "gone">>}

(* A send is asked for and told of in one step when a path is known.       *)
Asks(s) ==
  /\ owner[s] = "none" /\ owner'[s] = "open"
  /\ told'[s] \in {<<>>} \cup {<<word>> : word \in Refusals \cup {"sent"}}

Next ==
  /\ \A s \in Sends : Asks(s) \/ (Owned(s) /\ Told(s))
  /\ cancelled \subseteq cancelled' /\ proved \subseteq proved'

Spec == Init /\ [][Next]_svars
=============================================================================
