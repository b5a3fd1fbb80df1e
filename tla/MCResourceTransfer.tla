------------------------- MODULE MCResourceTransfer -------------------------
(***************************************************************************)
(* Links of three sorts, of which an advertisement has room for the map    *)
(* hashes of two parts: three parts on steady links with two mishaps, for  *)
(* what may go wrong, and on changing ones with one, for how a transfer    *)
(* ends; and five parts, the hashes of which take two updates, of a large  *)
(* request, for what two copies of it do to one another.  The .cfg's       *)
(* constants are the largest of the three.                                 *)
(***************************************************************************)
EXTENDS ResourceTransfer

(* All different; the last part shares its hash with the first; the second *)
(* does, whose hash ends a segment.                                        *)
Different == <<1, 2, 3>>
LastIsFirst == <<1, 2, 1>>
SecondIsFirst == <<1, 1, 3>>
FiveParts == <<1, 2, 3, 4, 5>>
SomeHashMaps == {Different, LastIsFirst, SecondIsFirst, FiveParts}

VARIABLE sort       \* never changes

Steady == INSTANCE ResourceTransfer WITH
            Kinds <- {"app", "request"}, HashMaps <- {Different, SecondIsFirst},
            Rates <- {"slow"}
Changing ==
  INSTANCE ResourceTransfer WITH
    Kinds <- {"app", "response"}, HashMaps <- {Different, LastIsFirst},
    Rates <- {"very slow", "fast"}, MaxMishaps <- 1
Long ==
  INSTANCE ResourceTransfer WITH
    Kinds <- {"request"}, HashMaps <- {FiveParts}, Rates <- {"slow"},
    Mishaps <- {"early"}, MaxMishaps <- 1, MAX_RETRIES <- 1

IsChanging == sort = "changing"

SortsInit ==
  \/ sort = "steady" /\ Steady!Init
  \/ IsChanging /\ Changing!Init
  \/ sort = "long" /\ Long!Init
SortsNext ==
  /\ UNCHANGED sort
  /\ \/ sort = "steady" /\ Steady!Next
     \/ IsChanging /\ Changing!Next
     \/ sort = "long" /\ Long!Next

(* The fairness of ResourceTransfer's FairSpec, on changing links.         *)
SortsSpec ==
  /\ SortsInit /\ [][SortsNext]_<<vars, sort>>
  /\ WF_vars(IsChanging /\ \E m \in DOMAIN net : Changing!Handle(m))
  /\ WF_vars(IsChanging /\ Changing!Watchdogs)

(* Transport.cpp, jobs, and Resource::watchdog: both ends come to an end,  *)
(* and the retries are enough for a transfer that lost no more packets     *)
(* than it has of them.                                                    *)
TransfersEnd == IsChanging => Changing!Settles /\ Changing!CompletesUnlessHarmed
=============================================================================
