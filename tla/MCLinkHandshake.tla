-------------------------- MODULE MCLinkHandshake --------------------------
(***************************************************************************)
(* Two chains: two relays and one mishap, for what the repairs do and how  *)
(* long they take; one relay, two mishaps and data beside the RTT packet,  *)
(* for the keys.  The .cfg's constants are those of the first.             *)
(***************************************************************************)
EXTENDS LinkHandshake

VARIABLE chain      \* never changes

Long  == chain = "two relays"
Short == chain = "one relay"
OneRelay ==
  INSTANCE LinkHandshake WITH
    Hops <- 2, KEEPALIVE <- 20, MaxMishaps <- 2, MaxData <- 1

ChainsInit == (Long /\ Init) \/ (Short /\ OneRelay!Init)
ChainsNext ==
  /\ UNCHANGED chain
  /\ (Long /\ Next) \/ (Short /\ OneRelay!Next)

(* The fairness of LinkHandshake's FairSpec, for the long chain.           *)
ChainsSpec ==
  /\ ChainsInit /\ [][ChainsNext]_<<vars, chain>>
  /\ WF_vars(Long /\ jobs) /\ WF_vars(Long /\ tick)
  /\ WF_vars(Long /\ \E f \in air : \/ validate_request(f) \/ validate_proof(f)
                                    \/ receiveAtResponder(f) \/ receiveAtInitiator(f)
                                    \/ ignore(f.to, f) \/ \E k \in Relays : AtRelay(k))

(* No timer is counted below zero on either chain, and every value has its *)
(* type.                                                                   *)
TypesOK == IF Long THEN TypeOK ELSE OneRelay!TypeOK

(* handshake_repair_wait and relay_repairs (Transport.cpp:3751, 934): a    *)
(* proof is not echoed between relays, and the repairs bring a handshake   *)
(* through that lost one copy beyond the request's first hop.              *)
RepairsSuffice == Long => ProofsBounded /\ SingleLossRepaired

(* The half-open reaper and the initiator's timeout (INTERNALS.md:1337,    *)
(* 1256): no end stays half open, and after one mishap at most the ends    *)
(* agree whether they have a link.                                         *)
EndsSettle ==
  Long => HalfOpenEnds /\ EndsAgree
=============================================================================
