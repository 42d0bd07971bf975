--------------------------- MODULE MCTransactions ---------------------------
(***************************************************************************)
(* Signaling and Login for TLC. They share no rows, so that one of them    *)
(* takes all the steps of a behaviour, and the other stays where it is.    *)
(***************************************************************************)
EXTENDS Signaling, Login, TLC

CONSTANTS b1, b2, r1, r2, u1, u2, l1, l2

VARIABLES part,    \* the component that takes the steps
          active   \* the clients that make requests, three of the four

vars == <<part, active, signalingVars, loginVars>>

Init ==
  /\ part \in {"signaling", "login"}
  /\ SignalingInit
  /\ LoginInit
  /\ part # "login" => orgsFirst
  /\ active \in SUBSET Clients
  /\ Cardinality(active) = IF part = "signaling" THEN 3 ELSE 0

Next ==
  /\ UNCHANGED <<part, active>>
  /\ \/ /\ part = "signaling" /\ SignalingNext /\ UNCHANGED loginVars
        /\ \A p \in Clients \ active : tx'[p] = Idle
     \/ part = "login" /\ LoginNext /\ UNCHANGED signalingVars

Spec == Init /\ [][Next]_vars

TypeOK == SignalingTypeOK /\ LoginTypeOK

TwoOffers == {1, 2}
TwoOrgs == {1, 2}
AllOrgs == [u \in Users |-> Orgs]
OneOrgOrUser == Users \cup {1}

Symmetry ==
  Permutations(Browsers) \cup Permutations(Runners)
    \cup Permutations(Users) \cup Permutations(Logins)
=============================================================================
