------------------------- MODULE FamilyMembershipMC -------------------------
(* FamilyMembership for TLC: users, ids, codes and call slots are          *)
(* interchangeable (no liveness is checked).                               *)
EXTENDS FamilyMembership, TLC

Interchangeable ==
  Permutations(Users) \cup Permutations(Families) \cup Permutations(Codes) \cup Permutations(Calls)

(* Until its first query a call has read and changed nothing, so it might  *)
(* as well have arrived just before: TLC does not go on from a state in    *)
(* which a call waits whose first query would refuse it, or two calls wait.*)
Waiting == {c \in Calls : calls[c] # Idle /\ calls[c].at = "member"}

ArriveInTime ==
  /\ Cardinality(Waiting) <= 1
  /\ \A c \in Waiting :
       \/ ENABLED FindNoFamily(c)
       \/ ENABLED FindOwnFamily(c)
       \/ ENABLED CheckOperator(c)

(* An expiry can only keep a join from finding its family.  It is enough   *)
(* that one invite code has one, and as long as its family is normal.      *)
Limited == {f \in Families : family[f].expiry # "never"}

FewExpire ==
  /\ Cardinality(Limited) <= 1
  /\ \A f \in Limited : family[f].status = "normal"

Reduced == ArriveInTime /\ FewExpire
=============================================================================
