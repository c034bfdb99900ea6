----------------------- MODULE FamilyMembershipProofs -----------------------
(***************************************************************************)
(* Proofs about FamilyMembership, for any number of users, families, codes *)
(* and calls.  The two tables change in a few ways only (TableStep); what  *)
(* each of these may assume of the tables is what the call that does it    *)
(* has read before (InFlight), which no other call can make false.         *)
(***************************************************************************)
EXTENDS FamilyMembership, FiniteSetTheorems, TLAPS

Exists(f)     == family[f].status # "none"
HasOwner(f,u) == Row(f, u, "owner") \in members
Founded(f,u)  == family[f].status = "normal" /\ family[f].owner = u

\* What the rows of the two tables have to do with each other.
CountsRight ==
  /\ IsFiniteSet(members)
  /\ MemberCountAgrees
  /\ \A f \in Families : family[f].memberCount <= MaxMembers

OwnersRight ==
  /\ \A m \in members : Exists(m.family)
  /\ \A f \in Families : family[f].status = "normal" => HasOwner(f, family[f].owner)

CodesRight ==
  /\ \A f \in Families : Exists(f) <=> family[f].code # None
  /\ CodesAreUnique

\* What a call knows when it has made its last query.
InFlight(c) ==
  calls[c] # Idle =>
    /\ calls[c].op = "update" =>
         /\ calls[c].role \in RoleRequests
         /\ calls[c].at = "commit" => calls[c].rank = "owner"
    /\ calls[c].at = "commit" /\ calls[c].op \in {"create", "reset"} => calls[c].code \in Codes
    /\ calls[c].op \in {"dissolve", "update", "remove", "reset"} => calls[c].family \in Families
    /\ calls[c].at = "code" /\ calls[c].op = "reset" => Exists(calls[c].family)
    /\ calls[c].at = "commit" /\ calls[c].op # "create" =>
         calls[c].family \in Families /\ Exists(calls[c].family)
    /\ calls[c].at = "commit" /\ calls[c].op \in {"leave", "update", "remove"} =>
         ~Founded(calls[c].family, calls[c].target)

IInv ==
  /\ FamilyTypeOK
  /\ OneFamilyPerUser
  /\ CountsRight
  /\ OwnersRight
  /\ CodesRight
  /\ \A c \in Calls : InFlight(c)

---------------------------------------------------------------------------
(* The ways in which the tables change. *)

Created(f, u, k) ==
  /\ ~Exists(f) /\ RowsOf(u) = {} /\ CodeFree(k, f)
  /\ family' = [family EXCEPT ![f] = [status |-> "normal", owner |-> u, memberCount |-> 1,
                                      code |-> k, expiry |-> "never"]]
  /\ members' = members \cup {Row(f, u, "owner")}

Joined(f, u) ==
  /\ Exists(f) /\ RowsOf(u) = {} /\ family[f].memberCount < MaxMembers
  /\ family' = [family EXCEPT ![f].memberCount = @ + 1]
  /\ members' = members \cup {Row(f, u, "member")}

Gone(m) ==
  /\ ~Founded(m.family, m.user) /\ family[m.family].memberCount > 0
  /\ family' = [family EXCEPT ![m.family].memberCount = @ - 1]
  /\ members' = members \ {m}

Dissolved(f) ==
  /\ Exists(f)
  /\ family' = [family EXCEPT ![f].status = "dissolved", ![f].memberCount = 0]
  /\ members' = members \ MembersOf(f)

Ranked(m, r) ==
  /\ ~Founded(m.family, m.user)
  /\ members' = (members \ {m}) \cup {[m EXCEPT !.role = r]}
  /\ UNCHANGED family

Recoded(f, k, e) ==
  /\ Exists(f) /\ CodeFree(k, f)
  /\ family' = [family EXCEPT ![f].code = k, ![f].expiry = e]
  /\ UNCHANGED members

Expired(f) ==
  /\ family' = [family EXCEPT ![f].expiry = "past"]
  /\ UNCHANGED members

TableStep ==
  \/ \E f \in Families, u \in Users, k \in Codes : Created(f, u, k)
  \/ \E f \in Families, u \in Users : Joined(f, u)
  \/ \E m \in members : Gone(m)
  \/ \E f \in Families : Dissolved(f)
  \/ \E m \in members, r \in RoleRequests : Ranked(m, r)
  \/ \E f \in Families, k \in Codes, e \in Expiry : Recoded(f, k, e)
  \/ \E f \in Families : Expired(f)
  \/ UNCHANGED <<family, members>>

\* The unique index on the user: the rows of a user in a family are one row.
LEMMA OnlyRow ==
  ASSUME FamilyTypeOK, OneFamilyPerUser, NEW f, NEW u, NEW m \in RowsIn(f, u)
  PROVE  RowsIn(f, u) = {m} /\ m \in members /\ m.family = f /\ m.user = u
BY DEF OneFamilyPerUser, RowsIn, MembersOf

\* A row is what its three columns are.
LEMMA RowFields ==
  ASSUME FamilyTypeOK, NEW m \in members
  PROVE  /\ m.family \in Families /\ m.user \in Users /\ m.role \in Roles
         /\ m = Row(m.family, m.user, m.role)
BY DEF FamilyTypeOK, MemberRows, Row

\* The fields of a call under way are typed.
LEMMA CallFields ==
  ASSUME FamilyTypeOK, NEW c \in Calls, calls[c] # Idle
  PROVE  /\ calls[c].op \in Operations
         /\ calls[c].at \in {"member", "target", "family", "code", "commit"}
         /\ calls[c].user \in Users
         /\ calls[c].family \in Families \cup {None}
         /\ calls[c].target \in Users \cup {None}
         /\ calls[c].code \in Codes \cup {None}
         /\ calls[c].role \in RoleRequests \cup {None}
         /\ calls[c].rank \in Roles \cup {None}
BY DEF FamilyTypeOK, CallStates

\* Whatever a call does, the two tables change in one of these ways or not at all.
LEMMA OnlyTableSteps == ASSUME IInv, [Next]_vars PROVE TableStep
<1> USE DEF IInv
<1>1. CASE UNCHANGED vars
  BY <1>1 DEF vars, TableStep
<1>2. ASSUME NEW f \in Families, CodeExpires(f) PROVE TableStep
  BY <1>2 DEF CodeExpires, TableStep, Expired
<1>3. ASSUME NEW c \in Calls, Arrive(c) \/ CallEnds(c) \/ Query(c) PROVE TableStep
  <2> SUFFICES UNCHANGED <<family, members>>
    BY DEF TableStep
  <2> QED
    BY <1>3 DEF Arrive, CallEnds, Query, ReadOnly, FindNoFamily, DrawCode, FindByCode,
                FindOwnFamily, CheckOperator, CheckFamily, CheckTarget
<1>4. ASSUME NEW c \in Calls, Commit(c) PROVE TableStep
  <2> DEFINE f == calls[c].family
             u == calls[c].user
  <2>1. CASE CreateFamilyWithOwner(c)
    <3>1. u \in Users /\ calls[c].code \in Codes
      BY <2>1, CallFields DEF CreateFamilyWithOwner, Doing, InFlight
    <3> QED
      BY <2>1, <3>1 DEF CreateFamilyWithOwner, TableStep, Created, Exists
  <2>2. CASE JoinFamily(c)
    <3>1. u \in Users /\ f \in Families /\ Exists(f)
      BY <2>2, CallFields DEF JoinFamily, Doing, InFlight
    <3> QED
      BY <2>2, <3>1 DEF JoinFamily, TableStep, Joined
  <2>3. CASE DeleteMember(c)
    <3>1. ~Founded(f, calls[c].target)
      BY <2>3 DEF DeleteMember, Doing, InFlight
    <3>2. PICK m \in RowsIn(f, calls[c].target) : TRUE
      BY <2>3 DEF DeleteMember
    <3>3. RowsIn(f, calls[c].target) = {m} /\ m \in members /\ m.family = f /\ m.user = calls[c].target
      BY <3>2, OnlyRow
    <3>4. ~Founded(m.family, m.user)
      BY <3>1, <3>3
    <3> QED
      BY <2>3, <3>3, <3>4 DEF DeleteMember, TableStep, Gone
  <2>4. CASE DissolveFamily(c)
    <3>1. f \in Families /\ Exists(f)
      BY <2>4 DEF DissolveFamily, Doing, InFlight
    <3> QED
      BY <2>4, <3>1 DEF DissolveFamily, TableStep, Dissolved
  <2>5. CASE UpdateMember(c)
    <3>1. ~Founded(f, calls[c].target) /\ calls[c].role \in RoleRequests
      BY <2>5 DEF UpdateMember, Doing, InFlight
    <3>2. PICK m \in RowsIn(f, calls[c].target) : TRUE
      BY <2>5 DEF UpdateMember
    <3>3. RowsIn(f, calls[c].target) = {m} /\ m \in members /\ m.family = f /\ m.user = calls[c].target
      BY <3>2, OnlyRow
    <3>4. ~Founded(m.family, m.user)
      BY <3>1, <3>3
    <3>5. members' = (members \ {m}) \cup {[m EXCEPT !.role = calls[c].role]}
      BY <2>5, <3>3 DEF UpdateMember
    <3> QED
      BY <2>5, <3>1, <3>3, <3>4, <3>5 DEF UpdateMember, TableStep, Ranked
  <2>6. CASE ResetInviteCode(c)
    <3>1. f \in Families /\ Exists(f) /\ calls[c].code \in Codes
      BY <2>6 DEF ResetInviteCode, Doing, InFlight
    <3> QED
      BY <2>6, <3>1 DEF ResetInviteCode, TableStep, Recoded, Expiry
  <2> QED
    BY <1>4, <2>1, <2>2, <2>3, <2>4, <2>5, <2>6 DEF Commit
<1> QED
  BY <1>1, <1>2, <1>3, <1>4 DEF Next

---------------------------------------------------------------------------
(* The invariant holds at first and is kept. *)

\* Without families and calls there is nothing to disagree.
LEMMA InitHolds == ASSUME Init PROVE IInv
<1> USE FamilyAssumption DEF FamilyAssumption
<1>1. \A f \in Families : family[f] = Unused
  BY DEF Init
<1>2. FamilyTypeOK
  BY DEF Init, FamilyTypeOK, FamilyRows, MemberRows, Unused, Status, Expiry
<1>3. CountsRight
  BY <1>1, FS_EmptySet DEF Init, CountsRight, MemberCountAgrees, MembersOf, Unused
<1>4. OneFamilyPerUser /\ OwnersRight /\ CodesRight
  BY <1>1 DEF Init, OneFamilyPerUser, OwnersRight, CodesRight, CodesAreUnique, Exists, Unused
<1>5. \A c \in Calls : InFlight(c)
  BY DEF Init, InFlight
<1> QED
  BY <1>2, <1>3, <1>4, <1>5 DEF IInv

\* Every change of the tables keeps their types.
LEMMA RowTypesKept ==
  ASSUME FamilyTypeOK, TableStep
  PROVE  family' \in [Families -> FamilyRows] /\ members' \subseteq MemberRows
<1> USE FamilyAssumption DEF FamilyAssumption
<1>0. \A f \in Families : /\ family[f] \in FamilyRows
                          /\ family[f].status \in Status /\ family[f].owner \in Users \cup {None}
                          /\ family[f].memberCount \in Nat /\ family[f].code \in Codes \cup {None}
                          /\ family[f].expiry \in Expiry
  BY DEF FamilyTypeOK, FamilyRows
<1>1. ASSUME NEW f \in Families, NEW u \in Users, NEW k \in Codes, Created(f, u, k)
      PROVE  family' \in [Families -> FamilyRows] /\ members' \subseteq MemberRows
  BY <1>1 DEF Created, FamilyTypeOK, FamilyRows, MemberRows, Row, Status, Expiry, Roles
<1>2. ASSUME NEW f \in Families, NEW u \in Users, Joined(f, u)
      PROVE  family' \in [Families -> FamilyRows] /\ members' \subseteq MemberRows
  <2>1. [family[f] EXCEPT !.memberCount = family[f].memberCount + 1] \in FamilyRows
    BY <1>0 DEF FamilyRows
  <2> QED
    BY <1>2, <2>1 DEF Joined, FamilyTypeOK, MemberRows, Row, Roles
<1>3. ASSUME NEW m \in members, Gone(m)
      PROVE  family' \in [Families -> FamilyRows] /\ members' \subseteq MemberRows
  <2>1. m.family \in Families /\ family[m.family].memberCount - 1 \in Nat
    BY <1>0, <1>3, RowFields DEF Gone
  <2>2. [family[m.family] EXCEPT !.memberCount = family[m.family].memberCount - 1] \in FamilyRows
    BY <1>0, <2>1 DEF FamilyRows
  <2> QED
    BY <1>3, <2>1, <2>2 DEF Gone, FamilyTypeOK
<1>4. ASSUME NEW f \in Families, Dissolved(f)
      PROVE  family' \in [Families -> FamilyRows] /\ members' \subseteq MemberRows
  <2>1. family' = [family EXCEPT ![f] = [family[f] EXCEPT !.status = "dissolved", !.memberCount = 0]]
    BY <1>4 DEF Dissolved, FamilyTypeOK
  <2>2. [family[f] EXCEPT !.status = "dissolved", !.memberCount = 0] \in FamilyRows
    BY <1>0 DEF FamilyRows, Status
  <2> QED
    BY <1>4, <2>1, <2>2 DEF Dissolved, FamilyTypeOK
<1>5. ASSUME NEW m \in members, NEW r \in RoleRequests, Ranked(m, r)
      PROVE  family' \in [Families -> FamilyRows] /\ members' \subseteq MemberRows
  <2>1. [m EXCEPT !.role = r] \in MemberRows
    BY FamilyAssumption DEF FamilyAssumption, FamilyTypeOK, MemberRows
  <2> QED
    BY <1>5, <2>1 DEF Ranked, FamilyTypeOK
<1>6. ASSUME NEW f \in Families, NEW k \in Codes, NEW e \in Expiry, Recoded(f, k, e)
      PROVE  family' \in [Families -> FamilyRows] /\ members' \subseteq MemberRows
  <2>1. family' = [family EXCEPT ![f] = [family[f] EXCEPT !.code = k, !.expiry = e]]
    BY <1>6 DEF Recoded, FamilyTypeOK
  <2>2. [family[f] EXCEPT !.code = k, !.expiry = e] \in FamilyRows
    BY <1>0 DEF FamilyRows
  <2> QED
    BY <1>6, <2>1, <2>2 DEF Recoded, FamilyTypeOK
<1>7. ASSUME NEW f \in Families, Expired(f)
      PROVE  family' \in [Families -> FamilyRows] /\ members' \subseteq MemberRows
  <2>1. [family[f] EXCEPT !.expiry = "past"] \in FamilyRows
    BY <1>0 DEF FamilyRows, Expiry
  <2> QED
    BY <1>7, <2>1 DEF Expired, FamilyTypeOK
<1> QED
  BY <1>1, <1>2, <1>3, <1>4, <1>5, <1>6, <1>7 DEF TableStep, FamilyTypeOK

\* What the steps do to the columns the invariant speaks of.
LEMMA Columns ==
  ASSUME FamilyTypeOK
  PROVE
    /\ \A f \in Families, u \in Users, k \in Codes, g \in Families : Created(f, u, k) =>
         /\ family'[g].status = IF g = f THEN "normal" ELSE family[g].status
         /\ family'[g].owner = IF g = f THEN u ELSE family[g].owner
         /\ family'[g].code = IF g = f THEN k ELSE family[g].code
         /\ family'[g].memberCount = IF g = f THEN 1 ELSE family[g].memberCount
    /\ \A f \in Families, u \in Users, g \in Families : Joined(f, u) =>
         /\ family'[g].status = family[g].status
         /\ family'[g].owner = family[g].owner
         /\ family'[g].code = family[g].code
         /\ family'[g].memberCount = IF g = f THEN family[f].memberCount + 1 ELSE family[g].memberCount
    /\ \A m \in members, g \in Families : Gone(m) =>
         /\ family'[g].status = family[g].status
         /\ family'[g].owner = family[g].owner
         /\ family'[g].code = family[g].code
         /\ family'[g].memberCount = IF g = m.family THEN family[g].memberCount - 1
                                                     ELSE family[g].memberCount
    /\ \A f \in Families, g \in Families : Dissolved(f) =>
         /\ family'[g].status = IF g = f THEN "dissolved" ELSE family[g].status
         /\ family'[g].owner = family[g].owner
         /\ family'[g].code = family[g].code
         /\ family'[g].memberCount = IF g = f THEN 0 ELSE family[g].memberCount
    /\ \A f \in Families, k \in Codes, e \in Expiry, g \in Families : Recoded(f, k, e) =>
         /\ family'[g].status = family[g].status
         /\ family'[g].owner = family[g].owner
         /\ family'[g].code = IF g = f THEN k ELSE family[g].code
         /\ family'[g].memberCount = family[g].memberCount
    /\ \A f \in Families, g \in Families : Expired(f) =>
         /\ family'[g].status = family[g].status
         /\ family'[g].owner = family[g].owner
         /\ family'[g].code = family[g].code
         /\ family'[g].memberCount = family[g].memberCount
<1>1. family \in [Families -> FamilyRows] /\ \A g \in Families : family[g] \in FamilyRows
  BY DEF FamilyTypeOK
<1>2. ASSUME NEW f \in Families, NEW g \in Families, Dissolved(f)
      PROVE  /\ family'[g].status = IF g = f THEN "dissolved" ELSE family[g].status
             /\ family'[g].owner = family[g].owner
             /\ family'[g].code = family[g].code
             /\ family'[g].memberCount = IF g = f THEN 0 ELSE family[g].memberCount
  <2>1. family'[g] = IF g = f THEN [family[f] EXCEPT !.status = "dissolved", !.memberCount = 0]
                              ELSE family[g]
    BY <1>1, <1>2 DEF Dissolved
  <2> QED
    BY <1>1, <2>1 DEF FamilyRows
<1>3. ASSUME NEW f \in Families, NEW k \in Codes, NEW e \in Expiry, NEW g \in Families,
             Recoded(f, k, e)
      PROVE  /\ family'[g].status = family[g].status
             /\ family'[g].owner = family[g].owner
             /\ family'[g].code = IF g = f THEN k ELSE family[g].code
             /\ family'[g].memberCount = family[g].memberCount
  <2>1. family'[g] = IF g = f THEN [family[f] EXCEPT !.code = k, !.expiry = e] ELSE family[g]
    BY <1>1, <1>3 DEF Recoded
  <2> QED
    BY <1>1, <2>1 DEF FamilyRows
<1>4. \A m \in members : m.family \in Families
  BY RowFields
<1> QED
  BY <1>1, <1>2, <1>3, <1>4 DEF FamilyRows, Created, Joined, Gone, Expired

\* Rows of families are never deleted, their owner never changes, and a
\* dissolved family stays so.
Lasting ==
  \A f \in Families :
    Exists(f) => /\ Exists(f)'
                 /\ family'[f].owner = family[f].owner
                 /\ family'[f].status = "normal" => family[f].status = "normal"

\* What a call has read of who created a family stays true.
LEMMA StepsLast == ASSUME FamilyTypeOK, TableStep PROVE Lasting
<1> USE DEF Lasting, Exists
<1>1. ASSUME NEW f \in Families, NEW u \in Users, NEW k \in Codes, Created(f, u, k) PROVE Lasting
  BY <1>1, Columns DEF Created
<1>2. ASSUME NEW f \in Families, NEW u \in Users, Joined(f, u) PROVE Lasting
  BY <1>2, Columns
<1>3. ASSUME NEW m \in members, Gone(m) PROVE Lasting
  BY <1>3, Columns
<1>4. ASSUME NEW f \in Families, Dissolved(f) PROVE Lasting
  BY <1>4, Columns
<1>5. ASSUME NEW m \in members, NEW r \in RoleRequests, Ranked(m, r) PROVE Lasting
  BY <1>5 DEF Ranked
<1>6. ASSUME NEW f \in Families, NEW k \in Codes, NEW e \in Expiry, Recoded(f, k, e) PROVE Lasting
  BY <1>6, Columns
<1>7. ASSUME NEW f \in Families, Expired(f) PROVE Lasting
  BY <1>7, Columns
<1> QED
  BY <1>1, <1>2, <1>3, <1>4, <1>5, <1>6, <1>7 DEF TableStep

\* A user joins only without a row: the unique index of the members.
LEMMA OneFamilyKept ==
  ASSUME FamilyTypeOK, OneFamilyPerUser, TableStep PROVE OneFamilyPerUser'
<1> USE DEF OneFamilyPerUser
<1>1. ASSUME NEW f \in Families, NEW u \in Users, NEW r \in Roles,
             RowsOf(u) = {}, members' = members \cup {Row(f, u, r)}
      PROVE  OneFamilyPerUser'
  BY <1>1 DEF RowsOf, Row
<1>2. ASSUME NEW m \in members, NEW r \in RoleRequests, Ranked(m, r) PROVE OneFamilyPerUser'
  <2>1. [m EXCEPT !.role = r] = Row(m.family, m.user, r)
    BY RowFields DEF Row
  <2> QED
    BY <1>2, <2>1 DEF Ranked, Row
<1>3. (members' \subseteq members) => OneFamilyPerUser'
  OBVIOUS
<1> QED
  BY <1>1, <1>2, <1>3 DEF TableStep, Created, Joined, Gone, Dissolved, Recoded, Expired, Roles

\* A new invite code is one that no family has: the unique index of the codes.
LEMMA CodesKept == ASSUME FamilyTypeOK, CodesRight, TableStep PROVE CodesRight'
<1> USE DEF CodesRight, CodesAreUnique, Exists
<1>1. ASSUME NEW f \in Families, NEW u \in Users, NEW k \in Codes, Created(f, u, k) PROVE CodesRight'
  <2>1. k # None /\ \A g \in Families \ {f} : family[g].code # k
    BY <1>1, FamilyAssumption DEF Created, CodeFree, FamilyAssumption
  <2> QED
    BY <1>1, <2>1, Columns
<1>2. ASSUME NEW f \in Families, NEW u \in Users, Joined(f, u) PROVE CodesRight'
  BY <1>2, Columns
<1>3. ASSUME NEW m \in members, Gone(m) PROVE CodesRight'
  BY <1>3, Columns
<1>4. ASSUME NEW f \in Families, Dissolved(f) PROVE CodesRight'
  <2>1. Exists(f)
    BY <1>4 DEF Dissolved
  <2> QED
    BY <1>4, <2>1, Columns
<1>5. ASSUME NEW f \in Families, NEW k \in Codes, NEW e \in Expiry, Recoded(f, k, e) PROVE CodesRight'
  <2>1. Exists(f) /\ k # None /\ \A g \in Families \ {f} : family[g].code # k
    BY <1>5, FamilyAssumption DEF Recoded, CodeFree, FamilyAssumption
  <2> QED
    BY <1>5, <2>1, Columns
<1>6. ASSUME NEW f \in Families, Expired(f) PROVE CodesRight'
  BY <1>6, Columns
<1>7. (family' = family) => CodesRight'
  OBVIOUS
<1> QED
  BY <1>1, <1>2, <1>3, <1>4, <1>5, <1>6, <1>7 DEF TableStep, Ranked

\* No change of a row removes or demotes who created a family.
LEMMA OwnersKept ==
  ASSUME FamilyTypeOK, OneFamilyPerUser, OwnersRight, TableStep PROVE OwnersRight'
<1> USE DEF OwnersRight, HasOwner, Exists, Founded
<1>0. \A m \in members : m.family \in Families /\ m = Row(m.family, m.user, m.role)
  BY RowFields
<1>1. ASSUME NEW f \in Families, NEW u \in Users, NEW k \in Codes, Created(f, u, k) PROVE OwnersRight'
  <2>1. members' = members \cup {Row(f, u, "owner")} /\ family[f].status = "none"
    BY <1>1 DEF Created
  <2> QED
    BY <1>0, <1>1, <2>1, Columns DEF Row
<1>2. ASSUME NEW f \in Families, NEW u \in Users, Joined(f, u) PROVE OwnersRight'
  <2>1. members' = members \cup {Row(f, u, "member")} /\ family[f].status # "none"
    BY <1>2 DEF Joined
  <2> QED
    BY <1>0, <1>2, <2>1, Columns DEF Row
<1>3. ASSUME NEW m \in members, Gone(m) PROVE OwnersRight'
  <2>1. members' = members \ {m} /\ ~Founded(m.family, m.user)
    BY <1>3 DEF Gone
  <2> QED
    BY <1>0, <1>3, <2>1, Columns DEF Row
<1>4. ASSUME NEW f \in Families, Dissolved(f) PROVE OwnersRight'
  <2>1. members' = {m \in members : m.family # f}
    BY <1>4 DEF Dissolved, MembersOf
  <2> QED
    BY <1>0, <1>4, <2>1, Columns DEF Row
<1>5. ASSUME NEW m \in members, NEW r \in RoleRequests, Ranked(m, r) PROVE OwnersRight'
  <2>1. [m EXCEPT !.role = r] = Row(m.family, m.user, r)
    BY RowFields DEF Row
  <2>2. /\ members' = (members \ {m}) \cup {Row(m.family, m.user, r)}
        /\ family' = family /\ ~Founded(m.family, m.user)
    BY <1>5, <2>1 DEF Ranked
  <2> QED
    BY <1>0, <2>1, <2>2 DEF Row
<1>6. ASSUME NEW f \in Families, NEW k \in Codes, NEW e \in Expiry, Recoded(f, k, e) PROVE OwnersRight'
  <2>1. members' = members
    BY <1>6 DEF Recoded
  <2> QED
    BY <1>0, <1>6, <2>1, Columns DEF Row
<1>7. ASSUME NEW f \in Families, Expired(f) PROVE OwnersRight'
  <2>1. members' = members
    BY <1>7 DEF Expired
  <2> QED
    BY <1>0, <1>7, <2>1, Columns DEF Row
<1>8. CASE UNCHANGED <<family, members>>
  BY <1>8
<1> QED
  BY <1>1, <1>2, <1>3, <1>4, <1>5, <1>6, <1>7, <1>8 DEF TableStep

\* Inserting a row adds one to the count of its family, deleting it takes one
\* away, and other families keep their rows.
LEMMA CountAfterInsert ==
  ASSUME IsFiniteSet(members), NEW f, NEW u, NEW r, RowsOf(u) = {},
         members' = members \cup {Row(f, u, r)}
  PROVE  /\ IsFiniteSet(members')
         /\ \A g : Cardinality(MembersOf(g)') =
                     IF g = f THEN Cardinality(MembersOf(g)) + 1 ELSE Cardinality(MembersOf(g))
<1>1. IsFiniteSet(members') /\ \A g : MembersOf(g) \subseteq members /\ IsFiniteSet(MembersOf(g))
  BY FS_AddElement, FS_Subset DEF MembersOf
<1>2. MembersOf(f)' = MembersOf(f) \cup {Row(f, u, r)} /\ Row(f, u, r) \notin MembersOf(f)
  BY DEF MembersOf, RowsOf, Row
<1>3. \A g : g # f => MembersOf(g)' = MembersOf(g)
  BY DEF MembersOf, Row
<1> QED
  BY <1>1, <1>2, <1>3, FS_AddElement

\* Deleting a row takes one from the members of its family and of no other.
LEMMA CountAfterDelete ==
  ASSUME IsFiniteSet(members), NEW m \in members, members' = members \ {m}
  PROVE  /\ IsFiniteSet(members')
         /\ \A g : Cardinality(MembersOf(g)') =
                     IF g = m.family THEN Cardinality(MembersOf(g)) - 1 ELSE Cardinality(MembersOf(g))
<1>1. IsFiniteSet(members') /\ \A g : MembersOf(g) \subseteq members /\ IsFiniteSet(MembersOf(g))
  BY FS_RemoveElement, FS_Subset DEF MembersOf
<1>2. MembersOf(m.family)' = MembersOf(m.family) \ {m} /\ m \in MembersOf(m.family)
  BY DEF MembersOf
<1>3. \A g : g # m.family => MembersOf(g)' = MembersOf(g)
  BY DEF MembersOf
<1> QED
  BY <1>1, <1>2, <1>3, FS_RemoveElement

\* A new rank takes the place of the old row in the same family.
LEMMA CountAfterRank ==
  ASSUME FamilyTypeOK, OneFamilyPerUser, IsFiniteSet(members), NEW m \in members, NEW r,
         members' = (members \ {m}) \cup {Row(m.family, m.user, r)}
  PROVE  /\ IsFiniteSet(members')
         /\ \A g : Cardinality(MembersOf(g)') = Cardinality(MembersOf(g))
<1> DEFINE new == Row(m.family, m.user, r)
             F == m.family
<1>1. IsFiniteSet(members') /\ \A g : MembersOf(g) \subseteq members /\ IsFiniteSet(MembersOf(g))
  BY FS_AddElement, FS_RemoveElement, FS_Subset DEF MembersOf
<1>2. m \in MembersOf(F) /\ MembersOf(F)' = (MembersOf(F) \ {m}) \cup {new}
  BY DEF MembersOf, Row
<1>3. new \notin MembersOf(F) \ {m}
  BY DEF OneFamilyPerUser, MembersOf, Row
<1>4. IsFiniteSet(MembersOf(F) \ {m}) /\ Cardinality(MembersOf(F) \ {m}) = Cardinality(MembersOf(F)) - 1
  BY <1>1, <1>2, FS_RemoveElement
<1>5. Cardinality(MembersOf(F)) \in Nat
  BY <1>1, FS_CardinalityType
<1>6. Cardinality(MembersOf(F)') = Cardinality(MembersOf(F))
  <2>1. Cardinality((MembersOf(F) \ {m}) \cup {new}) = Cardinality(MembersOf(F) \ {m}) + 1
    <3> HIDE DEF new, F
    <3> QED
      BY <1>3, <1>4, FS_AddElement
  <2> QED
    BY <1>2, <1>4, <1>5, <2>1
<1>7. \A g : g # F => MembersOf(g)' = MembersOf(g)
  BY DEF MembersOf, Row
<1> QED
  BY <1>1, <1>6, <1>7

\* Every change of the rows of a family changes its counter by as much.
LEMMA CountsKept ==
  ASSUME FamilyTypeOK, OneFamilyPerUser, OwnersRight, CountsRight, TableStep PROVE CountsRight'
<1> USE DEF CountsRight, MemberCountAgrees
<1>0. /\ MaxMembers \in Nat \ {0}
      /\ \A m \in members : m.family \in Families
      /\ \A f \in Families : family[f].memberCount \in Nat
  BY RowFields, FamilyAssumption DEF FamilyAssumption, FamilyTypeOK, FamilyRows
<1>1. ASSUME NEW f \in Families, NEW u \in Users, NEW k \in Codes, Created(f, u, k) PROVE CountsRight'
  <2>1. members' = members \cup {Row(f, u, "owner")} /\ RowsOf(u) = {} /\ MembersOf(f) = {}
    BY <1>1 DEF Created, OwnersRight, MembersOf, Exists
  <2>2. /\ IsFiniteSet(members')
        /\ \A g : Cardinality(MembersOf(g)') = IF g = f THEN Cardinality(MembersOf(g)) + 1
                                                        ELSE Cardinality(MembersOf(g))
    BY <2>1, CountAfterInsert
  <2>3. Cardinality(MembersOf(f)') = 1
    BY <2>1, <2>2, FS_EmptySet
  <2> QED
    BY <1>0, <1>1, <2>2, <2>3, Columns
<1>2. ASSUME NEW f \in Families, NEW u \in Users, Joined(f, u) PROVE CountsRight'
  <2>1. /\ members' = members \cup {Row(f, u, "member")} /\ RowsOf(u) = {}
        /\ family[f].memberCount < MaxMembers
    BY <1>2 DEF Joined
  <2>2. /\ IsFiniteSet(members')
        /\ \A g : Cardinality(MembersOf(g)') = IF g = f THEN Cardinality(MembersOf(g)) + 1
                                                        ELSE Cardinality(MembersOf(g))
    BY <2>1, CountAfterInsert
  <2> QED
    BY <1>0, <1>2, <2>1, <2>2, Columns
<1>3. ASSUME NEW m \in members, Gone(m) PROVE CountsRight'
  <2>1. members' = members \ {m}
    BY <1>3 DEF Gone
  <2>2. /\ IsFiniteSet(members')
        /\ \A g : Cardinality(MembersOf(g)') = IF g = m.family THEN Cardinality(MembersOf(g)) - 1
                                                               ELSE Cardinality(MembersOf(g))
    BY <2>1, CountAfterDelete
  <2> QED
    BY <1>0, <1>3, <2>2, Columns
<1>4. ASSUME NEW f \in Families, Dissolved(f) PROVE CountsRight'
  <2>1. members' = members \ MembersOf(f)
    BY <1>4 DEF Dissolved
  <2>2. IsFiniteSet(members')
    BY <2>1, FS_Subset
  <2>3. Cardinality(MembersOf(f)') = 0 /\ \A g : g # f => MembersOf(g)' = MembersOf(g)
    BY <2>1, FS_EmptySet DEF MembersOf
  <2> QED
    BY <1>0, <1>4, <2>2, <2>3, Columns
<1>5. ASSUME NEW m \in members, NEW r \in RoleRequests, Ranked(m, r) PROVE CountsRight'
  <2>1. [m EXCEPT !.role = r] = Row(m.family, m.user, r)
    BY RowFields DEF Row
  <2>2. family' = family /\ members' = (members \ {m}) \cup {Row(m.family, m.user, r)}
    BY <1>5, <2>1 DEF Ranked
  <2> QED
    BY <2>2, CountAfterRank
<1>6. ASSUME NEW f \in Families, NEW k \in Codes, NEW e \in Expiry, Recoded(f, k, e) PROVE CountsRight'
  <2>1. members' = members
    BY <1>6 DEF Recoded
  <2> QED
    BY <1>6, <2>1, Columns DEF MembersOf
<1>7. ASSUME NEW f \in Families, Expired(f) PROVE CountsRight'
  <2>1. members' = members
    BY <1>7 DEF Expired
  <2> QED
    BY <1>7, <2>1, Columns DEF MembersOf
<1>8. CASE UNCHANGED <<family, members>>
  BY <1>8 DEF MembersOf
<1> QED
  BY <1>1, <1>2, <1>3, <1>4, <1>5, <1>6, <1>7, <1>8 DEF TableStep

\* A step of one call leaves the others where they are.
LEMMA OneCallMoves ==
  ASSUME FamilyTypeOK, NEW c \in Calls, Arrive(c) \/ CallEnds(c) \/ Query(c) \/ Commit(c)
  PROVE  \A d \in Calls : d # c => calls'[d] = calls[d]
BY DEF FamilyTypeOK, Arrive, Ask, CallEnds, Query, Commit, Answer, FindNoFamily, DrawCode,
       FindByCode, FindOwnFamily, CheckOperator, CheckFamily, CheckTarget,
       CreateFamilyWithOwner, JoinFamily, DeleteMember, DissolveFamily, UpdateMember,
       ResetInviteCode

\* The facts of a call that does not move stay true whatever the others do.
LEMMA RestingCall ==
  ASSUME FamilyTypeOK, TableStep, NEW c \in Calls, InFlight(c), calls'[c] = calls[c]
  PROVE  InFlight(c)'
BY StepsLast, CallFields DEF InFlight, Lasting, Founded

\* What the steps of a call do to its record, column by column.
Moved(c, at, f, t, k, rank) ==
  /\ calls'[c] # Idle /\ calls'[c].op = calls[c].op /\ calls'[c].user = calls[c].user
  /\ calls'[c].role = calls[c].role /\ calls'[c].at = at /\ calls'[c].family = f
  /\ calls'[c].target = t /\ calls'[c].code = k /\ calls'[c].rank = rank
  /\ calls' \in [Calls -> CallStates \cup {Idle}]

\* What a call that moves on has become.
LEMMA MovedFields ==
  ASSUME FamilyTypeOK, NEW c \in Calls, calls[c] # Idle,
         NEW at \in {"target", "family", "code", "commit"},
         NEW f \in Families \cup {None}, NEW t \in Users \cup {None},
         NEW k \in Codes \cup {None}, NEW rank \in Roles \cup {None},
         calls' = [calls EXCEPT ![c] = [calls[c] EXCEPT !.at = at, !.family = f, !.target = t,
                                                        !.code = k, !.rank = rank]]
  PROVE  Moved(c, at, f, t, k, rank)
<1>1. calls[c] \in CallStates
  BY DEF FamilyTypeOK
<1>2. [calls[c] EXCEPT !.at = at, !.family = f, !.target = t, !.code = k, !.rank = rank] \in CallStates
  BY <1>1 DEF CallStates
<1>3. \A x \in CallStates : x # Idle
  BY DEF CallStates, Idle
<1> QED
  BY <1>1, <1>2, <1>3 DEF Moved, FamilyTypeOK, CallStates

\* A query makes true what its call will rely on.
LEMMA QueryKept ==
  ASSUME IInv, NEW c \in Calls, Query(c)
  PROVE  calls' \in [Calls -> CallStates \cup {Idle}] /\ InFlight(c)'
<1> USE DEF IInv
<1> DEFINE call == calls[c]
<1>0. UNCHANGED <<family, members>> /\ call # Idle
  BY DEF Query, ReadOnly, Doing, FindNoFamily, DrawCode, FindByCode, FindOwnFamily,
         CheckOperator, CheckFamily, CheckTarget
<1>1. /\ call \in CallStates /\ call.op \in Operations /\ call.user \in Users
      /\ call.family \in Families \cup {None} /\ call.target \in Users \cup {None}
      /\ call.code \in Codes \cup {None} /\ call.rank \in Roles \cup {None}
  BY <1>0, CallFields DEF FamilyTypeOK
<1>2. \A f, t : Founded(f, t)' <=> Founded(f, t)
  BY <1>0 DEF Founded
<1>3. \A f : Exists(f)' <=> Exists(f)
  BY <1>0 DEF Exists
<1>4. InFlight(c)
  OBVIOUS
<1>5. CASE FindNoFamily(c)
  <2>1. Moved(c, "code", call.family, call.target, call.code, call.rank)
    BY <1>0, <1>1, <1>5, MovedFields DEF FindNoFamily, CallStates, FamilyTypeOK
  <2>2. call.op \in {"create", "join"}
    BY <1>5 DEF FindNoFamily, Doing
  <2> QED
    BY <2>1, <2>2 DEF Moved, InFlight
<1>6. CASE DrawCode(c)
  <2>1. PICK k \in Codes : calls' = [calls EXCEPT ![c].code = k, ![c].at = "commit"]
    BY <1>6 DEF DrawCode
  <2>2. Moved(c, "commit", call.family, call.target, k, call.rank)
    BY <1>0, <1>1, <2>1, MovedFields DEF CallStates, FamilyTypeOK
  <2>3. call.op = "create" \/ (call.op = "reset" /\ call.at = "code")
    BY <1>6 DEF DrawCode, Doing
  <2> QED
    BY <1>0, <1>2, <1>3, <1>4, <2>2, <2>3 DEF Moved, InFlight
<1>7. CASE FindByCode(c)
  <2>1. PICK f \in Families : /\ family[f].status = "normal"
                              /\ calls' = [calls EXCEPT ![c].family = f, ![c].at = "commit"]
    BY <1>7 DEF FindByCode
  <2>2. Moved(c, "commit", f, call.target, call.code, call.rank)
    BY <1>0, <1>1, <2>1, MovedFields DEF CallStates, FamilyTypeOK
  <2>3. call.op = "join" /\ Exists(f)
    BY <1>7, <2>1 DEF FindByCode, Doing, Exists
  <2> QED
    BY <1>0, <1>2, <1>3, <1>4, <2>2, <2>3 DEF Moved, InFlight
<1>8. CASE FindOwnFamily(c)
  <2>1. PICK m \in members : /\ m.role # "owner"
                             /\ calls' = [calls EXCEPT ![c].family = m.family,
                                            ![c].target = m.user, ![c].at = "commit"]
    BY <1>8 DEF FindOwnFamily, RowsOf
  <2>2. m.family \in Families /\ m.user \in Users /\ Exists(m.family) /\ m = Row(m.family, m.user, m.role)
    BY RowFields DEF OwnersRight
  <2>3. Moved(c, "commit", m.family, m.user, call.code, call.rank)
    BY <1>0, <1>1, <2>1, <2>2, MovedFields DEF CallStates, FamilyTypeOK
  <2>4. ~Founded(m.family, m.user)
    BY <2>1, <2>2 DEF Founded, OwnersRight, HasOwner, OneFamilyPerUser, Row
  <2>5. call.op = "leave"
    BY <1>8 DEF FindOwnFamily, Doing
  <2> QED
    BY <1>0, <1>2, <1>3, <1>4, <2>2, <2>3, <2>4, <2>5 DEF Moved, InFlight
<1>9. CASE CheckOperator(c)
  <2>1. PICK m \in members :
          /\ m.family = call.family /\ m.user = call.user
          /\ calls' = [calls EXCEPT ![c].rank = m.role,
                         ![c].at = IF call.op \in {"dissolve", "reset"} THEN "family" ELSE "target"]
    BY <1>9 DEF CheckOperator, RowsIn, MembersOf
  <2>2. m.family \in Families /\ m.role \in Roles
    BY RowFields
  <2>3. PICK at \in {"family", "target"} : calls' = [calls EXCEPT ![c].rank = m.role, ![c].at = at]
    BY <2>1
  <2>4. Moved(c, at, call.family, call.target, call.code, m.role)
    <3>1. calls' = [calls EXCEPT ![c] = [call EXCEPT !.rank = m.role, !.at = at]]
      BY <2>3 DEF FamilyTypeOK
    <3>2. [call EXCEPT !.rank = m.role, !.at = at]
            = [call EXCEPT !.at = at, !.family = call.family, !.target = call.target,
                           !.code = call.code, !.rank = m.role]
      BY <1>1 DEF CallStates
    <3>3. calls' = [calls EXCEPT ![c] =
                      [call EXCEPT !.at = at, !.family = call.family, !.target = call.target,
                                   !.code = call.code, !.rank = m.role]]
      BY <3>1, <3>2, Zenon
    <3>4. at \in {"target", "family", "code", "commit"} /\ m.role \in Roles \cup {None}
      BY <2>2
    <3> QED
      BY <1>0, <1>1, <3>3, <3>4, MovedFields
  <2>5. call.op \in {"dissolve", "reset", "update", "remove"}
    BY <1>9 DEF CheckOperator, Doing
  <2> QED
    BY <1>0, <1>2, <1>3, <1>4, <2>3, <2>4, <2>5 DEF Moved, InFlight
<1>10. CASE CheckFamily(c)
  <2>1. /\ call.op \in {"dissolve", "reset"} /\ Exists(call.family)
        /\ calls' = [calls EXCEPT ![c].at = IF call.op = "reset" THEN "code" ELSE "commit"]
    BY <1>10 DEF CheckFamily, Doing, Exists
  <2>2. Moved(c, IF call.op = "reset" THEN "code" ELSE "commit",
              call.family, call.target, call.code, call.rank)
    BY <1>0, <1>1, <2>1, MovedFields DEF CallStates, FamilyTypeOK
  <2> QED
    BY <1>0, <1>2, <1>3, <1>4, <2>1, <2>2 DEF Moved, InFlight
<1>11. CASE CheckTarget(c)
  <2>1. PICK m \in members :
          /\ m.family = call.family /\ m.user = call.target /\ m.role # "owner"
          /\ call.at = "target" /\ call.op \in {"update", "remove"}
          /\ call.op = "update" => call.rank = "owner"
          /\ calls' = [calls EXCEPT ![c].at = "commit"]
    BY <1>11 DEF CheckTarget, RowsIn, MembersOf, Doing
  <2>2. Exists(call.family) /\ m.family \in Families /\ m = Row(m.family, m.user, m.role)
    BY <2>1, RowFields DEF OwnersRight
  <2>3. Moved(c, "commit", call.family, call.target, call.code, call.rank)
    BY <1>0, <1>1, <2>1, MovedFields DEF CallStates, FamilyTypeOK
  <2>4. ~Founded(call.family, call.target)
    BY <2>1, <2>2 DEF Founded, OwnersRight, HasOwner, OneFamilyPerUser, Row
  <2> QED
    BY <1>0, <1>2, <1>3, <1>4, <2>1, <2>2, <2>3, <2>4 DEF Moved, InFlight
<1> QED
  BY <1>5, <1>6, <1>7, <1>8, <1>9, <1>10, <1>11 DEF Query

\* A call that arrives has read nothing yet, and one that has ended relies on
\* nothing.
LEMMA ArrivalKept ==
  ASSUME IInv, NEW c \in Calls, Arrive(c)
  PROVE  calls' \in [Calls -> CallStates \cup {Idle}] /\ InFlight(c)'
<1> DEFINE Goal == calls' \in [Calls -> CallStates \cup {Idle}] /\ InFlight(c)'
<1> USE DEF IInv
<1>1. ASSUME NEW op \in Operations, NEW u \in Users, NEW f \in Families \cup {None},
             NEW t \in Users \cup {None}, NEW k \in Codes \cup {None},
             NEW r \in RoleRequests \cup {None}, Ask(c, op, u, f, t, k, r),
             op = "update" => r \in RoleRequests,
             op \in {"dissolve", "update", "remove", "reset"} => f \in Families
      PROVE  Goal
  <2> DEFINE asked == [op |-> op, at |-> "member", user |-> u, family |-> f, target |-> t,
                       code |-> k, role |-> r, rank |-> None]
  <2>1. asked \in CallStates
    BY DEF CallStates
  <2>2. calls' = [calls EXCEPT ![c] = asked] /\ calls \in [Calls -> CallStates \cup {Idle}]
    BY <1>1 DEF Ask, FamilyTypeOK
  <2>3. calls'[c] = asked /\ calls' \in [Calls -> CallStates \cup {Idle}]
    <3> HIDE DEF asked
    <3> QED
      BY <2>1, <2>2
  <2>4. /\ calls'[c].op = op /\ calls'[c].at = "member" /\ calls'[c].role = r
        /\ calls'[c].family = f
    BY <2>3
  <2> QED
    BY <1>1, <2>3, <2>4 DEF InFlight
<1> HIDE DEF Goal
<1>2. PICK u \in Users :
        \/ \E op \in {"create", "leave"} : Ask(c, op, u, None, None, None, None)
        \/ \E k \in Codes : Ask(c, "join", u, None, None, k, None)
        \/ \E f \in Families, op \in {"dissolve", "reset"} : Ask(c, op, u, f, None, None, None)
        \/ \E f \in Families, t \in Users : Ask(c, "remove", u, f, t, None, None)
        \/ \E f \in Families, t \in Users, r \in RoleRequests : Ask(c, "update", u, f, t, None, r)
  BY DEF Arrive
<1>3. Goal
  BY <1>1, <1>2 DEF Operations
<1> QED
  BY <1>3 DEF Goal

\* A call that ends leaves nothing in flight.
LEMMA EndKept ==
  ASSUME FamilyTypeOK, NEW c \in Calls, CallEnds(c) \/ Commit(c)
  PROVE  calls' \in [Calls -> CallStates \cup {Idle}] /\ InFlight(c)'
<1>1. Answer(c)
  BY DEF CallEnds, Commit, CreateFamilyWithOwner, JoinFamily, DeleteMember, DissolveFamily,
         UpdateMember, ResetInviteCode
<1> QED
  BY <1>1 DEF Answer, FamilyTypeOK, InFlight

\* The invariant is inductive.
LEMMA Inductive == ASSUME IInv, [Next]_vars PROVE IInv'
<1> USE DEF IInv
<1>1. TableStep
  BY OnlyTableSteps
<1>2. family' \in [Families -> FamilyRows] /\ members' \subseteq MemberRows
  BY <1>1, RowTypesKept
<1>3. OneFamilyPerUser' /\ CountsRight' /\ OwnersRight' /\ CodesRight'
  BY <1>1, OneFamilyKept, CountsKept, OwnersKept, CodesKept
<1>4. calls' \in [Calls -> CallStates \cup {Idle}] /\ \A c \in Calls : InFlight(c)'
  <2>1. CASE calls' = calls
    BY <1>1, <2>1, RestingCall DEF FamilyTypeOK
  <2>2. ASSUME NEW c \in Calls, Arrive(c) \/ CallEnds(c) \/ Query(c) \/ Commit(c)
        PROVE  calls' \in [Calls -> CallStates \cup {Idle}] /\ \A d \in Calls : InFlight(d)'
    <3>1. calls' \in [Calls -> CallStates \cup {Idle}] /\ InFlight(c)'
      BY <2>2, ArrivalKept, EndKept, QueryKept
    <3>2. ASSUME NEW d \in Calls, d # c PROVE InFlight(d)'
      BY <1>1, <2>2, <3>2, OneCallMoves, RestingCall
    <3> QED
      BY <3>1, <3>2
  <2> QED
    BY <2>1, <2>2 DEF Next, vars, CodeExpires
<1> QED
  BY <1>2, <1>3, <1>4 DEF FamilyTypeOK

\* The inductive invariant.
LEMMA AlwaysIInv == Spec => []IInv
BY InitHolds, Inductive, PTL DEF Spec

---------------------------------------------------------------------------
(* The theorems. *)

(* The tables keep their types: member_count is never taken below zero, and *)
(* every member row is that of a family and a user that there are.         *)
THEOREM FamilyTypes == Spec => []FamilyTypeOK
BY AlwaysIInv, PTL DEF IInv

(* member_count is the number of members at all times, for any number of   *)
(* calls between whose queries and transactions others commit.             *)
THEOREM CountsAgree == Spec => []MemberCountAgrees
<1>1. IInv => MemberCountAgrees
  BY DEF IInv, CountsRight
<1> QED
  BY <1>1, AlwaysIInv, PTL

(* No family ever has more members than max_member_count.                  *)
THEOREM LimitKept == Spec => []WithinLimit
<1>1. IInv => WithinLimit
  BY DEF IInv, CountsRight, MemberCountAgrees, WithinLimit
<1> QED
  BY <1>1, AlwaysIInv, PTL

(* A user never has two rows.                                              *)
THEOREM SingleFamily == Spec => []OneFamilyPerUser
<1>1. IInv => OneFamilyPerUser
  BY DEF IInv
<1> QED
  BY <1>1, AlwaysIInv, PTL

(* Who created a family is an owner of it until it is dissolved, whichever *)
(* roles are asked for: every call that removes or demotes a member        *)
(* settled that its target is not that user, and this stays so.            *)
THEOREM FounderStays == Spec => []FounderOwns
<1>1. IInv => FounderOwns
  BY DEF IInv, OwnersRight, HasOwner, FounderOwns
<1> QED
  BY <1>1, AlwaysIInv, PTL

(* Two families never have the same invite code.                           *)
THEOREM UniqueCodes == Spec => []CodesAreUnique
<1>1. IInv => CodesAreUnique
  BY DEF IInv, CodesRight
<1> QED
  BY <1>1, AlwaysIInv, PTL

\* A step that changes a role is UpdateMember: the others delete rows, or
\* insert one for a user without any.
LEMMA RolesLast ==
  ASSUME IInv, [Next]_vars, \A c \in Calls : ~UpdateMember(c),
         NEW m1 \in members, NEW m2 \in members', m1.user = m2.user
  PROVE  m1 = m2
<1>1. \/ members' \subseteq members
      \/ \E f, u, r : members' = members \cup {Row(f, u, r)} /\ RowsOf(u) = {}
  <2>1. CASE UNCHANGED vars
    BY <2>1 DEF vars
  <2>2. ASSUME NEW f \in Families, CodeExpires(f) PROVE members' = members
    BY <2>2 DEF CodeExpires
  <2>3. ASSUME NEW c \in Calls, Arrive(c) \/ CallEnds(c) \/ Query(c) PROVE members' = members
    BY <2>3 DEF Arrive, CallEnds, Query, ReadOnly, FindNoFamily, DrawCode, FindByCode,
                FindOwnFamily, CheckOperator, CheckFamily, CheckTarget
  <2>4. ASSUME NEW c \in Calls, DeleteMember(c) \/ DissolveFamily(c) \/ ResetInviteCode(c)
        PROVE  members' \subseteq members
    BY <2>4 DEF DeleteMember, DissolveFamily, ResetInviteCode
  <2>5. ASSUME NEW c \in Calls, CreateFamilyWithOwner(c) \/ JoinFamily(c)
        PROVE  \E f, u, r : members' = members \cup {Row(f, u, r)} /\ RowsOf(u) = {}
    BY <2>5 DEF CreateFamilyWithOwner, JoinFamily
  <2> QED
    BY <2>1, <2>2, <2>3, <2>4, <2>5 DEF Next, Commit
<1>2. CASE members' \subseteq members
  BY <1>2 DEF IInv, OneFamilyPerUser
<1>3. ASSUME NEW f, NEW u, NEW r, members' = members \cup {Row(f, u, r)}, RowsOf(u) = {}
      PROVE  m1 = m2
  BY <1>3 DEF IInv, OneFamilyPerUser, RowsOf, Row
<1> QED
  BY <1>1, <1>2, <1>3

\* The caller of UpdateMember was an owner when it was asked for; the one who
\* created the family still is, unless the family has gone.
LEMMA UpdaterIsOwner ==
  ASSUME IInv, NEW c \in Calls, UpdateMember(c),
         NEW m1 \in members, NEW m2 \in members', m1.user = m2.user, m1.role # m2.role
  PROVE  \/ family[m1.family].status = "dissolved"
         \/ Row(m1.family, calls[c].user, "owner") \in members
         \/ calls[c].rank = "owner" /\ calls[c].user # family[m1.family].owner
<1> USE DEF IInv
<1> DEFINE f == calls[c].family
           u == calls[c].user
<1>1. f \in Families /\ Exists(f) /\ calls[c].rank = "owner"
  BY DEF UpdateMember, Doing, InFlight
<1>2. PICK m \in RowsIn(f, calls[c].target) : TRUE
  BY DEF UpdateMember
<1>3. RowsIn(f, calls[c].target) = {m} /\ m \in members /\ m.family = f
  BY <1>2, OnlyRow
<1>4. members' = (members \ {m}) \cup {[m EXCEPT !.role = calls[c].role]}
  BY <1>3 DEF UpdateMember
<1>5. [m EXCEPT !.role = calls[c].role].user = m.user
  BY <1>3, RowFields DEF Row
<1>6. m1 = m
  BY <1>3, <1>4, <1>5 DEF OneFamilyPerUser
<1>7. family[f].status \in Status
  BY <1>1 DEF FamilyTypeOK, FamilyRows
<1> QED
  BY <1>1, <1>3, <1>6, <1>7 DEF OwnersRight, HasOwner, Exists, Status

(* Only an owner changes roles, for any number of users and of calls under *)
(* way and whichever roles are asked for; from who created the family      *)
(* nothing takes the ownership between check and write, from another owner *)
(* a demotion may.                                                         *)
THEOREM OwnerRanks == Spec => OnlyOwnerChangesRoles
<1> DEFINE Caller(m) == \E c \in Calls :
                          /\ calls[c] # Idle
                          /\ calls'[c] = Idle
                          /\ \/ Row(m.family, calls[c].user, "owner") \in members
                             \/ calls[c].rank = "owner" /\ calls[c].user # family[m.family].owner
<1>1. ASSUME IInv, [Next]_vars, NEW m1 \in members, NEW m2 \in members',
             m1.user = m2.user, m1.role # m2.role
      PROVE  family[m1.family].status = "dissolved" \/ Caller(m1)
  <2>1. PICK c \in Calls : UpdateMember(c)
    BY <1>1, RolesLast
  <2>2. calls[c] # Idle /\ calls'[c] = Idle
    BY <1>1, <2>1 DEF UpdateMember, Doing, Answer, IInv, FamilyTypeOK
  <2> QED
    BY <1>1, <2>1, <2>2, UpdaterIsOwner
<1>2. IInv /\ [Next]_vars =>
        [\A m1 \in members, m2 \in members' :
           m1.family = m2.family /\ m1.user = m2.user /\ m1.role # m2.role =>
             \/ family[m1.family].status = "dissolved"
             \/ \E c \in Calls :
                  /\ calls[c] # Idle
                  /\ calls'[c] = Idle
                  /\ \/ Row(m1.family, calls[c].user, "owner") \in members
                     \/ calls[c].rank = "owner" /\ calls[c].user # family[m1.family].owner]_vars
  BY <1>1
<1> QED
  BY <1>2, AlwaysIInv, PTL DEF Spec, OnlyOwnerChangesRoles

\* What the tables do in one step is one step of FamilyLife, or nothing.
LEMMA TableStepIsOne == ASSUME IInv, TableStep PROVE [Life!Next]_Life!vars
<1> DEFINE life == [f \in Families |-> family[f].status]
           founder == [f \in Families |-> family[f].owner]
<1> USE DEF IInv
<1>0. \A m \in members : ~Founded(m.family, m.user) => ~Life!Founds(m)
  BY RowFields DEF Founded, Life!Founds
<1>1. ASSUME NEW f \in Families, NEW u \in Users, NEW k \in Codes, Created(f, u, k)
      PROVE  Life!Next
  <2>1. life[f] = "none" /\ Life!Alone(u)
    BY <1>1 DEF Created, Exists, RowsOf, Life!Alone
  <2>2. life' = [life EXCEPT ![f] = "normal"]
    <3>1. \A g \in Families : family'[g].status = IF g = f THEN "normal" ELSE family[g].status
      BY <1>1, Columns
    <3> QED
      BY <3>1
  <2>3. members' = members \cup {Life!As(f, u, "owner")}
    BY <1>1 DEF Created, Row, Life!As
  <2>4. founder' = [founder EXCEPT ![f] = u]
    <3>1. \A g \in Families : family'[g].owner = IF g = f THEN u ELSE family[g].owner
      BY <1>1, Columns
    <3> QED
      BY <3>1
  <2>5. Life!Found(u, f)
    BY <2>1, <2>2, <2>3, <2>4 DEF Life!Found
  <2> QED
    BY <2>5 DEF Life!Next
<1>2. ASSUME NEW f \in Families, NEW u \in Users, Joined(f, u)
      PROVE  Life!Next
  <2>1. life[f] # "none" /\ Life!Alone(u)
    BY <1>2 DEF Joined, Exists, RowsOf, Life!Alone
  <2>2. Life!Cardinality(Life!At(f)) < MaxMembers
    <3>1. Cardinality(MembersOf(f)) < MaxMembers
      BY <1>2 DEF Joined, CountsRight, MemberCountAgrees
    <3>2. MembersOf(f) = Life!At(f)
      BY DEF MembersOf, Life!At
    <3>3. Life!Cardinality(MembersOf(f)) = Cardinality(MembersOf(f))
      BY DEF Cardinality, Life!Cardinality
    <3> QED
      BY <3>1, <3>2, <3>3
  <2>3. life' = life /\ founder' = founder
    BY <1>2, Columns
  <2>4. members' = members \cup {Life!As(f, u, "member")}
    BY <1>2 DEF Joined, Row, Life!As
  <2>5. Life!Join(u, f)
    BY <2>1, <2>2, <2>3, <2>4 DEF Life!Join
  <2> QED
    BY <2>5 DEF Life!Next
<1>3. ASSUME NEW m \in members, Gone(m)
      PROVE  Life!Next
  <2>1. life' = life /\ founder' = founder
    BY <1>3, Columns
  <2>2. Life!Go(m)
    BY <1>0, <1>3, <2>1 DEF Gone, Life!Go
  <2> QED
    BY <2>2 DEF Life!Next
<1>4. ASSUME NEW f \in Families, Dissolved(f)
      PROVE  Life!Next
  <2>1. life[f] # "none" /\ members' = members \ Life!At(f)
    BY <1>4 DEF Dissolved, Exists, MembersOf, Life!At
  <2>2. life' = [life EXCEPT ![f] = "dissolved"]
    <3>1. \A g \in Families : family'[g].status = IF g = f THEN "dissolved" ELSE family[g].status
      BY <1>4, Columns
    <3> QED
      BY <3>1
  <2>3. founder' = founder
    BY <1>4, Columns
  <2>4. Life!Dissolve(f)
    BY <2>1, <2>2, <2>3 DEF Life!Dissolve
  <2> QED
    BY <2>4 DEF Life!Next
<1>5. ASSUME NEW m \in members, NEW r \in RoleRequests, Ranked(m, r)
      PROVE  Life!Next
  <2>1. life' = life /\ founder' = founder
    BY <1>5 DEF Ranked
  <2>2. [m EXCEPT !.role = r] = Life!As(m.family, m.user, r)
    BY RowFields DEF Row, Life!As
  <2>3. Life!Promote(m, r)
    BY <1>0, <1>5, <2>1, <2>2 DEF Ranked, Life!Promote
  <2>4. r \in {"owner", "admin", "member", "other"}
    BY FamilyAssumption DEF FamilyAssumption, Roles
  <2> QED
    BY <2>3, <2>4 DEF Life!Next
<1>6. ASSUME \/ \E f \in Families, k \in Codes, e \in Expiry : Recoded(f, k, e)
             \/ \E f \in Families : Expired(f)
             \/ UNCHANGED <<family, members>>
      PROVE  UNCHANGED Life!vars
  <2>1. members' = members
    BY <1>6 DEF Recoded, Expired
  <2>2. life' = life /\ founder' = founder
    BY <1>6, Columns
  <2> QED
    BY <2>1, <2>2 DEF Life!vars
<1> QED
  BY <1>1, <1>2, <1>3, <1>4, <1>5, <1>6 DEF TableStep

(* However old what a call has read may be, its transaction is one step of *)
(* FamilyLife: nobody changes family without leaving, comes where there is *)
(* no room, or is left behind by a dissolution.                            *)
THEOREM CallsAreSteps == Spec => CallsSeemAtomic
<1>1. Init => Life!Init
  BY DEF Init, Life!Init, Unused
<1>2. IInv /\ [Next]_vars => [Life!Next]_Life!vars
  BY OnlyTableSteps, TableStepIsOne
<1> QED
  BY <1>1, <1>2, AlwaysIInv, PTL DEF Spec, CallsSeemAtomic, Life!Spec
=============================================================================
