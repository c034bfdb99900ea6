-------------------------- MODULE FamilyMembership --------------------------
(***************************************************************************)
(* Families and their members: the rows of families and family_members,    *)
(* and the calls of FamilyService that change them.                        *)
(*                                                                         *)
(* A call reads what it needs with single queries, decides, and then       *)
(* writes in one transaction that repeats few of the checks.  Other calls  *)
(* run between any two of its queries.  The transactions take row locks    *)
(* before they write and hold them to the end, so each is one action.      *)
(***************************************************************************)
EXTENDS Naturals, FiniteSets

CONSTANTS
  Users,
  Families,      \* ids that the families table can still hand out
  Codes,         \* invite codes
  Calls,         \* bound: calls under way at the same time
  MaxMembers,    \* max_member_count, 20 for every family
  RoleRequests,  \* roles that UpdateMember is asked for
  None           \* no such value in a call or a row

(* A request can set any positive number for a role, of which eight bits    *)
(* are kept: "other" is none of the three that the services know.          *)
Roles == {"owner", "admin", "member", "other"}

ASSUME FamilyAssumption ==
  /\ MaxMembers \in Nat \ {0}
  /\ RoleRequests \subseteq Roles
  /\ None \notin Users \cup Families \cup Codes

VARIABLES
  family,   \* the rows of families
  members,  \* the rows of family_members
  calls     \* the calls under way: what each was asked and what it has read

vars == <<family, members, calls>>

Status == {"none", "normal", "dissolved"}
Expiry == {"never", "ahead", "past"}
Operations == {"create", "join", "leave", "dissolve", "update", "remove", "reset"}

FamilyRows == [status : Status, owner : Users \cup {None}, memberCount : Nat,
               code : Codes \cup {None}, expiry : Expiry]
MemberRows == [family : Families, user : Users, role : Roles]

(* at is the next query of the call; rank is the caller's role as it was read. *)
CallStates == [op : Operations, at : {"member", "target", "family", "code", "commit"},
               user : Users, family : Families \cup {None}, target : Users \cup {None},
               code : Codes \cup {None}, role : RoleRequests \cup {None},
               rank : Roles \cup {None}]
Idle == [op |-> "idle"]

Unused == [status |-> "none", owner |-> None, memberCount |-> 0,
           code |-> None, expiry |-> "never"]

Init ==
  /\ family  = [f \in Families |-> Unused]
  /\ members = {}
  /\ calls   = [c \in Calls |-> Idle]

MembersOf(f)    == {m \in members : m.family = f}
RowsOf(u)       == {m \in members : m.user = u}
RowsIn(f, u)    == {m \in MembersOf(f) : m.user = u}
CanManage(role) == role \in {"owner", "admin"}
CanRemove(rank, role) == rank = "owner" \/ (rank = "admin" /\ role = "member")

(* uk_invite_code: no other family, dissolved or not, has the code. *)
CodeFree(k, f) == \A g \in Families \ {f} : family[g].code # k

Doing(c, ops, at) == calls[c] # Idle /\ calls[c].op \in ops /\ calls[c].at = at
Answer(c)         == calls' = [calls EXCEPT ![c] = Idle]
ReadOnly          == UNCHANGED <<family, members>>

---------------------------------------------------------------------------
(* A request of a signed-in user.  The application knows ids of families   *)
(* and users that may be out of date, so any are possible.                 *)

Ask(c, op, u, f, t, k, r) ==
  calls' = [calls EXCEPT ![c] =
              [op |-> op, at |-> "member", user |-> u, family |-> f, target |-> t,
               code |-> k, role |-> r, rank |-> None]]

Arrive(c) ==
  /\ calls[c] = Idle
  /\ \E u \in Users :
       \/ \E op \in {"create", "leave"} : Ask(c, op, u, None, None, None, None)
       \/ \E k \in Codes : Ask(c, "join", u, None, None, k, None)
       \/ \E f \in Families, op \in {"dissolve", "reset"} : Ask(c, op, u, f, None, None, None)
       \/ \E f \in Families, t \in Users : Ask(c, "remove", u, f, t, None, None)
       \/ \E f \in Families, t \in Users, r \in RoleRequests : Ask(c, "update", u, f, t, None, r)
  /\ ReadOnly

(* A check refuses the call, a query fails, a transaction is rolled back,  *)
(* the gateway's five seconds are over, or the service stops.              *)
CallEnds(c) ==
  /\ calls[c] # Idle
  /\ Answer(c)
  /\ ReadOnly

---------------------------------------------------------------------------
(* The queries before the transaction. *)

(* CreateFamily and JoinFamily: the user has no family yet. *)
FindNoFamily(c) ==
  /\ Doing(c, {"create", "join"}, "member")
  /\ RowsOf(calls[c].user) = {}
  /\ calls' = [calls EXCEPT ![c].at = "code"]
  /\ ReadOnly

(* generateUniqueInviteCode: no normal family has the code drawn. *)
DrawCode(c) ==
  /\ Doing(c, {"create", "reset"}, "code")
  /\ \E k \in Codes :
       /\ \A f \in Families : family[f].code = k => family[f].status # "normal"
       /\ calls' = [calls EXCEPT ![c].code = k, ![c].at = "commit"]
  /\ ReadOnly

(* JoinFamily: the code belongs to a normal family with room. *)
FindByCode(c) ==
  /\ Doing(c, {"join"}, "code")
  /\ \E f \in Families :
       /\ family[f].code = calls[c].code
       /\ family[f].status = "normal"
       /\ family[f].expiry # "past"
       /\ family[f].memberCount < MaxMembers
       /\ calls' = [calls EXCEPT ![c].family = f, ![c].at = "commit"]
  /\ ReadOnly

\* Mutation: the ids of family and user are swapped.
FindOwnFamily_SwappedIds(c) ==
  /\ Doing(c, {"leave"}, "member")
  /\ \E m \in RowsOf(calls[c].user) :
       /\ m.role # "owner"
       /\ calls' = [calls EXCEPT ![c].family = m.user, ![c].target = m.family,
                                 ![c].at = "commit"]
  /\ ReadOnly

(* LeaveFamily: any member may leave but the owner. *)
FindOwnFamily(c) ==
  /\ Doing(c, {"leave"}, "member")
  /\ \E m \in RowsOf(calls[c].user) :
       /\ m.role # "owner"
       /\ calls' = [calls EXCEPT ![c].family = m.family, ![c].target = m.user,
                                 ![c].at = "commit"]
  /\ ReadOnly

(* DissolveFamily, ResetInviteCode, UpdateMember, RemoveMember: what the   *)
(* caller is in the family.                                                *)
CheckOperator(c) ==
  /\ Doing(c, {"dissolve", "reset", "update", "remove"}, "member")
  /\ \E m \in RowsIn(calls[c].family, calls[c].user) :
       /\ calls[c].op = "dissolve" => m.role = "owner"
       /\ calls[c].op \in {"reset", "update"} => CanManage(m.role)
       /\ calls' = [calls EXCEPT ![c].rank = m.role,
                      ![c].at = IF calls[c].op \in {"dissolve", "reset"} THEN "family" ELSE "target"]
  /\ ReadOnly

(* DissolveFamily, ResetInviteCode: the family is a normal one. *)
CheckFamily(c) ==
  /\ Doing(c, {"dissolve", "reset"}, "family")
  /\ family[calls[c].family].status = "normal"
  /\ calls' = [calls EXCEPT ![c].at = IF calls[c].op = "reset" THEN "code" ELSE "commit"]
  /\ ReadOnly

\* Mutation: the owner is a member like any other.
CheckTarget_OwnerToo(c) ==
  /\ Doing(c, {"update", "remove"}, "target")
  /\ \E m \in RowsIn(calls[c].family, calls[c].target) :
       /\ calls[c].op = "update" => calls[c].rank = "owner"
       /\ calls[c].op = "remove" => CanRemove(calls[c].rank, m.role)
  /\ calls' = [calls EXCEPT ![c].at = "commit"]
  /\ ReadOnly

\* Mutation: whoever may manage the family may change roles.
CheckTarget_AdminsToo(c) ==
  /\ Doing(c, {"update", "remove"}, "target")
  /\ \E m \in RowsIn(calls[c].family, calls[c].target) :
       /\ m.role # "owner"
       /\ calls[c].op = "remove" => CanRemove(calls[c].rank, m.role)
  /\ calls' = [calls EXCEPT ![c].at = "commit"]
  /\ ReadOnly

(* UpdateMember, RemoveMember: the target is in the family, is not its     *)
(* owner, and the caller's role, read before, allows the operation.  A     *)
(* request that changes no role is left out: it writes display names only. *)
CheckTarget(c) ==
  /\ Doing(c, {"update", "remove"}, "target")
  /\ \E m \in RowsIn(calls[c].family, calls[c].target) :
       /\ m.role # "owner"
       /\ calls[c].op = "update" => calls[c].rank = "owner"
       /\ calls[c].op = "remove" => CanRemove(calls[c].rank, m.role)
  /\ calls' = [calls EXCEPT ![c].at = "commit"]
  /\ ReadOnly

---------------------------------------------------------------------------
(* The transactions.  One that breaks a unique index or finds no row is    *)
(* rolled back, which is CallEnds.                                         *)

Row(f, u, r) == [family |-> f, user |-> u, role |-> r]

CreateFamilyWithOwner(c) ==
  /\ Doing(c, {"create"}, "commit")
  /\ RowsOf(calls[c].user) = {}
  /\ \E f \in Families :
       /\ family[f].status = "none"
       /\ CodeFree(calls[c].code, f)
       /\ family' = [family EXCEPT ![f] =
                       [status |-> "normal", owner |-> calls[c].user, memberCount |-> 1,
                        code |-> calls[c].code, expiry |-> "never"]]
       /\ members' = members \cup {Row(f, calls[c].user, "owner")}
  /\ Answer(c)

\* Mutation: the count is not read again under the lock.
JoinFamily_NoRecheck(c) ==
  /\ Doing(c, {"join"}, "commit")
  /\ LET f == calls[c].family IN
       /\ RowsOf(calls[c].user) = {}
       /\ members' = members \cup {Row(f, calls[c].user, "member")}
       /\ family' = [family EXCEPT ![f].memberCount = @ + 1]
  /\ Answer(c)

\* Mutation: user_id alone is not unique.
JoinFamily_NoUserIndex(c) ==
  /\ Doing(c, {"join"}, "commit")
  /\ LET f == calls[c].family IN
       /\ family[f].memberCount < MaxMembers
       /\ RowsIn(f, calls[c].user) = {}
       /\ members' = members \cup {Row(f, calls[c].user, "member")}
       /\ family' = [family EXCEPT ![f].memberCount = @ + 1]
  /\ Answer(c)

(* The locked row is asked for its count again, and for nothing else. *)
JoinFamily(c) ==
  /\ Doing(c, {"join"}, "commit")
  /\ LET f == calls[c].family IN
       /\ family[f].memberCount < MaxMembers
       /\ RowsOf(calls[c].user) = {}
       /\ members' = members \cup {Row(f, calls[c].user, "member")}
       /\ family' = [family EXCEPT ![f].memberCount = @ + 1]
  /\ Answer(c)

\* Mutation: RowsAffected is not looked at.
DeleteMember_Unchecked(c) ==
  /\ Doing(c, {"leave", "remove"}, "commit")
  /\ LET f == calls[c].family IN
       /\ family[f].memberCount > 0
       /\ members' = members \ RowsIn(f, calls[c].target)
       /\ family' = [family EXCEPT ![f].memberCount = @ - 1]
  /\ Answer(c)

(* LeaveFamily and RemoveMember.  member_count is unsigned. *)
DeleteMember(c) ==
  /\ Doing(c, {"leave", "remove"}, "commit")
  /\ LET f == calls[c].family IN
       /\ RowsIn(f, calls[c].target) # {}
       /\ family[f].memberCount > 0
       /\ members' = members \ RowsIn(f, calls[c].target)
       /\ family' = [family EXCEPT ![f].memberCount = @ - 1]
  /\ Answer(c)

\* Mutation: only the owner's row is deleted with the family.
DissolveFamily_OwnerOnly(c) ==
  /\ Doing(c, {"dissolve"}, "commit")
  /\ family' = [family EXCEPT ![calls[c].family].status = "dissolved",
                              ![calls[c].family].memberCount = @ - 1]
  /\ members' = members \ RowsIn(calls[c].family, calls[c].user)
  /\ Answer(c)

DissolveFamily(c) ==
  /\ Doing(c, {"dissolve"}, "commit")
  /\ family' = [family EXCEPT ![calls[c].family].status = "dissolved",
                              ![calls[c].family].memberCount = 0]
  /\ members' = members \ MembersOf(calls[c].family)
  /\ Answer(c)

UpdateMember(c) ==
  /\ Doing(c, {"update"}, "commit")
  /\ LET old == RowsIn(calls[c].family, calls[c].target) IN
       /\ old # {}
       /\ members' = (members \ old) \cup {[m EXCEPT !.role = calls[c].role] : m \in old}
  /\ Answer(c)
  /\ UNCHANGED family

\* Mutation: the invite code has no unique index.
ResetInviteCode_NoIndex(c) ==
  /\ Doing(c, {"reset"}, "commit")
  /\ \E e \in {"never", "ahead"} :
       family' = [family EXCEPT ![calls[c].family].code = calls[c].code,
                                ![calls[c].family].expiry = e]
  /\ Answer(c)
  /\ UNCHANGED members

ResetInviteCode(c) ==
  /\ Doing(c, {"reset"}, "commit")
  /\ CodeFree(calls[c].code, calls[c].family)
  /\ \E e \in {"never", "ahead"} :
       family' = [family EXCEPT ![calls[c].family].code = calls[c].code,
                                ![calls[c].family].expiry = e]
  /\ Answer(c)
  /\ UNCHANGED members

CodeExpires(f) ==
  /\ family[f].expiry = "ahead"
  /\ family' = [family EXCEPT ![f].expiry = "past"]
  /\ UNCHANGED <<members, calls>>

Query(c) ==
  \/ FindNoFamily(c) \/ DrawCode(c) \/ FindByCode(c) \/ FindOwnFamily(c)
  \/ CheckOperator(c) \/ CheckFamily(c) \/ CheckTarget(c)

Commit(c) ==
  \/ CreateFamilyWithOwner(c) \/ JoinFamily(c) \/ DeleteMember(c)
  \/ DissolveFamily(c) \/ UpdateMember(c) \/ ResetInviteCode(c)

Next ==
  \/ \E c \in Calls : Arrive(c) \/ CallEnds(c) \/ Query(c) \/ Commit(c)
  \/ \E f \in Families : CodeExpires(f)

Spec == Init /\ [][Next]_vars

---------------------------------------------------------------------------
(* Properties. *)

(* Rows and calls have the types of their columns and parameters. *)
FamilyTypeOK ==
  /\ family \in [Families -> FamilyRows]
  /\ members \subseteq MemberRows
  /\ calls \in [Calls -> CallStates \cup {Idle}]

(* member_count is the number of member rows, although joins compute it    *)
(* from a row they read and departures decrement it.                       *)
MemberCountAgrees ==
  \A f \in Families : family[f].memberCount = Cardinality(MembersOf(f))

(* No family has more members than it may, however many users join it with *)
(* the last place free.                                                    *)
WithinLimit == \A f \in Families : Cardinality(MembersOf(f)) <= MaxMembers

(* A user is in one family at most, although the check for it is some      *)
(* queries older than the insertion.                                       *)
OneFamilyPerUser ==
  \A m1, m2 \in members : m1.user = m2.user => m1 = m2

(* Who created a family is an owner of it until it is dissolved: nobody    *)
(* removes or demotes that user, whatever the target was when it was read, *)
(* not even another owner, whom UpdateMember may have made.                *)
FounderOwns ==
  \A f \in Families :
    family[f].status = "normal" => Row(f, family[f].owner, "owner") \in members

(* An invite code leads to one family, although the search for a free code *)
(* ignores dissolved families and is older than the write.                 *)
CodesAreUnique ==
  \A f, g \in Families :
    f # g /\ family[f].status # "none" => family[f].code # family[g].code

(* Only an owner changes roles: the user whose call changes one is an      *)
(* owner of that family in that very step, not only when it was checked,   *)
(* unless the family has been dissolved since.  What another owner than    *)
(* the one who created the family has asked for is done even if that user  *)
(* has been demoted or removed since the check.                            *)
OnlyOwnerChangesRoles ==
  [][\A m1 \in members, m2 \in members' :
       m1.family = m2.family /\ m1.user = m2.user /\ m1.role # m2.role =>
         \/ family[m1.family].status = "dissolved"
         \/ \E c \in Calls :
              /\ calls[c] # Idle
              /\ calls'[c] = Idle
              /\ \/ Row(m1.family, calls[c].user, "owner") \in members
                 \/ calls[c].rank = "owner" /\ calls[c].user # family[m1.family].owner]_vars

Life == INSTANCE FamilyLife WITH
  life <- [f \in Families |-> family[f].status],
  founder <- [f \in Families |-> family[f].owner],
  settled <- members

(* Although a call reads, decides and writes at different moments, whoever *)
(* looks at the tables sees calls that are carried out in one: the guards  *)
(* of FamilyLife hold when the transaction commits, and its effect is all  *)
(* that happens.                                                           *)
CallsSeemAtomic == Life!Spec

(* Dissolving a family removes all its members for good, as the dialog of  *)
(* the application says (FamilyManagementScreen).  The code breaks it: see  *)
(* the findings.                                                           *)
DissolvedFamiliesAreEmpty ==
  \A f \in Families : family[f].status = "dissolved" => MembersOf(f) = {}
=============================================================================
