----------------------------- MODULE MealPlans -----------------------------
(***************************************************************************)
(* The menu of a family: meal plans, the states their cook takes them      *)
(* through, and the ratings of what was cooked.  A call reads the plan,    *)
(* then the membership of its user (and of the cook it names), and writes  *)
(* in a last statement, so that all it has read may be out of date.  The   *)
(* members, whose comings and goings are FamilyMembership's, pass a check  *)
(* or do not.  Of the columns that a request can name, servings, date and  *)
(* type are handled like the cook (without its check) and left out.        *)
(***************************************************************************)
EXTENDS FiniteSets

CONSTANTS
  Diners,     \* users
  PlanIds,    \* bound: plans
  MenuCalls,  \* bound: calls under way
  NoDiner,    \* no cook, no user
  NoPlan,     \* no plan
  Keep        \* a column that a request does not name

PlanStatuses == {"pending", "cooking", "completed", "cancelled"}

ASSUME MealPlansAssumption ==
  /\ NoDiner \notin Diners
  /\ NoPlan \notin PlanIds
  /\ Keep \notin PlanStatuses \cup Diners \cup {NoDiner}

VARIABLES
  planAt,      \* whether table family_meal_plan has the plan
  plan,        \* its columns status and cook_user_id
  rated,       \* the users that have a row in table family_meal_plan_rating
  menuCalls,   \* the calls under way
  past,        \* history: the states the plan has been in
  pastCooks    \* history: the users who have been its cook

plans    == <<planAt, plan, past, pastCooks>>
menuVars == <<plans, rated, menuCalls>>

Cooks == Diners \cup {NoDiner}
PlanRows == [status : PlanStatuses, cook : Cooks]
Changes == [status : PlanStatuses \cup {Keep}, cook : Cooks \cup {Keep}]
NoChange == [status |-> Keep, cook |-> Keep]
NoRow == [status |-> "pending", cook |-> NoDiner]
MenuPhases == {"idle", "creator", "open", "firstCook", "create", "member",
               "cook", "write", "find", "insert", "save", "delete"}
MenuCallRecords == [at : MenuPhases, op : {"update", "rate", "delete"}, user : Cooks,
                    plan : PlanIds \cup {NoPlan}, change : Changes]
NoMenuCall == [at |-> "idle", op |-> "update", user |-> NoDiner, plan |-> NoPlan, change |-> NoChange]

MenuInit ==
  /\ planAt = [p \in PlanIds |-> "unused"]
  /\ plan = [p \in PlanIds |-> NoRow]
  /\ rated = [p \in PlanIds |-> {}]
  /\ menuCalls = [c \in MenuCalls |-> NoMenuCall]
  /\ past = [p \in PlanIds |-> {}]
  /\ pastCooks = [p \in PlanIds |-> {}]

-----------------------------------------------------------------------------
(* Calls                                                                   *)

MenuAt(c, phase) == menuCalls[c].at = phase
MenuGoesTo(c, phase) == menuCalls' = [menuCalls EXCEPT ![c] = [@ EXCEPT !.at = phase]]
MenuReturns(c) == menuCalls' = [menuCalls EXCEPT ![c] = NoMenuCall]

\* A call that reads or writes nothing but its own record.
Quietly == UNCHANGED <<plans, rated>>

MenuStarts(c, phase, op, u, p, change) ==
  /\ MenuAt(c, "idle")
  /\ menuCalls' = [menuCalls EXCEPT ![c] = [NoMenuCall EXCEPT !.at = phase, !.op = op, !.user = u,
                                                         !.plan = p, !.change = change]]
  /\ Quietly

\* Whatever a check refuses, a failure of the database or the deadline of the
\* request ends the call; nothing it did is taken back.
MenuFails(c) == ~MenuAt(c, "idle") /\ MenuReturns(c) /\ Quietly

\* A check passes (or the call fails): requireFamilyMember or GetMember of the
\* user or of the cook that the request names, GetFamilyByID, GetDishByID.
Passes(c, phase, next) == MenuAt(c, phase) /\ MenuGoesTo(c, next) /\ Quietly

\* The row with what the request names
Changed(row, change) ==
  [status |-> IF change.status = Keep THEN row.status ELSE change.status,
   cook   |-> IF change.cook = Keep THEN row.cook ELSE change.cook]

CreateMealPlan(c, u, cook) ==
  MenuStarts(c, "creator", "update", u, NoPlan, [status |-> Keep, cook |-> cook])

Creator(c) == Passes(c, "creator", "open")

FamilyIsOpen(c) == Passes(c, "open", "firstCook")
FirstCook(c) == Passes(c, "firstCook", "create")

InsertPlan(c, p) ==
  LET row == Changed(NoRow, menuCalls[c].change) IN
  /\ MenuAt(c, "create")
  /\ planAt[p] = "unused"
  /\ planAt' = [planAt EXCEPT ![p] = "row"]
  /\ plan' = [plan EXCEPT ![p] = row]
  /\ past' = [past EXCEPT ![p] = {"pending"}]
  /\ pastCooks' = [pastCooks EXCEPT ![p] = {row.cook} \ {NoDiner}]
  /\ MenuReturns(c)
  /\ UNCHANGED rated

validMealPlanTransition(current, next) ==
  \/ current = next
  \/ current = "pending" /\ next \in {"cooking", "cancelled"}
  \/ current = "cooking" /\ next = "completed"

\* Mutation: whoever is a member may change the state.
MayChangeAsMember(row, u, change) ==
  change.status # Keep =>
    /\ change.cook = Keep
    /\ validMealPlanTransition(row.status, change.status)

\* Only the cook may change the state, and not in a request that names a cook.
MayChange(row, u, change) ==
  change.status # Keep =>
    /\ change.cook = Keep
    /\ row.cook = u
    /\ validMealPlanTransition(row.status, change.status)

\* GetByID; without the plan the call ends.  What is wrong with the request, by
\* the row it has read, ends it as well, if only after the next step.
UpdateMealPlan(c, u, p, change) ==
  /\ planAt[p] = "row"
  /\ MayChange(plan[p], u, change)
  /\ MenuStarts(c, "member", "update", u, p, change)

UpsertRating(c, u, p) ==
  /\ planAt[p] = "row"
  /\ plan[p].status = "completed"
  /\ MenuStarts(c, "member", "rate", u, p, NoChange)

DeleteMealPlan(c, u, p) ==
  /\ planAt[p] = "row"
  /\ MenuStarts(c, "member", "delete", u, p, NoChange)

\* requireFamilyMember
Member(c) ==
  \/ menuCalls[c].op = "update" /\ Passes(c, "member", "cook")
  \/ menuCalls[c].op = "rate" /\ Passes(c, "member", "find")
  \/ menuCalls[c].op = "delete" /\ Passes(c, "member", "delete")

UpdateCook(c) == Passes(c, "cook", "write")

\* UPDATE of the columns that the request names, where the plan still is; the
\* call does not look how many rows that were.
WritePlan(c) ==
  LET p == menuCalls[c].plan
      row == Changed(plan[p], menuCalls[c].change)
  IN /\ MenuAt(c, "write")
     /\ \/ /\ planAt[p] = "row"
           /\ plan' = [plan EXCEPT ![p] = row]
           /\ past' = [past EXCEPT ![p] = @ \cup {row.status}]
           /\ pastCooks' = [pastCooks EXCEPT ![p] = @ \cup ({row.cook} \ {NoDiner})]
        \/ /\ planAt[p] = "deleted"
           /\ UNCHANGED <<plan, past, pastCooks>>
     /\ MenuReturns(c)
     /\ UNCHANGED <<planAt, rated>>

FindRating(c) ==
  /\ MenuAt(c, "find")
  /\ MenuGoesTo(c, IF menuCalls[c].user \in rated[menuCalls[c].plan] THEN "save" ELSE "insert")
  /\ Quietly

\* The unique key that the comment of Save names refuses a second row.
InsertRating(c) ==
  /\ MenuAt(c, "insert")
  /\ menuCalls[c].user \notin rated[menuCalls[c].plan]
  /\ rated' = [rated EXCEPT ![menuCalls[c].plan] = @ \cup {menuCalls[c].user}]
  /\ MenuReturns(c)
  /\ UNCHANGED plans

SaveRating(c) == MenuAt(c, "save") /\ MenuReturns(c) /\ Quietly

\* The ratings stay.
DeletePlan(c) ==
  /\ MenuAt(c, "delete")
  /\ planAt' = [planAt EXCEPT ![menuCalls[c].plan] = "deleted"]
  /\ MenuReturns(c)
  /\ UNCHANGED <<plan, past, pastCooks, rated>>

-----------------------------------------------------------------------------
Request(c, u) ==
  \/ \E cook \in Cooks : CreateMealPlan(c, u, cook)
  \/ \E p \in PlanIds : \/ \E change \in Changes \ {NoChange} : UpdateMealPlan(c, u, p, change)
                        \/ UpsertRating(c, u, p)
                        \/ DeleteMealPlan(c, u, p)

MenuStep(c) ==
  \/ \E u \in Diners : Request(c, u)
  \/ Creator(c) \/ FamilyIsOpen(c) \/ FirstCook(c)
  \/ \E p \in PlanIds : InsertPlan(c, p)
  \/ Member(c)
  \/ UpdateCook(c) \/ WritePlan(c)
  \/ FindRating(c) \/ InsertRating(c) \/ SaveRating(c)
  \/ DeletePlan(c)
  \/ MenuFails(c)

MenuNext == \E c \in MenuCalls : MenuStep(c)

MenuSpec == MenuInit /\ [][MenuNext]_menuVars

-----------------------------------------------------------------------------
MenuTypeOK ==
  /\ planAt \in [PlanIds -> {"unused", "row", "deleted"}]
  /\ plan \in [PlanIds -> PlanRows]
  /\ rated \in [PlanIds -> SUBSET Diners]
  /\ menuCalls \in [MenuCalls -> MenuCallRecords]
  /\ past \in [PlanIds -> SUBSET PlanStatuses]
  /\ pastCooks \in [PlanIds -> SUBSET Diners]

\* A deleted plan stays deleted, whatever write was under way.
DeletedStays(p) == planAt[p] = "deleted" => planAt'[p] = "deleted"

\* Only a user who has been the plan's cook changes its state, and a call that
\* does not name a column leaves it to the calls that do.
WritesOwnColumns(p) ==
  plan'[p] # plan[p] /\ planAt[p] = "row" =>
    \E c \in MenuCalls :
      LET change == menuCalls[c].change IN
      /\ menuCalls[c].plan = p
      /\ MenuAt(c, "write")
      /\ change.status # Keep => menuCalls[c].user \in pastCooks[p]
      /\ plan'[p] = Changed(plan[p], change)

\* What is completed was cooked, and only what was completed is rated, whatever
\* the calls have read that moved the plan or deleted it.
CookedBeforeRated(p) ==
  /\ "completed" \in past'[p] => "cooking" \in past'[p]
  /\ rated'[p] # {} => "completed" \in past[p]

\* The menu stays in order although no call reads and writes in one statement:
\* DeletedStays, WritesOwnColumns and CookedBeforeRated.
MenuKept ==
  [][\A p \in PlanIds : DeletedStays(p) /\ WritesOwnColumns(p) /\ CookedBeforeRated(p)]_menuVars
=============================================================================
