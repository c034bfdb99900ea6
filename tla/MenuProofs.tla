----------------------------- MODULE MenuProofs -----------------------------
(***************************************************************************)
(* Proofs about MealPlans and ShoppingLists, for any number of plans,      *)
(* users, lists, ingredients and calls.                                    *)
(***************************************************************************)
EXTENDS MealPlans, ShoppingLists, TLAPS

(***************************************************************************)
(* Meal plans.  What a call has read may be out of date when it writes,    *)
(* but the history of a plan only grows: whoever was its cook remains one  *)
(* of its past cooks, and what was cooking has been cooking.               *)
(***************************************************************************)

TablesTyped ==
  /\ planAt \in [PlanIds -> {"unused", "row", "deleted"}]
  /\ plan \in [PlanIds -> PlanRows]
  /\ rated \in [PlanIds -> SUBSET Diners]
  /\ past \in [PlanIds -> SUBSET PlanStatuses]
  /\ pastCooks \in [PlanIds -> SUBSET Diners]

PlansInv ==
  \A p \in PlanIds :
    /\ planAt[p] = "unused" => rated[p] = {}
    /\ planAt[p] # "unused" => plan[p].status \in past[p] /\ plan[p].cook \in pastCooks[p] \cup {NoDiner}
    /\ "completed" \in past[p] => "cooking" \in past[p]
    /\ rated[p] # {} => "completed" \in past[p]

\* What a call may be in the middle of, when the plans are at, have been in
\* the states before and had the cooks.
Fits(k, at, before, cooks) ==
  /\ k.at \in {"creator", "open", "firstCook", "create"} => k.change.status = Keep
  /\ k.at \in {"cook", "write"} => k.op = "update"
  /\ k.at \in {"find", "insert", "save"} => k.op = "rate"
  /\ k.at \in {"member", "cook", "write", "find", "insert", "save", "delete"} =>
       /\ k.plan \in PlanIds
       /\ at[k.plan] # "unused"
       /\ k.user \in Diners
       /\ k.op = "update" /\ k.change.status # Keep =>
            /\ k.user \in cooks[k.plan]
            /\ k.change.status = "completed" => "cooking" \in before[k.plan]
       /\ k.op = "rate" => "completed" \in before[k.plan]

MenuCallsInv == \A c \in MenuCalls : Fits(menuCalls[c], planAt, past, pastCooks)

MenuInv == MenuTypeOK /\ PlansInv /\ MenuCallsInv

\* A plan's history grows.
PlansGrow ==
  \A p \in PlanIds :
    planAt[p] # "unused" => planAt'[p] # "unused" /\ past[p] \subseteq past'[p] /\ pastCooks[p] \subseteq pastCooks'[p]

CallMoves ==
  \/ UNCHANGED menuCalls
  \/ \E c \in MenuCalls, k \in MenuCallRecords :
       menuCalls' = [menuCalls EXCEPT ![c] = k] /\ Fits(k, planAt', past', pastCooks')

MenuStepKeeps == TablesTyped' /\ PlansInv' /\ PlansGrow /\ CallMoves

\* What a call knows of a plan stays true while others write.
LEMMA StillFits ==
  ASSUME NEW k, Fits(k, planAt, past, pastCooks), PlansGrow
  PROVE  Fits(k, planAt', past', pastCooks')
BY DEF Fits, PlansGrow

\* An idle call fits everything.
LEMMA NoCallFits == NoMenuCall \in MenuCallRecords /\ Fits(NoMenuCall, planAt', past', pastCooks')
BY DEF NoMenuCall, NoChange, MenuCallRecords, MenuPhases, Changes, Cooks, PlanStatuses, Fits

\* Steps that only move a call.
LEMMA QuietMove ==
  ASSUME MenuInv, Quietly, NEW c \in MenuCalls, NEW k \in MenuCallRecords,
         menuCalls' = [menuCalls EXCEPT ![c] = k], Fits(k, planAt, past, pastCooks)
  PROVE  MenuStepKeeps
<1>1. UNCHANGED <<planAt, plan, past, pastCooks, rated>>
  BY DEF Quietly, plans
<1>2. TablesTyped' /\ PlansInv' /\ PlansGrow
  BY <1>1 DEF MenuInv, MenuTypeOK, TablesTyped, PlansInv, PlansGrow
<1>3. CallMoves
  BY <1>1 DEF CallMoves
<1> QED
  BY <1>2, <1>3 DEF MenuStepKeeps

\* The record of a call that starts, and of one that goes on.
Started(phase, op, u, p, change) ==
  [NoMenuCall EXCEPT !.at = phase, !.op = op, !.user = u, !.plan = p, !.change = change]

\* A call that has just read its plan.
LEMMA StartedIs ==
  ASSUME NEW phase \in MenuPhases, NEW op \in {"update", "rate", "delete"}, NEW u \in Cooks,
         NEW p \in PlanIds \cup {NoPlan}, NEW change \in Changes
  PROVE  LET k == Started(phase, op, u, p, change) IN
         /\ k \in MenuCallRecords
         /\ k.at = phase /\ k.op = op /\ k.user = u /\ k.plan = p /\ k.change = change
BY DEF Started, NoMenuCall, MenuCallRecords

\* A call goes on to its next query.
LEMMA GoesOn ==
  ASSUME MenuInv, NEW c \in MenuCalls, NEW phase \in MenuPhases
  PROVE  LET k == [menuCalls[c] EXCEPT !.at = phase] IN
         /\ k \in MenuCallRecords
         /\ k.at = phase /\ k.op = menuCalls[c].op /\ k.user = menuCalls[c].user
         /\ k.plan = menuCalls[c].plan /\ k.change = menuCalls[c].change
<1>1. menuCalls[c] \in MenuCallRecords
  BY DEF MenuInv, MenuTypeOK
<1> QED
  BY <1>1 DEF MenuCallRecords

\* A query that only reads.
LEMMA PassKeeps ==
  ASSUME MenuInv, NEW c \in MenuCalls, NEW phase \in MenuPhases, NEW next \in MenuPhases, MenuAt(c, phase), Quietly,
         MenuGoesTo(c, next),
         \/ phase = "creator" /\ next = "open"
         \/ phase = "open" /\ next = "firstCook"
         \/ phase = "firstCook" /\ next = "create"
         \/ phase = "member" /\ next = "cook" /\ menuCalls[c].op = "update"
         \/ phase = "member" /\ next = "find" /\ menuCalls[c].op = "rate"
         \/ phase = "member" /\ next = "delete"
         \/ phase = "cook" /\ next = "write"
         \/ phase = "find" /\ next \in {"save", "insert"}
  PROVE  MenuStepKeeps
<1> DEFINE k == [menuCalls[c] EXCEPT !.at = next]
<1>1. /\ k \in MenuCallRecords
      /\ k.at = next /\ k.op = menuCalls[c].op /\ k.user = menuCalls[c].user
      /\ k.plan = menuCalls[c].plan /\ k.change = menuCalls[c].change
  BY GoesOn
<1>2. menuCalls' = [menuCalls EXCEPT ![c] = k]
  BY DEF MenuGoesTo, MenuInv, MenuTypeOK
<1>3. Fits(menuCalls[c], planAt, past, pastCooks)
  BY DEF MenuInv, MenuCallsInv
<1> HIDE DEF k
<1>4. Fits(k, planAt, past, pastCooks)
  BY <1>1, <1>3 DEF Fits, MenuAt
<1> QED
  BY <1>1, <1>2, <1>4, QuietMove

\* The first query of a call.
LEMMA StartKeeps ==
  ASSUME MenuInv, NEW c \in MenuCalls, NEW phase \in MenuPhases, NEW op \in {"update", "rate", "delete"},
         NEW u \in Diners, NEW p \in PlanIds \cup {NoPlan}, NEW change \in Changes,
         MenuStarts(c, phase, op, u, p, change),
         \/ phase = "creator" /\ change.status = Keep
         \/ /\ phase = "member"
            /\ p \in PlanIds /\ planAt[p] # "unused"
            /\ op = "update" /\ change.status # Keep =>
                 u \in pastCooks[p] /\ (change.status = "completed" => "cooking" \in past[p])
            /\ op = "rate" => "completed" \in past[p]
  PROVE  MenuStepKeeps
<1> DEFINE k == Started(phase, op, u, p, change)
<1>1. /\ k \in MenuCallRecords
      /\ k.at = phase /\ k.op = op /\ k.user = u /\ k.plan = p /\ k.change = change
  BY StartedIs DEF Cooks
<1>2. menuCalls' = [menuCalls EXCEPT ![c] = k] /\ Quietly
  BY DEF MenuStarts, Started
<1> HIDE DEF k
<1>3. Fits(k, planAt, past, pastCooks)
  BY <1>1 DEF Fits
<1> QED
  BY <1>1, <1>2, <1>3, QuietMove

\* A request of a member of the family.
LEMMA RequestKeeps == ASSUME MenuInv, NEW c \in MenuCalls, NEW u \in Diners, Request(c, u) PROVE MenuStepKeeps
<1>1. ASSUME NEW cook \in Cooks, CreateMealPlan(c, u, cook) PROVE MenuStepKeeps
  <2> DEFINE change == [status |-> Keep, cook |-> cook]
  <2>1. change \in Changes /\ change.status = Keep
    BY DEF Changes
  <2>2. MenuStarts(c, "creator", "update", u, NoPlan, change)
    BY <1>1 DEF CreateMealPlan
  <2> HIDE DEF change
  <2> QED
    BY <2>1, <2>2, StartKeeps DEF MenuPhases
<1>2. ASSUME NEW p \in PlanIds, NEW change \in Changes, UpdateMealPlan(c, u, p, change) PROVE MenuStepKeeps
  <2>1. planAt[p] # "unused" /\ plan[p].status \in past[p] /\ plan[p].cook \in pastCooks[p] \cup {NoDiner}
    BY <1>2 DEF UpdateMealPlan, MenuInv, PlansInv
  <2>2. change.status # Keep => u \in pastCooks[p] /\ (change.status = "completed" => "cooking" \in past[p])
    BY <1>2, <2>1, MealPlansAssumption
       DEF UpdateMealPlan, MayChange, validMealPlanTransition, MenuInv, PlansInv, MealPlansAssumption
  <2>3. MenuStarts(c, "member", "update", u, p, change)
    BY <1>2 DEF UpdateMealPlan
  <2> QED
    BY <2>1, <2>2, <2>3, StartKeeps DEF MenuPhases
<1>3. ASSUME NEW p \in PlanIds, UpsertRating(c, u, p) PROVE MenuStepKeeps
  <2>1. planAt[p] # "unused" /\ "completed" \in past[p] /\ NoChange \in Changes
    BY <1>3 DEF UpsertRating, MenuInv, PlansInv, NoChange, Changes
  <2>2. MenuStarts(c, "member", "rate", u, p, NoChange)
    BY <1>3 DEF UpsertRating
  <2> QED
    BY <2>1, <2>2, StartKeeps DEF MenuPhases
<1>4. ASSUME NEW p \in PlanIds, DeleteMealPlan(c, u, p) PROVE MenuStepKeeps
  <2>1. planAt[p] # "unused" /\ NoChange \in Changes
    BY <1>4 DEF DeleteMealPlan, NoChange, Changes
  <2>2. MenuStarts(c, "member", "delete", u, p, NoChange)
    BY <1>4 DEF DeleteMealPlan
  <2> QED
    BY <2>1, <2>2, StartKeeps DEF MenuPhases
<1> QED
  BY <1>1, <1>2, <1>3, <1>4 DEF Request

\* The row that a call writes is a row, and it has the state that the call
\* names or had it before.
LEMMA ChangedIs ==
  ASSUME NEW row \in PlanRows, NEW change \in Changes
  PROVE  /\ Changed(row, change) \in PlanRows
         /\ Changed(row, change).status \in {row.status, change.status} \ {Keep}
         /\ change.status = Keep => Changed(row, change).status = row.status
BY MealPlansAssumption DEF MealPlansAssumption, Changed, PlanRows, Changes, Cooks

\* The INSERT of CreateMealPlan.
LEMMA InsertPlanKeeps == ASSUME MenuInv, NEW c \in MenuCalls, NEW p \in PlanIds, InsertPlan(c, p) PROVE MenuStepKeeps
<1> DEFINE row == Changed(NoRow, menuCalls[c].change)
<1>1. row \in PlanRows /\ row.status = "pending" /\ row.cook \in Cooks
  <2>1. NoRow \in PlanRows /\ NoRow.status = "pending"
    BY DEF NoRow, PlanRows, PlanStatuses, Cooks
  <2>2. menuCalls[c].change \in Changes /\ menuCalls[c].change.status = Keep
    BY DEF InsertPlan, MenuAt, MenuInv, MenuTypeOK, MenuCallsInv, Fits, MenuCallRecords
  <2>3. row \in PlanRows /\ row.status = "pending"
    BY <2>1, <2>2, ChangedIs
  <2> HIDE DEF row
  <2> QED
    BY <2>3 DEF PlanRows
<1>2. /\ planAt[p] = "unused"
      /\ planAt' = [planAt EXCEPT ![p] = "row"]
      /\ plan' = [plan EXCEPT ![p] = row]
      /\ past' = [past EXCEPT ![p] = {"pending"}]
      /\ pastCooks' = [pastCooks EXCEPT ![p] = {row.cook} \ {NoDiner}]
      /\ menuCalls' = [menuCalls EXCEPT ![c] = NoMenuCall]
      /\ rated' = rated
  BY DEF InsertPlan, MenuReturns
<1> HIDE DEF row
<1>3. TablesTyped'
  BY <1>1, <1>2 DEF TablesTyped, MenuInv, MenuTypeOK, PlanStatuses, Cooks
<1>4. PlansInv'
  BY <1>1, <1>2 DEF PlansInv, MenuInv, MenuTypeOK
<1>5. PlansGrow
  BY <1>2 DEF PlansGrow, MenuInv, MenuTypeOK
<1>6. CallMoves
  BY <1>2, NoCallFits DEF CallMoves
<1> QED
  BY <1>3, <1>4, <1>5, <1>6 DEF MenuStepKeeps

\* A call that writes: its change is one of a past cook, and it completes only
\* what was cooking.
LEMMA WritePlanKeeps == ASSUME MenuInv, NEW c \in MenuCalls, WritePlan(c) PROVE MenuStepKeeps
<1> DEFINE p == menuCalls[c].plan
           change == menuCalls[c].change
           row == Changed(plan[p], change)
<1>1. /\ p \in PlanIds
      /\ change \in Changes
      /\ change.status = "completed" => "cooking" \in past[p]
  BY MealPlansAssumption DEF MealPlansAssumption, PlanStatuses, WritePlan, MenuAt, MenuInv, MenuTypeOK, MenuCallsInv, Fits, MenuCallRecords
<1>2. plan[p] \in PlanRows
  BY <1>1 DEF MenuInv, MenuTypeOK
<1>3. /\ row \in PlanRows
      /\ row.status \in {plan[p].status, change.status}
      /\ row.status \in PlanStatuses /\ row.cook \in Cooks
  <2>1. row \in PlanRows /\ row.status \in {plan[p].status, change.status}
    BY <1>1, <1>2, ChangedIs
  <2> HIDE DEF row
  <2> QED
    BY <2>1 DEF PlanRows
<1>4. menuCalls' = [menuCalls EXCEPT ![c] = NoMenuCall] /\ UNCHANGED <<planAt, rated>>
  BY DEF WritePlan, MenuReturns
<1>5. \/ UNCHANGED <<plan, past, pastCooks>>
      \/ /\ planAt[p] = "row"
         /\ plan' = [plan EXCEPT ![p] = row]
         /\ past' = [past EXCEPT ![p] = past[p] \cup {row.status}]
         /\ pastCooks' = [pastCooks EXCEPT ![p] = pastCooks[p] \cup ({row.cook} \ {NoDiner})]
  BY DEF WritePlan
<1> HIDE DEF p, change, row
<1>6. TablesTyped'
  BY <1>1, <1>3, <1>4, <1>5 DEF TablesTyped, MenuInv, MenuTypeOK, Cooks
<1>7. PlansGrow
  BY <1>1, <1>4, <1>5 DEF PlansGrow, MenuInv, MenuTypeOK
<1>8. PlansInv'
  <2>1. CASE UNCHANGED <<plan, past, pastCooks>>
    BY <1>4, <2>1 DEF PlansInv, MenuInv
  <2>2. CASE ~UNCHANGED <<plan, past, pastCooks>>
    <3>1. \A q \in PlanIds \ {p} : plan'[q] = plan[q] /\ past'[q] = past[q] /\ pastCooks'[q] = pastCooks[q]
      BY <1>1, <1>5 DEF MenuInv, MenuTypeOK
    <3>2. /\ planAt[p] = "row"
          /\ plan'[p] = row
          /\ past'[p] = past[p] \cup {row.status}
          /\ pastCooks'[p] = pastCooks[p] \cup ({row.cook} \ {NoDiner})
      BY <1>1, <1>5, <2>2 DEF MenuInv, MenuTypeOK
    <3>3. plan[p].status \in past[p] /\ ("completed" \in past[p] => "cooking" \in past[p])
      BY <1>1, <3>2 DEF MenuInv, PlansInv
    <3>4. "completed" \in past'[p] => "cooking" \in past'[p]
      BY <1>1, <1>3, <3>2, <3>3
    <3> QED
      BY <1>1, <1>4, <3>1, <3>2, <3>4 DEF PlansInv, MenuInv
  <2> QED
    BY <2>1, <2>2
<1>9. CallMoves
  BY <1>4, NoCallFits DEF CallMoves
<1> QED
  BY <1>6, <1>7, <1>8, <1>9 DEF MenuStepKeeps

\* The INSERT of UpsertRating.
LEMMA InsertRatingKeeps == ASSUME MenuInv, NEW c \in MenuCalls, InsertRating(c) PROVE MenuStepKeeps
<1> DEFINE p == menuCalls[c].plan
           u == menuCalls[c].user
<1>1. p \in PlanIds /\ u \in Diners /\ planAt[p] # "unused" /\ "completed" \in past[p]
  BY DEF InsertRating, MenuAt, MenuInv, MenuCallsInv, Fits
<1>2. /\ UNCHANGED <<planAt, plan, past, pastCooks>>
      /\ rated' = [rated EXCEPT ![p] = rated[p] \cup {u}]
      /\ menuCalls' = [menuCalls EXCEPT ![c] = NoMenuCall]
  BY DEF InsertRating, MenuReturns, plans
<1> HIDE DEF p, u
<1>3. TablesTyped' /\ PlansInv' /\ PlansGrow
  BY <1>1, <1>2 DEF TablesTyped, PlansInv, PlansGrow, MenuInv, MenuTypeOK
<1>4. CallMoves
  BY <1>2, NoCallFits DEF CallMoves
<1> QED
  BY <1>3, <1>4 DEF MenuStepKeeps

\* The soft deletion of DeleteMealPlan.
LEMMA DeletePlanKeeps == ASSUME MenuInv, NEW c \in MenuCalls, DeletePlan(c) PROVE MenuStepKeeps
<1> DEFINE p == menuCalls[c].plan
<1>1. p \in PlanIds /\ planAt[p] # "unused"
  BY DEF DeletePlan, MenuAt, MenuInv, MenuCallsInv, Fits
<1>2. /\ UNCHANGED <<plan, past, pastCooks, rated>>
      /\ planAt' = [planAt EXCEPT ![p] = "deleted"]
      /\ menuCalls' = [menuCalls EXCEPT ![c] = NoMenuCall]
  BY DEF DeletePlan, MenuReturns
<1> HIDE DEF p
<1>3. TablesTyped' /\ PlansInv' /\ PlansGrow
  BY <1>1, <1>2 DEF TablesTyped, PlansInv, PlansGrow, MenuInv, MenuTypeOK
<1>4. CallMoves
  BY <1>2, NoCallFits DEF CallMoves
<1> QED
  BY <1>3, <1>4 DEF MenuStepKeeps

\* A call that ends without a write.
LEMMA ReturnKeeps == ASSUME MenuInv, NEW c \in MenuCalls, MenuReturns(c), Quietly PROVE MenuStepKeeps
<1>1. Fits(NoMenuCall, planAt, past, pastCooks) /\ NoMenuCall \in MenuCallRecords
  BY NoCallFits DEF Fits, NoMenuCall
<1> QED
  BY <1>1, QuietMove DEF MenuReturns

\* Every step keeps the invariant and what MenuKept says of it.
LEMMA MenuNextKeeps == ASSUME MenuInv, MenuNext PROVE MenuStepKeeps
<1> SUFFICES ASSUME NEW c \in MenuCalls, MenuStep(c) PROVE MenuStepKeeps
  BY DEF MenuNext
<1>1. CASE Creator(c) \/ FamilyIsOpen(c) \/ FirstCook(c) \/ Member(c) \/ UpdateCook(c)
  BY <1>1, PassKeeps DEF Creator, FamilyIsOpen, FirstCook, Member, UpdateCook, Passes, MenuPhases
<1>2. CASE FindRating(c)
  BY <1>2, PassKeeps DEF FindRating, MenuPhases
<1>3. CASE SaveRating(c) \/ MenuFails(c)
  BY <1>3, ReturnKeeps DEF SaveRating, MenuFails
<1> QED
  BY <1>1, <1>2, <1>3, RequestKeeps, InsertPlanKeeps, WritePlanKeeps, InsertRatingKeeps, DeletePlanKeeps DEF MenuStep

\* Initially there is no plan and no call.
LEMMA MenuInitInv == ASSUME MenuInit PROVE MenuInv
<1>1. MenuTypeOK
  BY DEF MenuInit, MenuTypeOK, NoRow, PlanRows, PlanStatuses, Cooks, NoMenuCall, NoChange, MenuCallRecords,
         MenuPhases, Changes
<1>2. PlansInv /\ MenuCallsInv
  BY DEF MenuInit, PlansInv, MenuCallsInv, Fits, NoMenuCall
<1> QED
  BY <1>1, <1>2 DEF MenuInv

\* Every step, or none, keeps the invariant.
LEMMA MenuNextInv == ASSUME MenuInv, [MenuNext]_menuVars PROVE MenuInv'
<1>1. CASE UNCHANGED menuVars
  BY <1>1 DEF menuVars, plans, MenuInv, MenuTypeOK, PlansInv, MenuCallsInv, Fits
<1>2. CASE MenuNext
  <2>1. MenuStepKeeps
    BY <1>2, MenuNextKeeps
  <2>2. menuCalls' \in [MenuCalls -> MenuCallRecords]
    BY <2>1 DEF MenuStepKeeps, CallMoves, MenuInv, MenuTypeOK
  <2>3. \A c \in MenuCalls : Fits(menuCalls[c], planAt', past', pastCooks')
    BY <2>1, StillFits DEF MenuStepKeeps, MenuInv, MenuCallsInv
  <2>4. \A c \in MenuCalls : Fits(menuCalls'[c], planAt', past', pastCooks')
    BY <2>1, <2>3 DEF MenuStepKeeps, CallMoves, MenuInv, MenuTypeOK
  <2> QED
    BY <2>1, <2>2, <2>4 DEF MenuStepKeeps, TablesTyped, MenuInv, MenuTypeOK, MenuCallsInv
<1> QED
  BY <1>1, <1>2

\* Hence it holds always.
LEMMA MenuAlways == MenuSpec => []MenuInv
BY MenuInitInv, MenuNextInv, PTL DEF MenuSpec

\* Plans, ratings and calls keep their types.
THEOREM MenuTypes == MenuSpec => []MenuTypeOK
<1>1. MenuInv => MenuTypeOK
  BY DEF MenuInv
<1> QED
  BY <1>1, MenuAlways, PTL

\* Only a call that writes, and that fits, changes a plan that exists.
LEMMA OnlyWritesChange ==
  ASSUME MenuInv, MenuNext, NEW p \in PlanIds, plan'[p] # plan[p], planAt[p] = "row"
  PROVE  \E c \in MenuCalls : WritePlan(c) /\ menuCalls[c].plan = p /\ plan'[p] = Changed(plan[p], menuCalls[c].change)
<1>1. PICK c \in MenuCalls : MenuStep(c)
  BY DEF MenuNext
<1>2. plan \in [PlanIds -> PlanRows]
  BY DEF MenuInv, MenuTypeOK
<1>3. ~Quietly /\ ~UNCHANGED plan
  BY <1>2 DEF Quietly, plans
<1>4. ASSUME NEW q \in PlanIds, InsertPlan(c, q) PROVE FALSE
  <2>1. q # p /\ plan'[p] = plan[p]
    BY <1>2, <1>4 DEF InsertPlan
  <2> QED
    BY <2>1
<1>5. WritePlan(c)
  BY <1>1, <1>3, <1>4
     DEF MenuStep, Request, CreateMealPlan, UpdateMealPlan, UpsertRating, DeleteMealPlan, MenuStarts, Creator,
         FamilyIsOpen, FirstCook, Member, UpdateCook, Passes, FindRating, InsertRating, SaveRating, DeletePlan,
         MenuFails, plans
<1>6. plan' = [plan EXCEPT ![menuCalls[c].plan] = Changed(plan[menuCalls[c].plan], menuCalls[c].change)]
  BY <1>3, <1>5 DEF WritePlan
<1>7. menuCalls[c].plan = p
  BY <1>2, <1>6
<1> QED
  BY <1>2, <1>5, <1>6, <1>7

\* The menu stays in order: a deleted plan stays deleted, only a past or present
\* cook moves a plan and no call touches a column it does not name, and what is
\* completed or rated was cooked first.
THEOREM MenuIsKept == MenuSpec => MenuKept
<1> DEFINE Kept == \A p \in PlanIds : DeletedStays(p) /\ WritesOwnColumns(p) /\ CookedBeforeRated(p)
<1>1. ASSUME MenuInv, [MenuNext]_menuVars PROVE Kept
  <2>1. CASE UNCHANGED menuVars
    BY <1>1, <2>1 DEF menuVars, plans, MenuInv, PlansInv, DeletedStays, WritesOwnColumns, CookedBeforeRated
  <2>2. CASE MenuNext
    <3> SUFFICES ASSUME NEW p \in PlanIds PROVE DeletedStays(p) /\ WritesOwnColumns(p) /\ CookedBeforeRated(p)
      OBVIOUS
    <3>0. MenuStepKeeps /\ PlansInv'
      BY <1>1, <2>2, MenuNextKeeps DEF MenuStepKeeps
    <3>1. DeletedStays(p)
      <4>1. planAt \in [PlanIds -> {"unused", "row", "deleted"}]
        BY <1>1 DEF MenuInv, MenuTypeOK
      <4>2. \/ planAt' = planAt
            \/ \E q \in PlanIds : planAt[q] = "unused" /\ planAt' = [planAt EXCEPT ![q] = "row"]
            \/ \E q : planAt' = [planAt EXCEPT ![q] = "deleted"]
        BY <2>2 DEF MenuNext, MenuStep, Request, CreateMealPlan, UpdateMealPlan, UpsertRating, DeleteMealPlan,
           MenuStarts, Creator, FamilyIsOpen, FirstCook, Member, UpdateCook, Passes, FindRating, InsertRating,
           SaveRating, DeletePlan, MenuFails, Quietly, plans, InsertPlan, WritePlan
      <4> QED
        BY <4>1, <4>2 DEF DeletedStays
    <3>2. WritesOwnColumns(p)
      <4>1. SUFFICES ASSUME plan'[p] # plan[p], planAt[p] = "row"
            PROVE  \E c \in MenuCalls :
                     LET change == menuCalls[c].change IN
                     /\ menuCalls[c].plan = p
                     /\ MenuAt(c, "write")
                     /\ change.status # Keep => menuCalls[c].user \in pastCooks[p]
                     /\ plan'[p] = Changed(plan[p], change)
        BY DEF WritesOwnColumns
      <4>2. PICK c \in MenuCalls :
              WritePlan(c) /\ menuCalls[c].plan = p /\ plan'[p] = Changed(plan[p], menuCalls[c].change)
        BY <1>1, <2>2, <4>1, OnlyWritesChange
      <4>3. MenuAt(c, "write") /\ (menuCalls[c].change.status # Keep => menuCalls[c].user \in pastCooks[p])
        BY <1>1, <4>2 DEF WritePlan, MenuAt, MenuInv, MenuCallsInv, Fits
      <4> QED
        BY <4>2, <4>3
    <3>3. CookedBeforeRated(p)
      <4>1. "completed" \in past'[p] => "cooking" \in past'[p]
        BY <3>0 DEF PlansInv
      <4>2. rated' = rated \/ past' = past
        BY <2>2 DEF MenuNext, MenuStep, Request, CreateMealPlan, UpdateMealPlan, UpsertRating, DeleteMealPlan,
           MenuStarts, Creator, FamilyIsOpen, FirstCook, Member, UpdateCook, Passes, FindRating, InsertRating,
           SaveRating, DeletePlan, MenuFails, Quietly, plans, InsertPlan, WritePlan
      <4>3. rated'[p] # {} => "completed" \in past[p]
        BY <1>1, <3>0, <4>2 DEF MenuInv, PlansInv
      <4> QED
        BY <4>1, <4>3 DEF CookedBeforeRated
    <3> QED
      BY <3>1, <3>2, <3>3
  <2> QED
    BY <1>1, <2>1, <2>2
<1> QED
  BY <1>1, MenuAlways, PTL DEF MenuSpec, MenuKept

-----------------------------------------------------------------------------
(***************************************************************************)
(* Shopping lists.  What a generation carries on as bought was ticked off  *)
(* in the list that it replaces, and no two statements insert with one     *)
(* stamp.                                                                  *)
(***************************************************************************)

ListsTyped ==
  /\ lists \in 0..MaxLists
  /\ items \subseteq Items
  /\ stamps \in 0..MaxStamps
  /\ ticks \subseteq ListIds \X Ingredients

ItemsInv ==
  /\ \A i \in items : i.list <= lists /\ i.stamp <= stamps
  /\ ListsKept

\* What a call may carry when there are n lists and t was ticked off.
Carries(k, n, t) ==
  /\ k.at \in {"find", "create"} => k.before = NothingBought
  /\ k.at \in {"previous", "replace", "insert"} => k.list \in ListIds /\ k.list <= n
  /\ k.at = "replace" => \A key \in Ingredients : k.before[key] > 0 => <<k.list, key>> \in t
  /\ k.at = "tick" => (k.bought > 0 => k.ticked)

ShoppingInv ==
  ShoppingTypeOK /\ ItemsInv /\ \A c \in ShoppingCalls : Carries(shoppingCalls[c], lists, ticks)

ShoppingMoves ==
  \/ UNCHANGED shoppingCalls
  \/ \E c \in ShoppingCalls, k \in ShoppingCallRecords :
       shoppingCalls' = [shoppingCalls EXCEPT ![c] = k] /\ Carries(k, lists', ticks')

ShoppingStepKeeps ==
  ListsTyped' /\ ItemsInv' /\ lists <= lists' /\ ticks \subseteq ticks' /\ ShoppingMoves

\* An idle call carries nothing.
LEMMA NoShoppingCarries ==
  NoShopping \in ShoppingCallRecords /\ \A n, t : Carries(NoShopping, n, t)
BY ShoppingAssumption
   DEF ShoppingAssumption, NoShopping, ShoppingCallRecords, ShoppingPhases, NothingBought, Amounts, Carries

\* What a call carries stays true while ticks are only added.
LEMMA StillCarries ==
  ASSUME NEW k, NEW n \in Nat, NEW m \in Nat, NEW t, NEW u, n <= m, t \subseteq u, Carries(k, n, t)
  PROVE  Carries(k, m, u)
BY ShoppingAssumption DEF ShoppingAssumption, Carries, ListIds

\* Steps that only move a call.
LEMMA QuietShopping ==
  ASSUME ShoppingInv, NEW c \in ShoppingCalls, NEW k \in ShoppingCallRecords, ShoppingCallIs(c, k),
         Carries(k, lists, ticks), UNCHANGED <<lists, items, stamps, ticks>>
  PROVE  ShoppingStepKeeps
<1>1. ListsTyped' /\ ItemsInv'
  BY DEF ShoppingInv, ShoppingTypeOK, ListsTyped, ItemsInv, ListsKept
<1>2. lists <= lists' /\ ticks \subseteq ticks'
  BY DEF ShoppingInv, ShoppingTypeOK
<1>3. ShoppingMoves
  BY DEF ShoppingCallIs, ShoppingMoves
<1> QED
  BY <1>1, <1>2, <1>3 DEF ShoppingStepKeeps

\* The item for an entry: what it shows as bought, or ticked, was bought before.
LEMMA NewItemIs ==
  ASSUME NEW l \in ListIds, NEW stamp \in 1..MaxStamps, NEW e \in Entries, NEW before \in Amounts
  PROVE  LET i == NewItem(l, stamp, e, before) IN
         /\ i \in Items
         /\ i.list = l /\ i.stamp = stamp /\ i.key = e.key /\ i.need = e.need /\ i.source = "meal_plan"
         /\ i.bought > 0 \/ i.ticked => before > 0
<1> DEFINE bought == IF e.need > 0 /\ before > e.need THEN e.need ELSE before
           ticked == e.need > 0 /\ bought >= e.need
<1>1. e.key \in Ingredients /\ e.need \in Amounts
  BY DEF Entries
<1>2. bought \in Amounts /\ ticked \in BOOLEAN /\ (bought > 0 \/ ticked => before > 0)
  BY <1>1, ShoppingAssumption DEF ShoppingAssumption, Amounts
<1>3. NewItem(l, stamp, e, before)
        = [list |-> l, stamp |-> stamp, key |-> e.key, need |-> e.need, bought |-> bought,
           ticked |-> ticked, source |-> "meal_plan"]
  BY DEF NewItem
<1> HIDE DEF bought, ticked
<1> QED
  BY <1>1, <1>2, <1>3 DEF Items

Manual(i) == [i EXCEPT !.source = "manual"]

\* The row of a manual item.
LEMMA ManualItemIs ==
  ASSUME NEW l \in ListIds, NEW stamp \in 1..MaxStamps, NEW e \in Entries
  PROVE  LET i == Manual(NewItem(l, stamp, e, 0)) IN
         /\ i \in Items
         /\ i.list = l /\ i.stamp = stamp /\ i.key = e.key /\ i.need = e.need /\ i.source = "manual"
         /\ ~(i.bought > 0 \/ i.ticked)
<1> DEFINE j == NewItem(l, stamp, e, 0)
<1>1. /\ j \in Items
      /\ j.list = l /\ j.stamp = stamp /\ j.key = e.key /\ j.need = e.need
      /\ ~(j.bought > 0 \/ j.ticked)
  <2>1. 0 \in Amounts /\ ~(0 > 0)
    BY ShoppingAssumption DEF ShoppingAssumption, Amounts
  <2> QED
    BY <2>1, NewItemIs
<1>2. \A i \in Items :
        /\ Manual(i) \in Items
        /\ Manual(i).list = i.list /\ Manual(i).stamp = i.stamp /\ Manual(i).key = i.key /\ Manual(i).need = i.need
        /\ Manual(i).bought = i.bought /\ Manual(i).ticked = i.ticked /\ Manual(i).source = "manual"
  BY DEF Manual, Items
<1> QED
  BY <1>1, <1>2

\* Entries are what their ingredient and amount say.
LEMMA EntriesDiffer == ASSUME NEW e \in Entries, NEW f \in Entries, e.key = f.key, e.need = f.need PROVE e = f
<1>1. e = [key |-> e.key, need |-> e.need] /\ f = [key |-> f.key, need |-> f.need]
  BY DEF Entries
<1> QED
  BY <1>1

\* A statement that inserts items for one list, and leaves either none of that
\* list's items or only adds manual ones.
LEMMA InsertsKeep ==
  ASSUME ShoppingInv, NEW c \in ShoppingCalls, NEW l \in ListIds, NEW kept \in SUBSET items, NEW new \in SUBSET Items,
         stamps < MaxStamps, stamps' = stamps + 1, items' = kept \cup new, ticks' = ticks,
         lists' \in 0..MaxLists, lists <= lists', l <= lists', ShoppingCallIs(c, NoShopping),
         \A i \in new : /\ i.list = l /\ i.stamp = stamps + 1
                        /\ i.bought > 0 \/ i.ticked => <<l, i.key>> \in ticks,
         \A i, j \in new : ItemId(i) = ItemId(j) => i = j,
         (\A i \in kept : i.list # l) \/ (\A i \in new : i.source = "manual")
  PROVE  ShoppingStepKeeps
<1>1. /\ items \subseteq Items /\ stamps \in Nat /\ lists \in Nat /\ ticks \subseteq ListIds \X Ingredients
      /\ \A i \in items : i.list <= lists /\ i.stamp <= stamps /\ i.list \in Nat /\ i.stamp \in Nat
  BY DEF ShoppingInv, ShoppingTypeOK, ItemsInv, Items, ListIds
<1>2. ListsTyped'
  BY <1>1, ShoppingAssumption DEF ShoppingAssumption, ListsTyped, ShoppingInv, ShoppingTypeOK
<1>3. \A i \in items' : i.list <= lists' /\ i.stamp <= stamps'
  <2>1. lists' \in Nat /\ stamps' \in Nat /\ stamps' = stamps + 1
    BY <1>1
  <2>2. ASSUME NEW i \in kept PROVE i.list <= lists' /\ i.stamp <= stamps'
    <3>1. i.list \in Nat /\ i.stamp \in Nat /\ i.list <= lists /\ i.stamp <= stamps
      BY <1>1
    <3> QED
      BY <1>1, <2>1, <3>1
  <2>3. ASSUME NEW i \in new PROVE i.list <= lists' /\ i.stamp <= stamps'
    <3>1. i.list = l /\ i.stamp = stamps'
      BY <2>1
    <3>2. stamps' <= stamps'
      BY <2>1
    <3> QED
      BY <3>1, <3>2
  <2> QED
    BY <2>2, <2>3
<1>4. \A i, j \in items' : i.list = j.list /\ i.source = "meal_plan" /\ j.source = "meal_plan" => i.stamp = j.stamp
  <2>1. \A i, j \in kept : i.list = j.list /\ i.source = "meal_plan" /\ j.source = "meal_plan" => i.stamp = j.stamp
    BY DEF ShoppingInv, ItemsInv, ListsKept
  <2> QED
    BY <2>1
<1>5. \A i \in items' : i.bought > 0 \/ i.ticked => <<i.list, i.key>> \in ticks'
  BY DEF ShoppingInv, ItemsInv, ListsKept
<1>6. \A i, j \in items' : ItemId(i) = ItemId(j) => i = j
  <2>1. \A i, j : ItemId(i) = ItemId(j) => i.stamp = j.stamp
    BY DEF ItemId
  <2>2. ASSUME NEW i \in kept, NEW j \in new PROVE i.stamp # j.stamp
    <3>1. i.stamp \in Nat /\ i.stamp <= stamps /\ j.stamp = stamps + 1
      BY <1>1
    <3> QED
      BY <1>1, <3>1
  <2>3. \A i, j \in kept : ItemId(i) = ItemId(j) => i = j
    BY DEF ShoppingInv, ItemsInv, ListsKept
  <2> QED
    BY <2>1, <2>2, <2>3
<1>7. ShoppingMoves
  BY NoShoppingCarries DEF ShoppingCallIs, ShoppingMoves
<1>8. ItemsInv'
  <2> USE <1>3, <1>4, <1>5, <1>6
  <2> QED
    BY DEF ItemsInv, ListsKept
<1> QED
  BY <1>2, <1>7, <1>8 DEF ShoppingStepKeeps

\* The items of a generation for list l: what they show as bought was ticked off
\* in l if what the call carries was.
LEMMA NewItemsAre ==
  ASSUME ShoppingInv, NEW c \in ShoppingCalls, NEW l \in ListIds, stamps < MaxStamps,
         \A key \in Ingredients : shoppingCalls[c].before[key] > 0 => <<l, key>> \in ticks
  PROVE  /\ NewItems(c, l) \subseteq Items
         /\ \A i \in NewItems(c, l) : /\ i.list = l /\ i.stamp = stamps + 1
                                      /\ i.bought > 0 \/ i.ticked => <<l, i.key>> \in ticks
         /\ \A i, j \in NewItems(c, l) : ItemId(i) = ItemId(j) => i = j
<1> DEFINE before == shoppingCalls[c].before
           menu == shoppingCalls[c].menu
           new(e) == NewItem(l, stamps + 1, e, before[e.key])
<1>1. menu \subseteq Entries /\ before \in [Ingredients -> Amounts] /\ stamps + 1 \in 1..MaxStamps
  BY ShoppingAssumption DEF ShoppingAssumption, ShoppingInv, ShoppingTypeOK, ShoppingCallRecords
<1>2. \A e \in menu : /\ e.key \in Ingredients /\ new(e) \in Items
                      /\ new(e).list = l /\ new(e).stamp = stamps + 1 /\ new(e).key = e.key /\ new(e).need = e.need
                      /\ new(e).bought > 0 \/ new(e).ticked => before[e.key] > 0
  <2> SUFFICES ASSUME NEW e \in menu
               PROVE  /\ e.key \in Ingredients /\ new(e) \in Items
                      /\ new(e).list = l /\ new(e).stamp = stamps + 1 /\ new(e).key = e.key /\ new(e).need = e.need
                      /\ new(e).bought > 0 \/ new(e).ticked => before[e.key] > 0
    OBVIOUS
  <2>1. e \in Entries /\ e.key \in Ingredients
    BY <1>1 DEF Entries
  <2>2. before[e.key] \in Amounts
    BY <1>1, <2>1
  <2> HIDE DEF before, menu
  <2> QED
    BY <1>1, <2>1, <2>2, NewItemIs
<1>3. NewItems(c, l) = {new(e) : e \in menu}
  BY DEF NewItems
<1>4. \A e, f \in menu : ItemId(new(e)) = ItemId(new(f)) => e = f
  <2> SUFFICES ASSUME NEW e \in menu, NEW f \in menu, ItemId(new(e)) = ItemId(new(f)) PROVE e = f
    OBVIOUS
  <2>1. new(e).key = new(f).key /\ new(e).need = new(f).need
    BY DEF ItemId
  <2>2. e \in Entries /\ f \in Entries /\ e.key = f.key /\ e.need = f.need
    BY <1>1, <1>2, <2>1
  <2> QED
    BY <2>2, EntriesDiffer
<1>5. \A key \in Ingredients : before[key] > 0 => <<l, key>> \in ticks
  OBVIOUS
<1> HIDE DEF new, before, menu
<1> QED
  BY <1>2, <1>3, <1>4, <1>5

\* The transaction that inserts a list with its items.
LEMMA CreateKeeps == ASSUME ShoppingInv, NEW c \in ShoppingCalls, CreateWithItems(c) PROVE ShoppingStepKeeps
<1> DEFINE l == lists + 1
<1>1. /\ l \in ListIds /\ lists < MaxLists /\ stamps < MaxStamps
      /\ lists' \in 0..MaxLists /\ lists <= lists' /\ l <= lists' /\ lists' = l
  BY ShoppingAssumption DEF ShoppingAssumption, CreateWithItems, ShoppingInv, ShoppingTypeOK, ListIds
<1>2. \A key \in Ingredients : shoppingCalls[c].before[key] > 0 => <<l, key>> \in ticks
  BY DEF CreateWithItems, ShoppingAt, ShoppingInv, Carries, NothingBought
<1>3. \A i \in items : i.list # l
  BY DEF ShoppingInv, ItemsInv, ShoppingTypeOK, Items, ListIds
<1>4. stamps' = stamps + 1 /\ items' = items \cup NewItems(c, l) /\ ticks' = ticks /\ ShoppingCallIs(c, NoShopping)
  BY DEF CreateWithItems
<1> HIDE DEF l
<1> DEFINE new == NewItems(c, l)
<1>5. /\ new \in SUBSET Items
      /\ \A i \in new : /\ i.list = l /\ i.stamp = stamps + 1
                        /\ i.bought > 0 \/ i.ticked => <<l, i.key>> \in ticks
      /\ \A i, j \in new : ItemId(i) = ItemId(j) => i = j
  BY <1>1, <1>2, NewItemsAre
<1>6. items' = items \cup new
  BY <1>4
<1> HIDE DEF new
<1> QED
  BY <1>1, <1>3, <1>4, <1>5, <1>6, InsertsKeep

\* The transaction that replaces the items of a list.
LEMMA ReplaceKeeps == ASSUME ShoppingInv, NEW c \in ShoppingCalls, ReplaceItems(c) PROVE ShoppingStepKeeps
<1> DEFINE l == shoppingCalls[c].list
           kept == {i \in items : i.list # l}
<1>1. l \in ListIds /\ l <= lists /\ lists \in 0..MaxLists /\ lists <= lists /\ stamps < MaxStamps
  BY DEF ReplaceItems, ShoppingAt, ShoppingInv, ShoppingTypeOK, Carries
<1>2. \A key \in Ingredients : shoppingCalls[c].before[key] > 0 => <<l, key>> \in ticks
  BY DEF ReplaceItems, ShoppingAt, ShoppingInv, Carries
<1>3. /\ stamps' = stamps + 1 /\ items' = kept \cup NewItems(c, l)
      /\ lists' = lists /\ ticks' = ticks /\ ShoppingCallIs(c, NoShopping)
  BY DEF ReplaceItems
<1>4. kept \in SUBSET items /\ \A i \in kept : i.list # l
  OBVIOUS
<1> HIDE DEF l, kept
<1> DEFINE new == NewItems(c, l)
<1>5. /\ new \in SUBSET Items
      /\ \A i \in new : /\ i.list = l /\ i.stamp = stamps + 1
                        /\ i.bought > 0 \/ i.ticked => <<l, i.key>> \in ticks
      /\ \A i, j \in new : ItemId(i) = ItemId(j) => i = j
  BY <1>1, <1>2, NewItemsAre
<1>6. items' = kept \cup new
  BY <1>3
<1> HIDE DEF new
<1> QED
  BY <1>1, <1>3, <1>4, <1>5, <1>6, InsertsKeep

\* The INSERT of a manual item.
LEMMA ManualKeeps == ASSUME ShoppingInv, NEW c \in ShoppingCalls, CreateManualItem(c) PROVE ShoppingStepKeeps
<1> DEFINE l == shoppingCalls[c].list
           menu == shoppingCalls[c].menu
           item(e) == Manual(NewItem(l, stamps + 1, e, 0))
           new == {item(e) : e \in menu}
<1>1. l \in ListIds /\ l <= lists /\ lists \in 0..MaxLists /\ lists <= lists /\ stamps < MaxStamps
  BY DEF CreateManualItem, ShoppingAt, ShoppingInv, ShoppingTypeOK, Carries
<1>2. menu \subseteq Entries /\ stamps + 1 \in 1..MaxStamps
  BY <1>1, ShoppingAssumption DEF ShoppingAssumption, ShoppingInv, ShoppingTypeOK, ShoppingCallRecords
<1>3. /\ stamps' = stamps + 1 /\ items' = items \cup new
      /\ lists' = lists /\ ticks' = ticks /\ ShoppingCallIs(c, NoShopping)
  BY DEF CreateManualItem, Manual
<1> HIDE DEF l, menu
<1>4. \A e \in menu : /\ item(e) \in Items
                      /\ item(e).list = l /\ item(e).stamp = stamps + 1 /\ item(e).key = e.key /\ item(e).need = e.need
                      /\ item(e).source = "manual" /\ ~(item(e).bought > 0 \/ item(e).ticked)
  BY <1>1, <1>2, ManualItemIs
<1>5. \A e, f \in menu : ItemId(item(e)) = ItemId(item(f)) => e = f
  <2> SUFFICES ASSUME NEW e \in menu, NEW f \in menu, ItemId(item(e)) = ItemId(item(f)) PROVE e = f
    OBVIOUS
  <2>1. item(e).key = item(f).key /\ item(e).need = item(f).need
    BY DEF ItemId
  <2>2. e \in Entries /\ f \in Entries /\ e.key = f.key /\ e.need = f.need
    BY <1>2, <1>4, <2>1
  <2> QED
    BY <2>2, EntriesDiffer
<1> HIDE DEF item
<1>6. /\ new \in SUBSET Items
      /\ \A i \in new : /\ i.list = l /\ i.stamp = stamps + 1 /\ i.source = "manual"
                        /\ i.bought > 0 \/ i.ticked => <<l, i.key>> \in ticks
      /\ \A i, j \in new : ItemId(i) = ItemId(j) => i = j
  BY <1>4, <1>5
<1> HIDE DEF new
<1>7. items \in SUBSET items
  OBVIOUS
<1>8. /\ \A i \in new : /\ i.list = l /\ i.stamp = stamps + 1
                        /\ i.bought > 0 \/ i.ticked => <<l, i.key>> \in ticks
      /\ \A i \in new : i.source = "manual"
  BY <1>6
<1>9. lists' \in 0..MaxLists /\ lists <= lists' /\ l <= lists'
  BY <1>1, <1>3
<1>10. new \in SUBSET Items /\ \A i, j \in new : ItemId(i) = ItemId(j) => i = j
  BY <1>6
<1> QED
  BY <1>1, <1>3, <1>7, <1>8, <1>9, <1>10, InsertsKeep

\* A tick is recorded with its list; everything else of the item stays.
Ticked(i, call) == [i EXCEPT !.bought = call.bought, !.ticked = call.ticked]

\* The row of an item that is ticked off.
LEMMA TickedIs ==
  ASSUME NEW i \in Items, NEW call \in ShoppingCallRecords
  PROVE  LET j == Ticked(i, call) IN
         /\ j \in Items
         /\ j.list = i.list /\ j.stamp = i.stamp /\ j.key = i.key /\ j.need = i.need /\ j.source = i.source
         /\ j.bought = call.bought /\ j.ticked = call.ticked
BY DEF Ticked, Items, ShoppingCallRecords

\* The UPDATE of UpdateItemPurchased.
LEMMA TickKeeps == ASSUME ShoppingInv, NEW c \in ShoppingCalls, TickItem(c) PROVE ShoppingStepKeeps
<1> DEFINE call == shoppingCalls[c]
<1>1. call \in ShoppingCallRecords /\ items \subseteq Items
  BY DEF ShoppingInv, ShoppingTypeOK
<1>2. call.bought > 0 => call.ticked
  BY DEF TickItem, ShoppingAt, ShoppingInv, Carries
<1>3. PICK i \in items :
        /\ items' = (items \ {i}) \cup {Ticked(i, call)}
        /\ ticks' = IF call.ticked THEN ticks \cup {<<i.list, i.key>>} ELSE ticks
        /\ ShoppingCallIs(c, NoShopping)
        /\ UNCHANGED <<lists, stamps>>
  BY DEF TickItem, Ticked
<1> DEFINE j == Ticked(i, call)
<1>4. /\ j \in Items
      /\ j.list = i.list /\ j.stamp = i.stamp /\ j.key = i.key /\ j.need = i.need /\ j.source = i.source
      /\ j.bought = call.bought /\ j.ticked = call.ticked
  BY <1>1, TickedIs
<1> HIDE DEF call, j
<1>5. i.list \in ListIds /\ i.key \in Ingredients
  BY <1>1 DEF Items
<1>6. ListsTyped'
  BY <1>1, <1>3, <1>4, <1>5 DEF j, ListsTyped, ShoppingInv, ShoppingTypeOK
<1>7. items' = (items \ {i}) \cup {j}
  BY <1>3 DEF j
<1>8. \A k \in items' : k.list <= lists' /\ k.stamp <= stamps'
  BY <1>3, <1>4, <1>7 DEF ShoppingInv, ItemsInv
<1>9. \A k, m \in items' : k.list = m.list /\ k.source = "meal_plan" /\ m.source = "meal_plan" => k.stamp = m.stamp
  BY <1>4, <1>7 DEF ShoppingInv, ItemsInv, ListsKept
<1>10. \A k \in items' : k.bought > 0 \/ k.ticked => <<k.list, k.key>> \in ticks'
  BY <1>2, <1>3, <1>4, <1>7 DEF ShoppingInv, ItemsInv, ListsKept
<1>11. \A k, m \in items' : ItemId(k) = ItemId(m) => k = m
  <2>1. ItemId(j) = ItemId(i)
    BY <1>4 DEF ItemId
  <2>2. \A k, m \in items : ItemId(k) = ItemId(m) => k = m
    BY DEF ShoppingInv, ItemsInv, ListsKept
  <2> QED
    BY <1>7, <2>1, <2>2
<1>12. ItemsInv'
  <2> USE <1>8, <1>9, <1>10, <1>11
  <2> QED
    BY DEF ItemsInv, ListsKept
<1>13. ShoppingMoves
  BY <1>3, NoShoppingCarries DEF ShoppingCallIs, ShoppingMoves
<1>14. lists <= lists' /\ ticks \subseteq ticks'
  BY <1>3 DEF ShoppingInv, ShoppingTypeOK
<1> QED
  BY <1>6, <1>12, <1>13, <1>14 DEF ShoppingStepKeeps

\* The DELETE of an item.
LEMMA DeleteKeeps == ASSUME ShoppingInv, NEW c \in ShoppingCalls, DeleteItemRow(c) PROVE ShoppingStepKeeps
<1>1. items' \subseteq items /\ ShoppingCallIs(c, NoShopping) /\ UNCHANGED <<lists, stamps, ticks>>
  BY DEF DeleteItemRow
<1>2. ListsTyped'
  BY <1>1 DEF ListsTyped, ShoppingInv, ShoppingTypeOK
<1>3. ItemsInv'
  BY <1>1 DEF ItemsInv, ListsKept, ShoppingInv
<1>4. ShoppingMoves
  BY <1>1, NoShoppingCarries DEF ShoppingCallIs, ShoppingMoves
<1>5. lists <= lists' /\ ticks \subseteq ticks'
  BY <1>1 DEF ShoppingInv, ShoppingTypeOK
<1> QED
  BY <1>2, <1>3, <1>4, <1>5 DEF ShoppingStepKeeps

\* The ids of items that exist are ids.
LEMMA IdsAreIds == ASSUME ShoppingInv, NEW i \in items PROVE ItemId(i) \in ItemIds
BY DEF ShoppingInv, ShoppingTypeOK, Items, ItemId, ItemIds

\* The first query of a call.
LEMMA StartsKeep ==
  ASSUME ShoppingInv, NEW c \in ShoppingCalls, NEW k \in ShoppingCallRecords, ShoppingStarts(c, k),
         Carries(k, lists, ticks)
  PROVE  ShoppingStepKeeps
BY QuietShopping DEF ShoppingStarts

\* The requests that only read at first.
LEMMA RequestsKeep ==
  ASSUME ShoppingInv, NEW c \in ShoppingCalls,
         \/ \E menu \in Menus : GenerateShoppingList(c, menu)
         \/ \E i \in items : \/ DeleteItem(c, i)
                             \/ \E b \in Amounts, t \in BOOLEAN : UpdateItemPurchased(c, i, b, t)
         \/ \E l \in ListIds, e \in Entries : AddManualItem(c, l, e)
  PROVE  ShoppingStepKeeps
<1>0. NoShopping \in ShoppingCallRecords /\ NoShopping.before = NothingBought
  BY NoShoppingCarries DEF NoShopping
<1>1. ASSUME NEW menu \in Menus, GenerateShoppingList(c, menu) PROVE ShoppingStepKeeps
  <2> DEFINE k == [NoShopping EXCEPT !.at = "find", !.menu = menu]
  <2>1. k \in ShoppingCallRecords /\ k.at = "find" /\ k.before = NothingBought
    BY <1>0 DEF ShoppingCallRecords, ShoppingPhases, Menus
  <2>2. ShoppingStarts(c, k)
    BY <1>1 DEF GenerateShoppingList
  <2> HIDE DEF k
  <2>3. Carries(k, lists, ticks)
    BY <2>1 DEF Carries
  <2> QED
    BY <2>1, <2>2, <2>3, StartsKeep
<1>2. ASSUME NEW i \in items, DeleteItem(c, i) PROVE ShoppingStepKeeps
  <2> DEFINE k == [NoShopping EXCEPT !.at = "delete", !.item = ItemId(i)]
  <2>1. k \in ShoppingCallRecords /\ k.at = "delete"
    BY <1>0, IdsAreIds DEF ShoppingCallRecords, ShoppingPhases
  <2>2. ShoppingStarts(c, k)
    BY <1>2 DEF DeleteItem
  <2> HIDE DEF k
  <2>3. Carries(k, lists, ticks)
    BY <2>1 DEF Carries
  <2> QED
    BY <2>1, <2>2, <2>3, StartsKeep
<1>3. ASSUME NEW i \in items, NEW b \in Amounts, NEW t \in BOOLEAN, UpdateItemPurchased(c, i, b, t)
      PROVE  ShoppingStepKeeps
  <2> DEFINE k == [NoShopping EXCEPT !.at = "tick", !.item = ItemId(i), !.bought = b, !.ticked = t]
  <2>1. k \in ShoppingCallRecords /\ k.at = "tick" /\ k.bought = b /\ k.ticked = t
    BY <1>0, IdsAreIds DEF ShoppingCallRecords, ShoppingPhases
  <2>2. ShoppingStarts(c, k) /\ (b > 0 => t)
    BY <1>3 DEF UpdateItemPurchased
  <2> HIDE DEF k
  <2>3. Carries(k, lists, ticks)
    BY <2>1, <2>2 DEF Carries
  <2> QED
    BY <2>1, <2>2, <2>3, StartsKeep
<1>4. ASSUME NEW l \in ListIds, NEW e \in Entries, AddManualItem(c, l, e) PROVE ShoppingStepKeeps
  <2> DEFINE k == [NoShopping EXCEPT !.at = "insert", !.list = l, !.menu = {e}]
  <2>0. l \in 0..MaxLists /\ {e} \in SUBSET Entries
    BY ShoppingAssumption DEF ShoppingAssumption, ListIds
  <2>1. k \in ShoppingCallRecords /\ k.at = "insert" /\ k.list = l
    BY <1>0, <2>0 DEF ShoppingCallRecords, ShoppingPhases
  <2>2. ShoppingStarts(c, k) /\ l <= lists
    BY <1>4 DEF AddManualItem
  <2> HIDE DEF k
  <2>3. Carries(k, lists, ticks)
    BY <2>1, <2>2 DEF Carries
  <2> QED
    BY <2>1, <2>2, <2>3, StartsKeep
<1> QED
  BY <1>1, <1>2, <1>3, <1>4

\* The search for a list of the same dates.
LEMMA FindKeeps == ASSUME ShoppingInv, NEW c \in ShoppingCalls, FindByFamilyDates(c) PROVE ShoppingStepKeeps
<1> DEFINE phase == IF lists = 0 THEN "create" ELSE "previous"
           k == [shoppingCalls[c] EXCEPT !.at = phase, !.list = lists]
<1>1. shoppingCalls[c] \in ShoppingCallRecords /\ shoppingCalls[c].at = "find" /\ lists \in 0..MaxLists
  BY DEF FindByFamilyDates, ShoppingAt, ShoppingInv, ShoppingTypeOK
<1>2. shoppingCalls[c].before = NothingBought
  BY <1>1 DEF ShoppingInv, Carries
<1>3. k \in ShoppingCallRecords /\ k.at = phase /\ k.list = lists /\ k.before = NothingBought
  BY <1>1, <1>2 DEF ShoppingCallRecords, ShoppingPhases
<1>4. ShoppingCallIs(c, k) /\ UNCHANGED <<lists, items, stamps, ticks>>
  BY DEF FindByFamilyDates
<1>5. phase = "create" \/ (phase = "previous" /\ lists \in ListIds /\ lists <= lists)
  BY <1>1, ShoppingAssumption DEF ShoppingAssumption, ListIds
<1> HIDE DEF k, phase
<1>6. Carries(k, lists, ticks)
  BY <1>3, <1>5 DEF Carries
<1> QED
  BY <1>3, <1>4, <1>6, QuietShopping

\* The reading of what was bought already.
LEMMA PreviousKeeps == ASSUME ShoppingInv, NEW c \in ShoppingCalls, PreviousItems(c) PROVE ShoppingStepKeeps
<1>1. PICK before \in [Ingredients -> Amounts] :
        /\ \A key \in Ingredients :
             LET old == Progressed(shoppingCalls[c].list, key) IN
             IF old = {} THEN before[key] = 0 ELSE \E i \in old : before[key] = Progress(i)
        /\ ShoppingCallIs(c, [shoppingCalls[c] EXCEPT !.at = "replace", !.before = before])
        /\ UNCHANGED <<lists, items, stamps, ticks>>
  BY DEF PreviousItems
<1> DEFINE l == shoppingCalls[c].list
           k == [shoppingCalls[c] EXCEPT !.at = "replace", !.before = before]
<1>2. shoppingCalls[c] \in ShoppingCallRecords /\ l \in ListIds /\ l <= lists
  BY DEF PreviousItems, ShoppingAt, ShoppingInv, ShoppingTypeOK, Carries
<1>3. k \in ShoppingCallRecords /\ k.at = "replace" /\ k.list = l /\ k.before = before
  BY <1>2 DEF ShoppingCallRecords, ShoppingPhases
<1>4. ASSUME NEW key \in Ingredients, before[key] > 0 PROVE <<l, key>> \in ticks
  <2>1. Progressed(l, key) # {}
    <3>1. Progressed(l, key) = {} => before[key] = 0
      BY <1>1
    <3>2. before[key] # 0
      BY <1>4
    <3> QED
      BY <3>1, <3>2
  <2>2. PICK i \in Progressed(l, key) : TRUE
    BY <2>1
  <2>3. i \in items /\ i.list = l /\ i.key = key /\ (i.bought > 0 \/ i.ticked)
    BY <2>2 DEF Progressed
  <2> QED
    BY <2>3 DEF ShoppingInv, ItemsInv, ListsKept
<1>5. ShoppingCallIs(c, k) /\ UNCHANGED <<lists, items, stamps, ticks>>
  BY <1>1
<1> HIDE DEF l, k
<1>6. Carries(k, lists, ticks)
  BY <1>2, <1>3, <1>4 DEF Carries
<1> QED
  BY <1>3, <1>5, <1>6, QuietShopping

\* Every step keeps the invariant.
LEMMA ShoppingNextKeeps == ASSUME ShoppingInv, ShoppingNext PROVE ShoppingStepKeeps
<1> SUFFICES ASSUME NEW c \in ShoppingCalls, ShoppingStep(c) PROVE ShoppingStepKeeps
  BY DEF ShoppingNext
<1>1. CASE ShoppingFails(c)
  BY <1>1, NoShoppingCarries, QuietShopping DEF ShoppingFails
<1> QED
  BY <1>1, RequestsKeep, FindKeeps, PreviousKeeps, CreateKeeps, ReplaceKeeps, TickKeeps, DeleteKeeps, ManualKeeps
     DEF ShoppingStep

\* Initially there is no list and no call.
LEMMA ShoppingInitInv == ASSUME ShoppingInit PROVE ShoppingInv
BY NoShoppingCarries, ShoppingAssumption
   DEF ShoppingAssumption, ShoppingInit, ShoppingInv, ShoppingTypeOK, ItemsInv, ListsKept

\* Every step, or none, keeps the invariant.
LEMMA ShoppingNextInv == ASSUME ShoppingInv, [ShoppingNext]_shoppingVars PROVE ShoppingInv'
<1>1. CASE UNCHANGED shoppingVars
  BY <1>1 DEF shoppingVars, ShoppingInv, ShoppingTypeOK, ItemsInv, ListsKept, Carries
<1>2. CASE ShoppingNext
  <2>1. ShoppingStepKeeps
    BY <1>2, ShoppingNextKeeps
  <2>2. shoppingCalls' \in [ShoppingCalls -> ShoppingCallRecords]
    BY <2>1 DEF ShoppingStepKeeps, ShoppingMoves, ShoppingInv, ShoppingTypeOK
  <2>3. lists \in Nat /\ lists' \in Nat
    BY <2>1 DEF ShoppingStepKeeps, ListsTyped, ShoppingInv, ShoppingTypeOK
  <2>4. \A c \in ShoppingCalls : Carries(shoppingCalls[c], lists', ticks')
    BY <2>1, <2>3, StillCarries DEF ShoppingStepKeeps, ShoppingInv
  <2>5. \A c \in ShoppingCalls : Carries(shoppingCalls'[c], lists', ticks')
    BY <2>1, <2>4 DEF ShoppingStepKeeps, ShoppingMoves, ShoppingInv, ShoppingTypeOK
  <2> QED
    BY <2>1, <2>2, <2>5 DEF ShoppingStepKeeps, ListsTyped, ShoppingInv, ShoppingTypeOK
<1> QED
  BY <1>1, <1>2

\* Hence it holds always.
LEMMA ShoppingAlways == ShoppingSpec => []ShoppingInv
BY ShoppingInitInv, ShoppingNextInv, PTL DEF ShoppingSpec

\* Lists, items and calls keep their types.
THEOREM ShoppingTypes == ShoppingSpec => []ShoppingTypeOK
<1>1. ShoppingInv => ShoppingTypeOK
  BY DEF ShoppingInv
<1> QED
  BY <1>1, ShoppingAlways, PTL

\* Every list shows one reading of the menu, and as bought only what was ticked
\* off in that very list, whatever came between the reads and the writes.
THEOREM ListsAreKept == ShoppingSpec => []ListsKept
<1>1. ShoppingInv => ListsKept
  BY DEF ShoppingInv, ItemsInv
<1> QED
  BY <1>1, ShoppingAlways, PTL
=============================================================================
