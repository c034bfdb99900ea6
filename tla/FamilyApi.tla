----------------------------- MODULE FamilyApi -----------------------------
(***************************************************************************)
(* The endpoints of families, meal plans and shopping lists: messages,     *)
(* handlers of the gateway, methods of the FamilyService and their errors. *)
(* What a method does to the tables is in FamilyMembership, MealPlans and  *)
(* ShoppingLists.                                                          *)
(***************************************************************************)
EXTENDS Api

\* The messages, with the users that they name; the ids of other things are
\* left out.
GetMyFamilyRequest(u) == [method |-> "GetMyFamily", user_id |-> u]
GetDietaryProfileRequest(u) == [method |-> "GetDietaryProfile", user_id |-> u]
SaveDietaryProfileRequest(u) == [method |-> "SaveDietaryProfile", user_id |-> u]
CreateFamilyRequest(u) == [method |-> "CreateFamily", user_id |-> u]
UpdateFamilyRequest(u) == [method |-> "UpdateFamily", user_id |-> u]
JoinFamilyRequest(u) == [method |-> "JoinFamily", user_id |-> u]
LeaveFamilyRequest(u) == [method |-> "LeaveFamily", user_id |-> u]
DissolveFamilyRequest(u) == [method |-> "DissolveFamily", user_id |-> u]
ListMembersRequest(u) == [method |-> "ListMembers", user_id |-> u]
UpdateMemberRequest(operator, member) ==
  [method |-> "UpdateMember", operator_user_id |-> operator, member_user_id |-> member]
RemoveMemberRequest(operator, member) ==
  [method |-> "RemoveMember", operator_user_id |-> operator, member_user_id |-> member]
ResetInviteCodeRequest(u) == [method |-> "ResetInviteCode", user_id |-> u]
CreateMealPlanRequest(u, cook) ==
  [method |-> "CreateMealPlan", created_by |-> u, cook_user_id |-> cook]
ListMealPlansRequest(u) == [method |-> "ListMealPlans", user_id |-> u]
UpdateMealPlanRequest(u, cook) ==
  [method |-> "UpdateMealPlan", user_id |-> u, cook_user_id |-> cook]
DeleteMealPlanRequest(u) == [method |-> "DeleteMealPlan", user_id |-> u]
UpsertMealPlanRatingRequest(u) == [method |-> "UpsertMealPlanRating", user_id |-> u]
ListMealPlanRatingsRequest(u) == [method |-> "ListMealPlanRatings", user_id |-> u]
GenerateShoppingListRequest(u) == [method |-> "GenerateShoppingList", user_id |-> u]
ListShoppingListsRequest(u) == [method |-> "ListShoppingLists", user_id |-> u]
GetShoppingListRequest(u) == [method |-> "GetShoppingList", user_id |-> u]
UpdateShoppingItemPurchasedRequest(u) ==
  [method |-> "UpdateShoppingItemPurchased", user_id |-> u]
AddManualShoppingItemRequest(u) == [method |-> "AddManualShoppingItem", user_id |-> u]
DeleteShoppingItemRequest(u) == [method |-> "DeleteShoppingItem", user_id |-> u]

FamilyEndpoints ==
  {"GetMyFamily", "GetDietaryProfile", "SaveDietaryProfile", "CreateFamily", "UpdateFamily",
   "JoinFamily", "LeaveFamily", "DissolveFamily", "ListMembers", "UpdateMember", "RemoveMember",
   "ResetInviteCode", "CreateMealPlan", "ListMealPlans", "UpdateMealPlan", "DeleteMealPlan",
   "UpsertMealPlanRating", "ListMealPlanRatings", "GenerateShoppingList", "ListShoppingLists",
   "GetShoppingList", "UpdateShoppingItemPurchased", "AddManualShoppingItem", "DeleteShoppingItem"}

-----------------------------------------------------------------------------
\* The handlers.  Three of them bind the body to the message and then set its
\* user_id.
HandleGetMyFamily == Handle("GetMyFamily", TRUE, GetMyFamilyRequest(Caller))
HandleGetDietaryProfile == Handle("GetDietaryProfile", call.ids, GetDietaryProfileRequest(Caller))
HandleSaveDietaryProfile ==
  Handle("SaveDietaryProfile", call.ids /\ call.json, SaveDietaryProfileRequest(Caller))
HandleCreateFamily ==
  Handle("CreateFamily", call.json, [CreateFamilyRequest(call.names) EXCEPT !.user_id = Caller])
HandleUpdateFamily == Handle("UpdateFamily", call.ids /\ call.json, UpdateFamilyRequest(Caller))
HandleJoinFamily ==
  Handle("JoinFamily", call.json, [JoinFamilyRequest(call.names) EXCEPT !.user_id = Caller])

\* Mutation: the user_id of the body is kept.
HandleLeaveFamily_KeepsUserId == Handle("LeaveFamily", call.json, LeaveFamilyRequest(call.names))

HandleLeaveFamily ==
  Handle("LeaveFamily", call.json, [LeaveFamilyRequest(call.names) EXCEPT !.user_id = Caller])
HandleDissolveFamily == Handle("DissolveFamily", call.ids, DissolveFamilyRequest(Caller))
HandleListMembers == Handle("ListMembers", call.ids, ListMembersRequest(Caller))
HandleUpdateMember ==
  Handle("UpdateMember", call.ids /\ call.json, UpdateMemberRequest(Caller, call.names))
HandleRemoveMember == Handle("RemoveMember", call.ids, RemoveMemberRequest(Caller, call.names))
HandleResetInviteCode ==
  Handle("ResetInviteCode", call.ids /\ call.json, ResetInviteCodeRequest(Caller))

HandleCreateMealPlan ==
  Handle("CreateMealPlan", call.json /\ call.ids, CreateMealPlanRequest(Caller, call.names))
HandleListMealPlans == Handle("ListMealPlans", call.ids, ListMealPlansRequest(Caller))
HandleUpdateMealPlan ==
  Handle("UpdateMealPlan", call.ids /\ call.json, UpdateMealPlanRequest(Caller, call.names))
HandleUpsertMealPlanRating ==
  Handle("UpsertMealPlanRating", call.ids /\ call.json, UpsertMealPlanRatingRequest(Caller))
HandleListMealPlanRatings ==
  Handle("ListMealPlanRatings", call.ids, ListMealPlanRatingsRequest(Caller))
HandleDeleteMealPlan == Handle("DeleteMealPlan", call.ids, DeleteMealPlanRequest(Caller))

HandleGenerateShoppingList ==
  Handle("GenerateShoppingList", call.json /\ call.ids, GenerateShoppingListRequest(Caller))
HandleListShoppingLists == Handle("ListShoppingLists", call.ids, ListShoppingListsRequest(Caller))
HandleGetShoppingList == Handle("GetShoppingList", call.ids, GetShoppingListRequest(Caller))
HandleUpdateShoppingItemPurchased ==
  Handle("UpdateShoppingItemPurchased", call.ids /\ call.json,
         UpdateShoppingItemPurchasedRequest(Caller))
HandleAddManualShoppingItem ==
  Handle("AddManualShoppingItem", call.json /\ call.ids, AddManualShoppingItemRequest(Caller))
HandleDeleteShoppingItem == Handle("DeleteShoppingItem", call.ids, DeleteShoppingItemRequest(Caller))

HandleFamilyCall ==
  \/ HandleGetMyFamily \/ HandleGetDietaryProfile \/ HandleSaveDietaryProfile
  \/ HandleCreateFamily \/ HandleUpdateFamily \/ HandleJoinFamily \/ HandleLeaveFamily
  \/ HandleDissolveFamily \/ HandleListMembers \/ HandleUpdateMember \/ HandleRemoveMember
  \/ HandleResetInviteCode
  \/ HandleCreateMealPlan \/ HandleListMealPlans \/ HandleUpdateMealPlan
  \/ HandleUpsertMealPlanRating \/ HandleListMealPlanRatings \/ HandleDeleteMealPlan
  \/ HandleGenerateShoppingList \/ HandleListShoppingLists \/ HandleGetShoppingList
  \/ HandleUpdateShoppingItemPurchased \/ HandleAddManualShoppingItem \/ HandleDeleteShoppingItem

-----------------------------------------------------------------------------
\* Business errors and their codes; any other error is internal.
mapFamilyErrorCode ==
  [ErrFamilyNotFound |-> 2001, ErrUserAlreadyInFamily |-> 2002, ErrUserNotInFamily |-> 2003,
   ErrNoFamilyPermission |-> 2004, ErrInvalidInviteCode |-> 2005, ErrFamilyFull |-> 2006,
   ErrCannotOperateOwner |-> 2007, ErrInvalidFamilyName |-> 2008, ErrMemberNotFound |-> 2009,
   ErrInvalidDietaryProfile |-> 2010, ErrInvalidMealDate |-> 2101, ErrInvalidMealType |-> 2102,
   ErrInvalidMealServings |-> 2103, ErrMealPlanDishNotFound |-> 2104,
   ErrCookUserNotInFamily |-> 2105, ErrInvalidMealPlanIDs |-> 2106, ErrMealPlanNotFound |-> 2107,
   ErrInvalidMealDateRange |-> 2108, ErrInvalidMealPlanStatus |-> 2109,
   ErrCookOnlyCanUpdateStatus |-> 2110, ErrMealPlanNotCompleted |-> 2111,
   ErrInvalidMealPlanRating |-> 2112, ErrUserNotFound |-> 1004]

mapShoppingErrorCode ==
  [ErrShoppingListNotFound |-> 2201, ErrShoppingItemNotFound |-> 2202,
   ErrInvalidShoppingDate |-> 2203, ErrInvalidShoppingName |-> 2204,
   ErrInvalidShoppingItem |-> 2205, ErrUserNotInFamily |-> 2003]

FamilyServes(method, refusals) ==
  Serves(method, refusals, {"ErrDatabase"}, mapFamilyErrorCode)
ShoppingServes(method, refusals) ==
  Serves(method, refusals, {"ErrDatabase"}, mapShoppingErrorCode)

\* Every error of GetMyFamily is internal.
ServeGetMyFamily == FamilyServes("GetMyFamily", {})
ServeGetDietaryProfile ==
  FamilyServes("GetDietaryProfile", {"ErrInvalidDietaryProfile", "ErrUserNotInFamily"})
ServeSaveDietaryProfile ==
  FamilyServes("SaveDietaryProfile",
    {"ErrInvalidDietaryProfile", "ErrUserNotInFamily", "ErrNoFamilyPermission", "ErrLostRace"})
ServeCreateFamily ==
  FamilyServes("CreateFamily", {"ErrInvalidFamilyName", "ErrUserNotFound",
                                "ErrUserAlreadyInFamily", "ErrLostRace"})
ServeUpdateFamily ==
  FamilyServes("UpdateFamily", {"ErrUserNotInFamily", "ErrNoFamilyPermission",
                                "ErrFamilyNotFound", "ErrInvalidFamilyName"})
ServeJoinFamily ==
  FamilyServes("JoinFamily", {"ErrUserNotFound", "ErrUserAlreadyInFamily",
                              "ErrInvalidInviteCode", "ErrFamilyFull", "ErrLostRace"})
ServeLeaveFamily ==
  FamilyServes("LeaveFamily", {"ErrUserNotInFamily", "ErrCannotOperateOwner", "ErrLostRace"})
ServeDissolveFamily ==
  FamilyServes("DissolveFamily", {"ErrUserNotInFamily", "ErrNoFamilyPermission", "ErrFamilyNotFound"})
ServeListMembers == FamilyServes("ListMembers", {"ErrNoFamilyPermission", "ErrFamilyNotFound"})
ServeUpdateMember ==
  FamilyServes("UpdateMember", {"ErrNoFamilyPermission", "ErrMemberNotFound",
                                "ErrCannotOperateOwner", "ErrLostRace"})
ServeRemoveMember ==
  FamilyServes("RemoveMember", {"ErrNoFamilyPermission", "ErrMemberNotFound",
                                "ErrCannotOperateOwner", "ErrLostRace"})
ServeResetInviteCode ==
  FamilyServes("ResetInviteCode", {"ErrNoFamilyPermission", "ErrFamilyNotFound", "ErrLostRace"})

ServeCreateMealPlan ==
  FamilyServes("CreateMealPlan",
    {"ErrInvalidMealPlanIDs", "ErrInvalidMealType", "ErrInvalidMealServings", "ErrInvalidMealDate",
     "ErrNoFamilyPermission", "ErrFamilyNotFound", "ErrMealPlanDishNotFound", "ErrCookUserNotInFamily"})
ServeListMealPlans ==
  FamilyServes("ListMealPlans", {"ErrInvalidMealPlanIDs", "ErrNoFamilyPermission",
                                 "ErrInvalidMealDate", "ErrInvalidMealDateRange"})
ServeUpdateMealPlan ==
  FamilyServes("UpdateMealPlan",
    {"ErrInvalidMealPlanIDs", "ErrMealPlanNotFound", "ErrNoFamilyPermission",
     "ErrInvalidMealPlanStatus", "ErrCookOnlyCanUpdateStatus", "ErrInvalidMealDate",
     "ErrInvalidMealType", "ErrInvalidMealServings", "ErrCookUserNotInFamily"})
ServeUpsertMealPlanRating ==
  FamilyServes("UpsertMealPlanRating",
    {"ErrInvalidMealPlanIDs", "ErrInvalidMealPlanRating", "ErrMealPlanNotFound",
     "ErrNoFamilyPermission", "ErrMealPlanNotCompleted", "ErrLostRace"})
ServeListMealPlanRatings ==
  FamilyServes("ListMealPlanRatings",
    {"ErrInvalidMealPlanIDs", "ErrMealPlanNotFound", "ErrNoFamilyPermission"})
ServeDeleteMealPlan ==
  FamilyServes("DeleteMealPlan",
    {"ErrInvalidMealPlanIDs", "ErrMealPlanNotFound", "ErrNoFamilyPermission"})

ServeGenerateShoppingList ==
  ShoppingServes("GenerateShoppingList",
    {"ErrUserNotInFamily", "ErrInvalidShoppingDate", "ErrInvalidShoppingName"})
ServeListShoppingLists == ShoppingServes("ListShoppingLists", {"ErrUserNotInFamily"})
ServeGetShoppingList ==
  ShoppingServes("GetShoppingList", {"ErrShoppingListNotFound", "ErrUserNotInFamily"})
ServeUpdateShoppingItemPurchased ==
  ShoppingServes("UpdateShoppingItemPurchased",
    {"ErrShoppingItemNotFound", "ErrUserNotInFamily", "ErrInvalidShoppingItem"})
ServeAddManualShoppingItem ==
  ShoppingServes("AddManualShoppingItem",
    {"ErrInvalidShoppingItem", "ErrShoppingListNotFound", "ErrUserNotInFamily"})
ServeDeleteShoppingItem ==
  ShoppingServes("DeleteShoppingItem", {"ErrShoppingItemNotFound", "ErrUserNotInFamily"})

ServeFamilyCall ==
  \/ ServeGetMyFamily \/ ServeGetDietaryProfile \/ ServeSaveDietaryProfile
  \/ ServeCreateFamily \/ ServeUpdateFamily \/ ServeJoinFamily \/ ServeLeaveFamily
  \/ ServeDissolveFamily \/ ServeListMembers \/ ServeUpdateMember \/ ServeRemoveMember
  \/ ServeResetInviteCode
  \/ ServeCreateMealPlan \/ ServeListMealPlans \/ ServeUpdateMealPlan
  \/ ServeUpsertMealPlanRating \/ ServeListMealPlanRatings \/ ServeDeleteMealPlan
  \/ ServeGenerateShoppingList \/ ServeListShoppingLists \/ ServeGetShoppingList
  \/ ServeUpdateShoppingItemPurchased \/ ServeAddManualShoppingItem \/ ServeDeleteShoppingItem

-----------------------------------------------------------------------------
familyHTTPStatus(code) ==
  CASE code = 0 -> 200
    [] code \in {1004, 2001, 2009, 2104, 2107, 2201, 2202} -> 404
    [] code \in {2002, 2006, 2111} -> 409
    [] code \in {2003, 2004, 2007, 2110} -> 403
    [] code = 1999 -> 500
    [] OTHER -> 400

Created == {"CreateMealPlan", "GenerateShoppingList", "AddManualShoppingItem"}

\* An error of GetMyFamily has no family, and that is answered with 200.
RespondFamilyCall ==
  \/ RespondsWith({"GetMyFamily"}, LAMBDA code : 200)
  \/ RespondsWith(Created, LAMBDA code : IF code = 0 THEN 201 ELSE familyHTTPStatus(code))
  \/ RespondsWith(FamilyEndpoints \ (Created \cup {"GetMyFamily"}), familyHTTPStatus)

FamilyCallStep ==
  \/ HandleFamilyCall
  \/ ServeFamilyCall
  \/ RpcFails(FamilyEndpoints, 500)
  \/ RespondFamilyCall
=============================================================================
