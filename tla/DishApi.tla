------------------------------ MODULE DishApi ------------------------------
(***************************************************************************)
(* The public endpoints of the dish catalogue, which only read: messages,  *)
(* handlers of the gateway, methods of the DishService and their errors.   *)
(***************************************************************************)
EXTENDS Api

ListCategoriesRequest == [method |-> "ListCategories"]
ListDishesByCategoryRequest == [method |-> "ListDishesByCategory"]
SearchDishesRequest == [method |-> "SearchDishes"]
GetDishDetailRequest == [method |-> "GetDishDetail"]

DishEndpoints == {"ListCategories", "ListDishesByCategory", "SearchDishes", "GetDishDetail"}

HandleListCategories == Handle("ListCategories", TRUE, ListCategoriesRequest)
HandleListDishesByCategory == Handle("ListDishesByCategory", call.ids, ListDishesByCategoryRequest)
HandleSearchDishes == Handle("SearchDishes", call.json, SearchDishesRequest)
HandleGetDishDetail == HandleOr(2001, "GetDishDetail", call.ids, GetDishDetailRequest)

DishServes(method, refusals) == Serves(method, refusals, {"ErrDatabase"}, [ErrDishNotFound |-> 2002])

ServeListCategories == DishServes("ListCategories", {})
ServeListDishesByCategory == DishServes("ListDishesByCategory", {})
ServeSearchDishes == DishServes("SearchDishes", {})
ServeGetDishDetail == DishServes("GetDishDetail", {"ErrDishNotFound"})

dishDetailHTTPStatus(code) ==
  CASE code = 0 -> 200
    [] code = 2002 -> 404
    [] OTHER -> 500

RespondDishCall ==
  \/ RespondsWith({"GetDishDetail"}, dishDetailHTTPStatus)
  \/ RespondsWith(DishEndpoints \ {"GetDishDetail"}, LAMBDA code : 200)

DishCallStep ==
  \/ HandleListCategories \/ HandleListDishesByCategory \/ HandleSearchDishes \/ HandleGetDishDetail
  \/ ServeListCategories \/ ServeListDishesByCategory \/ ServeSearchDishes \/ ServeGetDishDetail
  \/ RpcFails(DishEndpoints, 500)
  \/ RespondDishCall
=============================================================================
