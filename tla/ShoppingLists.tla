--------------------------- MODULE ShoppingLists ---------------------------
(***************************************************************************)
(* The shopping lists of a family for one range of dates.  A list is made  *)
(* from the menu or, if there is one already, made anew: the call reads    *)
(* the menu, the latest list and what was bought for it, and replaces the  *)
(* list's items in one transaction.  Meanwhile members tick items off, add *)
(* items by hand and delete them, each time in a statement that follows a  *)
(* read.  What the menu holds when it is read is left open (MealPlans);    *)
(* amounts are positive.                                                   *)
(***************************************************************************)
EXTENDS Naturals, FiniteSets

CONSTANTS
  Ingredients,    \* name and unit of an ingredient (shoppingItemKey)
  ShoppingCalls,  \* bound: calls under way
  MaxAmount,      \* bound: amounts
  MaxLists,       \* bound: lists
  MaxStamps,      \* bound: statements that insert items
  NoItem          \* no item

ASSUME ShoppingAssumption ==
  /\ MaxAmount \in Nat \ {0}
  /\ MaxLists \in Nat \ {0}
  /\ MaxStamps \in Nat
  /\ NoItem \notin Nat \X Ingredients \X Nat

VARIABLES
  lists,          \* lists in table shopping_list; their ids are 1 to lists
  items,          \* the rows of table shopping_list_item
  stamps,         \* statements that have inserted items
  shoppingCalls,  \* the calls under way
  ticks           \* history: list and ingredient of the items ticked off

shoppingVars == <<lists, items, stamps, shoppingCalls, ticks>>

ListIds == 1..MaxLists
Amounts == 0..MaxAmount   \* 0: only described in words, or nothing
Items == [list : ListIds, stamp : 1..MaxStamps, key : Ingredients, need : Amounts,
          bought : Amounts, ticked : BOOLEAN, source : {"meal_plan", "manual"}]
ItemId(i) == <<i.stamp, i.key, i.need>>
ItemIds == (1..MaxStamps) \X Ingredients \X Amounts

\* aggregateShoppingIngredients adds the amounts of an ingredient up, and keeps
\* what is described in words apart.
Entries == [key : Ingredients, need : Amounts]
Menus == {m \in SUBSET Entries :
            \A e, f \in m : e.key = f.key /\ e.need > 0 /\ f.need > 0 => e = f}

ShoppingPhases == {"idle", "find", "previous", "create", "replace", "tick", "insert", "delete"}
ShoppingCallRecords ==
  [at : ShoppingPhases, list : 0..MaxLists, menu : SUBSET Entries, before : [Ingredients -> Amounts],
   item : ItemIds \cup {NoItem}, bought : Amounts, ticked : BOOLEAN]
NothingBought == [k \in Ingredients |-> 0]
NoShopping == [at |-> "idle", list |-> 0, menu |-> {}, before |-> NothingBought,
               item |-> NoItem, bought |-> 0, ticked |-> FALSE]

ShoppingInit ==
  /\ lists = 0
  /\ items = {}
  /\ stamps = 0
  /\ shoppingCalls = [c \in ShoppingCalls |-> NoShopping]
  /\ ticks = {}

-----------------------------------------------------------------------------
ShoppingAt(c, phase) == shoppingCalls[c].at = phase

ShoppingCallIs(c, call) == shoppingCalls' = [shoppingCalls EXCEPT ![c] = call]

ShoppingStarts(c, call) ==
  /\ ShoppingAt(c, "idle")
  /\ ShoppingCallIs(c, call)
  /\ UNCHANGED <<lists, items, stamps, ticks>>

\* A check refuses, the database fails or the deadline is over; an item that
\* is gone, or would not change, ends the call as well (2202).
ShoppingFails(c) ==
  /\ ~ShoppingAt(c, "idle")
  /\ ShoppingCallIs(c, NoShopping)
  /\ UNCHANGED <<lists, items, stamps, ticks>>

\* requireFamilyMember, and the plans of the dates with their dishes
GenerateShoppingList(c, menu) ==
  ShoppingStarts(c, [NoShopping EXCEPT !.at = "find", !.menu = menu])

FindByFamilyDates(c) ==
  /\ ShoppingAt(c, "find")
  /\ ShoppingCallIs(c, [shoppingCalls[c] EXCEPT !.at = IF lists = 0 THEN "create" ELSE "previous",
                                                !.list = lists])
  /\ UNCHANGED <<lists, items, stamps, ticks>>

\* What has been bought for an item: all of it if it is only ticked off.
Progress(i) == IF i.bought = 0 /\ i.ticked THEN i.need ELSE i.bought

Progressed(l, k) == {i \in items : i.list = l /\ i.key = k /\ (i.bought > 0 \/ i.ticked)}

\* Of several items of an ingredient the last one counts.
PreviousItems(c) ==
  \E before \in [Ingredients -> Amounts] :
    /\ ShoppingAt(c, "previous")
    /\ \A k \in Ingredients :
         LET old == Progressed(shoppingCalls[c].list, k) IN
         IF old = {} THEN before[k] = 0 ELSE \E i \in old : before[k] = Progress(i)
    /\ ShoppingCallIs(c, [shoppingCalls[c] EXCEPT !.at = "replace", !.before = before])
    /\ UNCHANGED <<lists, items, stamps, ticks>>

\* The item of list l for an entry of the menu, with what was bought before
NewItem(l, stamp, entry, before) ==
  LET bought == IF entry.need > 0 /\ before > entry.need THEN entry.need ELSE before IN
  [list |-> l, stamp |-> stamp, key |-> entry.key, need |-> entry.need, bought |-> bought,
   ticked |-> entry.need > 0 /\ bought >= entry.need, source |-> "meal_plan"]

NewItems(c, l) ==
  {NewItem(l, stamps + 1, e, shoppingCalls[c].before[e.key]) : e \in shoppingCalls[c].menu}

CreateWithItems(c) ==
  /\ ShoppingAt(c, "create")
  /\ lists < MaxLists
  /\ stamps < MaxStamps
  /\ lists' = lists + 1
  /\ stamps' = stamps + 1
  /\ items' = items \cup NewItems(c, lists + 1)
  /\ ShoppingCallIs(c, NoShopping)
  /\ UNCHANGED ticks

\* Mutation: items that the menu no longer needs are left.
ReplaceItems_KeepsOld(c) ==
  /\ ShoppingAt(c, "replace")
  /\ stamps < MaxStamps
  /\ stamps' = stamps + 1
  /\ items' = items \cup NewItems(c, shoppingCalls[c].list)
  /\ ShoppingCallIs(c, NoShopping)
  /\ UNCHANGED <<lists, ticks>>

\* The items added by hand go as well.
ReplaceItems(c) ==
  LET l == shoppingCalls[c].list IN
  /\ ShoppingAt(c, "replace")
  /\ stamps < MaxStamps
  /\ stamps' = stamps + 1
  /\ items' = {i \in items : i.list # l} \cup NewItems(c, l)
  /\ ShoppingCallIs(c, NoShopping)
  /\ UNCHANGED <<lists, ticks>>

\* GetItemOwner.  With a quantity the server ignores is_purchased.
UpdateItemPurchased(c, i, bought, ticked) ==
  /\ bought > 0 => ticked
  /\ ShoppingStarts(c, [NoShopping EXCEPT !.at = "tick", !.item = ItemId(i), !.bought = bought,
                                          !.ticked = ticked])

TickItem(c) ==
  \E i \in items :
    LET call == shoppingCalls[c] IN
    /\ ShoppingAt(c, "tick")
    /\ ItemId(i) = call.item
    /\ items' = (items \ {i}) \cup {[i EXCEPT !.bought = call.bought, !.ticked = call.ticked]}
    /\ ticks' = IF call.ticked THEN ticks \cup {<<i.list, i.key>>} ELSE ticks
    /\ ShoppingCallIs(c, NoShopping)
    /\ UNCHANGED <<lists, stamps>>

\* GetWithItems
AddManualItem(c, l, entry) ==
  /\ l <= lists
  /\ ShoppingStarts(c, [NoShopping EXCEPT !.at = "insert", !.list = l, !.menu = {entry}])

CreateManualItem(c) ==
  /\ ShoppingAt(c, "insert")
  /\ stamps < MaxStamps
  /\ stamps' = stamps + 1
  /\ items' = items \cup {[NewItem(shoppingCalls[c].list, stamps + 1, e, 0) EXCEPT !.source = "manual"] :
                            e \in shoppingCalls[c].menu}
  /\ ShoppingCallIs(c, NoShopping)
  /\ UNCHANGED <<lists, ticks>>

DeleteItem(c, i) == ShoppingStarts(c, [NoShopping EXCEPT !.at = "delete", !.item = ItemId(i)])

DeleteItemRow(c) ==
  \E i \in items :
    /\ ShoppingAt(c, "delete")
    /\ ItemId(i) = shoppingCalls[c].item
    /\ items' = items \ {i}
    /\ ShoppingCallIs(c, NoShopping)
    /\ UNCHANGED <<lists, stamps, ticks>>

ShoppingStep(c) ==
  \/ \E menu \in Menus : GenerateShoppingList(c, menu)
  \/ FindByFamilyDates(c) \/ PreviousItems(c) \/ CreateWithItems(c) \/ ReplaceItems(c)
  \/ \E i \in items : \/ DeleteItem(c, i)
                      \/ \E b \in Amounts, t \in BOOLEAN : UpdateItemPurchased(c, i, b, t)
  \/ TickItem(c) \/ DeleteItemRow(c)
  \/ \E l \in ListIds, e \in Entries : AddManualItem(c, l, e)
  \/ CreateManualItem(c)
  \/ ShoppingFails(c)

ShoppingNext == \E c \in ShoppingCalls : ShoppingStep(c)

ShoppingSpec == ShoppingInit /\ [][ShoppingNext]_shoppingVars

-----------------------------------------------------------------------------
ShoppingTypeOK ==
  /\ lists \in 0..MaxLists
  /\ items \subseteq Items
  /\ stamps \in 0..MaxStamps
  /\ shoppingCalls \in [ShoppingCalls -> ShoppingCallRecords]
  /\ ticks \subseteq ListIds \X Ingredients

\* A list shows one reading of the menu, whatever generations, ticks and manual
\* items came between the reads of the call that wrote it; and what it shows as
\* bought was ticked off in this very list, not in one that another call made
\* for the same dates.
ListsKept ==
  /\ \A i, j \in items : i.list = j.list /\ i.source = "meal_plan" /\ j.source = "meal_plan"
                           => i.stamp = j.stamp
  /\ \A i \in items : i.bought > 0 \/ i.ticked => <<i.list, i.key>> \in ticks
  /\ \A i, j \in items : ItemId(i) = ItemId(j) => i = j
=============================================================================
