--------------------------- MODULE UserServicesMC ---------------------------
(***************************************************************************)
(* The parts of the system that share no table, side by side: a behaviour  *)
(* is one of any of them, the others stay as they are.                     *)
(***************************************************************************)
EXTENDS SmsCodes, Accounts, MealPlans, ShoppingLists, Chat, GatewayApi, TLC

VARIABLE part  \* the part whose behaviour it is

services == <<smsVars, accountVars, menuVars, shoppingVars, chatVars, apiVars>>

Init ==
  /\ part \in {"sms", "accounts", "menu", "shopping", "chat", "api"}
  /\ SmsInit
  /\ IF part = "accounts" THEN AccountsInit
       ELSE AccountsInit /\ users = [p \in AccountPhones |-> "absent"]
  /\ MenuInit
  /\ ShoppingInit
  /\ ChatInit
  /\ ApiInit
  /\ part # "api" => signedIn = CHOOSE u \in ApiUsers : TRUE
  /\ part # "api" => token = "valid"

Next ==
  /\ UNCHANGED part
  /\ \/ /\ part = "sms"
        /\ SmsNext
        /\ UNCHANGED <<accountVars, menuVars, shoppingVars, chatVars, apiVars>>
     \/ /\ part = "accounts"
        /\ AccountsNext
        /\ UNCHANGED <<smsVars, menuVars, shoppingVars, chatVars, apiVars>>
     \/ /\ part = "menu"
        /\ MenuNext
        /\ UNCHANGED <<smsVars, accountVars, shoppingVars, chatVars, apiVars>>
     \/ /\ part = "shopping"
        /\ ShoppingNext
        /\ UNCHANGED <<smsVars, accountVars, menuVars, chatVars, apiVars>>
     \/ /\ part = "chat"
        /\ ChatNext
        /\ UNCHANGED <<smsVars, accountVars, menuVars, shoppingVars, apiVars>>
     \/ /\ part = "api"
        /\ ApiNext
        /\ UNCHANGED <<smsVars, accountVars, menuVars, shoppingVars, chatVars>>

Spec == Init /\ [][Next]_<<services, part>>

TypeOK ==
  /\ SmsTypeOK
  /\ AccountsTypeOK
  /\ MenuTypeOK
  /\ ShoppingTypeOK
  /\ ChatTypeOK
  /\ ApiTypeOK

\* Bound: wrong codes are tried for one phone.  The keys they change belong to
\* that phone alone.
OnePhoneGuessed == Cardinality({p \in Phones : wrong[p] + failures[p] > 0}) <= 1

\* The parts take their users, phones and requests from one set and their calls
\* from another, so that few permutations are left to try.
Symmetry == Permutations(Phones) \cup Permutations(Senders)
=============================================================================
