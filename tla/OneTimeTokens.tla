--------------------------- MODULE OneTimeTokens ---------------------------
(***************************************************************************)
(* What refresh tokens promise, without saying how: the n-th token of a    *)
(* session is its n-th secret, only the newest one of an open session can  *)
(* be redeemed, redeeming it makes the next one, no token is redeemed      *)
(* twice, and a session that is over stays over.                           *)
(***************************************************************************)
EXTENDS Naturals

CONSTANTS Sessions

VARIABLES
  newest,    \* how many tokens each session has had; 0 before it is opened
  open,      \* the sessions that are going on
  redeemed   \* tokens <<session, number>> that were exchanged

vars == <<newest, open, redeemed>>

Init ==
  /\ newest = [s \in Sessions |-> 0]
  /\ open = {}
  /\ redeemed = {}

Open(s) ==
  /\ newest[s] = 0
  /\ newest' = [newest EXCEPT ![s] = 1]
  /\ open' = open \cup {s}
  /\ UNCHANGED redeemed

Redeem(s) ==
  /\ s \in open
  /\ <<s, newest[s]>> \notin redeemed
  /\ newest' = [newest EXCEPT ![s] = @ + 1]
  /\ redeemed' = redeemed \cup {<<s, newest[s]>>}
  /\ UNCHANGED open

\* Sessions end by logout, or several at once when their time is over.
Close(ended) ==
  /\ ended # {}
  /\ open' = open \ ended
  /\ UNCHANGED <<newest, redeemed>>

Next ==
  \/ \E s \in Sessions : Open(s) \/ Redeem(s)
  \/ \E ended \in SUBSET open : Close(ended)

Spec == Init /\ [][Next]_vars
=============================================================================
