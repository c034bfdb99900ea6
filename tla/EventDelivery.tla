--------------------------- MODULE EventDelivery ---------------------------
(***************************************************************************)
(* What the transactional outbox promises, without saying how: an event    *)
(* that a committed transaction requested, in a form its consumer reads,   *)
(* is recorded by the consumer, if there is one, and nothing is recorded   *)
(* that was not requested.  Recording is idempotent, so "at least once"    *)
(* delivery is "exactly once" here.                                        *)
(***************************************************************************)
CONSTANTS Events, IndexEvents

VARIABLES requested, recorded

vars == <<requested, recorded>>

Init == requested = {} /\ recorded = {}

Request(e) ==
  /\ e \notin requested
  /\ requested' = requested \cup {e}
  /\ UNCHANGED recorded

Record(e) ==
  /\ e \in requested \cap IndexEvents
  /\ e \notin recorded
  /\ recorded' = recorded \cup {e}
  /\ UNCHANGED requested

Next ==
  \/ \E e \in Events : Request(e)
  \/ \E e \in IndexEvents : Record(e)

SafeSpec == Init /\ [][Next]_vars

Spec == SafeSpec /\ \A e \in IndexEvents : WF_vars(Record(e))
=============================================================================
