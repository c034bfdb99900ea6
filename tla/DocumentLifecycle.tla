------------------------- MODULE DocumentLifecycle -------------------------
(***************************************************************************)
(* What the application sees of a knowledge document, without uploads,     *)
(* tasks or messages.  A confirmed document is requested for indexing in   *)
(* the same step, indexing settles it once, as Completed or as Failed, and *)
(* a deletion, also requested in the same step, ends it from any state.    *)
(* A request may come in a form the Agent cannot read; nothing settles the *)
(* document then.                                                          *)
(***************************************************************************)
CONSTANTS Docs

VARIABLES
  status,         \* what GetDocumentStatus answers
  indexRequests,  \* documents for which an INDEX event exists
  unheard,        \* those whose INDEX event the Agent cannot read
  deleteRequests  \* documents for which a DELETE event exists

vars == <<status, indexRequests, unheard, deleteRequests>>

Init ==
  /\ status = [d \in Docs |-> "none"]
  /\ indexRequests = {}
  /\ unheard = {}
  /\ deleteRequests = {}

Upload(d) ==
  /\ status[d] = "none"
  /\ status' = [status EXCEPT ![d] = "Uploading"]
  /\ UNCHANGED <<indexRequests, unheard, deleteRequests>>

Confirm(d) ==
  /\ status[d] = "Uploading"
  /\ d \notin indexRequests
  /\ status' = [status EXCEPT ![d] = "Pending"]
  /\ indexRequests' = indexRequests \cup {d}
  /\ unheard' \in {unheard, unheard \cup {d}}
  /\ UNCHANGED deleteRequests

Settle(d) ==
  /\ status[d] = "Pending"
  /\ d \notin unheard
  /\ \E s \in {"Completed", "Failed"} : status' = [status EXCEPT ![d] = s]
  /\ UNCHANGED <<indexRequests, unheard, deleteRequests>>

Delete(d) ==
  /\ status[d] \in {"Uploading", "Pending", "Completed", "Failed"}
  /\ d \notin deleteRequests
  /\ status' = [status EXCEPT ![d] = "Deleting"]
  /\ deleteRequests' = deleteRequests \cup {d}
  /\ UNCHANGED <<indexRequests, unheard>>

Next == \E d \in Docs : Upload(d) \/ Confirm(d) \/ Settle(d) \/ Delete(d)

SafeSpec == Init /\ [][Next]_vars

\* Indexing leaves no document pending for ever whose request is heard.
Spec == SafeSpec /\ \A d \in Docs : WF_vars(Settle(d))
=============================================================================
