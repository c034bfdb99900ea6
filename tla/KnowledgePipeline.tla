------------------------- MODULE KnowledgePipeline -------------------------
(***************************************************************************)
(* The document pipeline as a whole: the Logic handlers (KnowledgeLogic),  *)
(* the way of an event to the Agent (OutboxRelay) and the workers          *)
(* (IndexWorker).  Each business transaction of Logic changes the document *)
(* and inserts its outbox row in one step; the ingress turns a message     *)
(* into a task row; the workers call back into Logic.                      *)
(***************************************************************************)
EXTENDS IndexWorker

CONSTANTS Publishers, Adapters, AnyFraction, MaxCopies

VARIABLES outbox, unreadable, sender, copies, adapter

relayed == <<outbox, unreadable, sender, copies, adapter>>
vars    == <<logicVars, agentVars, relayed>>

\* dedup_key "document:%d:index:1" and "document:%d:delete:all".
IndexEvent(d)  == <<d, "INDEX">>
DeleteEvent(d) == <<d, "DELETE">>
AllEvents      == Docs \X {"INDEX", "DELETE"}

Recorded == {IndexEvent(d) : d \in {x \in Docs : task[x].status # "absent"}}

ASSUME PipelineAssumption ==
  /\ MaxCopies \in Nat \ {0}
  /\ AnyFraction \in BOOLEAN
  /\ NoOne \notin Publishers
  /\ NoOne \notin AllEvents

Relay == INSTANCE OutboxRelay WITH
  Events <- AllEvents, IndexEvents <- {IndexEvent(d) : d \in Docs},
  recorded <- Recorded, None <- NoOne

TypeOK == LogicTypeOK /\ AgentTypeOK /\ Relay!RelayTypeOK

Init ==
  /\ LogicInit
  /\ AgentInit
  /\ outbox = [e \in AllEvents |-> Relay!NoRow]
  /\ unreadable = {}
  /\ sender = [p \in Publishers |-> Relay!Idle]
  /\ copies = [e \in AllEvents |-> 0]
  /\ adapter = [a \in Adapters |-> Relay!Idle]

-----------------------------------------------------------------------------
\* A step of the application that inserts no outbox row.
ClientStep(d) ==
  /\ \/ CreateUploadTicket(d) \/ SessionExpires(d) \/ CheckUpload(d) \/ ConfirmUploadRefused(d)
     \/ \E content \in Contents : PutObject(d, content)
  /\ UNCHANGED <<agentVars, relayed>>

\* Mutation: the INDEX event is written outside the transaction, and the
\* process stops before it.
CompleteUpload_EventLost(d) ==
  /\ ConfirmUpload(d)
  /\ UNCHANGED <<agentVars, relayed>>

\* Mutation: the INDEX event is written even if the transaction refuses.
CompleteUpload_EventAnyway(d) ==
  /\ ConfirmUpload(d) \/ ConfirmUploadRefused(d)
  /\ UNCHANGED agentVars
  /\ Relay!Enqueue(IndexEvent(d))

\* The whole transaction of CompleteUpload.
CompleteUpload(d) ==
  /\ ConfirmUpload(d)
  /\ UNCHANGED agentVars
  /\ Relay!Enqueue(IndexEvent(d))

\* Mutation: the deletion also takes back the INDEX row.
DeleteDocument_Withdraws(d) ==
  /\ RequestDocumentDeletion(d)
  /\ outbox' = [outbox EXCEPT ![DeleteEvent(d)] = Relay!NewRow, ![IndexEvent(d)] = Relay!NoRow]
  /\ UNCHANGED <<agentVars, unreadable, sender, copies, adapter>>

\* The whole transaction of RequestDocumentDeletion.
DeleteDocument(d) ==
  /\ RequestDocumentDeletion(d)
  /\ UNCHANGED agentVars
  /\ Relay!Enqueue(DeleteEvent(d))

\* The ingress commits the task row of the message an adapter forwards.
IngestEvent(a) ==
  /\ adapter[a].at = "forward"
  /\ RecordIndexEvent(adapter[a].event[1])
  /\ UNCHANGED <<logicVars, store, workerVars>>
  /\ Relay!ForwardRecorded(a)

\* Every other step of the relay leaves the databases of both sides alone,
\* apart from the outbox.
RelayOnly(A) == UNCHANGED <<logicVars, agentVars>> /\ A

Publish == RelayOnly(
  \/ \E e \in AllEvents : Relay!LockExpires(e)
  \/ \E p \in Publishers, e \in AllEvents : Relay!ClaimOutboxEvent(p, e)
  \/ \E p \in Publishers : Relay!PublisherStep(p) \/ Relay!PublisherCrash(p))

Consume == RelayOnly(
  \/ \E a \in Adapters, e \in AllEvents : Relay!Receive(a, e)
  \/ \E a \in Adapters :
       Relay!ForwardDropped(a) \/ Relay!ForwardRefused(a) \/ Relay!Ack(a) \/ Relay!AdapterCrash(a))

Index == IndexNext /\ UNCHANGED relayed

Next ==
  \/ \E d \in Docs : ClientStep(d) \/ CompleteUpload(d) \/ DeleteDocument(d)
  \/ Publish
  \/ Consume
  \/ \E a \in Adapters : IngestEvent(a)
  \/ Index

Spec == Init /\ [][Next]_vars

(***************************************************************************)
(* Fairness, as in the parts: processes keep making calls and clocks       *)
(* advance (weak), and of a call repeated again and again one succeeds     *)
(* (strong).  Nothing is assumed of clients and users.                     *)
(***************************************************************************)
RelayFairness ==
  /\ \A d \in Docs : LET e == IndexEvent(d) IN
       /\ WF_vars(RelayOnly(Relay!LockExpires(e)))
       /\ SF_vars(RelayOnly(\E p \in Publishers : Relay!ClaimOutboxEvent(p, e)))
       /\ SF_vars(RelayOnly(\E p \in Publishers : sender[p].event = e /\ Relay!SendDelivered(p)))
       /\ SF_vars(RelayOnly(\E a \in Adapters : Relay!Receive(a, e)))
       /\ SF_vars(\E a \in Adapters : adapter[a].event = e /\ IngestEvent(a))
  /\ \A p \in Publishers : WF_vars(RelayOnly(Relay!PublisherStep(p)))
  /\ \A a \in Adapters :
       WF_vars(IngestEvent(a) \/
               RelayOnly(Relay!ForwardDropped(a) \/ Relay!ForwardRefused(a) \/ Relay!Ack(a)))

IndexFairness ==
  /\ \A w \in Workers :
       WF_vars(WorkerStep(w) /\ UNCHANGED relayed) /\ WF_vars(WorkerRestart(w) /\ UNCHANGED relayed)
  /\ \A d \in Docs :
       /\ WF_vars(LockExpires(d) /\ UNCHANGED relayed)
       /\ SF_vars((\E w \in Workers : ClaimTask(w, d)) /\ UNCHANGED relayed)
       /\ SF_vars(\E w \in Workers :
                    job[w] = d /\ FailIndex(w) /\ docStatus'[d] = "Failed" /\ UNCHANGED relayed)

FairSpec == Spec /\ RelayFairness /\ IndexFairness

-----------------------------------------------------------------------------
(* Properties.                                                             *)

\* A document in state Pending is somebody's work: its outbox row is still to
\* be sent, or the broker has its message, or its task is open.  No crash,
\* lost answer or refused call lets a confirmed document slip between them;
\* only one whose event the ingress cannot read may stay Pending for nobody.
NoLostWork ==
  \A d \in Docs : docStatus[d] = "Pending" =>
    \/ outbox[IndexEvent(d)].status \in {"Pending", "Sending", "Failed"}
    \/ copies[IndexEvent(d)] > 0
    \/ IndexEvent(d) \in unreadable
    \/ task[d].status \in {"PENDING", "PROCESSING", "RETRY_WAIT"}

\* A task exists only for a document whose upload was confirmed, and a worker
\* that indexes a document does so while the object is checked and the user
\* may at most have deleted it: no late message brings a task for a document
\* that is still being uploaded.
TasksAreForConfirmedUploads ==
  \A d \in Docs : task[d].status # "absent" =>
    session[d] = "Confirmed" /\ docStatus[d] \in {"Pending", "Completed", "Failed", "Deleting"}

Requested(tag) == {d \in Docs : outbox[<<d, tag>>].status # "absent"}

Unheard == {d \in Docs : IndexEvent(d) \in unreadable}

Lifecycle == INSTANCE DocumentLifecycle WITH
  status <- docStatus, unheard <- Unheard,
  indexRequests <- Requested("INDEX"), deleteRequests <- Requested("DELETE")

\* The pipeline implements the life of a document as the application sees it:
\* confirmed and deleted together with the request for it, settled once, and
\* under the fairness above never pending for ever if its request is heard.
DocumentsLiveAsPromised == Lifecycle!SafeSpec
ConfirmedDocumentsSettle == Lifecycle!Spec

\* Inside the pipeline the relay still behaves as specified on its own.
RelaysAsSpecified == Relay!RelaySpec
=============================================================================
