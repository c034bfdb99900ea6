--------------------------- MODULE PipelineProofs ---------------------------
(***************************************************************************)
(* Proofs about KnowledgePipeline, for any documents, confirmations,       *)
(* workers, publishers and adapters.  What is proved of the parts is used  *)
(* here: the workers' steps by IndexWorkerProofs, the relay's by an        *)
(* instance of OutboxRelayProofs in which the recorded events are the task *)
(* rows.  What is left is what the parts know of each other.  At the end   *)
(* the guarantees of the workers and of the relay are carried over to the  *)
(* composition.                                                            *)
(***************************************************************************)
EXTENDS KnowledgePipeline, IndexWorkerProofs

Proved == INSTANCE OutboxRelayProofs WITH
  Events <- AllEvents, IndexEvents <- {IndexEvent(d) : d \in Docs},
  recorded <- Recorded, None <- NoOne

HasRow(d, tag) == outbox[<<d, tag>>].status # "absent"

\* A row of the outbox, the upload and the document were changed in one
\* transaction; a task row comes from an INDEX row that the ingress can read.
LifeInv ==
  \A d \in Docs :
    /\ HasRow(d, "INDEX") <=> session[d] = "Confirmed"
    /\ HasRow(d, "DELETE") <=> docStatus[d] = "Deleting"
    /\ docStatus[d] \in {"none", "Uploading", "Pending", "Completed", "Failed", "Deleting"}
    /\ docStatus[d] = "none" => session[d] = "none"
    /\ docStatus[d] = "Uploading" => session[d] = "Pending"
    /\ docStatus[d] \in {"Pending", "Completed", "Failed"} => session[d] = "Confirmed"
    /\ task[d].status # "absent" => HasRow(d, "INDEX") /\ d \notin Unheard
    /\ d \in Unheard => HasRow(d, "INDEX")

\* A worker works on a task that exists.
TaskedInv == \A w \in Workers : pc[w] \in Working => task[job[w]].status # "absent"

PipeInv == IndexInv /\ LogicTypeOK /\ Proved!IInv /\ LifeInv /\ TaskedInv

\* What OutboxRelay assumes of its constants holds of the pipeline's.
LEMMA RelayAssumed == Proved!RelayAssumption
BY PipelineAssumption DEF Proved!RelayAssumption, PipelineAssumption, AllEvents, IndexEvent

-----------------------------------------------------------------------------
(* The relay as the pipeline instantiates it is the one the proofs are     *)
(* about.                                                                  *)

\* The marks of the publisher.
LEMMA SameMarks ==
  ASSUME NEW p
  PROVE  /\ Relay!MarkOutboxSent(p) <=> Proved!MarkOutboxSent(p)
         /\ Relay!MarkOutboxFailed(p) <=> Proved!MarkOutboxFailed(p)
BY DEF Relay!MarkOutboxSent, Proved!MarkOutboxSent, Relay!MarkOutboxFailed, Proved!MarkOutboxFailed,
       Relay!MarkOutbox, Proved!MarkOutbox, Relay!HoldsRow, Proved!HoldsRow, Relay!Idle, Proved!Idle

\* The other steps of the publisher.
LEMMA SamePublisher ==
  ASSUME NEW p
  PROVE  /\ Relay!PublisherStep(p) <=> Proved!PublisherStep(p)
         /\ Relay!PublisherCrash(p) <=> Proved!PublisherCrash(p)
<1>1. Relay!SendDelivered(p) <=> Proved!SendDelivered(p)
  BY DEF Relay!SendDelivered, Proved!SendDelivered, Relay!OneMore, Proved!OneMore
<1>2. Relay!SendRefused(p) <=> Proved!SendRefused(p)
  BY DEF Relay!SendRefused, Proved!SendRefused
<1>3. Relay!PublisherCrash(p) <=> Proved!PublisherCrash(p)
  BY DEF Relay!PublisherCrash, Proved!PublisherCrash, Relay!Idle, Proved!Idle
<1> QED
  BY <1>1, <1>2, <1>3, SameMarks DEF Relay!PublisherStep, Proved!PublisherStep

\* The steps of the adapter.
LEMMA SameAdapter ==
  ASSUME NEW a
  PROVE  /\ Relay!AdapterStep(a) <=> Proved!AdapterStep(a)
         /\ Relay!AdapterCrash(a) <=> Proved!AdapterCrash(a)
<1>1. Relay!ForwardRecorded(a) <=> Proved!ForwardRecorded(a)
  BY DEF Relay!ForwardRecorded, Proved!ForwardRecorded, Relay!Idle, Proved!Idle
<1>2. /\ Relay!ForwardDropped(a) <=> Proved!ForwardDropped(a)
      /\ Relay!ForwardRefused(a) <=> Proved!ForwardRefused(a)
  BY DEF Relay!ForwardDropped, Proved!ForwardDropped, Relay!ForwardRefused, Proved!ForwardRefused,
         Relay!Idle, Proved!Idle
<1>3. Relay!Ack(a) <=> Proved!Ack(a)
  BY DEF Relay!Ack, Proved!Ack, Relay!Idle, Proved!Idle
<1>4. Relay!AdapterCrash(a) <=> Proved!AdapterCrash(a)
  BY DEF Relay!AdapterCrash, Proved!AdapterCrash, Relay!Idle, Proved!Idle
<1> QED
  BY <1>1, <1>2, <1>3, <1>4 DEF Relay!AdapterStep, Proved!AdapterStep

\* The steps about an event.
LEMMA SameEvents ==
  ASSUME NEW e
  PROVE  /\ Relay!Enqueue(e) <=> Proved!Enqueue(e)
         /\ Relay!LockExpires(e) <=> Proved!LockExpires(e)
         /\ \A p : Relay!ClaimOutboxEvent(p, e) <=> Proved!ClaimOutboxEvent(p, e)
         /\ \A a : Relay!Receive(a, e) <=> Proved!Receive(a, e)
<1>1. Relay!Enqueue(e) <=> Proved!Enqueue(e)
  BY DEF Relay!Enqueue, Proved!Enqueue, Relay!NewRow, Proved!NewRow
<1>2. Relay!LockExpires(e) <=> Proved!LockExpires(e)
  BY DEF Relay!LockExpires, Proved!LockExpires
<1>3. ASSUME NEW p
      PROVE  Relay!ClaimOutboxEvent(p, e) <=> Proved!ClaimOutboxEvent(p, e)
  BY DEF Relay!ClaimOutboxEvent, Proved!ClaimOutboxEvent, Relay!Claimable, Proved!Claimable
<1>4. ASSUME NEW a
      PROVE  Relay!Receive(a, e) <=> Proved!Receive(a, e)
  BY DEF Relay!Receive, Proved!Receive
<1> QED
  BY <1>1, <1>2, <1>3, <1>4

\* All of them.
LEMMA SameStep == Relay!RelayStep <=> Proved!RelayStep
BY SameEvents, SamePublisher, SameAdapter DEF Relay!RelayStep, Proved!RelayStep

\* And the insertion of a row.
LEMMA SameNext ==
  [Relay!RelayNext]_Relay!relayVars <=> [Proved!RelayNext]_Proved!relayVars
BY SameEvents, SameStep DEF Relay!RelayNext, Proved!RelayNext, Relay!relayVars, Proved!relayVars

\* So the invariant of the relay is kept here too.
LEMMA RelayKept ==
  ASSUME Proved!IInv, [Relay!RelayNext]_Relay!relayVars
  PROVE  Proved!IInv'
<1>1. [Proved!RelayNext]_Proved!relayVars
  BY SameNext
<1>2. Proved!RelayTypeOK /\ Proved!Handovers
  BY DEF Proved!IInv
<1>3. Proved!RelayTypeOK'
  BY <1>1, <1>2, RelayAssumed, Proved!TypeStep
<1>4. Proved!Handovers'
  BY <1>1, RelayAssumed, Proved!HandoversStep
<1>5. Proved!NoLostEvent'
  BY <1>1, RelayAssumed, Proved!NoLossStep
<1> QED
  BY <1>3, <1>4, <1>5 DEF Proved!IInv

\* And holds initially.
LEMMA RelayBegins == ASSUME Relay!RelayInit PROVE Proved!IInv
<1>1. Proved!RelayInit
  BY DEF Relay!RelayInit, Proved!RelayInit, Relay!NoRow, Proved!NoRow, Relay!Idle, Proved!Idle
<1>2. Proved!RelayTypeOK
  BY <1>1, RelayAssumed, Proved!TypeInit
<1>3. Proved!Handovers /\ Proved!NoLostEvent
  BY <1>1, RelayAssumed, Proved!HandoversInit
<1> QED
  BY <1>2, <1>3 DEF Proved!IInv

-----------------------------------------------------------------------------
(* What the steps change.                                                  *)

Tags == {"INDEX", "DELETE"}

LifecycleStep == [Lifecycle!Next]_Lifecycle!vars

Kept == PipeInv' /\ Safe /\ LifecycleStep /\ [Relay!RelayNext]_Relay!relayVars

\* The invariant of the pipeline and what the steps need of it.
LEMMA PipeInvIs ==
  ASSUME PipeInv
  PROVE  /\ IndexInv /\ LogicTypeOK /\ Proved!IInv /\ LifeInv /\ TaskedInv
         /\ Proved!RelayTypeOK /\ Proved!Handovers
         /\ task \in [Docs -> TaskRows] /\ docStatus \in [Docs -> DocStatus]
         /\ \A d \in Docs, tag \in Tags : <<d, tag>> \in AllEvents
BY DEF PipeInv, IndexInv, StoreTypes, Proved!IInv, AllEvents, Tags

\* The tasks that exist are the recorded events.
LEMMA SameRecorded ==
  ASSUME \A d \in Docs : (task'[d].status # "absent") <=> (task[d].status # "absent")
  PROVE  UNCHANGED Recorded
BY DEF Recorded

\* Steps that leave the workers alone and remove no task.
LEMMA WorkersKeepTasks ==
  ASSUME PipeInv, UNCHANGED <<pc, job>>,
         \A d \in Docs : task[d].status # "absent" => task'[d].status # "absent"
  PROVE  TaskedInv'
<1>1. \A w \in Workers : pc[w] \in Working => job[w] \in Docs
  BY PipeInvIs DEF IndexInv, JobsInv
<1> QED
  BY <1>1, PipeInvIs DEF TaskedInv

\* A document is requested if its row exists.
LEMMA SameRequested ==
  ASSUME NEW tag, \A d \in Docs : HasRow(d, tag)' <=> HasRow(d, tag)
  PROVE  Requested(tag)' = Requested(tag)
BY DEF Requested, HasRow

\* A document is unheard if its event is one the ingress cannot read.
LEMMA SameUnheard ==
  ASSUME unreadable' = unreadable
  PROVE  Unheard' = Unheard
BY DEF Unheard

\* A transaction of Logic inserts the row it names and no other, and only an
\* INDEX row can be one the ingress cannot read.
LEMMA EnqueueIs ==
  ASSUME PipeInv, NEW d \in Docs, NEW tag \in Tags, Relay!Enqueue(<<d, tag>>)
  PROVE  /\ ~HasRow(d, tag)
         /\ \/ Unheard' = Unheard
            \/ tag = "INDEX" /\ Unheard' = Unheard \cup {d}
         /\ \A e \in Docs, t \in Tags : HasRow(e, t)' <=> HasRow(e, t) \/ (e = d /\ t = tag)
         /\ [Relay!RelayNext]_Relay!relayVars
<1>1. outbox \in [AllEvents -> Proved!Rows] /\ <<d, tag>> \in AllEvents
  BY PipeInvIs DEF Proved!RelayTypeOK
<1>2. /\ outbox[<<d, tag>>].status = "absent"
      /\ outbox' = [outbox EXCEPT ![<<d, tag>>] = Relay!NewRow]
  BY DEF Relay!Enqueue
<1>3. ASSUME NEW e \in Docs, NEW t \in Tags
      PROVE  HasRow(e, t)' <=> HasRow(e, t) \/ (e = d /\ t = tag)
  <2>1. <<e, t>> \in AllEvents
    BY PipeInvIs
  <2>2. CASE e = d /\ t = tag
    <3>1. outbox'[<<e, t>>] = Relay!NewRow
      BY <1>1, <1>2, <2>2
    <3>2. Relay!NewRow.status # "absent"
      BY DEF Relay!NewRow
    <3> QED
      BY <2>2, <3>1, <3>2 DEF HasRow
  <2>3. CASE ~(e = d /\ t = tag)
    <3>1. <<e, t>> # <<d, tag>>
      BY <2>3
    <3> QED
      BY <1>1, <1>2, <2>1, <2>3, <3>1 DEF HasRow
  <2> QED
    BY <2>2, <2>3
<1>4. Relay!RelayNext
  BY <1>1 DEF Relay!RelayNext
<1>5. \/ Unheard' = Unheard
      \/ tag = "INDEX" /\ Unheard' = Unheard \cup {d}
  <2>1. CASE unreadable' = unreadable
    BY <2>1, SameUnheard
  <2>2. CASE unreadable' # unreadable
    <3>1. <<d, tag>> \in {IndexEvent(e) : e \in Docs} /\ unreadable' = unreadable \cup {<<d, tag>>}
      BY <2>2 DEF Relay!Enqueue
    <3>2. tag = "INDEX"
      BY <3>1 DEF IndexEvent
    <3>3. \A e \in Docs : IndexEvent(e) = <<d, tag>> <=> e = d
      BY <3>2 DEF IndexEvent
    <3> QED
      BY <3>1, <3>2, <3>3 DEF Unheard
  <2> QED
    BY <2>1, <2>2
<1> QED
  BY <1>2, <1>3, <1>4, <1>5 DEF HasRow

\* The relay inserts none.
LEMMA RelayStepIs ==
  ASSUME PipeInv, Relay!RelayStep
  PROVE  /\ [Relay!RelayNext]_Relay!relayVars
         /\ Unheard' = Unheard
         /\ \A d \in Docs, tag \in Tags : HasRow(d, tag)' <=> HasRow(d, tag)
<1>1. Relay!RelayNext
  BY DEF Relay!RelayNext
<1>2. Proved!RelayStep
  BY SameStep
<1>3. ASSUME NEW e \in AllEvents
      PROVE  Proved!Exists(e)' <=> Proved!Exists(e)
  BY <1>2, RelayAssumed, PipeInvIs, Proved!StepsMakeNoRow
<1>4. unreadable' = unreadable
  BY <1>2
     DEF Proved!RelayStep, Proved!PublisherStep, Proved!AdapterStep, Proved!LockExpires,
         Proved!ClaimOutboxEvent, Proved!SendDelivered, Proved!SendRefused, Proved!MarkOutboxSent,
         Proved!MarkOutboxFailed, Proved!MarkOutbox, Proved!PublisherCrash, Proved!Receive,
         Proved!ForwardRecorded, Proved!ForwardDropped, Proved!ForwardRefused, Proved!Ack,
         Proved!AdapterCrash
<1> QED
  BY <1>1, <1>3, <1>4, PipeInvIs, SameUnheard DEF HasRow, Proved!Exists

\* A step of a worker settles at most one pending document, and makes no task.
LEMMA IndexIs ==
  ASSUME PipeInv, IndexNext
  PROVE  /\ UNCHANGED <<session, expired, object, confirming>>
         /\ TaskedInv'
         /\ \A d \in Docs : (task'[d].status # "absent") <=> (task[d].status # "absent")
         /\ \/ UNCHANGED docStatus
            \/ \E d \in Docs, s \in {"Completed", "Failed"} :
                 docStatus[d] = "Pending" /\ d \notin Unheard /\ docStatus' = [docStatus EXCEPT ![d] = s]
<1> USE PipeInvIs
<1>1. CASE \E w \in Workers : WorkerStep(w)
  <2>1. PICK w \in Workers, at \in Phases : Fits(w, at)
    BY <1>1, WorkerStepFits
  <2> DEFINE d == job[w]
  <2>2. d \in Docs
    BY <2>1 DEF Fits, IndexInv, JobsInv
  <2>3. \A e \in Docs : (task'[e].status # "absent") <=> (task[e].status # "absent")
    BY <2>1, <2>2 DEF Fits, Settles, HoldsTask
  <2>4. docStatus'[d] = docStatus[d] => UNCHANGED docStatus
    BY <2>1, <2>2 DEF Fits
  <2>5. docStatus'[d] # docStatus[d] =>
          docStatus[d] = "Pending" /\ docStatus'[d] \in {"Completed", "Failed"}
    BY <2>1, <2>2 DEF Fits, LifeInv
  <2>6. docStatus' = [docStatus EXCEPT ![d] = docStatus'[d]]
    BY <2>1, <2>2 DEF Fits
  <2>7. d \notin Unheard
    BY <2>1, <2>2 DEF Fits, LifeInv, TaskedInv
  <2>8. TaskedInv'
    <3>1. \A v \in Workers : pc'[v] \in Working =>
            pc[v] \in Working /\ job'[v] = job[v] /\ job[v] \in Docs
      BY <2>1 DEF Fits, Moves, IndexInv, JobsInv
    <3> QED
      BY <2>3, <3>1 DEF TaskedInv
  <2> QED
    BY <2>1, <2>2, <2>3, <2>4, <2>5, <2>6, <2>7, <2>8 DEF Fits
<1>2. CASE \E w \in Workers, d \in Docs : ClaimTask(w, d)
  <2>1. PICK w \in Workers, d \in Docs : ClaimTask(w, d)
    BY <1>2
  <2>2. task[d].status # "absent"
    BY <2>1 DEF ClaimTask, ClaimableTask
  <2>3. UNCHANGED logicVars
    BY <2>1 DEF ClaimTask
  <2>4. task'[d].status = "PROCESSING" /\ \A e \in Docs \ {d} : task'[e] = task[e]
    BY <2>1, ClaimIs
  <2>5. TaskedInv'
    <3>1. \A v \in Workers \ {w} : pc'[v] = pc[v] /\ job'[v] = job[v]
      BY <2>1, ClaimIs
    <3>2. job'[w] = d
      BY <2>1, ClaimIs
    <3>3. \A v \in Workers : pc[v] \in Working => job[v] \in Docs
      BY DEF IndexInv, JobsInv
    <3> QED
      BY <2>4, <3>1, <3>2, <3>3 DEF TaskedInv
  <2> QED
    BY <2>2, <2>3, <2>4, <2>5 DEF logicVars
<1>3. CASE \E w \in Workers : WorkerCrash(w) \/ WorkerRestart(w)
  <2>1. PICK w \in Workers : WorkerCrash(w) \/ WorkerRestart(w)
    BY <1>3
  <2>2. UNCHANGED logicVars /\ UNCHANGED task
    BY <2>1 DEF WorkerCrash, WorkerRestart, taskVars
  <2>3. pc \in [Workers -> Phases] /\ job \in [Workers -> Docs \cup {NoOne}]
    BY DEF IndexInv, WorkerTypes
  <2>4. \A v \in Workers : pc'[v] \in Working => pc[v] \in Working /\ job'[v] = job[v]
    BY <2>1, <2>3 DEF WorkerCrash, WorkerRestart, Working
  <2> QED
    BY <2>2, <2>4 DEF TaskedInv, logicVars
<1>4. CASE \E d \in Docs : LockExpires(d)
  <2>1. PICK d \in Docs : LockExpires(d)
    BY <1>4
  <2>2. UNCHANGED logicVars
    BY <2>1 DEF LockExpires
  <2>3. task'[d].status = task[d].status /\ \A e \in Docs \ {d} : task'[e] = task[e]
    BY <2>1, LockExpiresIsSafe DEF TaskRows
  <2>4. TaskedInv'
    BY <2>1, <2>3, WorkersKeepTasks DEF LockExpires, workerVars
  <2> QED
    BY <2>2, <2>3, <2>4 DEF logicVars
<1> QED
  BY <1>1, <1>2, <1>3, <1>4 DEF IndexNext

-----------------------------------------------------------------------------
(* Every step keeps the invariant, and is a step of both specifications.   *)

\* Tickets, uploads and checks.
LEMMA ClientKeeps ==
  ASSUME PipeInv, NEW d \in Docs, ClientStep(d)
  PROVE  Kept
<1> USE PipeInvIs
<1>1. /\ UNCHANGED agentVars /\ UNCHANGED relayed /\ UNCHANGED task /\ UNCHANGED outbox
      /\ Unheard' = Unheard /\ TaskedInv'
  BY SameUnheard, WorkersKeepTasks DEF ClientStep, agentVars, relayed
<1>2. /\ LogicTypeOK'
      /\ \/ docStatus' = docStatus /\ session' = session
         \/ /\ docStatus[d] = "none" /\ docStatus' = [docStatus EXCEPT ![d] = "Uploading"]
            /\ session' = [session EXCEPT ![d] = "Pending"]
  <2> USE DEF LogicTypeOK
  <2>1. CASE CreateUploadTicket(d)
    BY <2>1 DEF CreateUploadTicket, DocStatus
  <2>2. CASE SessionExpires(d)
    BY <2>2 DEF SessionExpires
  <2>3. CASE CheckUpload(d)
    BY <2>3, LogicAssumption DEF CheckUpload, LogicAssumption
  <2>4. CASE ConfirmUploadRefused(d)
    BY <2>4, LogicAssumption DEF ConfirmUploadRefused, LogicAssumption
  <2>5. CASE \E content \in Contents : PutObject(d, content)
    BY <2>5, LogicAssumption DEF PutObject, LogicAssumption
  <2> QED
    BY <2>1, <2>2, <2>3, <2>4, <2>5 DEF ClientStep
<1>3. Safe
  <2>1. docStatus' \in [Docs -> DocStatus] /\ \A e \in Docs : DocMoves(e)
    BY <1>2 DEF DocMoves, DocStatus
  <2> QED
    BY <1>1, <2>1, LogicIsSafe
<1>4. UNCHANGED Recorded
  BY <1>1, SameRecorded
<1>5. [Relay!RelayNext]_Relay!relayVars
  BY <1>1, <1>4 DEF Relay!relayVars, relayed
<1>6. LifeInv'
  <2>1. /\ \A e \in Docs : (\A tag \in Tags : HasRow(e, tag)' <=> HasRow(e, tag)) /\ task'[e] = task[e]
        /\ Unheard' = Unheard
    BY <1>1 DEF HasRow
  <2>2. CASE docStatus' = docStatus /\ session' = session
    BY <2>1, <2>2 DEF LifeInv, Tags
  <2>3. CASE /\ docStatus[d] = "none" /\ docStatus' = [docStatus EXCEPT ![d] = "Uploading"]
             /\ session' = [session EXCEPT ![d] = "Pending"]
    BY <2>1, <2>3 DEF LifeInv, LogicTypeOK, Tags
  <2> QED
    BY <1>2, <2>2, <2>3
<1>7. LifecycleStep
  <2>1. Unheard' = Unheard /\ \A tag \in Tags : Requested(tag)' = Requested(tag)
    BY <1>1 DEF Requested
  <2> QED
    BY <1>2, <2>1 DEF LifecycleStep, Lifecycle!Next, Lifecycle!Upload, Lifecycle!vars, Tags
<1> QED
  BY <1>1, <1>2, <1>3, <1>5, <1>6, <1>7, RelayKept DEF Kept, PipeInv, Safe

\* The confirmation is Confirm of the life of a document.
LEMMA CompleteUploadKeeps ==
  ASSUME PipeInv, NEW d \in Docs, CompleteUpload(d)
  PROVE  Kept
<1> USE PipeInvIs
<1>1. /\ UNCHANGED agentVars /\ UNCHANGED task /\ TaskedInv'
      /\ docStatus[d] = "Uploading" /\ docStatus' = [docStatus EXCEPT ![d] = "Pending"]
      /\ session' = [session EXCEPT ![d] = "Confirmed"]
      /\ Relay!Enqueue(<<d, "INDEX">>)
  BY WorkersKeepTasks DEF CompleteUpload, ConfirmUpload, agentVars, IndexEvent
<1>2. /\ ~HasRow(d, "INDEX")
      /\ Unheard' \in {Unheard, Unheard \cup {d}}
      /\ \A e \in Docs, t \in Tags : HasRow(e, t)' <=> HasRow(e, t) \/ (e = d /\ t = "INDEX")
      /\ [Relay!RelayNext]_Relay!relayVars
  BY <1>1, EnqueueIs DEF Tags
<1>3. LogicTypeOK'
  BY LogicAssumption DEF CompleteUpload, ConfirmUpload, LogicTypeOK, DocStatus, LogicAssumption
<1>4. Safe
  <2>1. docStatus' \in [Docs -> DocStatus] /\ \A e \in Docs : DocMoves(e)
    BY <1>1 DEF DocMoves, DocStatus
  <2> QED
    BY <1>1, <2>1, LogicIsSafe
<1>5. LifeInv'
  BY <1>1, <1>2 DEF LifeInv, LogicTypeOK, Tags
<1>6. LifecycleStep
  <2>1. Requested("DELETE")' = Requested("DELETE")
    BY <1>2, SameRequested DEF Tags
  <2>2. d \notin Requested("INDEX") /\ Requested("INDEX")' = Requested("INDEX") \cup {d}
    BY <1>2 DEF Requested, HasRow, Tags
  <2>3. Lifecycle!Confirm(d)
    BY <1>1, <1>2, <2>1, <2>2 DEF Lifecycle!Confirm
  <2> QED
    BY <2>3 DEF LifecycleStep, Lifecycle!Next
<1> QED
  BY <1>1, <1>2, <1>3, <1>4, <1>5, <1>6, RelayKept DEF Kept, PipeInv, Safe

\* The deletion is Delete.
LEMMA DeleteDocumentKeeps ==
  ASSUME PipeInv, NEW d \in Docs, DeleteDocument(d)
  PROVE  Kept
<1> USE PipeInvIs
<1>1. /\ UNCHANGED agentVars /\ UNCHANGED task /\ TaskedInv' /\ UNCHANGED <<session, expired, object, confirming>>
      /\ docStatus[d] \notin {"none", "Deleting"} /\ docStatus' = [docStatus EXCEPT ![d] = "Deleting"]
      /\ Relay!Enqueue(<<d, "DELETE">>)
      /\ RequestDocumentDeletion(d)
  BY WorkersKeepTasks DEF DeleteDocument, RequestDocumentDeletion, agentVars, DeleteEvent
<1>2. /\ ~HasRow(d, "DELETE")
      /\ Unheard' = Unheard
      /\ \A e \in Docs, t \in Tags : HasRow(e, t)' <=> HasRow(e, t) \/ (e = d /\ t = "DELETE")
      /\ [Relay!RelayNext]_Relay!relayVars
  BY <1>1, EnqueueIs DEF Tags
<1>3. LogicTypeOK'
  BY <1>1 DEF LogicTypeOK, DocStatus
<1>4. Safe
  BY <1>1, UserDeletesIsSafe
<1>5. LifeInv'
  BY <1>1, <1>2 DEF LifeInv, LogicTypeOK, Tags
<1>6. LifecycleStep
  <2>1. Requested("INDEX")' = Requested("INDEX")
    BY <1>2, SameRequested DEF Tags
  <2>2. d \notin Requested("DELETE") /\ Requested("DELETE")' = Requested("DELETE") \cup {d}
    BY <1>2 DEF Requested, HasRow, Tags
  <2>3. docStatus[d] \in {"Uploading", "Pending", "Completed", "Failed"}
    BY <1>1 DEF LifeInv
  <2>4. Lifecycle!Delete(d)
    BY <1>1, <1>2, <2>1, <2>2, <2>3 DEF Lifecycle!Delete
  <2> QED
    BY <2>4 DEF LifecycleStep, Lifecycle!Next
<1> QED
  BY <1>1, <1>2, <1>3, <1>4, <1>5, <1>6, RelayKept DEF Kept, PipeInv, Safe

\* Steps of the relay that leave the documents and the tasks alone.
LEMMA RelayKeeps ==
  ASSUME PipeInv, Publish \/ Consume
  PROVE  Kept
<1> USE PipeInvIs
<1>1. UNCHANGED logicVars /\ UNCHANGED agentVars /\ Relay!RelayStep
  BY DEF Publish, Consume, RelayOnly, Relay!RelayStep, Relay!AdapterStep
<1>2. /\ [Relay!RelayNext]_Relay!relayVars
      /\ Unheard' = Unheard
      /\ \A d \in Docs, tag \in Tags : HasRow(d, tag)' <=> HasRow(d, tag)
  BY <1>1, RelayStepIs
<1>3. docStatus' = docStatus /\ session' = session /\ task' = task /\ LogicTypeOK' /\ TaskedInv'
  BY <1>1, WorkersKeepTasks DEF logicVars, agentVars, LogicTypeOK
<1>4. Safe
  <2>1. docStatus' \in [Docs -> DocStatus] /\ \A e \in Docs : DocMoves(e)
    BY <1>3 DEF DocMoves
  <2> QED
    BY <1>1, <2>1, LogicIsSafe
<1>5. LifeInv'
  BY <1>2, <1>3 DEF LifeInv, Tags
<1>6. LifecycleStep
  BY <1>2, <1>3, SameRequested DEF LifecycleStep, Lifecycle!vars, Tags
<1> QED
  BY <1>2, <1>3, <1>4, <1>5, <1>6, RelayKept DEF Kept, PipeInv, Safe

\* The insertion of a task is a step of the relay only.
LEMMA IngestKeeps ==
  ASSUME PipeInv, NEW a \in Adapters, IngestEvent(a)
  PROVE  Kept
<1> USE PipeInvIs
<1>1. PICK d \in Docs : adapter[a].event = <<d, "INDEX">> /\ HasRow(d, "INDEX") /\ d \notin Unheard
  <2>1. /\ adapter[a].event \in {IndexEvent(d) : d \in Docs} /\ Proved!Exists(adapter[a].event)
        /\ adapter[a].event \notin unreadable
    BY DEF IngestEvent, Proved!Handovers, Relay!ForwardRecorded
  <2> QED
    BY <2>1 DEF IndexEvent, Proved!Exists, HasRow, Unheard
<1>2. /\ RecordIndexEvent(d) /\ UNCHANGED <<logicVars, store, workerVars>>
      /\ Relay!RelayStep
  <2>1. adapter[a].event[1] = d
    BY <1>1
  <2> QED
    BY <2>1 DEF IngestEvent, Relay!RelayStep, Relay!AdapterStep
<1>3. docStatus' = docStatus /\ session' = session /\ LogicTypeOK'
  BY <1>2 DEF logicVars, LogicTypeOK
<1>4. /\ Safe
      /\ \A e \in Docs \ {d} : task'[e] = task[e]
  BY <1>2, <1>3, RecordIsSafe
<1>5. /\ [Relay!RelayNext]_Relay!relayVars
      /\ Unheard' = Unheard
      /\ \A e \in Docs, tag \in Tags : HasRow(e, tag)' <=> HasRow(e, tag)
  BY <1>2, RelayStepIs
<1>6. LifeInv'
  BY <1>1, <1>3, <1>4, <1>5 DEF LifeInv, Tags
<1>7. LifecycleStep
  BY <1>3, <1>5, SameRequested DEF LifecycleStep, Lifecycle!vars, Tags
<1>8. TaskedInv'
  <2>1. task[d].status # "absent" => task'[d].status # "absent"
    BY <1>2, <1>3, RecordIsSafe DEF logicVars
  <2>2. UNCHANGED <<pc, job>>
    BY <1>2 DEF workerVars
  <2> QED
    BY <1>4, <2>1, <2>2, WorkersKeepTasks
<1> QED
  BY <1>3, <1>4, <1>5, <1>6, <1>7, <1>8, RelayKept DEF Kept, PipeInv, Safe

\* The verdict of a worker is Settle, and all else it does a stutter.
LEMMA IndexKeeps ==
  ASSUME PipeInv, Index
  PROVE  Kept
<1> USE PipeInvIs
<1>1. IndexNext /\ UNCHANGED relayed /\ outbox' = outbox /\ Unheard' = Unheard
  BY SameUnheard DEF Index, relayed
<1>2. /\ session' = session /\ UNCHANGED <<expired, object, confirming>> /\ TaskedInv'
      /\ \A d \in Docs : (task'[d].status # "absent") <=> (task[d].status # "absent")
      /\ \/ UNCHANGED docStatus
         \/ \E d \in Docs, s \in {"Completed", "Failed"} :
              docStatus[d] = "Pending" /\ d \notin Unheard /\ docStatus' = [docStatus EXCEPT ![d] = s]
  BY <1>1, IndexIs
<1>3. Safe
  BY <1>1, IndexNextIsSafe
<1>4. LogicTypeOK'
  BY <1>2, <1>3 DEF LogicTypeOK, Safe, IndexInv
<1>5. [Relay!RelayNext]_Relay!relayVars
  BY <1>1, <1>2, SameRecorded DEF Relay!relayVars, relayed
<1>6. LifeInv'
  BY <1>1, <1>2 DEF LifeInv, HasRow
<1>7. LifecycleStep
  <2>1. Unheard' = Unheard /\ \A tag \in Tags : Requested(tag)' = Requested(tag)
    BY <1>1 DEF Requested
  <2> QED
    BY <1>2, <2>1 DEF LifecycleStep, Lifecycle!Next, Lifecycle!Settle, Lifecycle!vars, Tags
<1> QED
  BY <1>2, <1>3, <1>4, <1>5, <1>6, <1>7, RelayKept DEF Kept, PipeInv, Safe

\* Nothing happens.
LEMMA StutterKeeps ==
  ASSUME PipeInv, UNCHANGED vars
  PROVE  Kept
<1> USE PipeInvIs
<1>1. UNCHANGED logicVars /\ UNCHANGED agentVars /\ UNCHANGED relayed
  BY DEF vars
<1>2. /\ outbox' = outbox /\ Unheard' = Unheard /\ TaskedInv'
      /\ task' = task /\ docStatus' = docStatus /\ session' = session /\ LogicTypeOK'
  BY <1>1, SameUnheard, WorkersKeepTasks DEF logicVars, agentVars, relayed, LogicTypeOK
<1>3. Safe
  <2>1. docStatus' \in [Docs -> DocStatus] /\ \A e \in Docs : DocMoves(e)
    BY <1>2 DEF DocMoves
  <2> QED
    BY <1>1, <2>1, LogicIsSafe
<1>4. [Relay!RelayNext]_Relay!relayVars
  BY <1>1, <1>2, SameRecorded DEF Relay!relayVars, relayed
<1>5. LifeInv' /\ LifecycleStep
  BY <1>2 DEF LifeInv, HasRow, LifecycleStep, Lifecycle!vars, Requested
<1> QED
  BY <1>2, <1>3, <1>4, <1>5, RelayKept DEF Kept, PipeInv, Safe

\* All steps.
LEMMA NextKeeps == ASSUME PipeInv, [Next]_vars PROVE Kept
BY ClientKeeps, CompleteUploadKeeps, DeleteDocumentKeeps, RelayKeeps, IngestKeeps, IndexKeeps, StutterKeeps
   DEF Next

\* The initial states are initial states of both.
LEMMA InitKeeps == ASSUME Init PROVE PipeInv /\ Lifecycle!Init /\ Relay!RelayInit
<1>1. /\ LogicInit /\ AgentInit
      /\ outbox = [e \in AllEvents |-> Relay!NoRow]
      /\ unreadable = {} /\ Unheard = {}
      /\ sender = [p \in Publishers |-> Relay!Idle]
      /\ copies = [e \in AllEvents |-> 0]
      /\ adapter = [a \in Adapters |-> Relay!Idle]
  BY DEF Init, Unheard
<1>2. LogicTypeOK /\ docStatus \in [Docs -> DocStatus]
  BY <1>1, LogicAssumption DEF LogicInit, LogicTypeOK, DocStatus, LogicAssumption
<1>3. IndexInv
  BY <1>1, <1>2, AgentInitInv
<1>4. \A d \in Docs : task[d].status = "absent"
  BY <1>1 DEF AgentInit, NoTask, Row
<1>5. Recorded = {}
  BY <1>4 DEF Recorded
<1>6. Relay!RelayInit
  BY <1>1, <1>5 DEF Relay!RelayInit
<1>7. \A d \in Docs, tag \in Tags : ~HasRow(d, tag)
  BY <1>1 DEF HasRow, Relay!NoRow, AllEvents, Tags
<1>8. LifeInv
  BY <1>1, <1>4, <1>7 DEF LifeInv, LogicInit, Tags
<1>9. Lifecycle!Init
  BY <1>1, <1>7 DEF Lifecycle!Init, LogicInit, Requested, HasRow, Tags
<1>10. TaskedInv
  BY <1>1 DEF AgentInit, TaskedInv, Working
<1> QED
  BY <1>2, <1>3, <1>6, <1>8, <1>9, <1>10, RelayBegins DEF PipeInv

\* Hence the invariant holds always.
LEMMA PipelineKeepsInv == Spec => []PipeInv
<1>1. PipeInv /\ [Next]_vars => PipeInv'
  BY NextKeeps DEF Kept
<1>2. Init => PipeInv
  BY InitKeeps
<1> QED
  BY <1>1, <1>2, PTL DEF Spec

-----------------------------------------------------------------------------
(* The results.                                                            *)

\* Every variable of Logic, of the Agent and of the relay between them has its
\* type in every state.
THEOREM PipelineTypes == Spec => []TypeOK
<1>1. PipeInv => TypeOK
  <2> SUFFICES ASSUME PipeInv PROVE TypeOK
    OBVIOUS
  <2>1. AgentTypeOK
    BY PipeInvIs DEF IndexInv, WorkerTypes, StoreTypes, TaskRows, Phases, AgentTypeOK
  <2>2. Relay!RelayTypeOK
    BY PipeInvIs DEF Proved!RelayTypeOK, Relay!RelayTypeOK, Proved!Rows, Relay!Rows,
                     Proved!RowStatus, Relay!RowStatus
  <2> QED
    BY <2>1, <2>2, PipeInvIs DEF TypeOK
<1> QED
  BY <1>1, PipelineKeepsInv, PTL

\* A confirmed document is always somebody's work: the row CompleteUpload put
\* into the outbox is to be sent, or its message waits, or its task is open,
\* unless the event is one that the ingress cannot read.
THEOREM NoWorkIsLost == Spec => []NoLostWork
<1>1. PipeInv => NoLostWork
  <2> SUFFICES ASSUME PipeInv, NEW d \in Docs, docStatus[d] = "Pending"
               PROVE  \/ outbox[IndexEvent(d)].status \in {"Pending", "Sending", "Failed"}
                      \/ copies[IndexEvent(d)] > 0
                      \/ IndexEvent(d) \in unreadable
                      \/ task[d].status \in {"PENDING", "PROCESSING", "RETRY_WAIT"}
    BY DEF NoLostWork
  <2>1. IndexEvent(d) = <<d, "INDEX">> /\ IndexEvent(d) \in AllEvents /\ HasRow(d, "INDEX")
    BY PipeInvIs DEF LifeInv, IndexEvent, Tags
  <2>2. outbox[IndexEvent(d)].status \in {"Pending", "Sending", "Sent", "Failed"}
    <3>1. outbox[IndexEvent(d)] \in Proved!Rows
      BY <2>1, PipeInvIs DEF Proved!RelayTypeOK
    <3> QED
      BY <2>1, <3>1 DEF Proved!Rows, Proved!RowStatus, HasRow
  <2>3. outbox[IndexEvent(d)].status = "Sent" =>
          copies[IndexEvent(d)] > 0 \/ IndexEvent(d) \in unreadable \/ task[d].status # "absent"
    <3>1. IndexEvent(d) \in Recorded => task[d].status # "absent"
      BY DEF Recorded, IndexEvent
    <3> QED
      BY <2>1, <3>1, PipeInvIs DEF Proved!IInv, Proved!NoLostEvent
  <2>4. task[d].status \notin {"COMPLETED", "FAILED_PERMANENT"}
    BY PipeInvIs DEF IndexInv, TaskAgreesWithDocument
  <2>5. task[d].status \in TaskStatus
    BY PipeInvIs DEF TaskRows
  <2> QED
    BY <2>2, <2>3, <2>4, <2>5 DEF TaskStatus
<1> QED
  BY <1>1, PipelineKeepsInv, PTL

\* The ingress records a task only for a document whose upload was confirmed.
THEOREM TasksAreConfirmed == Spec => []TasksAreForConfirmedUploads
<1>1. PipeInv => TasksAreForConfirmedUploads
  <2> SUFFICES ASSUME PipeInv PROVE TasksAreForConfirmedUploads
    OBVIOUS
  <2> QED
    BY PipeInvIs DEF LifeInv, TasksAreForConfirmedUploads
<1> QED
  BY <1>1, PipelineKeepsInv, PTL

\* Outbox, broker, ingress and workers together implement the life of a
\* document as the application sees it (its safety part).
THEOREM PipelineImplementsLifecycle == Spec => DocumentsLiveAsPromised
<1>1. PipeInv /\ [Next]_vars => [Lifecycle!Next]_Lifecycle!vars
  BY NextKeeps DEF Kept, LifecycleStep
<1>2. Init => Lifecycle!Init
  BY InitKeeps
<1> QED
  BY <1>1, <1>2, PipelineKeepsInv, PTL DEF Spec, DocumentsLiveAsPromised, Lifecycle!SafeSpec

\* Between Logic and the Agent the relay behaves as OutboxRelay specifies, the
\* recorded events being the task rows.
THEOREM PipelineImplementsRelay == Spec => RelaysAsSpecified
<1>1. PipeInv /\ [Next]_vars => [Relay!RelayNext]_Relay!relayVars
  BY NextKeeps DEF Kept
<1>2. Init => Relay!RelayInit
  BY InitKeeps
<1> QED
  BY <1>1, <1>2, PipelineKeepsInv, PTL DEF Spec, RelaysAsSpecified, Relay!RelaySpec

-----------------------------------------------------------------------------
(* What the parts guarantee on their own holds of them in the pipeline.    *)

\* With outbox and ingress around them the workers still end a task only as its
\* holders, in agreement with the document, and Logic takes back no verdict.
THEOREM WorkersInPipeline ==
  Spec => []TaskAgreesWithDocument /\ OnlyHolderSettlesTask /\ OneVerdict
<1>1. PipeInv => TaskAgreesWithDocument
  BY PipeInvIs DEF IndexInv
<1>2. PipeInv /\ [Next]_vars => [HolderSettlesStep]_allVars /\ [VerdictStep]_allVars
  BY NextKeeps DEF Kept, Safe
<1>3. Spec => []TaskAgreesWithDocument /\ [][HolderSettlesStep]_allVars /\ [][VerdictStep]_allVars
  BY <1>1, <1>2, PipelineKeepsInv, PTL DEF Spec
<1> QED
  BY <1>3 DEF OnlyHolderSettlesTask, HolderSettlesStep, OneVerdict, VerdictStep

\* A step that leaves the Agent alone and completes no document keeps the
\* workers apart.
LEMMA LogicIsPatient ==
  ASSUME PatientInv, UNCHANGED agentVars,
         \A d \in Docs : docStatus'[d] = "Completed" => docStatus[d] = "Completed"
  PROVE  Patient
<1>1. task' = task /\ store' = store /\ pc' = pc /\ job' = job /\ todo' = todo
  BY DEF agentVars
<1>2. WrittenStep
  BY DEF WrittenStep
<1>3. PatientInv'
  BY <1>1 DEF PatientInv, HoldersInv, HoldsTask, ExclusiveIndexing, AtWork, WritesInv, Filled, VerdictStands
<1> QED
  BY <1>2, <1>3 DEF Patient

\* The steps of Logic and of the relay are such steps.
LEMMA OthersArePatient ==
  ASSUME PipeInv, PatientInv,
         \/ \E d \in Docs : ClientStep(d) \/ CompleteUpload(d) \/ DeleteDocument(d)
         \/ Publish \/ Consume \/ UNCHANGED vars
  PROVE  Patient
<1>1. UNCHANGED agentVars
  BY DEF ClientStep, CompleteUpload, DeleteDocument, Publish, Consume, RelayOnly, vars
<1>2. docStatus \in [Docs -> DocStatus]
  BY PipeInvIs
<1>3. \/ UNCHANGED docStatus
      \/ \E d \in Docs, s \in {"Uploading", "Pending", "Deleting"} : docStatus' = [docStatus EXCEPT ![d] = s]
  <2>1. ASSUME NEW d \in Docs, ClientStep(d)
        PROVE  UNCHANGED docStatus \/ docStatus' = [docStatus EXCEPT ![d] = "Uploading"]
    BY <2>1 DEF ClientStep, CreateUploadTicket, SessionExpires, CheckUpload, ConfirmUploadRefused, PutObject
  <2>2. ASSUME NEW d \in Docs, CompleteUpload(d)
        PROVE  docStatus' = [docStatus EXCEPT ![d] = "Pending"]
    BY <2>2 DEF CompleteUpload, ConfirmUpload
  <2>3. ASSUME NEW d \in Docs, DeleteDocument(d)
        PROVE  docStatus' = [docStatus EXCEPT ![d] = "Deleting"]
    BY <2>3 DEF DeleteDocument, RequestDocumentDeletion
  <2>4. CASE Publish \/ Consume \/ UNCHANGED vars
    BY <2>4 DEF Publish, Consume, RelayOnly, vars, logicVars
  <2> QED
    BY <2>1, <2>2, <2>3, <2>4
<1>4. \A d \in Docs : docStatus'[d] = "Completed" => docStatus[d] = "Completed"
  BY <1>2, <1>3
<1> QED
  BY <1>1, <1>4, LogicIsPatient

\* A message that arrives, for the first time or again, disturbs nobody.
LEMMA IngestIsPatient ==
  ASSUME PipeInv, PatientInv, NEW a \in Adapters, IngestEvent(a)
  PROVE  Patient
<1> USE PipeInvIs
<1>1. PICK d \in Docs : adapter[a].event = <<d, "INDEX">>
  BY DEF IngestEvent, Proved!Handovers, IndexEvent
<1>2. RecordIndexEvent(d) /\ UNCHANGED <<docStatus, store, workerVars>>
  BY <1>1 DEF IngestEvent, logicVars
<1>3. /\ Safe
      /\ \A e \in Docs \ {d} : task'[e] = task[e]
      /\ task[d].status # "absent" => task'[d] = task[d]
  BY <1>2, RecordIsSafe
<1>4. task[d].status = "absent" => \A v \in Workers : pc[v] \in Working => job[v] \in Docs \ {d}
  BY NobodyAtWork
<1> QED
  BY <1>2, <1>3, <1>4, TaskIsPatient

\* All steps.
LEMMA NextIsPatient ==
  ASSUME ~LiveLocksExpire, PipeInv, PatientInv, [Next]_vars
  PROVE  Patient
<1> USE PipeInvIs
<1>1. CASE Index
  <2>1. CASE \E w \in Workers, d \in Docs : ClaimTask(w, d)
    BY <2>1, ClaimIsPatient
  <2>2. CASE \E w \in Workers : WorkerStep(w)
    BY <2>2, WorkerStepFits, FitsIsPatient
  <2>3. CASE \E w \in Workers : WorkerCrash(w) \/ WorkerRestart(w)
    BY <2>3, CrashIsPatient
  <2>4. CASE \E d \in Docs : LockExpires(d)
    BY <2>4, LockExpiresIsPatient
  <2> QED
    BY <1>1, <2>1, <2>2, <2>3, <2>4 DEF Index, IndexNext
<1> QED
  BY <1>1, OthersArePatient, IngestIsPatient DEF Next

\* While no live worker outlasts its lock, messages that are late, lost or sent
\* twice set no second worker on a document, restart no reported failure, and
\* let Logic activate nothing that some store lacks.
THEOREM PatientPipeline ==
  ASSUME ~LiveLocksExpire
  PROVE  Spec => [](ExclusiveIndexing /\ VerdictStands) /\ ActivatedOnlyWhenWritten
<1>1. PipeInv /\ PatientInv /\ [Next]_vars => PatientInv' /\ [WrittenStep]_allVars
  BY NextIsPatient DEF Patient
<1>2. Init => PatientInv
  BY AgentInitPatient DEF Init
<1>3. PatientInv => ExclusiveIndexing /\ VerdictStands
  BY DEF PatientInv
<1>4. Spec => [](ExclusiveIndexing /\ VerdictStands) /\ [][WrittenStep]_allVars
  BY <1>1, <1>2, <1>3, PipelineKeepsInv, PTL DEF Spec
<1> QED
  BY <1>4 DEF ActivatedOnlyWhenWritten, WrittenStep

\* The relay of the pipeline is a behaviour of the relay the proofs are about.
LEMMA PipelineRelays == Spec => Proved!RelaySpec
<1>1. PipeInv /\ [Next]_vars => [Proved!RelayNext]_Proved!relayVars
  BY NextKeeps, SameNext DEF Kept
<1>2. Init => Proved!RelayInit
  BY InitKeeps DEF Relay!RelayInit, Proved!RelayInit, Relay!NoRow, Proved!NoRow, Relay!Idle, Proved!Idle
<1> QED
  BY <1>1, <1>2, PipelineKeepsInv, PTL DEF Spec, Proved!RelaySpec

\* So between Logic and the Agent no event the ingress can read is lost, a row of the outbox is
\* settled by its holder only, and a task row appears once, for a document a
\* transaction of Logic requested to be indexed.
THEOREM RelayKeptInPipeline ==
  Spec => []Relay!NoLostEvent /\ Relay!OnlyHolderSettles /\ Relay!Delivery!SafeSpec
<1>1. Proved!NoLostEvent => Relay!NoLostEvent
  BY DEF Proved!NoLostEvent, Relay!NoLostEvent
<1>2. Proved!RelaySpec => []Proved!NoLostEvent /\ Proved!OnlyHolderSettles /\ Proved!Delivery!SafeSpec
  BY RelayAssumed, Proved!NothingLost, Proved!HolderSettles, Proved!RelayImplementsDelivery
<1>3. Proved!OnlyHolderSettles => Relay!OnlyHolderSettles
  BY DEF Proved!OnlyHolderSettles, Relay!OnlyHolderSettles, Proved!relayVars, Relay!relayVars
<1>4. Proved!Delivery!SafeSpec => Relay!Delivery!SafeSpec
  BY DEF Proved!Delivery!SafeSpec, Relay!Delivery!SafeSpec, Proved!Delivery!Init, Relay!Delivery!Init,
         Proved!Delivery!Next, Relay!Delivery!Next, Proved!Delivery!vars, Relay!Delivery!vars,
         Proved!Delivery!Request, Relay!Delivery!Request, Proved!Delivery!Record, Relay!Delivery!Record,
         Proved!Requested, Relay!Requested
<1> QED
  BY <1>1, <1>2, <1>3, <1>4, PipelineRelays, PTL
=============================================================================
