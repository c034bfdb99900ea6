---------------------------- MODULE IndexWorker ----------------------------
(***************************************************************************)
(* The indexing side of the Agent: the table agent_document_index_task,    *)
(* the DocumentWorker of each Python process and the stores it fills.      *)
(*                                                                         *)
(* A worker claims a task, fetches and splits the document, replaces the   *)
(* chunks in MySQL (one transaction) and then in each search store (delete *)
(* and insert, two calls), asks Logic to activate the version and marks    *)
(* the task.  Any call can fail before its effect, or after it with the    *)
(* answer lost.  A lock is never renewed, so a worker slower than the lock *)
(* timeout goes on while another one has taken its task over.              *)
(***************************************************************************)
EXTENDS KnowledgeLogic

CONSTANTS
  Workers,          \* worker processes
  MaxAttempts,      \* WORKER_MAX_ATTEMPTS; attempts are counted no further
  OptionalStores,   \* which of "opensearch" and "neo4j" are configured
  LiveLocksExpire,  \* may a live worker be slower than the lock timeout?
  MaxCrashes,       \* bound: how many times a worker process is killed
  NoOne             \* no document, no lock holder

ASSUME WorkerAssumption ==
  /\ MaxAttempts \in Nat \ {0}
  /\ OptionalStores \subseteq {"opensearch", "neo4j"}
  /\ LiveLocksExpire \in BOOLEAN
  /\ MaxCrashes \in Nat
  /\ NoOne \notin Docs
  /\ NoOne \notin Workers

VARIABLES
  task,    \* the task row of each document; "absent" until the ingress inserts it
  pc,      \* the call each worker makes next
  job,     \* the document it works on
  tries,   \* task.attempts as it read them when claiming
  fatal,   \* the exception it handles is a PermanentDocumentError
  todo,    \* stores it has still to write, or to clean
  store,   \* stores that hold the complete chunks of a document
  crashes  \* processes killed so far

taskVars   == <<task, store>>
workerVars == <<pc, job, tries, fatal, todo, crashes>>
agentVars  == <<task, store, pc, job, tries, fatal, todo, crashes>>

Replicas == {"milvus"} \cup OptionalStores
Stores   == {"mysql"} \cup Replicas

WriteRank == [milvus |-> 1, opensearch |-> 2, neo4j |-> 3]
CleanRank == [opensearch |-> 1, milvus |-> 2, mysql |-> 3, neo4j |-> 4]
First(S, rank) == CHOOSE s \in S : \A t \in S : rank[s] <= rank[t]

TaskStatus == {"absent", "PENDING", "PROCESSING", "RETRY_WAIT", "COMPLETED", "FAILED_PERMANENT"}
Working == {"fetch", "chunks", "erase", "insert", "clean", "complete", "mark",
            "caught", "report", "markFailed", "markPending"}

Row(status, holder, attempts, failing) ==
  [status |-> status, lockedBy |-> holder, stale |-> FALSE, attempts |-> attempts, failing |-> failing]
NoTask == Row("absent", NoOne, 0, FALSE)

AgentTypeOK ==
  /\ task \in [Docs -> [status : TaskStatus, lockedBy : Workers \cup {NoOne}, stale : BOOLEAN,
                        attempts : 0..MaxAttempts, failing : BOOLEAN]]
  /\ pc \in [Workers -> {"idle", "down"} \cup Working]
  /\ job \in [Workers -> Docs \cup {NoOne}]
  /\ tries \in [Workers -> 0..MaxAttempts]
  /\ fatal \in [Workers -> BOOLEAN]
  /\ todo \in [Workers -> SUBSET Stores]
  /\ store \in [Docs -> SUBSET Stores]
  /\ crashes \in 0..MaxCrashes

AgentInit ==
  /\ task = [d \in Docs |-> NoTask]
  /\ store = [d \in Docs |-> {}]
  /\ pc = [w \in Workers |-> "idle"]
  /\ job = [w \in Workers |-> NoOne]
  /\ tries = [w \in Workers |-> 0]
  /\ fatal = [w \in Workers |-> FALSE]
  /\ todo = [w \in Workers |-> {}]
  /\ crashes = 0

-----------------------------------------------------------------------------
(* Moving a worker from call to call.                                      *)

Goto(w, at) ==
  /\ pc' = [pc EXCEPT ![w] = at]
  /\ UNCHANGED <<job, tries, fatal, todo, crashes>>

GotoWith(w, at, left) ==
  /\ pc' = [pc EXCEPT ![w] = at]
  /\ todo' = [todo EXCEPT ![w] = left]
  /\ UNCHANGED <<job, tries, fatal, crashes>>

\* An exception reaches process_one.
Raise(w, permanent) ==
  /\ pc' = [pc EXCEPT ![w] = "caught"]
  /\ fatal' = [fatal EXCEPT ![w] = permanent]
  /\ UNCHANGED <<job, tries, todo, crashes>>

\* process_one is over ("idle"), or its exception ends the process ("down").
Leave(w, at) ==
  /\ pc' = [pc EXCEPT ![w] = at]
  /\ job' = [job EXCEPT ![w] = NoOne]
  /\ tries' = [tries EXCEPT ![w] = 0]
  /\ fatal' = [fatal EXCEPT ![w] = FALSE]
  /\ todo' = [todo EXCEPT ![w] = {}]
  /\ UNCHANGED crashes

-----------------------------------------------------------------------------
(* The task table.                                                         *)

\* Mutation: the new row takes over the status of the document.
RecordIndexEvent_DocumentStatus(d) ==
  task' = IF task[d].status = "absent"
            THEN [task EXCEPT ![d] = Row(docStatus[d], NoOne, 0, FALSE)]
            ELSE task

\* record_index_event: INSERT IGNORE on (document_id, index_version).
RecordIndexEvent(d) ==
  task' = IF task[d].status = "absent"
            THEN [task EXCEPT ![d] = Row("PENDING", NoOne, 0, FALSE)]
            ELSE task

AtWork(w, d) == pc[w] \in Working /\ job[w] = d

LockExpires(d) ==
  /\ task[d].status = "PROCESSING"
  /\ ~task[d].stale
  /\ LiveLocksExpire \/ ~AtWork(task[d].lockedBy, d)
  /\ task' = [task EXCEPT ![d].stale = TRUE]
  /\ UNCHANGED <<logicVars, store, workerVars>>

\* Mutation: the claim does not look at the age of the lock.
ClaimableTask_AnyLock(d) == task[d].status \in {"PENDING", "RETRY_WAIT", "PROCESSING"}

\* next_retry_at may have come or not, and SKIP LOCKED may pass over a row, so
\* any such row can be the one taken.
ClaimableTask(d) ==
  \/ task[d].status \in {"PENDING", "RETRY_WAIT"}
  \/ task[d].status = "PROCESSING" /\ task[d].stale

\* Mutation: the claim does not count the attempt.
ClaimTask_Uncounted(w, d) ==
  /\ pc[w] = "idle"
  /\ ClaimableTask(d)
  /\ task' = [task EXCEPT ![d] = Row("PROCESSING", w, 1, @.failing)]
  /\ pc' = [pc EXCEPT ![w] = IF task[d].failing THEN "report" ELSE "fetch"]
  /\ job' = [job EXCEPT ![w] = d]
  /\ tries' = [tries EXCEPT ![w] = 1]
  /\ UNCHANGED <<logicVars, store, fatal, todo, crashes>>

\* Mutation: a task with a failure code is indexed again.
ClaimTask_Reindexes(w, d) ==
  LET n == IF task[d].attempts < MaxAttempts THEN task[d].attempts + 1 ELSE MaxAttempts
  IN
  /\ pc[w] = "idle"
  /\ ClaimableTask(d)
  /\ task' = [task EXCEPT ![d] = Row("PROCESSING", w, n, @.failing)]
  /\ pc' = [pc EXCEPT ![w] = "fetch"]
  /\ job' = [job EXCEPT ![w] = d]
  /\ tries' = [tries EXCEPT ![w] = n]
  /\ UNCHANGED <<logicVars, store, fatal, todo, crashes>>

\* Mutation: the ids of the worker and of the document are swapped.
ClaimTask_SwappedIds(w, d) ==
  /\ pc[w] = "idle"
  /\ ClaimableTask(d)
  /\ task' = [task EXCEPT ![d] = Row("PROCESSING", d, 1, @.failing)]
  /\ pc' = [pc EXCEPT ![w] = IF task[d].failing THEN "report" ELSE "fetch"]
  /\ job' = [job EXCEPT ![w] = d]
  /\ tries' = [tries EXCEPT ![w] = 1]
  /\ UNCHANGED <<logicVars, store, fatal, todo, crashes>>

\* claim_task.  A task with a failure code goes straight to the report.
ClaimTask(w, d) ==
  LET n == IF task[d].attempts < MaxAttempts THEN task[d].attempts + 1 ELSE MaxAttempts
  IN
  /\ pc[w] = "idle"
  /\ ClaimableTask(d)
  /\ task' = [task EXCEPT ![d] = Row("PROCESSING", w, n, @.failing)]
  /\ pc' = [pc EXCEPT ![w] = IF task[d].failing THEN "report" ELSE "fetch"]
  /\ job' = [job EXCEPT ![w] = d]
  /\ tries' = [tries EXCEPT ![w] = n]
  /\ UNCHANGED <<logicVars, store, fatal, todo, crashes>>

\* Mutation: the update checks neither status nor holder.
HoldsTask_Unchecked(w) == TRUE

\* status = 1 AND locked_by = worker_id.
HoldsTask(w) == task[job[w]].status = "PROCESSING" /\ task[job[w]].lockedBy = w

Released(row, status) == [row EXCEPT !.status = status, !.lockedBy = NoOne, !.stale = FALSE]

\* An update of the row by its holder: it is applied, or it is not, because
\* the lock was lost or the database failed, and then the worker raises; it
\* may also be applied and the answer lost.
UpdateLocked(w, row, next, raised) ==
  \/ /\ HoldsTask(w)
     /\ task' = [task EXCEPT ![job[w]] = row]
     /\ next \/ raised
  \/ UNCHANGED task /\ raised

-----------------------------------------------------------------------------
(* DocumentIndexer.process.                                                *)

\* Ticket, download, parsing, splitting and embedding: nothing is written.  A
\* refused ticket (the document is being deleted, say) is an ordinary error.
FetchDocument(w) ==
  /\ pc[w] = "fetch"
  /\ \/ TicketGranted(job[w]) /\ object[job[w]] = "matching" /\ Goto(w, "chunks")
     \/ TicketGranted(job[w]) /\ Raise(w, TRUE)
     \/ Raise(w, FALSE)
  /\ UNCHANGED <<logicVars, taskVars>>

\* replace_chunks, outside the try block: no compensation if it fails.
ReplaceChunks(w) ==
  /\ pc[w] = "chunks"
  /\ \/ /\ store' = [store EXCEPT ![job[w]] = @ \cup {"mysql"}]
        /\ GotoWith(w, "erase", Replicas) \/ Raise(w, FALSE)
     \/ UNCHANGED store /\ Raise(w, FALSE)
  /\ UNCHANGED <<logicVars, task>>

\* replace_version of the next store, first half: the old rows are deleted.
EraseReplica(w) ==
  LET s == First(todo[w], WriteRank) IN
  /\ pc[w] = "erase"
  /\ \/ /\ store' = [store EXCEPT ![job[w]] = @ \ {s}]
        /\ Goto(w, "insert") \/ GotoWith(w, "clean", Stores)
     \/ UNCHANGED store /\ GotoWith(w, "clean", Stores)
  /\ UNCHANGED <<logicVars, task>>

\* Mutation: the version is activated before the last store is written.
InsertReplica_EarlyExit(w) ==
  /\ pc[w] = "insert"
  /\ UNCHANGED store
  /\ GotoWith(w, "complete", {})
  /\ UNCHANGED <<logicVars, task>>

\* Second half: the new rows are inserted.
InsertReplica(w) ==
  LET s == First(todo[w], WriteRank) IN
  /\ pc[w] = "insert"
  /\ \/ /\ store' = [store EXCEPT ![job[w]] = @ \cup {s}]
        /\ \/ GotoWith(w, IF todo[w] = {s} THEN "complete" ELSE "erase", todo[w] \ {s})
           \/ GotoWith(w, "clean", Stores)
     \/ UNCHANGED store /\ GotoWith(w, "clean", Stores)
  /\ UNCHANGED <<logicVars, task>>

\* _compensate, one store after the other, each at best effort; then the
\* original exception goes on.
CleanStore(w) ==
  LET s == First(todo[w], CleanRank) IN
  /\ pc[w] = "clean"
  /\ \E removed \in SUBSET {s} : store' = [store EXCEPT ![job[w]] = @ \ removed]
  /\ GotoWith(w, IF todo[w] = {s} THEN "caught" ELSE "clean", todo[w] \ {s})
  /\ UNCHANGED <<logicVars, task>>

-----------------------------------------------------------------------------
(* DocumentWorker.process_one after process.                               *)

\* complete_index: refused, failed on the way, or done with the answer
\* arriving or lost.
CompleteIndex(w) ==
  /\ pc[w] = "complete"
  /\ \/ /\ CompleteAccepted(job[w])
        /\ docStatus' = CompleteDocumentIndex(job[w])
        /\ Goto(w, "mark") \/ Raise(w, FALSE)
     \/ UNCHANGED docStatus /\ Raise(w, FALSE)
  /\ UNCHANGED <<session, expired, object, confirming, taskVars>>

MarkCompleted(w) ==
  /\ pc[w] = "mark"
  /\ UpdateLocked(w, Released(task[job[w]], "COMPLETED"), Leave(w, "idle"), Raise(w, FALSE))
  /\ UNCHANGED <<logicVars, store>>

Permanent(w) == fatal[w] \/ tries[w] >= MaxAttempts

\* mark_retry is called in the exception handler: if it raises, nobody
\* catches that and the process ends.
MarkRetry(w) ==
  /\ pc[w] = "caught"
  /\ ~Permanent(w)
  /\ UpdateLocked(w, Released(task[job[w]], "RETRY_WAIT"), Leave(w, "idle"), Leave(w, "down"))
  /\ UNCHANGED <<logicVars, store>>

BeginReport(w) ==
  /\ pc[w] = "caught"
  /\ Permanent(w)
  /\ Goto(w, "report")
  /\ UNCHANGED <<logicVars, taskVars>>

\* Mutation: a report that fails is taken for a report that arrived.
FailIndex_IgnoresError(w) ==
  /\ pc[w] = "report"
  /\ \/ FailAccepted(job[w]) /\ docStatus' = FailDocumentIndex(job[w])
     \/ UNCHANGED docStatus
  /\ Goto(w, "markFailed")
  /\ UNCHANGED <<session, expired, object, confirming, taskVars>>

\* fail_index, with the outcomes of complete_index.
FailIndex(w) ==
  /\ pc[w] = "report"
  /\ \/ /\ FailAccepted(job[w])
        /\ docStatus' = FailDocumentIndex(job[w])
        /\ Goto(w, "markFailed") \/ Goto(w, "markPending")
     \/ UNCHANGED docStatus /\ Goto(w, "markPending")
  /\ UNCHANGED <<session, expired, object, confirming, taskVars>>

MarkFailedPermanent(w) ==
  /\ pc[w] = "markFailed"
  /\ UpdateLocked(w, Released(task[job[w]], "FAILED_PERMANENT"),
                  Leave(w, "idle"), Leave(w, "down"))
  /\ UNCHANGED <<logicVars, store>>

\* The verdict is kept in the row: later claims only repeat the report.
MarkFailureReportPending(w) ==
  /\ pc[w] = "markPending"
  /\ UpdateLocked(w, [Released(task[job[w]], "RETRY_WAIT") EXCEPT !.failing = TRUE],
                  Leave(w, "idle"), Leave(w, "down"))
  /\ UNCHANGED <<logicVars, store>>

-----------------------------------------------------------------------------
WorkerStep(w) ==
  \/ FetchDocument(w) \/ ReplaceChunks(w) \/ EraseReplica(w) \/ InsertReplica(w)
  \/ CleanStore(w) \/ CompleteIndex(w) \/ MarkCompleted(w) \/ MarkRetry(w)
  \/ BeginReport(w) \/ FailIndex(w) \/ MarkFailedPermanent(w) \/ MarkFailureReportPending(w)

\* The process is killed, between any two calls.
WorkerCrash(w) ==
  /\ pc[w] \in Working
  /\ crashes < MaxCrashes
  /\ crashes' = crashes + 1
  /\ pc' = [pc EXCEPT ![w] = "down"]
  /\ job' = [job EXCEPT ![w] = NoOne]
  /\ tries' = [tries EXCEPT ![w] = 0]
  /\ fatal' = [fatal EXCEPT ![w] = FALSE]
  /\ todo' = [todo EXCEPT ![w] = {}]
  /\ UNCHANGED <<logicVars, taskVars>>

WorkerRestart(w) ==
  /\ pc[w] = "down"
  /\ pc' = [pc EXCEPT ![w] = "idle"]
  /\ UNCHANGED <<logicVars, taskVars, job, tries, fatal, todo, crashes>>

-----------------------------------------------------------------------------
(***************************************************************************)
(* The workers on their own: uploads are over, task rows arrive in any     *)
(* order, and users delete documents whenever they like.                   *)
(***************************************************************************)
allVars == <<logicVars, agentVars>>

WorkerInit ==
  /\ docStatus = [d \in Docs |-> "Pending"]
  /\ session = [d \in Docs |-> "Confirmed"]
  /\ expired = [d \in Docs |-> TRUE]
  /\ object \in [Docs -> Contents]
  /\ confirming = [d \in Docs |-> 0]
  /\ AgentInit

TaskArrives(d) ==
  /\ task[d].status = "absent"
  /\ RecordIndexEvent(d)
  /\ UNCHANGED <<logicVars, store, workerVars>>

UserDeletes(d) == RequestDocumentDeletion(d) /\ UNCHANGED agentVars

IndexNext ==
  \/ \E w \in Workers, d \in Docs : ClaimTask(w, d)
  \/ \E w \in Workers : WorkerStep(w) \/ WorkerCrash(w) \/ WorkerRestart(w)
  \/ \E d \in Docs : LockExpires(d)

WorkerNext == IndexNext \/ \E d \in Docs : TaskArrives(d) \/ UserDeletes(d)

WorkerSpec == WorkerInit /\ [][WorkerNext]_allVars

(***************************************************************************)
(* Fairness.  A running process makes its next call, a stopped one is      *)
(* started again, and a lock grows old.  A due task is claimed if it comes *)
(* up again and again, and so does a failure report reach Logic that is    *)
(* repeated again and again.  No call is assumed to succeed the first      *)
(* time, and indexing itself is never assumed to succeed.                  *)
(***************************************************************************)
WorkerFairness ==
  /\ \A w \in Workers : WF_allVars(WorkerStep(w)) /\ WF_allVars(WorkerRestart(w))
  /\ \A d \in Docs :
       /\ WF_allVars(TaskArrives(d))
       /\ WF_allVars(LockExpires(d))
       /\ SF_allVars(\E w \in Workers : ClaimTask(w, d))
       /\ SF_allVars(\E w \in Workers : job[w] = d /\ FailIndex(w) /\ docStatus'[d] = "Failed")

WorkerFairSpec == WorkerSpec /\ WorkerFairness

-----------------------------------------------------------------------------
(* Properties.                                                             *)

\* A finished task and the document it was about tell the same story: the
\* worker records an outcome only after Logic accepted it, and nothing but a
\* deletion can have changed the document since.
TaskAgreesWithDocument ==
  \A d \in Docs :
    /\ task[d].status = "COMPLETED" => docStatus[d] \in {"Completed", "Deleting"}
    /\ task[d].status = "FAILED_PERMANENT" => docStatus[d] \in {"Failed", "Deleting"}

\* However many workers believe they own a task, only the one whose lock is
\* in the row ends its processing, at a call that concludes its own attempt,
\* and a finished row never changes again.
OnlyHolderSettlesTask ==
  [][\A d \in Docs :
       /\ task[d].status \in {"COMPLETED", "FAILED_PERMANENT"} => task'[d] = task[d]
       /\ task[d].status = "PROCESSING" /\ task'[d].status # "PROCESSING" =>
            \E w \in Workers :
              /\ task[d].lockedBy = w
              /\ job[w] = d
              /\ pc[w] \in {"mark", "caught", "markFailed", "markPending"}
              /\ task'[d].status = "COMPLETED" => pc[w] = "mark"
    ]_allVars

\* Workers that answer late never make Logic change its mind: a document that
\* was activated is not reported failed, nor a failed one activated.
OneVerdict ==
  [][\A d \in Docs :
       /\ docStatus[d] = "Completed" => docStatus'[d] # "Failed"
       /\ docStatus[d] \in {"Failed", "Deleting"} => docStatus'[d] # "Completed"
    ]_allVars

\* While no live worker outlasts its lock, a document is indexed by one worker
\* at a time, crashes and takeovers included.
ExclusiveIndexing ==
  \A d \in Docs : \A v, w \in Workers : AtWork(v, d) /\ AtWork(w, d) => v = w

\* Logic activates a version only when MySQL and every configured search store
\* hold its complete chunks.
ActivatedOnlyWhenWritten ==
  [][\A d \in Docs :
       docStatus[d] # "Completed" /\ docStatus'[d] = "Completed" => store[d] = Stores
    ]_allVars

\* Once a task carries its failure code, only the report to Logic is repeated,
\* and never the indexing.
VerdictStands ==
  \A d \in Docs, w \in Workers :
    task[d].failing /\ AtWork(w, d) => pc[w] \in {"report", "markFailed", "markPending"}

\* A pending document does not stay pending: it is indexed, reported as failed
\* once its attempts are used up, or deleted by its user.
PendingSettles ==
  \A d \in Docs : docStatus[d] = "Pending" ~> docStatus[d] \in {"Completed", "Failed", "Deleting"}

\* A document shown as completed has its content in every store.
CompletedHasContent ==
  \A d \in Docs : docStatus[d] = "Completed" => store[d] = Stores

\* Nothing of a document whose indexing failed is left in a search store.
FailedHasNoContent ==
  \A d \in Docs : docStatus[d] = "Failed" => store[d] \cap Replicas = {}
=============================================================================
