------------------------- MODULE IndexWorkerProofs -------------------------
(***************************************************************************)
(* Proofs about IndexWorker, for any documents, workers, attempts and      *)
(* stores.  The first part holds however late a worker is; the second one  *)
(* assumes that no live worker outlasts its lock.                          *)
(***************************************************************************)
EXTENDS IndexWorker, TLAPS

Phases   == {"idle", "down"} \cup Working
TaskRows == [status : TaskStatus, lockedBy : Workers \cup {NoOne}, stale : BOOLEAN,
             attempts : 0..MaxAttempts, failing : BOOLEAN]

WorkerTypes ==
  /\ pc \in [Workers -> Phases]
  /\ job \in [Workers -> Docs \cup {NoOne}]
  /\ tries \in [Workers -> 0..MaxAttempts]
  /\ fatal \in [Workers -> BOOLEAN]
  /\ todo \in [Workers -> SUBSET Stores]
  /\ crashes \in 0..MaxCrashes

StoreTypes == task \in [Docs -> TaskRows] /\ store \in [Docs -> SUBSET Stores]

\* A worker about to mark an outcome was told it by Logic, and only a deletion
\* can have changed the document since.
JobsInv ==
  \A w \in Workers :
    /\ pc[w] \in Working => job[w] \in Docs
    /\ pc[w] \in {"erase", "insert"} => todo[w] \subseteq Replicas /\ todo[w] # {}
    /\ pc[w] = "mark" => docStatus[job[w]] \in {"Completed", "Deleting"}
    /\ pc[w] = "markFailed" => docStatus[job[w]] \in {"Failed", "Deleting"}

IndexInv ==
  /\ docStatus \in [Docs -> DocStatus]
  /\ WorkerTypes /\ StoreTypes
  /\ JobsInv
  /\ TaskAgreesWithDocument

-----------------------------------------------------------------------------
(* What the steps of a worker have in common.                              *)

\* The worker goes on to phase at; the others stay where they are.
Moves(w, at) ==
  /\ WorkerTypes'
  /\ pc'[w] = at
  /\ at \in Working => job'[w] = job[w]
  /\ \A v \in Workers \ {w} : pc'[v] = pc[v] /\ job'[v] = job[v] /\ todo'[v] = todo[v]

\* No worker makes Logic change its mind.
DocMoves(d) ==
  /\ docStatus[d] = "Completed" => docStatus'[d] \in {"Completed", "Deleting"}
  /\ docStatus[d] = "Failed" => docStatus'[d] \in {"Failed", "Deleting"}
  /\ docStatus[d] = "Deleting" => docStatus'[d] = "Deleting"

\* The holder of a lock ends the processing of its task.
Settles(w, at) ==
  LET d == job[w] IN
  /\ HoldsTask(w)
  /\ pc[w] \in {"mark", "caught", "markFailed", "markPending"}
  /\ task'[d].status \in {"RETRY_WAIT", "COMPLETED", "FAILED_PERMANENT"}
  /\ task'[d].status = "COMPLETED" => pc[w] = "mark"
  /\ task'[d].status = "FAILED_PERMANENT" => pc[w] = "markFailed"
  /\ at \in Working => at = "caught" /\ task'[d].status = "COMPLETED"
  /\ task'[d].failing => task[d].failing \/ pc[w] = "markPending"

Filled(w) == pc[w] \in {"erase", "insert"} => Stores \subseteq store[job[w]] \cup todo[w]

Reporting == {"report", "markFailed", "markPending"}

\* A step of worker w that goes on to phase at touches its own document only.
Fits(w, at) ==
  LET d == job[w] IN
  /\ pc[w] \in Working
  /\ Moves(w, at)
  /\ StoreTypes'
  /\ docStatus' \in [Docs -> DocStatus]
  /\ UNCHANGED <<session, expired, object, confirming>>
  /\ \A e \in Docs \ {d} : docStatus'[e] = docStatus[e] /\ task'[e] = task[e] /\ store'[e] = store[e]
  /\ DocMoves(d)
  /\ docStatus'[d] # docStatus[d] => docStatus[d] \in {"Pending", "Processing"}
                                     /\ docStatus'[d] \in {"Completed", "Failed"}
  /\ docStatus'[d] = "Completed" /\ docStatus[d] # "Completed" => pc[w] = "complete"
  /\ task'[d] = task[d] \/ Settles(w, at)
  /\ at = "mark" => docStatus'[d] \in {"Completed", "Deleting"}
  /\ at = "markFailed" => docStatus'[d] \in {"Failed", "Deleting"}
  /\ at \in {"erase", "insert"} =>
       /\ todo'[w] \subseteq Replicas /\ todo'[w] # {}
       /\ Filled(w) => Stores \subseteq store'[d] \cup todo'[w]
  /\ at = "complete" => (Filled(w) => store'[d] = Stores)
  /\ pc[w] \in Reporting /\ at \in Working => at \in Reporting

\* The four ways in which a worker goes on.
LEMMA GotoMoves ==
  ASSUME WorkerTypes, NEW w \in Workers, NEW at \in Phases, Goto(w, at)
  PROVE  Moves(w, at) /\ todo' = todo
BY DEF WorkerTypes, Goto, Moves

\* With stores left to write or clean.
LEMMA GotoWithMoves ==
  ASSUME WorkerTypes, NEW w \in Workers, NEW at \in Phases, NEW left \in SUBSET Stores, GotoWith(w, at, left)
  PROVE  Moves(w, at) /\ todo'[w] = left
BY DEF WorkerTypes, GotoWith, Moves

\* With an exception.
LEMMA RaiseMoves ==
  ASSUME WorkerTypes, NEW w \in Workers, NEW permanent \in BOOLEAN, Raise(w, permanent)
  PROVE  Moves(w, "caught")
BY DEF WorkerTypes, Raise, Moves, Phases, Working

\* Out of process_one.
LEMMA LeaveMoves ==
  ASSUME WorkerTypes, NEW w \in Workers, NEW at \in {"idle", "down"}, Leave(w, at)
  PROVE  Moves(w, at)
<1>1. 0 \in 0..MaxAttempts
  BY WorkerAssumption DEF WorkerAssumption
<1> QED
  BY <1>1 DEF WorkerTypes, Leave, Moves, Phases, Working

\* The stores are written in a fixed order, and there is a first one.
LEMMA FirstIsOne ==
  ASSUME NEW S \in SUBSET Replicas, S # {}
  PROVE  First(S, WriteRank) \in S
<1>1. S \subseteq {"milvus", "opensearch", "neo4j"}
  BY WorkerAssumption DEF WorkerAssumption, Replicas
<1>2. \E s \in S : \A t \in S : WriteRank[s] <= WriteRank[t]
  <2>1. WriteRank["milvus"] = 1 /\ WriteRank["opensearch"] = 2 /\ WriteRank["neo4j"] = 3
    BY DEF WriteRank
  <2>2. CASE "milvus" \in S
    BY <1>1, <2>1, <2>2
  <2>3. CASE "milvus" \notin S /\ "opensearch" \in S
    BY <1>1, <2>1, <2>3
  <2>4. CASE S = {"neo4j"}
    BY <2>1, <2>4
  <2> QED
    BY <1>1, <2>2, <2>3, <2>4
<1> QED
  BY <1>2 DEF First

-----------------------------------------------------------------------------
(* Every step of a worker fits.                                            *)

\* Steps that change neither the documents nor the task table.
LEMMA QuietFits ==
  ASSUME IndexInv, NEW w \in Workers, NEW at \in Phases, pc[w] \in Working, Moves(w, at),
         UNCHANGED logicVars, UNCHANGED task, store' \in [Docs -> SUBSET Stores],
         \A e \in Docs \ {job[w]} : store'[e] = store[e],
         at \notin {"mark", "markFailed"},
         at \in {"erase", "insert"} =>
           /\ todo'[w] \subseteq Replicas /\ todo'[w] # {}
           /\ Filled(w) => Stores \subseteq store'[job[w]] \cup todo'[w],
         at = "complete" => (Filled(w) => store'[job[w]] = Stores),
         pc[w] \in Reporting => at \in Reporting
  PROVE  Fits(w, at)
<1>1. /\ docStatus' = docStatus /\ task' = task /\ UNCHANGED <<session, expired, object, confirming>>
      /\ StoreTypes' /\ docStatus' \in [Docs -> DocStatus]
  BY DEF IndexInv, StoreTypes, logicVars
<1>2. DocMoves(job[w])
  BY <1>1 DEF DocMoves
<1> QED
  BY <1>1, <1>2 DEF Fits

\* Ticket, download, parsing and embedding write nothing.
LEMMA FetchDocumentFits ==
  ASSUME IndexInv, NEW w \in Workers, FetchDocument(w)
  PROVE  \E at \in Phases : Fits(w, at)
<1>1. pc[w] \in Working /\ pc[w] \notin Reporting /\ UNCHANGED logicVars /\ UNCHANGED task /\ UNCHANGED store
  BY DEF FetchDocument, Working, Reporting, taskVars
<1>2. WorkerTypes /\ StoreTypes
  BY DEF IndexInv
<1>3. Moves(w, "chunks") \/ Moves(w, "caught")
  BY <1>2, GotoMoves, RaiseMoves DEF FetchDocument, Phases, Working
<1>4. store' \in [Docs -> SUBSET Stores] /\ \A e \in Docs \ {job[w]} : store'[e] = store[e]
  BY <1>1, <1>2 DEF StoreTypes
<1>5. "chunks" \in Phases /\ "caught" \in Phases
  BY DEF Phases, Working
<1> QED
  BY <1>1, <1>3, <1>4, <1>5, QuietFits

\* After MySQL is written, the other stores are to be written.
LEMMA ReplaceChunksFits ==
  ASSUME IndexInv, NEW w \in Workers, ReplaceChunks(w)
  PROVE  \E at \in Phases : Fits(w, at)
<1>1. pc[w] \in Working /\ pc[w] \notin Reporting /\ UNCHANGED logicVars /\ UNCHANGED task
  BY DEF ReplaceChunks, Working, Reporting
<1>2. WorkerTypes /\ StoreTypes /\ job[w] \in Docs
  BY <1>1 DEF IndexInv, JobsInv
<1>3. "erase" \in Phases /\ "caught" \in Phases
  BY DEF Phases, Working
<1>4. Replicas \in SUBSET Stores /\ Replicas # {} /\ Stores = {"mysql"} \cup Replicas
  BY DEF Stores, Replicas
<1>5. /\ store' \in [Docs -> SUBSET Stores] /\ \A e \in Docs \ {job[w]} : store'[e] = store[e]
      /\ \/ Moves(w, "caught")
         \/ Moves(w, "erase") /\ todo'[w] = Replicas /\ store'[job[w]] = store[job[w]] \cup {"mysql"}
  <2>1. CASE store' = [store EXCEPT ![job[w]] = @ \cup {"mysql"}] /\ GotoWith(w, "erase", Replicas)
    BY <1>2, <1>3, <1>4, <2>1, GotoWithMoves DEF StoreTypes
  <2>2. CASE store' = [store EXCEPT ![job[w]] = @ \cup {"mysql"}] /\ Raise(w, FALSE)
    BY <1>2, <1>4, <2>2, RaiseMoves DEF StoreTypes
  <2>3. CASE UNCHANGED store /\ Raise(w, FALSE)
    BY <1>2, <2>3, RaiseMoves DEF StoreTypes
  <2> QED
    BY <2>1, <2>2, <2>3 DEF ReplaceChunks
<1> QED
  BY <1>1, <1>3, <1>4, <1>5, QuietFits

\* A store that was erased is still to be written.
LEMMA EraseReplicaFits ==
  ASSUME IndexInv, NEW w \in Workers, EraseReplica(w)
  PROVE  \E at \in Phases : Fits(w, at)
<1> DEFINE s == First(todo[w], WriteRank)
<1>1. pc[w] \in Working /\ pc[w] \notin Reporting /\ pc[w] = "erase" /\ UNCHANGED logicVars /\ UNCHANGED task
  BY DEF EraseReplica, Working, Reporting
<1>2. WorkerTypes /\ StoreTypes /\ job[w] \in Docs /\ todo[w] \subseteq Replicas /\ todo[w] # {}
  BY <1>1 DEF IndexInv, JobsInv
<1>3. "insert" \in Phases /\ "clean" \in Phases
  BY DEF Phases, Working
<1>4. s \in todo[w]
  BY <1>2, FirstIsOne
<1>5. /\ \/ /\ store' = [store EXCEPT ![job[w]] = @ \ {s}]
            /\ Goto(w, "insert") \/ GotoWith(w, "clean", Stores)
         \/ UNCHANGED store /\ GotoWith(w, "clean", Stores)
  BY DEF EraseReplica
<1> HIDE DEF s
<1>6. /\ store' \in [Docs -> SUBSET Stores] /\ \A e \in Docs \ {job[w]} : store'[e] = store[e]
      /\ \/ Moves(w, "clean")
         \/ Moves(w, "insert") /\ todo'[w] = todo[w] /\ store'[job[w]] = store[job[w]] \ {s}
  BY <1>2, <1>3, <1>5, GotoMoves, GotoWithMoves DEF StoreTypes
<1> QED
  BY <1>1, <1>2, <1>3, <1>4, <1>6, QuietFits DEF Filled

\* After the last store is written, all of them are.
LEMMA InsertReplicaFits ==
  ASSUME IndexInv, NEW w \in Workers, InsertReplica(w)
  PROVE  \E at \in Phases : Fits(w, at)
<1> DEFINE s == First(todo[w], WriteRank)
<1> DEFINE to == IF todo[w] = {s} THEN "complete" ELSE "erase"
<1>1. pc[w] \in Working /\ pc[w] \notin Reporting /\ pc[w] = "insert" /\ UNCHANGED logicVars /\ UNCHANGED task
  BY DEF InsertReplica, Working, Reporting
<1>2. WorkerTypes /\ StoreTypes /\ job[w] \in Docs /\ todo[w] \subseteq Replicas /\ todo[w] # {}
      /\ store[job[w]] \subseteq Stores
  BY <1>1 DEF IndexInv, JobsInv, StoreTypes
<1>3. "clean" \in Phases /\ to \in Phases /\ to \in {"complete", "erase"}
  BY DEF Phases, Working
<1>4. s \in todo[w] /\ s \in Stores /\ todo[w] \ {s} \in SUBSET Stores /\ Replicas \subseteq Stores
  <2>1. s \in todo[w]
    BY <1>2, FirstIsOne
  <2> QED
    BY <2>1, <1>2 DEF Stores
<1>5. /\ \/ /\ store' = [store EXCEPT ![job[w]] = @ \cup {s}]
            /\ \/ GotoWith(w, to, todo[w] \ {s})
               \/ GotoWith(w, "clean", Stores)
         \/ UNCHANGED store /\ GotoWith(w, "clean", Stores)
  BY DEF InsertReplica
<1>6. /\ to = "complete" => todo[w] = {s}
      /\ to = "erase" => todo[w] # {s}
  OBVIOUS
<1> HIDE DEF s, to
<1>7. /\ store' \in [Docs -> SUBSET Stores] /\ \A e \in Docs \ {job[w]} : store'[e] = store[e]
      /\ \/ Moves(w, "clean")
         \/ Moves(w, to) /\ todo'[w] = todo[w] \ {s} /\ store'[job[w]] = store[job[w]] \cup {s}
  BY <1>2, <1>3, <1>4, <1>5, GotoWithMoves DEF StoreTypes
<1>8. CASE Moves(w, "clean")
  BY <1>1, <1>3, <1>7, <1>8, QuietFits
<1>9. CASE Moves(w, to) /\ todo'[w] = todo[w] \ {s} /\ store'[job[w]] = store[job[w]] \cup {s}
  <2>1. to = "erase" => todo'[w] \subseteq Replicas /\ todo'[w] # {}
    BY <1>2, <1>4, <1>6, <1>9
  <2>2. to = "erase" => (Filled(w) => Stores \subseteq store'[job[w]] \cup todo'[w])
    BY <1>1, <1>9 DEF Filled
  <2>3. to = "complete" => (Filled(w) => store'[job[w]] = Stores)
    BY <1>1, <1>2, <1>4, <1>6, <1>9 DEF Filled
  <2> QED
    BY <1>1, <1>3, <1>7, <1>9, <2>1, <2>2, <2>3, QuietFits
<1> QED
  BY <1>7, <1>8, <1>9

\* Compensation empties the stores of its own document.
LEMMA CleanStoreFits ==
  ASSUME IndexInv, NEW w \in Workers, CleanStore(w)
  PROVE  \E at \in Phases : Fits(w, at)
<1> DEFINE s == First(todo[w], CleanRank)
<1> DEFINE to == IF todo[w] = {s} THEN "caught" ELSE "clean"
<1>1. pc[w] \in Working /\ pc[w] \notin Reporting /\ UNCHANGED logicVars /\ UNCHANGED task
  BY DEF CleanStore, Working, Reporting
<1>2. WorkerTypes /\ StoreTypes /\ job[w] \in Docs /\ todo[w] \ {s} \in SUBSET Stores
  BY <1>1 DEF IndexInv, JobsInv, WorkerTypes
<1>3. to \in Phases /\ to \notin {"mark", "markFailed", "erase", "insert", "complete"}
  BY DEF Phases, Working
<1>4. /\ \E removed \in SUBSET {s} : store' = [store EXCEPT ![job[w]] = @ \ removed]
      /\ GotoWith(w, to, todo[w] \ {s})
  BY DEF CleanStore
<1> HIDE DEF s, to
<1>5. store' \in [Docs -> SUBSET Stores] /\ \A e \in Docs \ {job[w]} : store'[e] = store[e]
  BY <1>2, <1>4 DEF StoreTypes
<1>6. Moves(w, to)
  BY <1>2, <1>3, <1>4, GotoWithMoves
<1> QED
  BY <1>1, <1>3, <1>5, <1>6, QuietFits

\* A worker that gives up writes nothing.
LEMMA BeginReportFits ==
  ASSUME IndexInv, NEW w \in Workers, BeginReport(w)
  PROVE  \E at \in Phases : Fits(w, at)
<1>1. /\ pc[w] \in Working /\ pc[w] \notin Reporting
      /\ UNCHANGED logicVars /\ UNCHANGED task /\ UNCHANGED store
  BY DEF BeginReport, Working, Reporting, taskVars
<1>2. WorkerTypes /\ StoreTypes
  BY DEF IndexInv
<1>3. "report" \in Phases
  BY DEF Phases, Working
<1>4. Moves(w, "report")
  BY <1>2, <1>3, GotoMoves DEF BeginReport
<1>5. store' \in [Docs -> SUBSET Stores] /\ \A e \in Docs \ {job[w]} : store'[e] = store[e]
  BY <1>1, <1>2 DEF StoreTypes
<1> QED
  BY <1>1, <1>3, <1>4, <1>5, QuietFits

\* The two calls of Logic: the stores and the tasks stay as they are.
LEMMA CallFits ==
  ASSUME IndexInv, NEW w \in Workers, NEW at \in Phases, pc[w] \in {"complete", "report"}, Moves(w, at),
         UNCHANGED <<session, expired, object, confirming, taskVars>>,
         NEW verdict \in {"Completed", "Failed"},
         \/ UNCHANGED docStatus
         \/ /\ docStatus[job[w]] \in {"Pending", "Processing", verdict}
            /\ docStatus' = [docStatus EXCEPT ![job[w]] = verdict],
         verdict = "Completed" => pc[w] = "complete",
         at \notin {"erase", "insert", "complete"},
         at = "mark" => docStatus'[job[w]] = "Completed",
         at = "markFailed" => docStatus'[job[w]] = "Failed",
         pc[w] \in Reporting => at \in Reporting
  PROVE  Fits(w, at)
<1>1. pc[w] \in Working
  BY DEF Working
<1>2. job[w] \in Docs /\ docStatus \in [Docs -> DocStatus] /\ StoreTypes
  BY <1>1 DEF IndexInv, JobsInv
<1>3. docStatus' \in [Docs -> DocStatus] /\ \A e \in Docs \ {job[w]} : docStatus'[e] = docStatus[e]
  BY <1>2 DEF DocStatus
<1>4. /\ DocMoves(job[w])
      /\ docStatus'[job[w]] # docStatus[job[w]] =>
           docStatus[job[w]] \in {"Pending", "Processing"} /\ docStatus'[job[w]] = verdict
  BY <1>2 DEF DocMoves
<1>5. StoreTypes' /\ task' = task /\ store' = store
  BY <1>2 DEF StoreTypes, taskVars
<1> QED
  BY <1>1, <1>3, <1>4, <1>5 DEF Fits

\* complete_index settles a document that is not settled.
LEMMA CompleteIndexFits ==
  ASSUME IndexInv, NEW w \in Workers, CompleteIndex(w)
  PROVE  \E at \in Phases : Fits(w, at)
<1>1. pc[w] = "complete" /\ pc[w] \notin Reporting
      /\ UNCHANGED <<session, expired, object, confirming, taskVars>>
  BY DEF CompleteIndex, Reporting
<1>2. WorkerTypes /\ job[w] \in Docs /\ docStatus \in [Docs -> DocStatus]
  BY <1>1 DEF IndexInv, JobsInv, Working
<1>3. "mark" \in Phases /\ "caught" \in Phases
  BY DEF Phases, Working
<1>4. CASE CompleteAccepted(job[w]) /\ docStatus' = CompleteDocumentIndex(job[w])
           /\ (Goto(w, "mark") \/ Raise(w, FALSE))
  <2>1. docStatus'[job[w]] = "Completed"
    BY <1>2, <1>4 DEF CompleteDocumentIndex
  <2>2. Moves(w, "mark") \/ Moves(w, "caught")
    BY <1>2, <1>3, <1>4, GotoMoves, RaiseMoves
  <2> QED
    BY <1>1, <1>3, <1>4, <2>1, <2>2, CallFits DEF CompleteAccepted, CompleteDocumentIndex
<1>5. CASE UNCHANGED docStatus /\ Raise(w, FALSE)
  <2>1. Moves(w, "caught")
    BY <1>2, <1>5, RaiseMoves
  <2> QED
    BY <1>1, <1>3, <1>5, <2>1, CallFits
<1> QED
  BY <1>4, <1>5 DEF CompleteIndex

\* So does fail_index, with the other verdict.
LEMMA FailIndexFits ==
  ASSUME IndexInv, NEW w \in Workers, FailIndex(w)
  PROVE  \E at \in Phases : Fits(w, at)
<1>1. pc[w] = "report" /\ UNCHANGED <<session, expired, object, confirming, taskVars>>
  BY DEF FailIndex
<1>2. WorkerTypes /\ job[w] \in Docs /\ docStatus \in [Docs -> DocStatus]
  BY <1>1 DEF IndexInv, JobsInv, Working
<1>3. "markFailed" \in Phases \cap Reporting /\ "markPending" \in Phases \cap Reporting
  BY DEF Phases, Working, Reporting
<1>4. CASE FailAccepted(job[w]) /\ docStatus' = FailDocumentIndex(job[w])
           /\ (Goto(w, "markFailed") \/ Goto(w, "markPending"))
  <2>1. docStatus'[job[w]] = "Failed"
    BY <1>2, <1>4 DEF FailDocumentIndex
  <2>2. Moves(w, "markFailed") \/ Moves(w, "markPending")
    BY <1>2, <1>3, <1>4, GotoMoves
  <2> QED
    BY <1>1, <1>3, <1>4, <2>1, <2>2, CallFits DEF FailAccepted, FailDocumentIndex
<1>5. CASE UNCHANGED docStatus /\ Goto(w, "markPending")
  <2>1. Moves(w, "markPending")
    BY <1>2, <1>3, <1>5, GotoMoves
  <2> QED
    BY <1>1, <1>3, <1>5, <2>1, CallFits
<1> QED
  BY <1>4, <1>5 DEF FailIndex

\* The four marks: the row changes at most as its holder may change it.
LEMMA MarkFits ==
  ASSUME IndexInv, NEW w \in Workers, NEW at \in {"idle", "down", "caught"}, Moves(w, at),
         pc[w] \in {"mark", "caught", "markFailed", "markPending"},
         UNCHANGED logicVars, UNCHANGED store,
         NEW row \in TaskRows,
         \/ UNCHANGED task
         \/ HoldsTask(w) /\ task' = [task EXCEPT ![job[w]] = row],
         row.status \in {"RETRY_WAIT", "COMPLETED", "FAILED_PERMANENT"},
         row.status = "COMPLETED" => pc[w] = "mark",
         row.status = "FAILED_PERMANENT" => pc[w] = "markFailed",
         at = "caught" => pc[w] = "mark" /\ row.status = "COMPLETED",
         row.failing => task[job[w]].failing \/ pc[w] = "markPending"
  PROVE  Fits(w, at)
<1>1. pc[w] \in Working /\ at \notin Working \ {"caught"} /\ (pc[w] \in Reporting => at \notin Working)
  BY DEF Working, Reporting
<1>2. job[w] \in Docs /\ docStatus \in [Docs -> DocStatus] /\ StoreTypes
  BY <1>1 DEF IndexInv, JobsInv
<1>3. docStatus' = docStatus /\ UNCHANGED <<session, expired, object, confirming>> /\ store' = store
  BY DEF logicVars
<1>4. DocMoves(job[w])
  BY <1>3 DEF DocMoves
<1>5. task' \in [Docs -> TaskRows] /\ \A e \in Docs \ {job[w]} : task'[e] = task[e]
  BY <1>2 DEF StoreTypes
<1>6. task'[job[w]] = task[job[w]] \/ Settles(w, at)
  <2>1. CASE UNCHANGED task
    BY <2>1
  <2>2. CASE HoldsTask(w) /\ task' = [task EXCEPT ![job[w]] = row]
    <3>1. task'[job[w]] = row
      BY <1>2, <2>2 DEF StoreTypes
    <3> QED
      BY <1>1, <2>2, <3>1 DEF Settles
  <2> QED
    BY <2>1, <2>2
<1>7. StoreTypes'
  BY <1>2, <1>3, <1>5 DEF StoreTypes
<1> QED
  BY <1>1, <1>2, <1>3, <1>4, <1>5, <1>6, <1>7 DEF Fits

\* The row that a mark writes.
LEMMA ReleasedIs ==
  ASSUME NEW row \in TaskRows, NEW status \in TaskStatus
  PROVE  /\ Released(row, status) \in TaskRows
         /\ Released(row, status).status = status
         /\ Released(row, status).failing = row.failing
BY DEF Released, TaskRows

\* mark_completed, mark_retry and the two marks of a failure.
LEMMA MarksFit ==
  ASSUME IndexInv, NEW w \in Workers,
         MarkCompleted(w) \/ MarkRetry(w) \/ MarkFailedPermanent(w) \/ MarkFailureReportPending(w)
  PROVE  \E at \in Phases : Fits(w, at)
<1>1. pc[w] \in {"mark", "caught", "markFailed", "markPending"} /\ UNCHANGED logicVars /\ UNCHANGED store
  BY DEF MarkCompleted, MarkRetry, MarkFailedPermanent, MarkFailureReportPending
<1>2. WorkerTypes /\ StoreTypes /\ job[w] \in Docs /\ task[job[w]] \in TaskRows
  BY <1>1 DEF IndexInv, JobsInv, StoreTypes, Working
<1> DEFINE old == task[job[w]]
<1>3. {"idle", "down", "caught"} \subseteq Phases
  BY DEF Phases, Working
<1>4. {"COMPLETED", "RETRY_WAIT", "FAILED_PERMANENT"} \subseteq TaskStatus
  BY DEF TaskStatus
<1> HIDE DEF old
<1>5. old \in TaskRows
  BY <1>2 DEF old
<1>6. CASE MarkCompleted(w)
  <2> DEFINE row == Released(old, "COMPLETED")
  <2>1. row \in TaskRows /\ row.status = "COMPLETED" /\ row.failing = old.failing
    BY <1>4, <1>5, ReleasedIs
  <2>2. /\ pc[w] = "mark"
        /\ UNCHANGED task \/ (HoldsTask(w) /\ task' = [task EXCEPT ![job[w]] = row])
        /\ Leave(w, "idle") \/ Raise(w, FALSE)
    BY <1>6 DEF MarkCompleted, UpdateLocked, old
  <2> HIDE DEF row
  <2>3. Moves(w, "idle") \/ Moves(w, "caught")
    BY <1>2, <2>2, LeaveMoves, RaiseMoves
  <2> QED
    BY <1>1, <1>3, <2>1, <2>2, <2>3, MarkFits DEF old
<1>7. CASE MarkRetry(w)
  <2> DEFINE row == Released(old, "RETRY_WAIT")
  <2>1. row \in TaskRows /\ row.status = "RETRY_WAIT" /\ row.failing = old.failing
    BY <1>4, <1>5, ReleasedIs
  <2>2. /\ UNCHANGED task \/ (HoldsTask(w) /\ task' = [task EXCEPT ![job[w]] = row])
        /\ Leave(w, "idle") \/ Leave(w, "down")
    BY <1>7 DEF MarkRetry, UpdateLocked, old
  <2> HIDE DEF row
  <2>3. Moves(w, "idle") \/ Moves(w, "down")
    BY <1>2, <2>2, LeaveMoves
  <2> QED
    BY <1>1, <1>3, <2>1, <2>2, <2>3, MarkFits DEF old
<1>8. CASE MarkFailedPermanent(w)
  <2> DEFINE row == Released(old, "FAILED_PERMANENT")
  <2>1. row \in TaskRows /\ row.status = "FAILED_PERMANENT" /\ row.failing = old.failing
    BY <1>4, <1>5, ReleasedIs
  <2>2. /\ pc[w] = "markFailed"
        /\ UNCHANGED task \/ (HoldsTask(w) /\ task' = [task EXCEPT ![job[w]] = row])
        /\ Leave(w, "idle") \/ Leave(w, "down")
    BY <1>8 DEF MarkFailedPermanent, UpdateLocked, old
  <2> HIDE DEF row
  <2>3. Moves(w, "idle") \/ Moves(w, "down")
    BY <1>2, <2>2, LeaveMoves
  <2> QED
    BY <1>1, <1>3, <2>1, <2>2, <2>3, MarkFits DEF old
<1>9. CASE MarkFailureReportPending(w)
  <2> DEFINE row == [Released(old, "RETRY_WAIT") EXCEPT !.failing = TRUE]
  <2>1. row \in TaskRows /\ row.status = "RETRY_WAIT"
    BY <1>4, <1>5, ReleasedIs DEF TaskRows
  <2>2. /\ pc[w] = "markPending"
        /\ UNCHANGED task \/ (HoldsTask(w) /\ task' = [task EXCEPT ![job[w]] = row])
        /\ Leave(w, "idle") \/ Leave(w, "down")
    BY <1>9 DEF MarkFailureReportPending, UpdateLocked, old
  <2> HIDE DEF row
  <2>3. Moves(w, "idle") \/ Moves(w, "down")
    BY <1>2, <2>2, LeaveMoves
  <2> QED
    BY <1>1, <1>3, <2>1, <2>2, <2>3, MarkFits
<1> QED
  BY <1>6, <1>7, <1>8, <1>9

\* All of them.
LEMMA WorkerStepFits ==
  ASSUME IndexInv, NEW w \in Workers, WorkerStep(w)
  PROVE  \E at \in Phases : Fits(w, at)
BY FetchDocumentFits, ReplaceChunksFits, EraseReplicaFits, InsertReplicaFits, CleanStoreFits,
   CompleteIndexFits, BeginReportFits, FailIndexFits, MarksFit DEF WorkerStep

-----------------------------------------------------------------------------
(* However late the workers are.                                           *)

HolderSettlesStep ==
  \A d \in Docs :
    /\ task[d].status \in {"COMPLETED", "FAILED_PERMANENT"} => task'[d] = task[d]
    /\ task[d].status = "PROCESSING" /\ task'[d].status # "PROCESSING" =>
         \E w \in Workers :
           /\ task[d].lockedBy = w
           /\ job[w] = d
           /\ pc[w] \in {"mark", "caught", "markFailed", "markPending"}
           /\ task'[d].status = "COMPLETED" => pc[w] = "mark"

VerdictStep ==
  \A d \in Docs :
    /\ docStatus[d] = "Completed" => docStatus'[d] # "Failed"
    /\ docStatus[d] \in {"Failed", "Deleting"} => docStatus'[d] # "Completed"

Safe == IndexInv' /\ HolderSettlesStep /\ VerdictStep

\* A step of a worker keeps the invariant and the action properties.
LEMMA FitsIsSafe ==
  ASSUME IndexInv, NEW w \in Workers, NEW at \in Phases, Fits(w, at)
  PROVE  Safe
<1> DEFINE d == job[w]
<1>1. pc[w] \in Working /\ d \in Docs /\ JobsInv /\ TaskAgreesWithDocument
  BY DEF Fits, IndexInv, JobsInv
<1>2. /\ Moves(w, at) /\ StoreTypes' /\ docStatus' \in [Docs -> DocStatus]
      /\ \A e \in Docs \ {d} : docStatus'[e] = docStatus[e] /\ task'[e] = task[e]
      /\ DocMoves(d)
      /\ task'[d] = task[d] \/ Settles(w, at)
  BY DEF Fits
<1>3. \A e \in Docs : DocMoves(e)
  BY <1>2 DEF DocMoves
<1>4. VerdictStep
  BY <1>3 DEF VerdictStep, DocMoves
<1>5. HolderSettlesStep
  BY <1>1, <1>2 DEF HolderSettlesStep, Settles, HoldsTask
<1>6. TaskAgreesWithDocument'
  <2>1. ASSUME NEW e \in Docs, task'[e] = task[e]
        PROVE  /\ task'[e].status = "COMPLETED" => docStatus'[e] \in {"Completed", "Deleting"}
               /\ task'[e].status = "FAILED_PERMANENT" => docStatus'[e] \in {"Failed", "Deleting"}
    BY <1>1, <1>3, <2>1 DEF TaskAgreesWithDocument, DocMoves
  <2>2. ASSUME Settles(w, at)
        PROVE  /\ task'[d].status = "COMPLETED" => docStatus'[d] \in {"Completed", "Deleting"}
               /\ task'[d].status = "FAILED_PERMANENT" => docStatus'[d] \in {"Failed", "Deleting"}
    BY <1>1, <1>3, <2>2 DEF Settles, JobsInv, DocMoves
  <2> QED
    BY <1>2, <2>1, <2>2 DEF TaskAgreesWithDocument
<1>7. JobsInv'
  <2>1. ASSUME NEW v \in Workers \ {w}
        PROVE  /\ pc'[v] \in Working => job'[v] \in Docs
               /\ pc'[v] \in {"erase", "insert"} => todo'[v] \subseteq Replicas /\ todo'[v] # {}
               /\ pc'[v] = "mark" => docStatus'[job'[v]] \in {"Completed", "Deleting"}
               /\ pc'[v] = "markFailed" => docStatus'[job'[v]] \in {"Failed", "Deleting"}
    <3>1. pc'[v] = pc[v] /\ job'[v] = job[v] /\ todo'[v] = todo[v]
      BY <1>2 DEF Moves
    <3>2. pc[v] \in {"mark", "markFailed"} => DocMoves(job[v])
      BY <1>1, <1>3 DEF JobsInv, Working
    <3> QED
      BY <1>1, <3>1, <3>2 DEF JobsInv, DocMoves
  <2>2. /\ pc'[w] \in Working => job'[w] \in Docs
        /\ pc'[w] \in {"erase", "insert"} => todo'[w] \subseteq Replicas /\ todo'[w] # {}
        /\ pc'[w] = "mark" => docStatus'[job'[w]] \in {"Completed", "Deleting"}
        /\ pc'[w] = "markFailed" => docStatus'[job'[w]] \in {"Failed", "Deleting"}
    <3>1. pc'[w] = at /\ (at \in Working => job'[w] = d)
      BY <1>2 DEF Moves
    <3>2. {"mark", "markFailed"} \subseteq Working
      BY DEF Working
    <3> QED
      BY <1>1, <3>1, <3>2 DEF Fits
  <2> QED
    BY <2>1, <2>2 DEF JobsInv
<1> QED
  BY <1>2, <1>4, <1>5, <1>6, <1>7 DEF Safe, IndexInv, Moves

\* Steps that leave the documents alone and open or reopen a task.
LEMMA TaskIsSafe ==
  ASSUME IndexInv, UNCHANGED docStatus, WorkerTypes', StoreTypes', JobsInv',
         NEW d \in Docs, \A e \in Docs \ {d} : task'[e] = task[e],
         task'[d] = task[d] \/ (task[d].status \notin {"COMPLETED", "FAILED_PERMANENT"}
                                /\ task'[d].status \in {"PENDING", "PROCESSING"}
                                /\ (task[d].status = "PROCESSING" => task'[d].status = "PROCESSING"))
  PROVE  Safe
<1>1. VerdictStep
  BY DEF VerdictStep
<1>2. HolderSettlesStep
  BY DEF HolderSettlesStep
<1>3. TaskAgreesWithDocument'
  BY DEF IndexInv, TaskAgreesWithDocument
<1> QED
  BY <1>1, <1>2, <1>3 DEF Safe, IndexInv

Attempts(d) == IF task[d].attempts < MaxAttempts THEN task[d].attempts + 1 ELSE MaxAttempts

\* What a claim changes.
LEMMA ClaimIs ==
  ASSUME IndexInv, NEW w \in Workers, NEW d \in Docs, ClaimTask(w, d)
  PROVE  /\ WorkerTypes' /\ StoreTypes'
         /\ UNCHANGED docStatus /\ UNCHANGED store
         /\ pc'[w] = IF task[d].failing THEN "report" ELSE "fetch"
         /\ job'[w] = d
         /\ \A v \in Workers \ {w} : pc'[v] = pc[v] /\ job'[v] = job[v] /\ todo'[v] = todo[v]
         /\ \A e \in Docs \ {d} : task'[e] = task[e]
         /\ task'[d].status = "PROCESSING" /\ task'[d].lockedBy = w /\ ~task'[d].stale
         /\ task'[d].failing = task[d].failing
<1> DEFINE n == Attempts(d)
<1> DEFINE row == Row("PROCESSING", w, n, task[d].failing)
<1>1. WorkerTypes /\ StoreTypes /\ task[d] \in TaskRows
  BY DEF IndexInv, StoreTypes
<1>2. n \in 0..MaxAttempts
  BY <1>1, WorkerAssumption DEF WorkerAssumption, Attempts, TaskRows
<1>3. /\ task' = [task EXCEPT ![d] = row]
      /\ pc' = [pc EXCEPT ![w] = IF task[d].failing THEN "report" ELSE "fetch"]
      /\ job' = [job EXCEPT ![w] = d]
      /\ tries' = [tries EXCEPT ![w] = n]
      /\ UNCHANGED <<logicVars, store, fatal, todo, crashes>>
  BY <1>1 DEF ClaimTask, Attempts, StoreTypes
<1> HIDE DEF n
<1>4. /\ row \in TaskRows /\ row.status = "PROCESSING" /\ row.lockedBy = w /\ ~row.stale
      /\ row.failing = task[d].failing
  BY <1>1, <1>2 DEF Row, TaskRows, TaskStatus
<1> HIDE DEF row
<1>5. {"report", "fetch"} \subseteq Phases
  BY DEF Phases, Working
<1>6. WorkerTypes'
  BY <1>1, <1>2, <1>3, <1>5 DEF WorkerTypes
<1> QED
  BY <1>1, <1>3, <1>4, <1>6 DEF WorkerTypes, StoreTypes, logicVars

\* So does a claim.
LEMMA ClaimIsSafe ==
  ASSUME IndexInv, NEW w \in Workers, NEW d \in Docs, ClaimTask(w, d)
  PROVE  Safe
<1>1. task[d].status \notin {"COMPLETED", "FAILED_PERMANENT"}
  BY DEF ClaimTask, ClaimableTask
<1>2. JobsInv'
  BY ClaimIs DEF IndexInv, JobsInv
<1> QED
  BY <1>1, <1>2, ClaimIs, TaskIsSafe

\* A lock that grows old changes only that.
LEMMA LockExpiresIsSafe ==
  ASSUME IndexInv, NEW d \in Docs, LockExpires(d)
  PROVE  /\ Safe
         /\ \A e \in Docs \ {d} : task'[e] = task[e]
         /\ task'[d] = [task[d] EXCEPT !.stale = TRUE]
<1> DEFINE row == [task[d] EXCEPT !.stale = TRUE]
<1>1. WorkerTypes /\ StoreTypes /\ task[d] \in TaskRows
  BY DEF IndexInv, StoreTypes
<1>2. /\ task[d].status = "PROCESSING"
      /\ task' = [task EXCEPT ![d] = row]
      /\ UNCHANGED <<logicVars, store, workerVars>>
  BY DEF LockExpires
<1>3. row \in TaskRows /\ row.status = task[d].status
  BY <1>1 DEF TaskRows
<1>4. (\A e \in Docs \ {d} : task'[e] = task[e]) /\ task'[d] = row
  BY <1>1, <1>2 DEF StoreTypes
<1> HIDE DEF row
<1>5. WorkerTypes' /\ StoreTypes' /\ JobsInv'
  BY <1>1, <1>2, <1>3 DEF IndexInv, WorkerTypes, StoreTypes, JobsInv, workerVars, logicVars
<1>6. Safe
  BY <1>2, <1>3, <1>4, <1>5, TaskIsSafe DEF logicVars
<1> QED
  BY <1>4, <1>6 DEF row

\* The ingress inserts a row unless there is one.
LEMMA RecordIsSafe ==
  ASSUME IndexInv, NEW d \in Docs, RecordIndexEvent(d), UNCHANGED <<docStatus, store, workerVars>>
  PROVE  /\ Safe
         /\ \A e \in Docs \ {d} : task'[e] = task[e]
         /\ task'[d] = IF task[d].status = "absent" THEN Row("PENDING", NoOne, 0, FALSE) ELSE task[d]
<1> DEFINE row == Row("PENDING", NoOne, 0, FALSE)
<1>1. WorkerTypes /\ StoreTypes /\ 0 \in 0..MaxAttempts
  BY WorkerAssumption DEF IndexInv, WorkerAssumption
<1>2. row \in TaskRows /\ row.status = "PENDING"
  BY <1>1 DEF Row, TaskRows, TaskStatus
<1>3. task' = IF task[d].status = "absent" THEN [task EXCEPT ![d] = row] ELSE task
  BY DEF RecordIndexEvent
<1> HIDE DEF row
<1>4. /\ task' \in [Docs -> TaskRows]
      /\ \A e \in Docs \ {d} : task'[e] = task[e]
      /\ task'[d] = IF task[d].status = "absent" THEN row ELSE task[d]
  BY <1>1, <1>2, <1>3 DEF StoreTypes
<1>5. WorkerTypes' /\ StoreTypes' /\ JobsInv'
  BY <1>1, <1>4 DEF IndexInv, WorkerTypes, StoreTypes, JobsInv, workerVars
<1>6. Safe
  BY <1>2, <1>4, <1>5, TaskIsSafe
<1> QED
  BY <1>4, <1>6 DEF row

\* A killed worker forgets its job and changes nothing else.
LEMMA CrashIsSafe ==
  ASSUME IndexInv, NEW w \in Workers, WorkerCrash(w) \/ WorkerRestart(w)
  PROVE  /\ Safe /\ UNCHANGED <<docStatus, task, store>>
         /\ pc'[w] \notin Working
         /\ \A v \in Workers \ {w} : pc'[v] = pc[v] /\ job'[v] = job[v] /\ todo'[v] = todo[v]
<1>1. WorkerTypes /\ StoreTypes /\ 0 \in 0..MaxAttempts
  BY WorkerAssumption DEF IndexInv, WorkerAssumption
<1>2. /\ UNCHANGED <<docStatus, task, store>>
      /\ crashes' \in 0..MaxCrashes
  BY <1>1, WorkerAssumption DEF WorkerCrash, WorkerRestart, logicVars, taskVars, WorkerTypes, WorkerAssumption
<1>3. "idle" \notin Working /\ "down" \notin Working /\ {"idle", "down"} \subseteq Phases
  BY DEF Working, Phases
<1>4. /\ WorkerTypes' /\ pc'[w] \notin Working
      /\ \A v \in Workers \ {w} : pc'[v] = pc[v] /\ job'[v] = job[v] /\ todo'[v] = todo[v]
  <2>1. CASE WorkerCrash(w)
    BY <1>1, <1>2, <1>3, <2>1 DEF WorkerCrash, WorkerTypes
  <2>2. CASE WorkerRestart(w)
    BY <1>1, <1>2, <1>3, <2>2 DEF WorkerRestart, WorkerTypes
  <2> QED
    BY <2>1, <2>2
<1>5. JobsInv'
  <2>1. {"erase", "insert", "mark", "markFailed"} \subseteq Working
    BY DEF Working
  <2> QED
    BY <1>2, <1>4, <2>1 DEF IndexInv, JobsInv
<1>6. StoreTypes' /\ TaskAgreesWithDocument' /\ VerdictStep /\ HolderSettlesStep
  BY <1>1, <1>2 DEF StoreTypes, IndexInv, TaskAgreesWithDocument, VerdictStep, HolderSettlesStep
<1> QED
  BY <1>2, <1>4, <1>5, <1>6 DEF Safe, IndexInv

\* All steps of the Agent but the insertion of tasks.
LEMMA IndexNextIsSafe == ASSUME IndexInv, IndexNext PROVE Safe
<1>1. CASE \E w \in Workers, d \in Docs : ClaimTask(w, d)
  BY <1>1, ClaimIsSafe
<1>2. CASE \E w \in Workers : WorkerStep(w)
  BY <1>2, WorkerStepFits, FitsIsSafe
<1>3. CASE \E w \in Workers : WorkerCrash(w) \/ WorkerRestart(w)
  BY <1>3, CrashIsSafe
<1>4. CASE \E d \in Docs : LockExpires(d)
  BY <1>4, LockExpiresIsSafe
<1> QED
  BY <1>1, <1>2, <1>3, <1>4 DEF IndexNext

\* A step of Logic that only moves documents on leaves the workers safe.
LEMMA LogicIsSafe ==
  ASSUME IndexInv, UNCHANGED agentVars, docStatus' \in [Docs -> DocStatus], \A d \in Docs : DocMoves(d)
  PROVE  Safe
<1>1. VerdictStep
  BY DEF VerdictStep, DocMoves
<1>2. task' = task /\ store' = store /\ pc' = pc /\ job' = job /\ todo' = todo
      /\ tries' = tries /\ fatal' = fatal /\ crashes' = crashes
  BY DEF agentVars
<1>3. HolderSettlesStep
  BY <1>2 DEF HolderSettlesStep
<1>4. WorkerTypes' /\ StoreTypes'
  BY <1>2 DEF IndexInv, WorkerTypes, StoreTypes
<1>5. TaskAgreesWithDocument'
  BY <1>2 DEF IndexInv, TaskAgreesWithDocument, DocMoves
<1>6. JobsInv'
  <2>1. {"mark", "markFailed"} \subseteq Working
    BY DEF Working
  <2> QED
    BY <1>2, <2>1 DEF IndexInv, JobsInv, DocMoves
<1> QED
  BY <1>1, <1>3, <1>4, <1>5, <1>6 DEF Safe, IndexInv

\* A deletion is one.
LEMMA UserDeletesIsSafe ==
  ASSUME IndexInv, NEW d \in Docs, RequestDocumentDeletion(d), UNCHANGED agentVars
  PROVE  Safe
<1>1. docStatus \in [Docs -> DocStatus] /\ docStatus' = [docStatus EXCEPT ![d] = "Deleting"]
  BY DEF IndexInv, RequestDocumentDeletion
<1>2. docStatus' \in [Docs -> DocStatus] /\ \A e \in Docs : DocMoves(e)
  BY <1>1 DEF DocStatus, DocMoves
<1> QED
  BY <1>2, LogicIsSafe

\* All steps.
LEMMA WorkerNextIsSafe == ASSUME IndexInv, [WorkerNext]_allVars PROVE Safe
<1>1. CASE IndexNext
  BY <1>1, IndexNextIsSafe
<1>2. CASE \E d \in Docs : TaskArrives(d)
  <2>1. PICK d \in Docs : TaskArrives(d)
    BY <1>2
  <2>2. RecordIndexEvent(d) /\ UNCHANGED <<docStatus, store, workerVars>>
    BY <2>1 DEF TaskArrives, logicVars
  <2> QED
    BY <2>2, RecordIsSafe
<1>3. CASE \E d \in Docs : UserDeletes(d)
  BY <1>3, UserDeletesIsSafe DEF UserDeletes
<1>4. CASE UNCHANGED allVars
  <2>1. UNCHANGED agentVars /\ docStatus' = docStatus
    BY <1>4 DEF allVars, logicVars
  <2>2. docStatus' \in [Docs -> DocStatus] /\ \A d \in Docs : DocMoves(d)
    BY <2>1 DEF IndexInv, DocMoves
  <2> QED
    BY <2>1, <2>2, LogicIsSafe
<1> QED
  BY <1>1, <1>2, <1>3, <1>4 DEF WorkerNext

\* Initially there is no task and no job.
LEMMA AgentInitInv ==
  ASSUME AgentInit, docStatus \in [Docs -> DocStatus]
  PROVE  IndexInv
<1>1. 0 \in 0..MaxAttempts /\ 0 \in 0..MaxCrashes
  BY WorkerAssumption DEF WorkerAssumption
<1>2. NoTask \in TaskRows /\ NoTask.status = "absent"
  BY <1>1 DEF NoTask, Row, TaskRows, TaskStatus
<1>3. WorkerTypes /\ StoreTypes
  BY <1>1, <1>2 DEF AgentInit, WorkerTypes, StoreTypes, Phases
<1>4. TaskAgreesWithDocument
  BY <1>2 DEF AgentInit, TaskAgreesWithDocument
<1>5. JobsInv
  BY DEF AgentInit, JobsInv, Working
<1> QED
  BY <1>3, <1>4, <1>5 DEF IndexInv

\* Also when the workers are on their own.
LEMMA WorkerInitInv == ASSUME WorkerInit PROVE IndexInv
BY AgentInitInv DEF WorkerInit, DocStatus

\* Hence the invariant holds always.
LEMMA WorkersKeepInv == WorkerSpec => []IndexInv
<1>1. IndexInv /\ [WorkerNext]_allVars => IndexInv'
  BY WorkerNextIsSafe DEF Safe
<1> QED
  BY <1>1, WorkerInitInv, PTL DEF WorkerSpec

\* Every variable of the task table, the workers and the stores has its type
\* in every state.
THEOREM AgentTypes == WorkerSpec => []AgentTypeOK
<1>1. IndexInv => AgentTypeOK
  BY DEF IndexInv, WorkerTypes, StoreTypes, TaskRows, Phases, AgentTypeOK
<1> QED
  BY <1>1, WorkersKeepInv, PTL

\* A finished task tells the same story as its document (process_one marks an
\* outcome only after Logic accepted it), however many workers are late.
THEOREM TasksAgree == WorkerSpec => []TaskAgreesWithDocument
<1>1. IndexInv => TaskAgreesWithDocument
  BY DEF IndexInv
<1> QED
  BY <1>1, WorkersKeepInv, PTL

\* Only the worker whose lock is in the row ends the processing of a task, and
\* a finished row never changes (the WHERE clauses of the mark_ updates).
THEOREM HolderSettlesTask == WorkerSpec => OnlyHolderSettlesTask
<1>1. IndexInv /\ [WorkerNext]_allVars => [HolderSettlesStep]_allVars
  BY WorkerNextIsSafe DEF Safe
<1>2. WorkerSpec => [][HolderSettlesStep]_allVars
  BY <1>1, WorkersKeepInv, PTL DEF WorkerSpec
<1> QED
  BY <1>2 DEF OnlyHolderSettlesTask, HolderSettlesStep

\* Late answers never make Logic take back a verdict (the status conditions of
\* CompleteDocumentIndex and FailDocumentIndex).
THEOREM VerdictIsOne == WorkerSpec => OneVerdict
<1>1. IndexInv /\ [WorkerNext]_allVars => [VerdictStep]_allVars
  BY WorkerNextIsSafe DEF Safe
<1>2. WorkerSpec => [][VerdictStep]_allVars
  BY <1>1, WorkersKeepInv, PTL DEF WorkerSpec
<1> QED
  BY <1>2 DEF OneVerdict, VerdictStep

-----------------------------------------------------------------------------
(* While no live worker outlasts its lock.                                 *)

\* Whoever works on a document holds a fresh lock on its task, except on the
\* way out after an answer was lost that the task is completed.
HoldersInv ==
  \A w \in Workers : pc[w] \in Working =>
    \/ HoldsTask(w) /\ ~task[job[w]].stale
    \/ task[job[w]].status = "COMPLETED"

\* What is not written yet is still to be written.
WritesInv ==
  \A w \in Workers : Filled(w) /\ (pc[w] = "complete" => store[job[w]] = Stores)

PatientInv == HoldersInv /\ ExclusiveIndexing /\ WritesInv /\ VerdictStands

WrittenStep ==
  \A d \in Docs :
    docStatus[d] # "Completed" /\ docStatus'[d] = "Completed" => store[d] = Stores

Patient == PatientInv' /\ WrittenStep

\* The conjuncts of PatientInv that are about worker v.
PatientAt(v) ==
  /\ pc[v] \in Working =>
       \/ HoldsTask(v) /\ ~task[job[v]].stale
       \/ task[job[v]].status = "COMPLETED"
  /\ Filled(v) /\ (pc[v] = "complete" => store[job[v]] = Stores)
  /\ pc[v] \in Working /\ task[job[v]].failing => pc[v] \in Reporting

\* The invariant, worker by worker.
LEMMA PatientIs ==
  ASSUME JobsInv
  PROVE  PatientInv <=> ExclusiveIndexing /\ \A v \in Workers : PatientAt(v)
<1>1. VerdictStands <=> \A v \in Workers : pc[v] \in Working /\ task[job[v]].failing => pc[v] \in Reporting
  BY DEF VerdictStands, AtWork, JobsInv, Reporting
<1> QED
  BY <1>1 DEF PatientInv, PatientAt, HoldersInv, WritesInv

\* And after a step.
LEMMA PatientIsNext ==
  ASSUME JobsInv', ExclusiveIndexing', \A v \in Workers : PatientAt(v)'
  PROVE  PatientInv'
<1>1. VerdictStands'
  BY DEF VerdictStands, AtWork, JobsInv, Reporting, PatientAt
<1> QED
  BY <1>1 DEF PatientInv, PatientAt, HoldersInv, WritesInv

\* Whoever is not concerned by a step stays patient.
LEMMA StaysPatient ==
  ASSUME NEW v \in Workers, PatientAt(v), pc'[v] = pc[v], job'[v] = job[v], todo'[v] = todo[v],
         pc[v] \in Working => task'[job[v]] = task[job[v]] /\ store'[job[v]] = store[job[v]]
  PROVE  PatientAt(v)'
<1>1. {"erase", "insert", "complete"} \subseteq Working
  BY DEF Working
<1> QED
  BY <1>1 DEF PatientAt, HoldsTask, Filled

\* A step of a worker concerns nobody else, as nobody else works on its document.
LEMMA FitsIsPatient ==
  ASSUME IndexInv, PatientInv, NEW w \in Workers, NEW at \in Phases, Fits(w, at)
  PROVE  Patient
<1> DEFINE d == job[w]
<1>1. /\ pc[w] \in Working /\ d \in Docs /\ JobsInv /\ ExclusiveIndexing
      /\ \A v \in Workers : PatientAt(v)
  BY PatientIs DEF Fits, IndexInv, JobsInv
<1>2. /\ Moves(w, at)
      /\ \A e \in Docs \ {d} : docStatus'[e] = docStatus[e] /\ task'[e] = task[e] /\ store'[e] = store[e]
      /\ task'[d] = task[d] \/ Settles(w, at)
  BY DEF Fits
<1>3. \A v \in Workers \ {w} : pc'[v] = pc[v] /\ job'[v] = job[v] /\ todo'[v] = todo[v]
  BY <1>2 DEF Moves
<1>4. pc'[w] = at /\ (at \in Working => job'[w] = d)
  BY <1>2 DEF Moves
<1>5. ASSUME NEW v \in Workers \ {w}, pc[v] \in Working
      PROVE  job[v] \in Docs \ {d}
  BY <1>1, <1>5 DEF ExclusiveIndexing, AtWork, JobsInv
<1>6. ASSUME NEW v \in Workers \ {w}
      PROVE  PatientAt(v)'
  BY <1>1, <1>2, <1>3, <1>5, StaysPatient
<1>7. PatientAt(w)'
  <2>1. {"erase", "insert", "complete"} \subseteq Working
    BY DEF Working
  <2>2. Filled(w)' /\ (at = "complete" => store'[d] = Stores)
    BY <1>1, <1>4, <2>1 DEF Fits, PatientAt, Filled
  <2>3. ASSUME at \in Working
        PROVE  /\ \/ task'[d].status = "PROCESSING" /\ task'[d].lockedBy = w /\ ~task'[d].stale
                  \/ task'[d].status = "COMPLETED"
               /\ task'[d].failing => at \in Reporting
    <3>1. CASE task'[d] = task[d]
      BY <1>1, <2>3, <3>1 DEF PatientAt, HoldsTask, Fits
    <3>2. CASE Settles(w, at)
      BY <1>1, <2>3, <3>2 DEF PatientAt, Settles, Reporting
    <3> QED
      BY <1>2, <3>1, <3>2
  <2> QED
    BY <1>4, <2>1, <2>2, <2>3 DEF PatientAt, HoldsTask
<1>8. ExclusiveIndexing'
  BY <1>1, <1>3, <1>4, <1>5 DEF ExclusiveIndexing, AtWork
<1>9. WrittenStep
  <2>1. docStatus'[d] = "Completed" /\ docStatus[d] # "Completed" => pc[w] = "complete"
    BY DEF Fits
  <2>2. pc[w] = "complete" => store[d] = Stores
    BY <1>1 DEF PatientAt
  <2> QED
    BY <1>2, <2>1, <2>2 DEF WrittenStep
<1>10. JobsInv'
  BY FitsIsSafe DEF Safe, IndexInv
<1> QED
  BY <1>6, <1>7, <1>8, <1>9, <1>10, PatientIsNext DEF Patient

\* Nobody works on a document whose task can be claimed, is new or has just
\* outlived its lock.
LEMMA NobodyAtWork ==
  ASSUME IndexInv, PatientInv, NEW d \in Docs, task[d].status # "COMPLETED",
         ClaimableTask(d) \/ task[d].status = "absent" \/ ~AtWork(task[d].lockedBy, d),
         NEW v \in Workers, pc[v] \in Working
  PROVE  job[v] \in Docs \ {d}
<1>1. job[v] \in Docs
  BY DEF IndexInv, JobsInv
<1>2. ASSUME job[v] = d
      PROVE  FALSE
  <2>1. task[d].status = "PROCESSING" /\ task[d].lockedBy = v /\ ~task[d].stale
    BY <1>2 DEF PatientInv, HoldersInv, HoldsTask
  <2> QED
    BY <1>2, <2>1 DEF ClaimableTask, AtWork
<1> QED
  BY <1>1, <1>2

\* Nor does a claim.
LEMMA ClaimIsPatient ==
  ASSUME IndexInv, PatientInv, NEW w \in Workers, NEW d \in Docs, ClaimTask(w, d)
  PROVE  Patient
<1>1. ClaimableTask(d) /\ task[d].status # "COMPLETED" /\ JobsInv
  BY DEF ClaimTask, ClaimableTask, IndexInv
<1>2. \A v \in Workers : pc[v] \in Working => job[v] \in Docs \ {d}
  BY <1>1, NobodyAtWork
<1>3. \A v \in Workers : PatientAt(v)
  BY <1>1, PatientIs
<1>4. ASSUME NEW v \in Workers \ {w}
      PROVE  PatientAt(v)'
  BY <1>2, <1>3, ClaimIs, StaysPatient
<1>5. PatientAt(w)'
  BY ClaimIs DEF PatientAt, HoldsTask, Filled, Reporting
<1>6. ExclusiveIndexing'
  BY <1>2, ClaimIs DEF ExclusiveIndexing, AtWork, PatientInv
<1>7. WrittenStep
  BY ClaimIs DEF WrittenStep
<1>8. JobsInv'
  BY ClaimIsSafe DEF Safe, IndexInv
<1> QED
  BY <1>4, <1>5, <1>6, <1>7, <1>8, PatientIsNext DEF Patient

\* A task changes that nobody works on, and nothing else does.
LEMMA TaskIsPatient ==
  ASSUME IndexInv, PatientInv, Safe, UNCHANGED <<docStatus, store, workerVars>>,
         NEW d \in Docs, \A e \in Docs \ {d} : task'[e] = task[e],
         task'[d] = task[d] \/ \A v \in Workers : pc[v] \in Working => job[v] \in Docs \ {d}
  PROVE  Patient
<1>1. JobsInv /\ JobsInv' /\ \A v \in Workers : pc[v] \in Working => job[v] \in Docs
  BY DEF IndexInv, Safe, JobsInv
<1>2. pc' = pc /\ job' = job /\ todo' = todo /\ store' = store /\ docStatus' = docStatus
  BY DEF workerVars
<1>3. ASSUME NEW v \in Workers
      PROVE  PatientAt(v)'
  BY <1>1, <1>2, PatientIs, StaysPatient
<1>4. ExclusiveIndexing'
  BY <1>2 DEF ExclusiveIndexing, AtWork, PatientInv
<1>5. WrittenStep
  BY <1>2 DEF WrittenStep
<1> QED
  BY <1>1, <1>3, <1>4, <1>5, PatientIsNext DEF Patient

\* Only locks of workers that were killed grow old.
LEMMA LockExpiresIsPatient ==
  ASSUME ~LiveLocksExpire, IndexInv, PatientInv, NEW d \in Docs, LockExpires(d)
  PROVE  Patient
<1>1. /\ task[d].status # "COMPLETED" /\ ~AtWork(task[d].lockedBy, d)
      /\ UNCHANGED <<docStatus, store, workerVars>>
  BY DEF LockExpires, logicVars
<1>2. \A v \in Workers : pc[v] \in Working => job[v] \in Docs \ {d}
  BY <1>1, NobodyAtWork
<1> QED
  BY <1>1, <1>2, LockExpiresIsSafe, TaskIsPatient

\* Nobody works on a document without a task.
LEMMA TaskArrivesIsPatient ==
  ASSUME IndexInv, PatientInv, NEW d \in Docs, TaskArrives(d)
  PROVE  Patient
<1>1. task[d].status = "absent" /\ RecordIndexEvent(d) /\ UNCHANGED <<docStatus, store, workerVars>>
  BY DEF TaskArrives, logicVars
<1>2. \A v \in Workers : pc[v] \in Working => job[v] \in Docs \ {d}
  BY <1>1, NobodyAtWork
<1> QED
  BY <1>1, <1>2, RecordIsSafe, TaskIsPatient

\* A killed worker works on nothing.
LEMMA CrashIsPatient ==
  ASSUME IndexInv, PatientInv, NEW w \in Workers, WorkerCrash(w) \/ WorkerRestart(w)
  PROVE  Patient
<1>1. /\ Safe /\ UNCHANGED <<docStatus, task, store>> /\ pc'[w] \notin Working
      /\ \A v \in Workers \ {w} : pc'[v] = pc[v] /\ job'[v] = job[v] /\ todo'[v] = todo[v]
  BY CrashIsSafe
<1>2. JobsInv /\ JobsInv'
  BY <1>1 DEF IndexInv, Safe
<1>3. ASSUME NEW v \in Workers \ {w}
      PROVE  PatientAt(v)'
  BY <1>1, <1>2, PatientIs, StaysPatient
<1>4. PatientAt(w)'
  <2>1. {"erase", "insert", "complete"} \subseteq Working
    BY DEF Working
  <2> QED
    BY <1>1, <2>1 DEF PatientAt, Filled
<1>5. ExclusiveIndexing'
  BY <1>1 DEF ExclusiveIndexing, AtWork, PatientInv
<1>6. WrittenStep
  BY <1>1 DEF WrittenStep
<1> QED
  BY <1>2, <1>3, <1>4, <1>5, <1>6, PatientIsNext DEF Patient

\* A deletion activates nothing.
LEMMA UserDeletesIsPatient ==
  ASSUME IndexInv, PatientInv, NEW d \in Docs, UserDeletes(d)
  PROVE  Patient
<1>1. /\ task' = task /\ store' = store /\ pc' = pc /\ job' = job /\ todo' = todo
      /\ docStatus' = [docStatus EXCEPT ![d] = "Deleting"] /\ docStatus \in [Docs -> DocStatus]
  BY DEF UserDeletes, RequestDocumentDeletion, agentVars, IndexInv
<1>2. WrittenStep
  BY <1>1 DEF WrittenStep
<1>3. PatientInv'
  BY <1>1 DEF PatientInv, HoldersInv, HoldsTask, ExclusiveIndexing, AtWork, WritesInv, Filled, VerdictStands
<1> QED
  BY <1>2, <1>3 DEF Patient

\* All steps.
LEMMA WorkerNextIsPatient ==
  ASSUME ~LiveLocksExpire, IndexInv, PatientInv, [WorkerNext]_allVars
  PROVE  Patient
<1>1. CASE \E w \in Workers, d \in Docs : ClaimTask(w, d)
  BY <1>1, ClaimIsPatient
<1>2. CASE \E w \in Workers : WorkerStep(w)
  BY <1>2, WorkerStepFits, FitsIsPatient
<1>3. CASE \E w \in Workers : WorkerCrash(w) \/ WorkerRestart(w)
  BY <1>3, CrashIsPatient
<1>4. CASE \E d \in Docs : LockExpires(d)
  BY <1>4, LockExpiresIsPatient
<1>5. CASE \E d \in Docs : TaskArrives(d)
  BY <1>5, TaskArrivesIsPatient
<1>6. CASE \E d \in Docs : UserDeletes(d)
  BY <1>6, UserDeletesIsPatient
<1>7. CASE UNCHANGED allVars
  <2>1. task' = task /\ store' = store /\ pc' = pc /\ job' = job /\ todo' = todo /\ docStatus' = docStatus
    BY <1>7 DEF allVars, logicVars, agentVars
  <2> QED
    BY <2>1 DEF Patient, WrittenStep, PatientInv, HoldersInv, HoldsTask, ExclusiveIndexing, AtWork,
                WritesInv, Filled, VerdictStands
<1> QED
  BY <1>1, <1>2, <1>3, <1>4, <1>5, <1>6, <1>7 DEF WorkerNext, IndexNext

\* Initially nobody works.
LEMMA AgentInitPatient == ASSUME AgentInit PROVE PatientInv
BY DEF AgentInit, PatientInv, HoldersInv, ExclusiveIndexing, AtWork, WritesInv, Filled, VerdictStands, Working

\* Hence both invariants hold always.
LEMMA PatientWorkersKeepInv ==
  ASSUME ~LiveLocksExpire
  PROVE  WorkerSpec => [](IndexInv /\ PatientInv)
<1>1. IndexInv /\ PatientInv /\ [WorkerNext]_allVars => (IndexInv /\ PatientInv)'
  BY WorkerNextIsSafe, WorkerNextIsPatient DEF Safe, Patient
<1>2. WorkerInit => IndexInv /\ PatientInv
  BY WorkerInitInv, AgentInitPatient DEF WorkerInit
<1> QED
  BY <1>1, <1>2, PTL DEF WorkerSpec

\* If no live worker outlasts WORKER_LOCK_TIMEOUT, a document is indexed by one
\* worker at a time, crashes and takeovers included.
THEOREM IndexingIsExclusive ==
  ASSUME ~LiveLocksExpire
  PROVE  WorkerSpec => []ExclusiveIndexing
<1>1. PatientInv => ExclusiveIndexing
  BY DEF PatientInv
<1> QED
  BY <1>1, PatientWorkersKeepInv, PTL

\* Under the same condition a task that carries its failure code is never
\* indexed again; only the report is repeated.
THEOREM VerdictsStand ==
  ASSUME ~LiveLocksExpire
  PROVE  WorkerSpec => []VerdictStands
<1>1. PatientInv => VerdictStands
  BY DEF PatientInv
<1> QED
  BY <1>1, PatientWorkersKeepInv, PTL

\* Under the same condition Logic activates a version only when every
\* configured store holds its complete chunks.
THEOREM ActivatedWhenWritten ==
  ASSUME ~LiveLocksExpire
  PROVE  WorkerSpec => ActivatedOnlyWhenWritten
<1>1. IndexInv /\ PatientInv /\ [WorkerNext]_allVars => [WrittenStep]_allVars
  BY WorkerNextIsPatient DEF Patient
<1>2. WorkerSpec => [][WrittenStep]_allVars
  BY <1>1, PatientWorkersKeepInv, PTL DEF WorkerSpec
<1> QED
  BY <1>2 DEF ActivatedOnlyWhenWritten, WrittenStep
=============================================================================
