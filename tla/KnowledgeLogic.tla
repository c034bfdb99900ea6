--------------------------- MODULE KnowledgeLogic ---------------------------
(***************************************************************************)
(* The document side of the Logic service: knowledge_document,             *)
(* knowledge_upload_session and the OSS object behind a document, the      *)
(* handlers the application calls and the three RPCs the Agent calls.      *)
(*                                                                         *)
(* Only index version 1 exists: CreateUploadTicket writes it and nothing   *)
(* changes it, so the version comparisons of the code always succeed and   *)
(* are left out.  Callers are the users whom the permission checks let     *)
(* through.  The rows these transactions put into the outbox are added     *)
(* where this module is composed with the relay (KnowledgePipeline).       *)
(***************************************************************************)
EXTENDS Naturals

CONSTANTS
  Docs,         \* documents that may be created
  Contents,     \* what a client may upload: "matching" or "mismatched" content
  MaxConfirms   \* bound: CompleteUpload calls of one document between the OSS
                \* check and the transaction

ASSUME LogicAssumption ==
  /\ Contents \subseteq {"matching", "mismatched"}
  /\ MaxConfirms \in Nat \ {0}

VARIABLES
  docStatus,   \* knowledge_document.status; "none" before the row exists
  session,     \* knowledge_upload_session.status; "none" before the row exists
  expired,     \* the session's expires_at has passed, and the PUT ticket with it
  object,      \* the OSS object, compared with what the session declares
  confirming   \* CompleteUpload calls past their checks, before their transaction

logicVars == <<docStatus, session, expired, object, confirming>>

DocStatus ==
  {"none", "Uploading", "Pending", "Processing", "Completed", "Failed", "Deleting", "Deleted"}

LogicTypeOK ==
  /\ docStatus \in [Docs -> DocStatus]
  /\ session \in [Docs -> {"none", "Pending", "Confirmed"}]
  /\ expired \in [Docs -> BOOLEAN]
  /\ object \in [Docs -> {"absent", "matching", "mismatched"}]
  /\ confirming \in [Docs -> 0..MaxConfirms]

LogicInit ==
  /\ docStatus = [d \in Docs |-> "none"]
  /\ session = [d \in Docs |-> "none"]
  /\ expired = [d \in Docs |-> FALSE]
  /\ object = [d \in Docs |-> "absent"]
  /\ confirming = [d \in Docs |-> 0]

-----------------------------------------------------------------------------
(* Handlers called through the gateway.                                    *)

\* Document and session are created in one transaction; signing the ticket
\* may still fail, and then the object is simply never uploaded.
CreateUploadTicket(d) ==
  /\ docStatus[d] = "none"
  /\ docStatus' = [docStatus EXCEPT ![d] = "Uploading"]
  /\ session' = [session EXCEPT ![d] = "Pending"]
  /\ UNCHANGED <<expired, object, confirming>>

\* The client PUTs to OSS with the signed ticket, as often as it likes until
\* the ticket expires, even after the upload was confirmed.
PutObject(d, content) ==
  /\ session[d] # "none"
  /\ ~expired[d]
  /\ object' = [object EXCEPT ![d] = content]
  /\ UNCHANGED <<docStatus, session, expired, confirming>>

SessionExpires(d) ==
  /\ session[d] # "none"
  /\ ~expired[d]
  /\ expired' = [expired EXCEPT ![d] = TRUE]
  /\ UNCHANGED <<docStatus, session, object, confirming>>

SessionOpen(d) == session[d] = "Pending" /\ ~expired[d]

\* CompleteUpload up to the HEAD request.  The transaction below repeats the
\* checks of the rows but not that of the object.  The refusals change nothing.
CheckUpload(d) ==
  /\ docStatus[d] = "Uploading"
  /\ SessionOpen(d)
  /\ object[d] = "matching"
  /\ confirming[d] < MaxConfirms
  /\ confirming' = [confirming EXCEPT ![d] = @ + 1]
  /\ UNCHANGED <<docStatus, session, expired, object>>

\* Mutation: the transaction trusts the checks made before the OSS call.
ConfirmUpload_TrustsEarlierCheck(d) ==
  /\ confirming[d] > 0
  /\ docStatus' = [docStatus EXCEPT ![d] = "Pending"]
  /\ session' = [session EXCEPT ![d] = "Confirmed"]
  /\ confirming' = [confirming EXCEPT ![d] = @ - 1]
  /\ UNCHANGED <<expired, object>>

\* The transaction of CompleteUpload, under the lock of the document row.
ConfirmUpload(d) ==
  /\ confirming[d] > 0
  /\ docStatus[d] = "Uploading"
  /\ SessionOpen(d)
  /\ docStatus' = [docStatus EXCEPT ![d] = "Pending"]
  /\ session' = [session EXCEPT ![d] = "Confirmed"]
  /\ confirming' = [confirming EXCEPT ![d] = @ - 1]
  /\ UNCHANGED <<expired, object>>

\* The transaction finds the document moved on (answered with the document as
\* it is) or the session expired, or it fails and is rolled back.
ConfirmUploadRefused(d) ==
  /\ confirming[d] > 0
  /\ confirming' = [confirming EXCEPT ![d] = @ - 1]
  /\ UNCHANGED <<docStatus, session, expired, object>>

RequestDocumentDeletion(d) ==
  /\ docStatus[d] \notin {"none", "Deleting", "Deleted"}
  /\ docStatus' = [docStatus EXCEPT ![d] = "Deleting"]
  /\ UNCHANGED <<session, expired, object, confirming>>

-----------------------------------------------------------------------------
(* RPCs called by the Agent.  Each is one transaction, so it is written as *)
(* the condition under which it answers success and its effect on the      *)
(* document; the caller decides what becomes of the answer.                *)

\* GetDocumentDownloadTicket; a document that left Uploading has a file size.
TicketGranted(d) == docStatus[d] \in {"Pending", "Processing", "Completed"}

CompleteAccepted(d) == docStatus[d] \in {"Pending", "Processing", "Completed"}

CompleteDocumentIndex(d) == [docStatus EXCEPT ![d] = "Completed"]

\* Mutation: a failure report overrides a completed document.
FailAccepted_Completed(d) ==
  docStatus[d] \in {"Pending", "Processing", "Failed", "Completed"}

FailAccepted(d) == docStatus[d] \in {"Pending", "Processing", "Failed"}

FailDocumentIndex(d) == [docStatus EXCEPT ![d] = "Failed"]
=============================================================================
