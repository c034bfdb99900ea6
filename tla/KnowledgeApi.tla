---------------------------- MODULE KnowledgeApi ----------------------------
(***************************************************************************)
(* The endpoints of knowledge bases and their documents: messages,         *)
(* handlers of the gateway, methods of the KnowledgeService and their      *)
(* errors.  What a method does to a document is in KnowledgeLogic.         *)
(***************************************************************************)
EXTENDS Api

EnsurePersonalKnowledgeBaseRequest(u) == [method |-> "EnsurePersonalKnowledgeBase", user_id |-> u]
CreateUploadTicketRequest(u) == [method |-> "CreateUploadTicket", user_id |-> u]
CompleteUploadRequest(u) == [method |-> "CompleteUpload", user_id |-> u]
DeleteDocumentRequest(u) == [method |-> "DeleteDocument", user_id |-> u]
GetDocumentStatusRequest(u) == [method |-> "GetDocumentStatus", user_id |-> u]
ListKnowledgeDocumentsRequest(u) == [method |-> "ListKnowledgeDocuments", user_id |-> u]
GetDocumentViewTicketRequest(u) == [method |-> "GetDocumentViewTicket", user_id |-> u]

KnowledgeEndpoints ==
  {"EnsurePersonalKnowledgeBase", "ListKnowledgeDocuments", "CreateUploadTicket", "CompleteUpload",
   "DeleteDocument", "GetDocumentViewTicket"}

HandleEnsurePersonalKnowledgeBase ==
  Handle("EnsurePersonalKnowledgeBase", TRUE, EnsurePersonalKnowledgeBaseRequest(Caller))
HandleListKnowledgeDocuments ==
  HandleOr(4001, "ListKnowledgeDocuments", call.ids, ListKnowledgeDocumentsRequest(Caller))

\* The ids of these two are not checked: an invalid one becomes 0.
HandleCreateUploadTicket ==
  Handle("CreateUploadTicket", call.json, CreateUploadTicketRequest(Caller))
HandleCompleteUpload == Handle("CompleteUpload", TRUE, CompleteUploadRequest(Caller))
HandleDeleteDocument == Handle("DeleteDocument", call.ids, DeleteDocumentRequest(Caller))
HandleGetDocumentViewTicket ==
  HandleOr(4001, "GetDocumentViewTicket", call.ids, GetDocumentViewTicketRequest(Caller))

\* The stream of a document's status: the same message every two seconds, until
\* the status is final, the server fails or the application is gone.  However
\* the stream ends, it ends without a code.
EndOfStream == 1
DocumentStatusEvents ==
  \/ HandleOr(EndOfStream, "DocumentStatusEvents", call.ids, GetDocumentStatusRequest(Caller))
  \/ /\ call.endpoint = "DocumentStatusEvents"
     /\ \/ stage = "reply" /\ reply = 0 /\ stage' = "rpc" /\ UNCHANGED answer
        \/ stage \in {"rpc", "reply"} /\ Answers(200, EndOfStream)
     /\ UNCHANGED <<signedIn, token, call, retried, message, reply, done, refused>>

-----------------------------------------------------------------------------
KnowledgeErrors ==
  {"ErrKnowledgeInvalid", "ErrKnowledgePermission", "ErrKnowledgeNotFound", "ErrKnowledgeExpired",
   "ErrKnowledgeObjectMissing", "ErrKnowledgeMetadataMismatch", "ErrDatabase"}

\* A base that cannot be read counts as not found.
KnowledgeOutages == {"ErrDatabase", "ErrKnowledgeNotFound"}

uploadTicketCode ==
  [ErrKnowledgeInvalid |-> 4001, ErrKnowledgePermission |-> 4003, ErrKnowledgeNotFound |-> 4004]

deleteDocumentCode == [ErrKnowledgeNotFound |-> 4004, ErrKnowledgePermission |-> 4003]

viewTicketCode ==
  [ErrKnowledgeInvalid |-> 4001, ErrKnowledgePermission |-> 4003, ErrKnowledgeNotFound |-> 4004,
   ErrKnowledgeNotReady |-> 4009]

\* Four methods have one code for every error.
Always(code) == [error \in KnowledgeErrors |-> code]

ServeEnsurePersonalKnowledgeBase ==
  Serves("EnsurePersonalKnowledgeBase", {}, {"ErrDatabase"}, Always(4003))
ServeCreateUploadTicket ==
  Serves("CreateUploadTicket", DOMAIN uploadTicketCode, KnowledgeOutages, uploadTicketCode)
ServeCompleteUpload ==
  Serves("CompleteUpload", KnowledgeErrors \ {"ErrKnowledgeInvalid", "ErrDatabase"},
         KnowledgeOutages, Always(4001))
ServeDeleteDocument ==
  Serves("DeleteDocument", DOMAIN deleteDocumentCode, KnowledgeOutages, deleteDocumentCode)
ServeGetDocumentStatus ==
  Reads("GetDocumentStatus", {"ErrKnowledgePermission", "ErrKnowledgeNotFound", "ErrDatabase"},
        Always(4004))
ServeListKnowledgeDocuments ==
  Serves("ListKnowledgeDocuments", {"ErrKnowledgePermission", "ErrKnowledgeNotFound"},
         {"ErrDatabase"}, Always(4003))
ServeGetDocumentViewTicket ==
  Serves("GetDocumentViewTicket", DOMAIN viewTicketCode, KnowledgeOutages, viewTicketCode)

ticketHTTPStatus(code) ==
  CASE code = 4003 -> 403
    [] code = 4004 -> 404
    [] OTHER -> 200

RespondKnowledgeCall ==
  \/ RespondsWith({"GetDocumentViewTicket", "DeleteDocument"}, ticketHTTPStatus)
  \/ RespondsWith(KnowledgeEndpoints \ {"GetDocumentViewTicket", "DeleteDocument"}, LAMBDA code : 200)

KnowledgeCallStep ==
  \/ HandleEnsurePersonalKnowledgeBase \/ HandleListKnowledgeDocuments \/ HandleCreateUploadTicket
  \/ HandleCompleteUpload \/ HandleDeleteDocument \/ HandleGetDocumentViewTicket
  \/ DocumentStatusEvents
  \/ ServeEnsurePersonalKnowledgeBase \/ ServeCreateUploadTicket \/ ServeCompleteUpload
  \/ ServeDeleteDocument \/ ServeGetDocumentStatus \/ ServeListKnowledgeDocuments
  \/ ServeGetDocumentViewTicket
  \/ RpcFails(KnowledgeEndpoints, 503)
  \/ RespondKnowledgeCall
=============================================================================
