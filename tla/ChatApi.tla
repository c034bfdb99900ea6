------------------------------ MODULE ChatApi ------------------------------
(***************************************************************************)
(* The endpoints of the Agent.  The handler has Logic name the caller's    *)
(* own knowledge base before it calls the Agent, which trusts the user and *)
(* the base of the message.  What a stream does is in Chat.                *)
(***************************************************************************)
EXTENDS Api

CreateConversationRequest(u) == [method |-> "CreateConversation", user_id |-> u]
ChatStreamRequest(u) == [method |-> "ChatStream", user_id |-> u]

ChatEndpoints == {"CreateConversation", "ChatStream"}

\* The request binds, and Logic answers or not; ids: the base it names is the
\* caller's.
HandleChat(endpoint, m) ==
  \/ /\ call.json => call.ids
     /\ HandleOr(4001, endpoint, call.json, m)
  \/ /\ stage = "handler"
     /\ call.endpoint = endpoint
     /\ call.json
     /\ \/ Answers(503, CodeInternalError) /\ UNCHANGED refused
        \/ ~call.ids /\ Answers(403, 4003) /\ refused' = "ErrKnowledgePermission"
     /\ UNCHANGED <<signedIn, token, call, retried, message, reply, done>>

HandleCreateConversation == HandleChat("CreateConversation", CreateConversationRequest(Caller))
HandleChatStream == HandleChat("ChatStream", ChatStreamRequest(Caller))

\* The Agent has no codes: it carries the message out or breaks the call off.
ServeCreateConversation == Serves("CreateConversation", {}, {}, <<>>)

\* Once the stream is open the status is 200, and an error is one of its events.
ServeChatStream == Serves("ChatStream", {}, {"AGENT_FAILED"}, <<>>)

ChatCallStep ==
  \/ HandleCreateConversation \/ HandleChatStream
  \/ ServeCreateConversation \/ ServeChatStream
  \/ RpcFails(ChatEndpoints, 503)
  \/ RespondsWith(ChatEndpoints, LAMBDA code : 200)
=============================================================================
