-------------------------------- MODULE Chat --------------------------------
(***************************************************************************)
(* Questions to the Agent: the stream of one question, from the row of the *)
(* assistant's message that begin_chat inserts to the statement that makes *)
(* the message final, and what the client hears of it.  A request id that  *)
(* is sent again is answered from the row if that is final.  The graph is  *)
(* external: it answers, with citations or not, asks the user something,   *)
(* fails, or does not end in time.                                         *)
(***************************************************************************)
CONSTANTS
  ChatRequests,  \* request ids
  ChatStreams,   \* bound: streams under way
  NoRequest      \* no request

ASSUME ChatAssumption == NoRequest \notin ChatRequests

VARIABLES
  answers,      \* the assistant's message of a request
  chatStreams,  \* the streams under way
  heard,        \* history: verdicts that clients have heard of a request
  overlapping   \* history: requests whose graph ran in two streams at once

chatVars == <<answers, chatStreams, heard, overlapping>>

\* status 2 with an answer or a question, status 3 with an error code
Succeeding == {"answer", "question"}
Failing == {"CITATION_NOT_FOUND", "AGENT_FAILED", "MODEL_TIMEOUT"}
Verdicts == Succeeding \cup Failing
Running == {"graph", "citations", "answered", "asked", "failed", "timeout", "completed"}
StreamPhases == {"idle", "begin", "result", "replay"} \cup Running
NoStream == [at |-> "idle", request |-> NoRequest]

ChatInit ==
  /\ answers = [r \in ChatRequests |-> "none"]
  /\ chatStreams = [s \in ChatStreams |-> NoStream]
  /\ heard = [r \in ChatRequests |-> {}]
  /\ overlapping = {}

-----------------------------------------------------------------------------
RequestOf(s) == chatStreams[s].request

StreamGoes(s, from, to) ==
  /\ chatStreams[s].at = from
  /\ chatStreams' = [chatStreams EXCEPT ![s] = [@ EXCEPT !.at = to]]

StreamEnds(s, from) ==
  /\ chatStreams[s].at = from
  /\ chatStreams' = [chatStreams EXCEPT ![s] = NoStream]

\* The client hears the verdict v with the last event of the stream.
Hears(s, v) == heard' = [heard EXCEPT ![RequestOf(s)] = @ \cup {v}]

\* Mutation: the statement takes a message whatever its status is.
SettlesAny(s, v) == answers' = [answers EXCEPT ![RequestOf(s)] = v]

\* UPDATE ... WHERE request_id AND role = 2 AND status = 1
Settles(s, v) ==
  answers' = [answers EXCEPT ![RequestOf(s)] = IF @ = "generating" THEN v ELSE @]

\* The gateway has found the user's own knowledge base and sends the question,
\* with a request id it draws; other callers of the RPC may send an id again.
ChatStream(s, r) ==
  /\ chatStreams[s].at = "idle"
  /\ chatStreams' = [chatStreams EXCEPT ![s] = [at |-> "begin", request |-> r]]
  /\ UNCHANGED <<answers, heard, overlapping>>

\* The service stops, the client leaves, or a statement fails, if only after it
\* took effect: the message stays as it is.  So it does when begin_chat finds
\* no conversation of this user.  The client hears nothing or CHAT_FAILED, which
\* is no verdict on its question.
StreamBreaks(s) ==
  /\ chatStreams[s].at # "idle"
  /\ chatStreams' = [chatStreams EXCEPT ![s] = NoStream]
  /\ UNCHANGED <<answers, heard, overlapping>>

BeginChat(s) ==
  /\ StreamGoes(s, "begin", "result")
  /\ answers' = [answers EXCEPT ![RequestOf(s)] = IF @ = "none" THEN "generating" ELSE @]
  /\ UNCHANGED <<heard, overlapping>>

GetChatResult(s) ==
  /\ \/ /\ StreamGoes(s, "result", "replay")
        /\ answers[RequestOf(s)] \in Verdicts
        /\ UNCHANGED overlapping
     \/ /\ StreamGoes(s, "result", "graph")
        /\ answers[RequestOf(s)] = "generating"
        /\ overlapping' = IF \E t \in ChatStreams :
                               chatStreams[t].at \in Running /\ RequestOf(t) = RequestOf(s)
                            THEN overlapping \cup {RequestOf(s)} ELSE overlapping
  /\ UNCHANGED <<answers, heard>>

\* A question is replayed like an answer.
ReplayChat(s) ==
  /\ StreamEnds(s, "replay")
  /\ LET verdict == answers[RequestOf(s)]
     IN Hears(s, IF verdict \in Succeeding THEN "completed" ELSE verdict)
  /\ UNCHANGED <<answers, overlapping>>

\* The deadline is that of the service, whatever the graph has produced.
GraphRuns(s) ==
  /\ \E end \in {"answered", "citations", "asked", "failed", "timeout"} : StreamGoes(s, "graph", end)
  /\ UNCHANGED <<answers, heard, overlapping>>

\* A cited chunk is no longer one of the user's knowledge base.
RefuseCitations(s) ==
  /\ StreamGoes(s, "citations", "failed")
  /\ Settles(s, "CITATION_NOT_FOUND")
  /\ Hears(s, "CITATION_NOT_FOUND")
  /\ UNCHANGED overlapping

AcceptCitations(s) ==
  StreamGoes(s, "citations", "answered") /\ UNCHANGED <<answers, heard, overlapping>>

CompleteChat(s) ==
  /\ \/ StreamGoes(s, "answered", "completed") /\ Settles(s, "answer")
     \/ StreamEnds(s, "asked") /\ Settles(s, "question")
  /\ UNCHANGED <<heard, overlapping>>

SendCompleted(s) ==
  StreamEnds(s, "completed") /\ Hears(s, "completed") /\ UNCHANGED <<answers, overlapping>>

\* The client has heard of the error already, with the code the graph gave it.
FailChat(s) ==
  StreamEnds(s, "failed") /\ Settles(s, "AGENT_FAILED") /\ UNCHANGED <<heard, overlapping>>

ChatTimesOut(s) ==
  /\ StreamEnds(s, "timeout")
  /\ Settles(s, "MODEL_TIMEOUT")
  /\ Hears(s, "MODEL_TIMEOUT")
  /\ UNCHANGED overlapping

ChatStep(s) ==
  \/ \E r \in ChatRequests : ChatStream(s, r)
  \/ BeginChat(s) \/ GetChatResult(s) \/ ReplayChat(s)
  \/ GraphRuns(s)
  \/ RefuseCitations(s) \/ AcceptCitations(s)
  \/ CompleteChat(s) \/ SendCompleted(s)
  \/ FailChat(s) \/ ChatTimesOut(s)
  \/ StreamBreaks(s)

ChatNext == \E s \in ChatStreams : ChatStep(s)

ChatSpec == ChatInit /\ [][ChatNext]_chatVars

-----------------------------------------------------------------------------
ChatTypeOK ==
  /\ answers \in [ChatRequests -> {"none", "generating"} \cup Verdicts]
  /\ chatStreams \in [ChatStreams -> [at : StreamPhases, request : ChatRequests \cup {NoRequest}]]
  /\ heard \in [ChatRequests -> SUBSET (Failing \cup {"completed"})]
  /\ overlapping \subseteq ChatRequests

\* All clients hear the same verdict, and it is the one that is stored.
HeardAsStored(r) ==
  \A v \in heard[r] : IF v = "completed" THEN answers[r] \in Succeeding ELSE answers[r] = v

\* A final message never changes, however often its request is sent, breaks off
\* or fails twice on its way out; and what clients hear of a request is what is
\* stored, unless two streams ran its graph at once: then one of them may have
\* failed before the other told its client that it has completed.
ChatKept ==
  [][\A r \in ChatRequests :
       /\ answers[r] \in Verdicts => answers'[r] = answers[r]
       /\ r \notin overlapping' => HeardAsStored(r)']_chatVars
=============================================================================
