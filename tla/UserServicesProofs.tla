------------------------- MODULE UserServicesProofs -------------------------
(***************************************************************************)
(* Proofs about Chat and the HTTP interface, and about all the parts of    *)
(* UserServicesMC side by side, for any values of their constants.         *)
(***************************************************************************)
EXTENDS UserServicesMC, AuthProofs, MenuProofs

-----------------------------------------------------------------------------
(***************************************************************************)
(* Chat.  A request whose graph has never run in two streams at once has   *)
(* at most one stream that may still settle it; the message is generating  *)
(* as long as that stream has not, and everything heard before agrees with *)
(* what is stored.                                                         *)
(***************************************************************************)
Unsettled == {"graph", "citations", "answered", "asked", "timeout"}

Alone(r) == r \notin overlapping

StreamsInv ==
  \A s \in ChatStreams :
    /\ chatStreams[s].at # "idle" => RequestOf(s) \in ChatRequests
    /\ chatStreams[s].at \in {"result", "replay"} \cup Running => answers[RequestOf(s)] # "none"
    /\ chatStreams[s].at = "replay" => answers[RequestOf(s)] \in Verdicts
    /\ chatStreams[s].at \in Unsettled /\ Alone(RequestOf(s)) => answers[RequestOf(s)] = "generating"
    /\ chatStreams[s].at = "completed" /\ Alone(RequestOf(s)) => answers[RequestOf(s)] = "answer"

OneRuns ==
  \A s, t \in ChatStreams :
    chatStreams[s].at \in Running /\ chatStreams[t].at \in Running
      /\ RequestOf(s) = RequestOf(t) /\ Alone(RequestOf(s)) => s = t

AllHeardAsStored == \A r \in ChatRequests : Alone(r) => HeardAsStored(r)

ChatInv == ChatTypeOK /\ StreamsInv /\ OneRuns /\ AllHeardAsStored

StreamRecords == [at : StreamPhases, request : ChatRequests \cup {NoRequest}]

\* Initially no stream runs and nothing was heard.
LEMMA ChatInitInv == ASSUME ChatInit PROVE ChatInv
<1>1. ChatTypeOK
  BY DEF ChatInit, ChatTypeOK, NoStream, StreamPhases
<1>2. StreamsInv /\ OneRuns /\ AllHeardAsStored
  BY DEF ChatInit, StreamsInv, OneRuns, AllHeardAsStored, HeardAsStored, NoStream, Running, Unsettled
<1> QED
  BY <1>1, <1>2 DEF ChatInv

\* The records of the streams after a step of one of them.
LEMMA StreamGoesTo ==
  ASSUME ChatTypeOK, NEW s \in ChatStreams, NEW from, NEW to \in StreamPhases, StreamGoes(s, from, to)
  PROVE  /\ chatStreams[s].at = from
         /\ chatStreams' \in [ChatStreams -> StreamRecords]
         /\ chatStreams'[s].at = to /\ chatStreams'[s].request = chatStreams[s].request
         /\ \A t \in ChatStreams \ {s} : chatStreams'[t] = chatStreams[t]
<1> DEFINE new == [chatStreams[s] EXCEPT !.at = to]
<1>1. chatStreams \in [ChatStreams -> StreamRecords] /\ chatStreams[s] \in StreamRecords
  BY DEF ChatTypeOK, StreamRecords
<1>2. new \in StreamRecords /\ new.at = to /\ new.request = chatStreams[s].request
  BY <1>1 DEF StreamRecords
<1>3. chatStreams' = [chatStreams EXCEPT ![s] = new] /\ chatStreams[s].at = from
  BY DEF StreamGoes
<1> HIDE DEF new
<1> QED
  BY <1>1, <1>2, <1>3

\* What a step does to the streams, to the answer of one request, and to what
\* is heard of it.
StreamsAre(s, at) ==
  /\ chatStreams' \in [ChatStreams -> StreamRecords]
  /\ chatStreams'[s].at = at
  /\ at # "idle" => chatStreams'[s].request = chatStreams[s].request
  /\ \A t \in ChatStreams \ {s} : chatStreams'[t] = chatStreams[t]

\* The streams after one of them goes on.
LEMMA GoesAre ==
  ASSUME ChatTypeOK, NEW s \in ChatStreams, NEW from, NEW to \in StreamPhases, StreamGoes(s, from, to)
  PROVE  chatStreams[s].at = from /\ StreamsAre(s, to)
BY StreamGoesTo DEF StreamsAre

\* The streams after one of them ends.
LEMMA EndsAre ==
  ASSUME ChatTypeOK, NEW s \in ChatStreams, chatStreams' = [chatStreams EXCEPT ![s] = NoStream]
  PROVE  StreamsAre(s, "idle")
<1>1. NoStream \in StreamRecords /\ NoStream.at = "idle"
  BY DEF NoStream, StreamRecords, StreamPhases
<1> QED
  BY <1>1 DEF ChatTypeOK, StreamRecords, StreamsAre

Agrees(v, a) == IF v = "completed" THEN a \in Succeeding ELSE a = v

\* What every step of a stream s that goes on to phase at has in common: it
\* changes the answer of its own request only, never a final one, and none that
\* is generating unless it runs the graph itself; what it comes to and what its
\* client hears fits the answer.
StreamStep(s, at) ==
  LET r == RequestOf(s) IN
  /\ StreamsAre(s, at)
  /\ answers' \in [ChatRequests -> {"none", "generating"} \cup Verdicts]
  /\ \A q \in ChatRequests \ {r} : answers'[q] = answers[q] /\ heard'[q] = heard[q]
  /\ answers[r] \in Verdicts => answers'[r] = answers[r]
  /\ answers[r] = "generating" /\ answers'[r] # "generating" => chatStreams[s].at \in Running
  /\ answers[r] # "none" => answers'[r] # "none"
  /\ heard' \in [ChatRequests -> SUBSET (Failing \cup {"completed"})]
  /\ \A v \in heard'[r] : v \in heard[r] \/ (r \notin overlapping' => Agrees(v, answers'[r]))
  /\ overlapping' \subseteq ChatRequests /\ overlapping \subseteq overlapping'
  /\ at \in {"result", "replay"} \cup Running => answers'[r] # "none"
  /\ at = "replay" => answers'[r] \in Verdicts
  /\ at \in Unsettled /\ r \notin overlapping' => answers'[r] = "generating"
  /\ at = "completed" /\ r \notin overlapping' => answers'[r] = "answer"
  /\ at \in Running =>
       \/ chatStreams[s].at \in Running
       \/ r \in overlapping'
       \/ \A t \in ChatStreams \ {s} : ~(chatStreams[t].at \in Running /\ RequestOf(t) = r)

FinalStays == \A r \in ChatRequests : answers[r] \in Verdicts => answers'[r] = answers[r]

\* Such a step keeps the invariant, and no final message changes.
LEMMA StreamStepKeeps ==
  ASSUME ChatInv, NEW s \in ChatStreams, NEW at \in StreamPhases, chatStreams[s].at # "idle", StreamStep(s, at)
  PROVE  ChatInv' /\ FinalStays
<1> DEFINE r == RequestOf(s)
<1>1. r \in ChatRequests /\ ChatTypeOK /\ StreamsInv /\ OneRuns /\ AllHeardAsStored
  BY DEF ChatInv, StreamsInv
<1>2. ChatTypeOK'
  BY <1>1 DEF StreamStep, StreamsAre, ChatTypeOK, StreamRecords
<1>3. FinalStays
  BY <1>1 DEF StreamStep, FinalStays
<1>4. \A t \in ChatStreams \ {s} : chatStreams'[t] = chatStreams[t]
  BY DEF StreamStep, StreamsAre
<1>5. chatStreams'[s].at = at /\ (at # "idle" => chatStreams'[s].request = r)
  BY DEF StreamStep, StreamsAre, RequestOf
<1>6. overlapping \subseteq overlapping'
  BY DEF StreamStep
<1>7. OneRuns'
  <2>1. ASSUME NEW t \in ChatStreams \ {s}, chatStreams[t].at \in Running, at \in Running,
               chatStreams[t].request = r, r \notin overlapping'
        PROVE  FALSE
    BY <1>1, <1>6, <2>1 DEF StreamStep, OneRuns, Alone, RequestOf
  <2>2. "idle" \notin Running
    BY DEF Running
  <2> QED
    BY <1>1, <1>4, <1>5, <1>6, <2>1, <2>2 DEF OneRuns, Alone, RequestOf
<1>8. ASSUME NEW t \in ChatStreams \ {s}
      PROVE  LET q == chatStreams[t].request IN
             /\ chatStreams[t].at # "idle" => q \in ChatRequests
             /\ chatStreams[t].at \in {"result", "replay"} \cup Running => answers'[q] # "none"
             /\ chatStreams[t].at = "replay" => answers'[q] \in Verdicts
             /\ chatStreams[t].at \in Unsettled /\ q \notin overlapping' => answers'[q] = "generating"
             /\ chatStreams[t].at = "completed" /\ q \notin overlapping' => answers'[q] = "answer"
  <2> DEFINE q == chatStreams[t].request
  <2>1. /\ chatStreams[t].at # "idle" => q \in ChatRequests
        /\ chatStreams[t].at \in {"result", "replay"} \cup Running => answers[q] # "none"
        /\ chatStreams[t].at = "replay" => answers[q] \in Verdicts
        /\ chatStreams[t].at \in Unsettled /\ q \notin overlapping => answers[q] = "generating"
        /\ chatStreams[t].at = "completed" /\ q \notin overlapping => answers[q] = "answer"
    BY <1>1 DEF StreamsInv, RequestOf, Alone
  <2>2. "answer" \in Verdicts /\ Unsettled \subseteq Running /\ "idle" \notin Running
    BY DEF Verdicts, Succeeding, Unsettled, Running
  <2>3. CASE q # r
    BY <1>6, <2>1, <2>2, <2>3 DEF StreamStep
  <2>4. CASE q = r
    <3>1. chatStreams[t].at \in Unsettled /\ q \notin overlapping' => answers'[q] = "generating"
      <4> SUFFICES ASSUME chatStreams[t].at \in Unsettled, q \notin overlapping', answers'[q] # "generating" PROVE FALSE
        OBVIOUS
      <4>1. chatStreams[s].at \in Running
        BY <1>6, <2>1, <2>4 DEF StreamStep
      <4> QED
        BY <1>1, <1>6, <2>2, <2>4, <4>1 DEF OneRuns, Alone, RequestOf
    <3> QED
      BY <1>6, <2>1, <2>2, <2>4, <3>1 DEF StreamStep
  <2> QED
    BY <2>3, <2>4
<1>9. StreamsInv'
  <2>1. ASSUME NEW t \in ChatStreams
        PROVE  /\ chatStreams'[t].at # "idle" => chatStreams'[t].request \in ChatRequests
               /\ chatStreams'[t].at \in {"result", "replay"} \cup Running => answers'[chatStreams'[t].request] # "none"
               /\ chatStreams'[t].at = "replay" => answers'[chatStreams'[t].request] \in Verdicts
               /\ chatStreams'[t].at \in Unsettled /\ chatStreams'[t].request \notin overlapping'
                    => answers'[chatStreams'[t].request] = "generating"
               /\ chatStreams'[t].at = "completed" /\ chatStreams'[t].request \notin overlapping'
                    => answers'[chatStreams'[t].request] = "answer"
    <3>1. CASE t # s
      BY <1>4, <1>8, <3>1
    <3>2. CASE t = s /\ at = "idle"
      BY <1>5, <3>2 DEF Running, Unsettled
    <3>3. CASE t = s /\ at # "idle"
      BY <1>1, <1>5, <3>3 DEF StreamStep
    <3> QED
      BY <3>1, <3>2, <3>3
  <2> QED
    BY <2>1 DEF StreamsInv, Alone, RequestOf
<1>10. AllHeardAsStored'
  <2> SUFFICES ASSUME NEW q \in ChatRequests, q \notin overlapping', NEW v \in heard'[q] PROVE Agrees(v, answers'[q])
    BY DEF AllHeardAsStored, Alone, HeardAsStored, Agrees
  <2>1. ASSUME v \in heard[q] PROVE Agrees(v, answers'[q])
    <3>1. Agrees(v, answers[q]) /\ v \in Failing \cup {"completed"}
      BY <1>1, <1>6, <2>1 DEF AllHeardAsStored, Alone, HeardAsStored, Agrees, ChatTypeOK
    <3>2. answers[q] \in Verdicts
      BY <3>1 DEF Agrees, Verdicts
    <3> QED
      BY <1>3, <3>1, <3>2 DEF FinalStays
  <2> QED
    BY <2>1 DEF StreamStep
<1> QED
  BY <1>2, <1>3, <1>7, <1>9, <1>10 DEF ChatInv

\* A stream that starts takes no part yet.
LEMMA ChatStartKeeps ==
  ASSUME ChatInv, NEW s \in ChatStreams, NEW r \in ChatRequests, ChatStream(s, r)
  PROVE  ChatInv' /\ FinalStays
<1> DEFINE new == [at |-> "begin", request |-> r]
<1>1. new \in StreamRecords /\ new.at = "begin" /\ new.request = r
  BY DEF StreamRecords, StreamPhases
<1>2. chatStreams' = [chatStreams EXCEPT ![s] = new] /\ UNCHANGED <<answers, heard, overlapping>>
  BY DEF ChatStream
<1> HIDE DEF new
<1>3. ChatTypeOK'
  BY <1>1, <1>2 DEF ChatInv, ChatTypeOK, StreamRecords
<1>4. /\ \A t \in ChatStreams \ {s} : chatStreams'[t] = chatStreams[t]
      /\ chatStreams'[s] = new
  BY <1>2 DEF ChatInv, ChatTypeOK
<1>5. StreamsInv' /\ OneRuns'
  BY <1>1, <1>2, <1>4 DEF ChatInv, StreamsInv, OneRuns, Alone, RequestOf, Running, Unsettled
<1>6. AllHeardAsStored' /\ FinalStays
  BY <1>2 DEF ChatInv, AllHeardAsStored, HeardAsStored, Alone, FinalStays
<1> QED
  BY <1>3, <1>5, <1>6 DEF ChatInv

\* Steps that change nothing but the stream's phase.
LEMMA ChatMoveKeeps ==
  ASSUME ChatInv, NEW s \in ChatStreams, NEW at \in StreamPhases, chatStreams[s].at # "idle", StreamsAre(s, at),
         UNCHANGED <<answers, heard, overlapping>>,
         \/ at = "idle"
         \/ chatStreams[s].at = "graph" /\ at \in {"answered", "citations", "asked", "failed", "timeout"}
         \/ chatStreams[s].at = "citations" /\ at = "answered"
         \/ chatStreams[s].at = "result" /\ at = "replay" /\ answers[RequestOf(s)] \in Verdicts
  PROVE  ChatInv' /\ FinalStays
<1>1. ChatTypeOK /\ StreamsInv
  BY DEF ChatInv
<1>2. StreamStep(s, at)
  BY <1>1 DEF StreamStep, ChatTypeOK, StreamsInv, Alone, Running, Unsettled
<1> QED
  BY <1>2, StreamStepKeeps

\* A statement that settles the request of a stream, if it is generating.
LEMMA SettlesIs ==
  ASSUME ChatInv, NEW s \in ChatStreams, chatStreams[s].at \in Running, NEW v \in Verdicts, Settles(s, v)
  PROVE  LET r == RequestOf(s) IN
         /\ answers' \in [ChatRequests -> {"none", "generating"} \cup Verdicts]
         /\ \A q \in ChatRequests \ {r} : answers'[q] = answers[q]
         /\ answers'[r] = IF answers[r] = "generating" THEN v ELSE answers[r]
         /\ answers[r] # "none" /\ answers'[r] # "none"
         /\ answers[r] \in Verdicts => answers'[r] = answers[r]
<1>1. RequestOf(s) \in ChatRequests /\ answers[RequestOf(s)] # "none"
  BY DEF ChatInv, StreamsInv, Running
<1>2. "none" \notin Verdicts /\ "generating" \notin Verdicts
  BY DEF Verdicts, Succeeding, Failing
<1> QED
  BY <1>1, <1>2 DEF ChatInv, ChatTypeOK, Settles

\* A verdict that a client hears.
LEMMA HearsIs ==
  ASSUME ChatInv, NEW s \in ChatStreams, chatStreams[s].at # "idle", NEW v \in Failing \cup {"completed"}, Hears(s, v)
  PROVE  LET r == RequestOf(s) IN
         /\ heard' \in [ChatRequests -> SUBSET (Failing \cup {"completed"})]
         /\ \A q \in ChatRequests \ {r} : heard'[q] = heard[q]
         /\ heard'[r] = heard[r] \cup {v}
<1>1. RequestOf(s) \in ChatRequests
  BY DEF ChatInv, StreamsInv
<1> QED
  BY <1>1 DEF ChatInv, ChatTypeOK, Hears

\* Every step of a stream keeps the invariant and the final messages.
LEMMA ChatStepKeeps == ASSUME ChatInv, NEW s \in ChatStreams, ChatStep(s) PROVE ChatInv' /\ FinalStays
<1> USE DEF ChatInv
<1> DEFINE r == RequestOf(s)
<1>0. ChatTypeOK /\ StreamsInv /\ ("completed" \notin Verdicts)
  BY DEF Verdicts, Succeeding, Failing
<1>1. CASE StreamBreaks(s)
  BY <1>0, <1>1, EndsAre, ChatMoveKeeps DEF StreamBreaks, StreamPhases
<1>2. CASE BeginChat(s)
  <2>1. chatStreams[s].at = "begin" /\ StreamsAre(s, "result")
    BY <1>0, <1>2, GoesAre DEF BeginChat, StreamPhases
  <2>2. r \in ChatRequests
    BY <1>0, <2>1 DEF StreamsInv
  <2>3. /\ answers' = [answers EXCEPT ![r] = IF answers[r] = "none" THEN "generating" ELSE answers[r]]
        /\ UNCHANGED <<heard, overlapping>>
    BY <1>2 DEF BeginChat
  <2>4. "none" \notin Verdicts
    BY DEF Verdicts, Succeeding, Failing
  <2> HIDE DEF r
  <2>5. /\ answers' \in [ChatRequests -> {"none", "generating"} \cup Verdicts]
        /\ \A q \in ChatRequests \ {r} : answers'[q] = answers[q]
        /\ answers'[r] = IF answers[r] = "none" THEN "generating" ELSE answers[r]
    BY <1>0, <2>2, <2>3 DEF ChatTypeOK
  <2>6. StreamStep(s, "result")
    BY <1>0, <2>1, <2>2, <2>3, <2>4, <2>5 DEF r, StreamStep, ChatTypeOK, Running, Unsettled
  <2> QED
    BY <2>1, <2>6, StreamStepKeeps DEF StreamPhases
<1>3. CASE GetChatResult(s)
  <2>1. CASE StreamGoes(s, "result", "replay") /\ answers[r] \in Verdicts /\ UNCHANGED <<overlapping, answers, heard>>
    <3>1. chatStreams[s].at = "result" /\ StreamsAre(s, "replay")
      BY <1>0, <2>1, GoesAre DEF StreamPhases
    <3> QED
      BY <2>1, <3>1, ChatMoveKeeps DEF StreamPhases
  <2>2. CASE /\ StreamGoes(s, "result", "graph")
             /\ answers[r] = "generating"
             /\ UNCHANGED <<answers, heard>>
             /\ overlapping' = IF \E t \in ChatStreams : chatStreams[t].at \in Running /\ RequestOf(t) = r
                                 THEN overlapping \cup {r} ELSE overlapping
    <3>1. chatStreams[s].at = "result" /\ StreamsAre(s, "graph") /\ "graph" \in StreamPhases
      BY <1>0, <2>2, GoesAre DEF StreamPhases, Running
    <3>2. r \in ChatRequests
      BY <1>0, <3>1 DEF StreamsInv
    <3>3. /\ overlapping' \subseteq ChatRequests /\ overlapping \subseteq overlapping'
          /\ \/ r \in overlapping'
             \/ \A t \in ChatStreams \ {s} : ~(chatStreams[t].at \in Running /\ RequestOf(t) = r)
      BY <1>0, <2>2, <3>2 DEF ChatTypeOK
    <3>4. StreamStep(s, "graph")
      BY <1>0, <2>2, <3>1, <3>2, <3>3 DEF StreamStep, ChatTypeOK, Running, Unsettled
    <3> QED
      BY <3>1, <3>4, StreamStepKeeps
  <2> QED
    BY <1>3, <2>1, <2>2 DEF GetChatResult
<1>4. CASE ReplayChat(s)
  <2> DEFINE v == IF answers[r] \in Succeeding THEN "completed" ELSE answers[r]
  <2>1. chatStreams[s].at = "replay" /\ StreamsAre(s, "idle") /\ "idle" \in StreamPhases
    BY <1>0, <1>4, EndsAre DEF ReplayChat, StreamEnds, StreamPhases
  <2>2. r \in ChatRequests /\ answers[r] \in Verdicts
    BY <1>0, <2>1 DEF StreamsInv
  <2>3. v \in Failing \cup {"completed"} /\ Agrees(v, answers[r])
    BY <2>2 DEF Verdicts, Succeeding, Failing, Agrees
  <2>4. Hears(s, v) /\ UNCHANGED <<answers, overlapping>>
    BY <1>4 DEF ReplayChat
  <2> HIDE DEF v
  <2>5. /\ heard' \in [ChatRequests -> SUBSET (Failing \cup {"completed"})]
        /\ \A q \in ChatRequests \ {r} : heard'[q] = heard[q]
        /\ heard'[r] = heard[r] \cup {v}
    BY <2>1, <2>3, <2>4, HearsIs
  <2>6. StreamStep(s, "idle")
    BY <1>0, <2>1, <2>2, <2>3, <2>4, <2>5 DEF StreamStep, ChatTypeOK, Running, Unsettled
  <2> QED
    BY <2>1, <2>6, StreamStepKeeps
<1>5. CASE GraphRuns(s)
  <2>1. PICK to \in {"answered", "citations", "asked", "failed", "timeout"} :
          StreamGoes(s, "graph", to) /\ UNCHANGED <<answers, heard, overlapping>>
    BY <1>5 DEF GraphRuns
  <2>2. to \in StreamPhases /\ chatStreams[s].at = "graph" /\ StreamsAre(s, to)
    BY <1>0, <2>1, GoesAre DEF StreamPhases, Running
  <2> QED
    BY <2>1, <2>2, ChatMoveKeeps
<1>6. CASE AcceptCitations(s)
  <2>1. chatStreams[s].at = "citations" /\ StreamsAre(s, "answered") /\ "answered" \in StreamPhases
    BY <1>0, <1>6, GoesAre DEF AcceptCitations, StreamPhases, Running
  <2> QED
    BY <1>6, <2>1, ChatMoveKeeps DEF AcceptCitations
<1>7. ASSUME NEW v \in Verdicts, NEW at \in StreamPhases, StreamsAre(s, at), Settles(s, v),
             UNCHANGED overlapping,
             \/ UNCHANGED heard
             \/ v \in Failing /\ chatStreams[s].at \in Unsettled /\ Hears(s, v),
             chatStreams[s].at \in Running,
             \/ at \in {"idle", "failed"}
             \/ at = "completed" /\ v = "answer" /\ chatStreams[s].at \in Unsettled
      PROVE  ChatInv' /\ FinalStays
  <2>1. chatStreams[s].at # "idle" /\ r \in ChatRequests
    BY <1>0, <1>7 DEF StreamsInv, Running
  <2>2. /\ answers' \in [ChatRequests -> {"none", "generating"} \cup Verdicts]
        /\ \A q \in ChatRequests \ {r} : answers'[q] = answers[q]
        /\ answers'[r] = IF answers[r] = "generating" THEN v ELSE answers[r]
        /\ answers[r] # "none" /\ answers'[r] # "none"
        /\ answers[r] \in Verdicts => answers'[r] = answers[r]
    BY <1>7, SettlesIs
  <2>3. chatStreams[s].at \in Unsettled /\ r \notin overlapping => answers[r] = "generating"
    BY <1>0 DEF StreamsInv, Alone
  <2>4. /\ heard' \in [ChatRequests -> SUBSET (Failing \cup {"completed"})]
        /\ \A q \in ChatRequests \ {r} : heard'[q] = heard[q]
        /\ \A u \in heard'[r] : u \in heard[r] \/ (r \notin overlapping' => Agrees(u, answers'[r]))
    <3>1. CASE UNCHANGED heard
      BY <1>0, <3>1 DEF ChatTypeOK
    <3>2. CASE v \in Failing /\ chatStreams[s].at \in Unsettled /\ Hears(s, v)
      <4>1. /\ heard' \in [ChatRequests -> SUBSET (Failing \cup {"completed"})]
            /\ \A q \in ChatRequests \ {r} : heard'[q] = heard[q]
            /\ heard'[r] = heard[r] \cup {v}
        BY <2>1, <3>2, HearsIs
      <4>2. r \notin overlapping' => Agrees(v, answers'[r])
        BY <1>7, <2>2, <2>3, <3>2 DEF Agrees, Failing
      <4> QED
        BY <4>1, <4>2
    <3> QED
      BY <1>7, <3>1, <3>2
  <2>5. /\ at \in Unsettled => FALSE
        /\ at # "replay"
        /\ at = "completed" /\ r \notin overlapping' => answers'[r] = "answer"
    BY <1>7, <2>2, <2>3 DEF Unsettled
  <2> HIDE DEF r
  <2>6. StreamStep(s, at)
    BY <1>0, <1>7, <2>1, <2>2, <2>4, <2>5 DEF r, StreamStep, ChatTypeOK
  <2> QED
    BY <2>1, <2>6, StreamStepKeeps
<1>8. CASE RefuseCitations(s)
  <2>1. chatStreams[s].at = "citations" /\ StreamsAre(s, "failed") /\ "failed" \in StreamPhases
    BY <1>0, <1>8, GoesAre DEF RefuseCitations, StreamPhases, Running
  <2>2. "CITATION_NOT_FOUND" \in Verdicts /\ "CITATION_NOT_FOUND" \in Failing /\ "citations" \in Running /\ "citations" \in Unsettled
    BY DEF Verdicts, Failing, Running, Unsettled
  <2> QED
    BY <1>7, <1>8, <2>1, <2>2 DEF RefuseCitations
<1>9. CASE CompleteChat(s)
  <2>1. CASE StreamGoes(s, "answered", "completed") /\ Settles(s, "answer")
    <3>1. chatStreams[s].at = "answered" /\ StreamsAre(s, "completed") /\ "completed" \in StreamPhases
      BY <1>0, <2>1, GoesAre DEF StreamPhases, Running
    <3>2. "answer" \in Verdicts /\ "answered" \in Running /\ "answered" \in Unsettled
      BY DEF Verdicts, Succeeding, Running, Unsettled
    <3> QED
      BY <1>7, <1>9, <2>1, <3>1, <3>2 DEF CompleteChat
  <2>2. CASE StreamEnds(s, "asked") /\ Settles(s, "question")
    <3>1. chatStreams[s].at = "asked" /\ StreamsAre(s, "idle") /\ "idle" \in StreamPhases
      BY <1>0, <2>2, EndsAre DEF StreamEnds, StreamPhases
    <3>2. "question" \in Verdicts /\ "asked" \in Running
      BY DEF Verdicts, Succeeding, Running
    <3> QED
      BY <1>7, <1>9, <2>2, <3>1, <3>2 DEF CompleteChat
  <2> QED
    BY <1>9, <2>1, <2>2 DEF CompleteChat
<1>10. CASE FailChat(s)
  <2>1. chatStreams[s].at = "failed" /\ StreamsAre(s, "idle") /\ "idle" \in StreamPhases
    BY <1>0, <1>10, EndsAre DEF FailChat, StreamEnds, StreamPhases
  <2>2. "AGENT_FAILED" \in Verdicts /\ "failed" \in Running
    BY DEF Verdicts, Failing, Running
  <2> QED
    BY <1>7, <1>10, <2>1, <2>2 DEF FailChat
<1>11. CASE ChatTimesOut(s)
  <2>1. chatStreams[s].at = "timeout" /\ StreamsAre(s, "idle") /\ "idle" \in StreamPhases
    BY <1>0, <1>11, EndsAre DEF ChatTimesOut, StreamEnds, StreamPhases
  <2>2. "MODEL_TIMEOUT" \in Verdicts /\ "MODEL_TIMEOUT" \in Failing /\ "timeout" \in Running /\ "timeout" \in Unsettled
    BY DEF Verdicts, Failing, Running, Unsettled
  <2> QED
    BY <1>7, <1>11, <2>1, <2>2 DEF ChatTimesOut
<1>12. CASE SendCompleted(s)
  <2>1. chatStreams[s].at = "completed" /\ StreamsAre(s, "idle") /\ "idle" \in StreamPhases
    BY <1>0, <1>12, EndsAre DEF SendCompleted, StreamEnds, StreamPhases
  <2>2. r \in ChatRequests /\ (r \notin overlapping => answers[r] = "answer") /\ "answer" \in Succeeding
    BY <1>0, <2>1 DEF StreamsInv, Alone, Succeeding
  <2>3. UNCHANGED <<answers, overlapping>> /\ Hears(s, "completed")
    BY <1>12 DEF SendCompleted
  <2>4. /\ heard' \in [ChatRequests -> SUBSET (Failing \cup {"completed"})]
        /\ \A q \in ChatRequests \ {r} : heard'[q] = heard[q]
        /\ heard'[r] = heard[r] \cup {"completed"}
    BY <2>1, <2>3, HearsIs
  <2>5. StreamStep(s, "idle")
    BY <1>0, <2>1, <2>2, <2>3, <2>4 DEF StreamStep, ChatTypeOK, Running, Unsettled, Agrees
  <2> QED
    BY <2>1, <2>5, StreamStepKeeps
<1> QED
  BY <1>1, <1>2, <1>3, <1>4, <1>5, <1>6, <1>8, <1>9, <1>10, <1>11, <1>12, ChatStartKeeps DEF ChatStep

\* So does every step, or none.
LEMMA ChatNextInv == ASSUME ChatInv, [ChatNext]_chatVars PROVE ChatInv' /\ FinalStays
<1>1. CASE UNCHANGED chatVars
  BY <1>1 DEF chatVars, ChatInv, ChatTypeOK, StreamsInv, OneRuns, AllHeardAsStored, HeardAsStored, Alone, RequestOf,
              FinalStays
<1>2. CASE ChatNext
  BY <1>2, ChatStepKeeps DEF ChatNext
<1> QED
  BY <1>1, <1>2

\* Hence the invariant holds always.
LEMMA ChatAlways == ChatSpec => []ChatInv
<1>1. ChatInv /\ [ChatNext]_chatVars => ChatInv'
  BY ChatNextInv
<1> QED
  BY <1>1, ChatInitInv, PTL DEF ChatSpec

\* Messages, streams and what is heard keep their types.
THEOREM ChatTypes == ChatSpec => []ChatTypeOK
<1>1. ChatInv => ChatTypeOK
  BY DEF ChatInv
<1> QED
  BY <1>1, ChatAlways, PTL

\* However often a question is sent, breaks off, times out or fails, its final
\* message stays as it is, and clients hear what is stored unless its graph ran
\* in two streams at once.
THEOREM ChatIsKept == ChatSpec => ChatKept
<1> DEFINE Kept == \A r \in ChatRequests :
                     /\ answers[r] \in Verdicts => answers'[r] = answers[r]
                     /\ r \notin overlapping' => HeardAsStored(r)'
<1>1. ASSUME ChatInv, [ChatNext]_chatVars PROVE Kept
  <2>1. ChatInv' /\ FinalStays
    BY <1>1, ChatNextInv
  <2> QED
    BY <2>1 DEF ChatInv, AllHeardAsStored, Alone, HeardAsStored, FinalStays
<1> QED
  BY <1>1, ChatAlways, PTL DEF ChatSpec, ChatKept

-----------------------------------------------------------------------------
(***************************************************************************)
(* The HTTP interface.  What is known of a call at each stage: nothing was *)
(* done for it before it is at the server, the message there acts for the  *)
(* caller, and what a reply says together with the status that its         *)
(* endpoint gives it is true.  A 401 is answered only where nothing was    *)
(* done, so that the call may be sent again.                               *)
(***************************************************************************)
Calls == [endpoint : ApiEndpoints, json : BOOLEAN, ids : BOOLEAN, names : ApiUsers]

MethodOf(endpoint) == IF endpoint \in Streams THEN "GetDocumentStatus" ELSE endpoint

HTTPStatus(endpoint, n) ==
  CASE endpoint = "SendSMSCode" -> smsCodeHTTPStatus(n)
    [] endpoint = "SMSLogin" -> smsLoginHTTPStatus(n)
    [] endpoint \in {"RefreshToken", "Logout"} -> tokenSessionHTTPStatus(n)
    [] endpoint \in {"ListDietaryPreferences", "ReplaceDietaryPreferences"} ->
         dietaryPreferenceHTTPStatus(n)
    [] endpoint \in Created -> IF n = 0 THEN 201 ELSE familyHTTPStatus(n)
    [] endpoint \in FamilyEndpoints \ (Created \cup {"GetMyFamily"}) -> familyHTTPStatus(n)
    [] endpoint \in {"GetDocumentViewTicket", "DeleteDocument"} -> ticketHTTPStatus(n)
    [] endpoint = "GetDishDetail" -> dishDetailHTTPStatus(n)
    [] OTHER -> 200

NotYet == \A u \in ApiUsers \cup {Nobody} : done[u] = 0

Sound(status, n) ==
  /\ status \in 200..299 /\ n = 0 => done[Caller] = 1
  /\ status = 401 => NotYet
  /\ refused # "none" /\ call.endpoint \notin Streams =>
       /\ NotYet /\ n # 0
       /\ refused # "ErrLostRace" => n # CodeInternalError /\ status < 500

ApiInv ==
  /\ ApiTypeOK
  /\ ActsForCaller
  /\ AtMostOnce
  /\ stage # "app" => call \in Calls
  /\ stage \in {"app", "gateway", "handler"} => NotYet /\ refused = "none"
  /\ stage = "rpc" /\ call.endpoint \notin Streams => NotYet /\ refused = "none"
  /\ stage \in {"rpc", "reply"} => message.method = MethodOf(call.endpoint) /\ Acting(message) = Caller
  /\ stage = "reply" /\ call.endpoint \notin Streams => Sound(HTTPStatus(call.endpoint, reply), reply)
  /\ stage = "answered" => Sound(answer.status, answer.code)

\* What the steps of any endpoint come to.  A handler answers 400, or sends a
\* message that acts for the caller ...
Handled ==
  /\ stage = "handler"
  /\ call.endpoint \in ApiEndpoints
  /\ \/ /\ stage' = "rpc"
        /\ message'.method = MethodOf(call.endpoint)
        /\ message'.method \in ApiEndpoints \cup {"GetDocumentStatus"}
        /\ Acting(message') = Caller
        /\ UNCHANGED answer
     \/ \E bad \in Nat \ {0} : Answers(400, bad) /\ UNCHANGED message
  /\ UNCHANGED <<signedIn, token, call, retried, reply, done, refused>>

\* ... the server carries it out, refuses it with a code that has a status, or
\* fails with a code whose status is not 401 ...
Served ==
  /\ stage = "rpc"
  /\ call.endpoint \notin Streams
  /\ stage' = "reply"
  /\ reply' \in Nat
  /\ \/ CarriedOut(1) /\ reply' = 0 /\ UNCHANGED refused
     \/ /\ reply' # 0
        /\ refused' # "ErrLostRace" =>
             reply' # CodeInternalError /\ HTTPStatus(call.endpoint, reply') < 500
        /\ UNCHANGED done
     \/ /\ reply' # 0
        /\ HTTPStatus(call.endpoint, reply') # 401
        /\ \E times \in 0..1 : CarriedOut(times)
        /\ UNCHANGED refused
  /\ UNCHANGED <<signedIn, token, call, retried, message, answer>>

Failed == \E status \in {500, 503} : RpcFails(ApiEndpoints \ Streams, status)

Responded ==
  /\ stage = "reply"
  /\ call.endpoint \notin Streams
  /\ Answers(HTTPStatus(call.endpoint, reply), reply)
  /\ UNCHANGED <<signedIn, token, call, retried, message, reply, done, refused>>

Endpoints == AuthEndpoints \cup FamilyEndpoints \cup KnowledgeEndpoints \cup ChatEndpoints \cup DishEndpoints

\* A status is a number, and success is never answered with 401.
LEMMA StatusIsNat ==
  \A endpoint : \A n \in Nat : HTTPStatus(endpoint, n) \in Nat /\ HTTPStatus(endpoint, 0) # 401
<1> SUFFICES ASSUME NEW endpoint, NEW n \in Nat
             PROVE  HTTPStatus(endpoint, n) \in Nat /\ HTTPStatus(endpoint, 0) # 401
  OBVIOUS
<1> DEFINE In(m, f) == m \in Nat /\ f # 401
<1>1. In(smsCodeHTTPStatus(n), smsCodeHTTPStatus(0))
  BY DEF smsCodeHTTPStatus
<1>2. In(smsLoginHTTPStatus(n), smsLoginHTTPStatus(0))
  BY DEF smsLoginHTTPStatus
<1>3. In(tokenSessionHTTPStatus(n), tokenSessionHTTPStatus(0))
  BY DEF tokenSessionHTTPStatus
<1>4. In(dietaryPreferenceHTTPStatus(n), dietaryPreferenceHTTPStatus(0))
  BY DEF dietaryPreferenceHTTPStatus
<1>5. In(familyHTTPStatus(n), familyHTTPStatus(0))
  BY DEF familyHTTPStatus
<1>6. In(ticketHTTPStatus(n), ticketHTTPStatus(0))
  BY DEF ticketHTTPStatus
<1>7. In(dishDetailHTTPStatus(n), dishDetailHTTPStatus(0))
  BY DEF dishDetailHTTPStatus
<1>8. ASSUME NEW c PROVE HTTPStatus(endpoint, c) \in
        {smsCodeHTTPStatus(c), smsLoginHTTPStatus(c), tokenSessionHTTPStatus(c),
         dietaryPreferenceHTTPStatus(c), familyHTTPStatus(c), ticketHTTPStatus(c),
         dishDetailHTTPStatus(c), 200, 201}
  BY DEF HTTPStatus
<1>9. HTTPStatus(endpoint, n) \in Nat
  BY <1>1, <1>2, <1>3, <1>4, <1>5, <1>6, <1>7, <1>8
<1>10. HTTPStatus(endpoint, 0) # 401
  BY <1>1, <1>2, <1>3, <1>4, <1>5, <1>6, <1>7, <1>8
<1> QED
  BY <1>9, <1>10

\* A handler's step keeps the invariant.
LEMMA HandledKeeps == ASSUME ApiInv, Handled PROVE ApiInv'
<1> USE DEF ApiInv, Handled, Answers, NotYet, Caller
<1>1. ApiTypeOK'
  BY DEF ApiTypeOK
<1>2. ActsForCaller' /\ AtMostOnce'
  BY DEF ActsForCaller, AtMostOnce
<1>3. CASE stage' = "rpc"
  <2>1. Acting(message)' = Caller'
    BY <1>3 DEF Acting
  <2> QED
    BY <1>1, <1>2, <1>3, <2>1 DEF MethodOf
<1>4. CASE stage' = "answered"
  BY <1>1, <1>2, <1>4 DEF Sound
<1> QED
  BY <1>3, <1>4

\* A server's step keeps the invariant.
LEMMA ServedKeeps == ASSUME ApiInv, Served PROVE ApiInv'
<1> DEFINE all == ApiUsers \cup {Nobody}
<1>1. Caller \in all /\ done \in [all -> Nat] /\ Acting(message) = Caller /\ NotYet /\ refused = "none"
  BY DEF ApiInv, Served, ApiTypeOK, Caller
<1>2. PICK times \in 0..1 : /\ done' = [done EXCEPT ![Caller] = @ + times]
                          /\ \/ times = 1 /\ reply' = 0 /\ UNCHANGED refused
                             \/ /\ times = 0 /\ reply' # 0
                                /\ refused' # "ErrLostRace" =>
                                     /\ reply' # CodeInternalError
                                     /\ HTTPStatus(call.endpoint, reply') < 500
                             \/ reply' # 0 /\ HTTPStatus(call.endpoint, reply') # 401 /\ UNCHANGED refused
  <2>1. CASE CarriedOut(1) /\ reply' = 0 /\ UNCHANGED refused
    BY <1>1, <2>1 DEF CarriedOut
  <2>2. CASE /\ reply' # 0
             /\ refused' # "ErrLostRace" =>
                  reply' # CodeInternalError /\ HTTPStatus(call.endpoint, reply') < 500
             /\ UNCHANGED done
    <3>1. done' = [done EXCEPT ![Caller] = @ + 0]
      BY <1>1, <2>2
    <3> WITNESS 0 \in 0..1
    <3> QED
      BY <2>2, <3>1
  <2>3. CASE /\ reply' # 0
             /\ HTTPStatus(call.endpoint, reply') # 401
             /\ \E times \in 0..1 : CarriedOut(times)
             /\ UNCHANGED refused
    BY <1>1, <2>3 DEF CarriedOut
  <2> QED
    BY <2>1, <2>2, <2>3 DEF Served
<1>3. done' \in [all -> Nat] /\ \A u \in all : done'[u] = IF u = Caller THEN times ELSE 0
  BY <1>1, <1>2 DEF NotYet
<1>4. Caller' = Caller /\ Acting(message)' = Acting(message) /\ call' = call /\ stage' = "reply"
  BY DEF Served, Caller, Acting
<1>5. ApiTypeOK'
  BY <1>3 DEF ApiInv, ApiTypeOK, Served
<1>6. ActsForCaller' /\ AtMostOnce'
  BY <1>3, <1>4 DEF ActsForCaller, AtMostOnce
<1>7. HTTPStatus(call.endpoint, reply') \in Nat /\ HTTPStatus(call.endpoint, 0) # 401
  BY StatusIsNat DEF Served
<1>8. Sound(HTTPStatus(call.endpoint, reply), reply)'
  BY <1>1, <1>2, <1>3, <1>4, <1>7 DEF Sound, NotYet
<1> QED
  BY <1>1, <1>4, <1>5, <1>6, <1>8 DEF ApiInv, Served

\* A call that the handler gives up may have been carried out, or not.
LEMMA FailedKeeps == ASSUME ApiInv, Failed PROVE ApiInv'
<1> DEFINE all == ApiUsers \cup {Nobody}
<1>1. PICK status \in {500, 503} : RpcFails(ApiEndpoints \ Streams, status)
  BY DEF Failed
<1>2. Caller \in all /\ done \in [all -> Nat] /\ Acting(message) = Caller /\ NotYet /\ refused = "none"
  BY <1>1 DEF ApiInv, RpcFails, ApiTypeOK, Caller
<1>3. PICK times \in 0..1 : done' = [done EXCEPT ![Caller] = @ + times]
  BY <1>1, <1>2 DEF RpcFails, CarriedOut
<1>4. done' \in [all -> Nat] /\ \A u \in all : done'[u] = IF u = Caller THEN times ELSE 0
  BY <1>2, <1>3 DEF NotYet
<1>5. Caller' = Caller
  BY <1>1 DEF RpcFails, Caller
<1>6. ApiTypeOK'
  BY <1>1, <1>4 DEF ApiInv, ApiTypeOK, RpcFails, Answers, CodeInternalError
<1>7. ActsForCaller' /\ AtMostOnce'
  BY <1>4, <1>5 DEF ActsForCaller, AtMostOnce
<1>8. Sound(answer.status, answer.code)'
  BY <1>1, <1>2 DEF Sound, RpcFails, Answers
<1> QED
  BY <1>1, <1>6, <1>7, <1>8 DEF ApiInv, RpcFails, Answers

\* The answer is as sound as the reply.
LEMMA RespondedKeeps == ASSUME ApiInv, Responded PROVE ApiInv'
<1> USE DEF ApiInv, Responded, Answers
<1>1. ApiTypeOK'
  BY StatusIsNat DEF ApiTypeOK
<1>2. ActsForCaller' /\ AtMostOnce'
  BY DEF ActsForCaller, AtMostOnce, Caller
<1>3. Sound(answer.status, answer.code)'
  BY DEF Sound, NotYet, Caller
<1> QED
  BY <1>1, <1>2, <1>3

\* The handlers of the AuthService.
LEMMA AuthHandled == ASSUME HandleAuthCall, ~UploadAvatar PROVE Handled
<1> USE DEF Handle, HandleOr, Handled, MethodOf, Streams, ApiEndpoints, AuthEndpoints, Acting, Caller,
            Public, CodeInternalError
<1>1. ASSUME \/ HandleSendSMSCode \/ HandleSMSLogin \/ HandleRefreshToken \/ HandleLogout
              \/ HandleRegister \/ HandleLogin
      PROVE  Handled
  BY <1>1
  DEF HandleSendSMSCode, SendSMSCodeRequest, HandleSMSLogin, SMSLoginRequest, HandleRefreshToken,
      RefreshTokenRequest, HandleLogout, LogoutRequest, HandleRegister, RegisterRequest,
      HandleLogin, LoginRequest
<1>2. ASSUME \/ HandleGetProfile \/ HandleUpdateProfile \/ HandleListDietaryPreferences
              \/ HandleReplaceDietaryPreferences
      PROVE  Handled
  BY <1>2
  DEF HandleGetProfile, GetProfileRequest, HandleUpdateProfile, UpdateProfileRequest,
      HandleListDietaryPreferences, ListDietaryPreferencesRequest, HandleReplaceDietaryPreferences,
      ReplaceDietaryPreferencesRequest
<1> HIDE DEF Handled
<1> QED
  BY <1>1, <1>2 DEF HandleAuthCall

\* The handlers of the FamilyService.
LEMMA FamilyHandled == ASSUME HandleFamilyCall PROVE Handled
<1> USE DEF Handle, HandleOr, Handled, MethodOf, Streams, ApiEndpoints, FamilyEndpoints, Acting, Caller,
            Public, CodeInternalError
<1>1. ASSUME \/ HandleGetMyFamily \/ HandleGetDietaryProfile \/ HandleSaveDietaryProfile
              \/ HandleCreateFamily \/ HandleUpdateFamily \/ HandleJoinFamily
      PROVE  Handled
  BY <1>1
  DEF HandleGetMyFamily, GetMyFamilyRequest, HandleGetDietaryProfile, GetDietaryProfileRequest,
      HandleSaveDietaryProfile, SaveDietaryProfileRequest, HandleCreateFamily, CreateFamilyRequest,
      HandleUpdateFamily, UpdateFamilyRequest, HandleJoinFamily, JoinFamilyRequest
<1>2. ASSUME \/ HandleLeaveFamily \/ HandleDissolveFamily \/ HandleListMembers
              \/ HandleUpdateMember \/ HandleRemoveMember \/ HandleResetInviteCode
      PROVE  Handled
  BY <1>2
  DEF HandleLeaveFamily, LeaveFamilyRequest, HandleDissolveFamily, DissolveFamilyRequest,
      HandleListMembers, ListMembersRequest, HandleUpdateMember, UpdateMemberRequest,
      HandleRemoveMember, RemoveMemberRequest, HandleResetInviteCode, ResetInviteCodeRequest
<1>3. ASSUME \/ HandleCreateMealPlan \/ HandleListMealPlans \/ HandleUpdateMealPlan
              \/ HandleUpsertMealPlanRating \/ HandleListMealPlanRatings \/ HandleDeleteMealPlan
      PROVE  Handled
  BY <1>3
  DEF HandleCreateMealPlan, CreateMealPlanRequest, HandleListMealPlans, ListMealPlansRequest,
      HandleUpdateMealPlan, UpdateMealPlanRequest, HandleUpsertMealPlanRating,
      UpsertMealPlanRatingRequest, HandleListMealPlanRatings, ListMealPlanRatingsRequest,
      HandleDeleteMealPlan, DeleteMealPlanRequest
<1>4. ASSUME \/ HandleGenerateShoppingList \/ HandleListShoppingLists \/ HandleGetShoppingList
              \/ HandleUpdateShoppingItemPurchased \/ HandleAddManualShoppingItem
              \/ HandleDeleteShoppingItem
      PROVE  Handled
  BY <1>4
  DEF HandleGenerateShoppingList, GenerateShoppingListRequest, HandleListShoppingLists,
      ListShoppingListsRequest, HandleGetShoppingList, GetShoppingListRequest,
      HandleUpdateShoppingItemPurchased, UpdateShoppingItemPurchasedRequest,
      HandleAddManualShoppingItem, AddManualShoppingItemRequest, HandleDeleteShoppingItem,
      DeleteShoppingItemRequest
<1> HIDE DEF Handled
<1> QED
  BY <1>1, <1>2, <1>3, <1>4 DEF HandleFamilyCall

HandleKnowledgeCall ==
  \/ HandleEnsurePersonalKnowledgeBase \/ HandleListKnowledgeDocuments \/ HandleCreateUploadTicket
  \/ HandleCompleteUpload \/ HandleDeleteDocument \/ HandleGetDocumentViewTicket
  \/ HandleOr(EndOfStream, "DocumentStatusEvents", call.ids, GetDocumentStatusRequest(Caller))

\* The handlers of the KnowledgeService.
LEMMA KnowledgeHandled == ASSUME HandleKnowledgeCall PROVE Handled
<1> USE DEF Handle, HandleOr, Handled, MethodOf, Streams, ApiEndpoints, KnowledgeEndpoints, Acting, Caller,
            Public, CodeInternalError
<1>1. ASSUME \/ HandleEnsurePersonalKnowledgeBase \/ HandleListKnowledgeDocuments
              \/ HandleCreateUploadTicket \/ HandleCompleteUpload \/ HandleDeleteDocument
              \/ HandleGetDocumentViewTicket
      PROVE  Handled
  BY <1>1
  DEF HandleEnsurePersonalKnowledgeBase, EnsurePersonalKnowledgeBaseRequest,
      HandleListKnowledgeDocuments, ListKnowledgeDocumentsRequest, HandleCreateUploadTicket,
      CreateUploadTicketRequest, HandleCompleteUpload, CompleteUploadRequest, HandleDeleteDocument,
      DeleteDocumentRequest, HandleGetDocumentViewTicket, GetDocumentViewTicketRequest
<1>2. HandleOr(EndOfStream, "DocumentStatusEvents", call.ids, GetDocumentStatusRequest(Caller)) => Handled
  BY DEF EndOfStream, GetDocumentStatusRequest
<1> HIDE DEF Handled
<1> QED
  BY <1>1, <1>2 DEF HandleKnowledgeCall

HandleDishCall ==
  HandleListCategories \/ HandleListDishesByCategory \/ HandleSearchDishes \/ HandleGetDishDetail

\* The handlers of the DishService.
LEMMA DishHandled == ASSUME HandleDishCall PROVE Handled
<1> USE DEF Handle, HandleOr, Handled, MethodOf, Streams, ApiEndpoints, DishEndpoints, Acting, Caller,
            Public, CodeInternalError
<1> QED
  BY DEF HandleDishCall, HandleListCategories, ListCategoriesRequest, HandleListDishesByCategory,
         ListDishesByCategoryRequest, HandleSearchDishes, SearchDishesRequest, HandleGetDishDetail,
         GetDishDetailRequest

\* A refusal with this error, of this method, is told as it should be.
Named(method, codes, e) ==
  /\ CodeOf(codes, e) \in Nat \ {0}
  /\ e # "ErrLostRace" =>
       CodeOf(codes, e) # CodeInternalError /\ HTTPStatus(method, CodeOf(codes, e)) < 500

\* A server whose refusals have codes and statuses, and whose failures are not
\* answered with 401, keeps its promise.
LEMMA ServesIs ==
  ASSUME ApiInv, NEW method \in Endpoints, NEW refusals, NEW outages, NEW codes,
         Serves(method, refusals, outages, codes),
         \A e \in refusals : Named(method, codes, e),
         \A e \in outages : /\ CodeOf(codes, e) \in Nat \ {0}
                            /\ HTTPStatus(method, CodeOf(codes, e)) # 401
  PROVE  Served
<1>1. method # "GetDocumentStatus" /\ method \notin Streams
  BY DEF Endpoints, AuthEndpoints, FamilyEndpoints, KnowledgeEndpoints, ChatEndpoints, DishEndpoints, Streams
<1>2. call.endpoint = method
  BY <1>1 DEF ApiInv, Serves, MethodOf
<1>3. CASE CarriedOut(1) /\ reply' = 0 /\ UNCHANGED refused
  BY <1>1, <1>2, <1>3 DEF Serves, Served
<1>4. CASE refused' \in refusals /\ reply' = CodeOf(codes, refused') /\ UNCHANGED done
  BY <1>1, <1>2, <1>4 DEF Serves, Served, Named
<1>5. CASE /\ \E error \in outages : reply' = CodeOf(codes, error)
           /\ \E times \in 0..1 : CarriedOut(times)
           /\ UNCHANGED refused
  BY <1>1, <1>2, <1>5 DEF Serves, Served
<1> QED
  BY <1>3, <1>4, <1>5 DEF Serves

FamilyCodes == {1004} \cup 2001..2010 \cup 2101..2112 \cup 2201..2205

\* Every code of a family, a meal plan or a shopping list has a status.
LEMMA FamilyStatus ==
  \A method \in FamilyEndpoints :
    /\ \A n \in FamilyCodes : HTTPStatus(method, n) < 500
    /\ HTTPStatus(method, CodeInternalError) # 401
<1>1. ASSUME NEW method \in FamilyEndpoints, NEW n
      PROVE  \/ HTTPStatus(method, n) = 200
             \/ HTTPStatus(method, n) = IF n = 0 THEN 201 ELSE familyHTTPStatus(n)
             \/ HTTPStatus(method, n) = familyHTTPStatus(n)
  BY DEF HTTPStatus, FamilyEndpoints, Created
<1>2. \A n \in FamilyCodes : familyHTTPStatus(n) < 500
  BY DEF familyHTTPStatus, FamilyCodes
<1>3. familyHTTPStatus(CodeInternalError) # 401
  BY DEF familyHTTPStatus, CodeInternalError
<1> QED
  BY <1>1, <1>2, <1>3

\* Every business error has a code; an outage and a lost race are internal.
LEMMA FamilyCodesOf ==
  /\ \A e \in DOMAIN mapFamilyErrorCode : CodeOf(mapFamilyErrorCode, e) \in FamilyCodes
  /\ \A e \in DOMAIN mapShoppingErrorCode : CodeOf(mapShoppingErrorCode, e) \in FamilyCodes
  /\ \A e \in {"ErrDatabase", "ErrLostRace"} : CodeOf(mapFamilyErrorCode, e) = CodeInternalError
  /\ CodeOf(mapShoppingErrorCode, "ErrDatabase") = CodeInternalError
BY DEF CodeOf, FamilyCodes, mapFamilyErrorCode, mapShoppingErrorCode

\* So its methods keep their promise if their errors are mapped.
LEMMA FamilyServesIs ==
  ASSUME ApiInv, NEW method \in FamilyEndpoints, NEW refusals,
         \/ FamilyServes(method, refusals) /\ refusals \subseteq DOMAIN mapFamilyErrorCode \cup {"ErrLostRace"}
         \/ ShoppingServes(method, refusals) /\ refusals \subseteq DOMAIN mapShoppingErrorCode
  PROVE  Served
<1>1. method \in Endpoints /\ FamilyCodes \subseteq Nat \ {0, CodeInternalError} /\ CodeInternalError \in Nat \ {0}
  BY DEF Endpoints, FamilyCodes, CodeInternalError
<1>2. CASE FamilyServes(method, refusals) /\ refusals \subseteq DOMAIN mapFamilyErrorCode \cup {"ErrLostRace"}
  <2>1. Serves(method, refusals, {"ErrDatabase"}, mapFamilyErrorCode)
    BY <1>2 DEF FamilyServes
  <2>2. \A e \in refusals : Named(method, mapFamilyErrorCode, e)
    BY <1>1, <1>2, FamilyStatus, FamilyCodesOf DEF Named
  <2>3. \A e \in {"ErrDatabase"} : /\ CodeOf(mapFamilyErrorCode, e) \in Nat \ {0}
                                  /\ HTTPStatus(method, CodeOf(mapFamilyErrorCode, e)) # 401
    BY <1>1, FamilyStatus, FamilyCodesOf
  <2> QED
    BY <1>1, <2>1, <2>2, <2>3, ServesIs
<1>3. CASE ShoppingServes(method, refusals) /\ refusals \subseteq DOMAIN mapShoppingErrorCode
  <2>1. Serves(method, refusals, {"ErrDatabase"}, mapShoppingErrorCode)
    BY <1>3 DEF ShoppingServes
  <2>2. \A e \in refusals : Named(method, mapShoppingErrorCode, e)
    BY <1>1, <1>3, FamilyStatus, FamilyCodesOf DEF Named
  <2>3. \A e \in {"ErrDatabase"} : /\ CodeOf(mapShoppingErrorCode, e) \in Nat \ {0}
                                  /\ HTTPStatus(method, CodeOf(mapShoppingErrorCode, e)) # 401
    BY <1>1, FamilyStatus, FamilyCodesOf
  <2> QED
    BY <1>1, <2>1, <2>2, <2>3, ServesIs
<1> QED
  BY <1>2, <1>3

\* The methods of the FamilyService.
LEMMA FamilyServed == ASSUME ApiInv, ServeFamilyCall PROVE Served
<1>1. ASSUME \/ ServeGetMyFamily \/ ServeGetDietaryProfile \/ ServeSaveDietaryProfile
              \/ ServeCreateFamily \/ ServeUpdateFamily \/ ServeJoinFamily
      PROVE  Served
  BY <1>1, FamilyServesIs
  DEF FamilyEndpoints, mapFamilyErrorCode, ServeGetMyFamily, ServeGetDietaryProfile,
      ServeSaveDietaryProfile, ServeCreateFamily, ServeUpdateFamily, ServeJoinFamily
<1>2. ASSUME \/ ServeLeaveFamily \/ ServeDissolveFamily \/ ServeListMembers \/ ServeUpdateMember
              \/ ServeRemoveMember \/ ServeResetInviteCode
      PROVE  Served
  BY <1>2, FamilyServesIs
  DEF FamilyEndpoints, mapFamilyErrorCode, ServeLeaveFamily, ServeDissolveFamily, ServeListMembers,
      ServeUpdateMember, ServeRemoveMember, ServeResetInviteCode
<1>3. ASSUME \/ ServeCreateMealPlan \/ ServeListMealPlans \/ ServeUpdateMealPlan
              \/ ServeUpsertMealPlanRating \/ ServeListMealPlanRatings \/ ServeDeleteMealPlan
      PROVE  Served
  BY <1>3, FamilyServesIs
  DEF FamilyEndpoints, mapFamilyErrorCode, ServeCreateMealPlan, ServeListMealPlans,
      ServeUpdateMealPlan, ServeUpsertMealPlanRating, ServeListMealPlanRatings, ServeDeleteMealPlan
<1>4. ASSUME \/ ServeGenerateShoppingList \/ ServeListShoppingLists \/ ServeGetShoppingList
              \/ ServeUpdateShoppingItemPurchased \/ ServeAddManualShoppingItem
              \/ ServeDeleteShoppingItem
      PROVE  Served
  BY <1>4, FamilyServesIs
  DEF FamilyEndpoints, mapShoppingErrorCode, ServeGenerateShoppingList, ServeListShoppingLists,
      ServeGetShoppingList, ServeUpdateShoppingItemPurchased, ServeAddManualShoppingItem,
      ServeDeleteShoppingItem
<1> QED
  BY <1>1, <1>2, <1>3, <1>4 DEF ServeFamilyCall

\* The statuses of the AuthService's endpoints.
LEMMA AuthStatus ==
  \A n :
    /\ HTTPStatus("SendSMSCode", n) = smsCodeHTTPStatus(n)
    /\ HTTPStatus("SMSLogin", n) = smsLoginHTTPStatus(n)
    /\ \A m \in {"RefreshToken", "Logout"} : HTTPStatus(m, n) = tokenSessionHTTPStatus(n)
    /\ \A m \in {"ListDietaryPreferences", "ReplaceDietaryPreferences"} :
         HTTPStatus(m, n) = dietaryPreferenceHTTPStatus(n)
    /\ \A m \in {"Register", "Login", "GetProfile", "UpdateProfile"} : HTTPStatus(m, n) = 200
BY DEF HTTPStatus, Created, FamilyEndpoints

\* Its errors have codes; one that is not in the table is internal.
LEMMA AuthCodesOf ==
  /\ \A e \in DOMAIN mapErrorCode : CodeOf(mapErrorCode, e) \in Nat \ {0, CodeInternalError}
  /\ \A e \in {"ErrDatabase", "ErrLostRace"} : CodeOf(mapErrorCode, e) = CodeInternalError
BY DEF CodeOf, CodeInternalError, mapErrorCode

\* So its methods keep their promise if each refusal has a status.
LEMMA AuthServesIs ==
  ASSUME ApiInv, NEW method \in AuthEndpoints, NEW refusals \in SUBSET (DOMAIN mapErrorCode \cup {"ErrLostRace"}),
         NEW outages \in SUBSET (DOMAIN mapErrorCode \cup {"ErrDatabase"}),
         AuthServes(method, refusals, outages),
         \A e \in refusals \ {"ErrLostRace"} : HTTPStatus(method, CodeOf(mapErrorCode, e)) < 500,
         \A e \in outages : HTTPStatus(method, CodeOf(mapErrorCode, e)) # 401
  PROVE  Served
<1>1. Serves(method, refusals, outages, mapErrorCode) /\ method \in Endpoints
  BY DEF AuthServes, Endpoints
<1>2. \A e \in refusals : Named(method, mapErrorCode, e)
  BY AuthCodesOf DEF Named, CodeInternalError
<1>3. \A e \in outages : /\ CodeOf(mapErrorCode, e) \in Nat \ {0}
                        /\ HTTPStatus(method, CodeOf(mapErrorCode, e)) # 401
  BY AuthCodesOf DEF CodeInternalError
<1> QED
  BY <1>1, <1>2, <1>3, ServesIs

\* The methods of the AuthService.
LEMMA AuthServed == ASSUME ApiInv, ServeAuthCall PROVE Served
<1> USE DEF AuthEndpoints, mapErrorCode, CodeOf, CodeInternalError, smsCodeHTTPStatus, smsLoginHTTPStatus,
            tokenSessionHTTPStatus, dietaryPreferenceHTTPStatus
<1>1. ServeSendSMSCode => Served
  BY AuthStatus, AuthServesIs DEF ServeSendSMSCode
<1>2. ServeSMSLogin => Served
  BY AuthStatus, AuthServesIs DEF ServeSMSLogin
<1>3. ServeRefreshToken => Served
  BY AuthStatus, AuthServesIs DEF ServeRefreshToken
<1>4. ServeLogout => Served
  BY AuthStatus, AuthServesIs DEF ServeLogout
<1>5. ServeRegister => Served
  BY AuthStatus, AuthServesIs DEF ServeRegister
<1>6. ServeLogin => Served
  BY AuthStatus, AuthServesIs DEF ServeLogin
<1>7. ServeGetProfile => Served
  BY AuthStatus, AuthServesIs DEF ServeGetProfile
<1>8. ServeUpdateProfile => Served
  BY AuthStatus, AuthServesIs DEF ServeUpdateProfile
<1>9. ServeListDietaryPreferences => Served
  BY AuthStatus, AuthServesIs DEF ServeListDietaryPreferences
<1>10. ServeReplaceDietaryPreferences => Served
  BY AuthStatus, AuthServesIs DEF ServeReplaceDietaryPreferences
<1> QED
  BY <1>1, <1>2, <1>3, <1>4, <1>5, <1>6, <1>7, <1>8, <1>9, <1>10 DEF ServeAuthCall

\* No code of the KnowledgeService is answered as a failure.
LEMMA KnowledgeStatus ==
  \A method \in KnowledgeEndpoints : \A n : HTTPStatus(method, n) \in {200, 403, 404}
<1> SUFFICES ASSUME NEW method \in KnowledgeEndpoints, NEW n
             PROVE  HTTPStatus(method, n) \in {200, ticketHTTPStatus(n)}
  BY DEF ticketHTTPStatus
<1> QED
  BY DEF HTTPStatus, KnowledgeEndpoints, Created, FamilyEndpoints

ServeKnowledgeCall ==
  \/ ServeEnsurePersonalKnowledgeBase \/ ServeCreateUploadTicket \/ ServeCompleteUpload
  \/ ServeDeleteDocument \/ ServeListKnowledgeDocuments \/ ServeGetDocumentViewTicket

\* The methods of the KnowledgeService but for the one of the stream.
LEMMA KnowledgeServed == ASSUME ApiInv, ServeKnowledgeCall PROVE Served
<1> USE DEF KnowledgeErrors, KnowledgeOutages, CodeOf, CodeInternalError, Named
<1>1. KnowledgeEndpoints \subseteq Endpoints
  BY DEF Endpoints
<1>2. \A n \in {4001, 4003} : \A e \in KnowledgeErrors : CodeOf(Always(n), e) = n
  BY DEF Always
<1>3. ServeEnsurePersonalKnowledgeBase => Served
  <2> "EnsurePersonalKnowledgeBase" \in KnowledgeEndpoints
    BY DEF KnowledgeEndpoints
  <2> QED
    BY <1>1, <1>2, KnowledgeStatus, ServesIs DEF ServeEnsurePersonalKnowledgeBase
<1>4. ServeCreateUploadTicket => Served
  <2> "CreateUploadTicket" \in KnowledgeEndpoints
    BY DEF KnowledgeEndpoints
  <2> QED
    BY <1>1, <1>2, KnowledgeStatus, ServesIs DEF ServeCreateUploadTicket, uploadTicketCode
<1>5. ServeCompleteUpload => Served
  <2> "CompleteUpload" \in KnowledgeEndpoints
    BY DEF KnowledgeEndpoints
  <2> QED
    BY <1>1, <1>2, KnowledgeStatus, ServesIs DEF ServeCompleteUpload
<1>6. ServeDeleteDocument => Served
  <2> "DeleteDocument" \in KnowledgeEndpoints
    BY DEF KnowledgeEndpoints
  <2> QED
    BY <1>1, <1>2, KnowledgeStatus, ServesIs DEF ServeDeleteDocument, deleteDocumentCode
<1>7. ServeListKnowledgeDocuments => Served
  <2> "ListKnowledgeDocuments" \in KnowledgeEndpoints
    BY DEF KnowledgeEndpoints
  <2> QED
    BY <1>1, <1>2, KnowledgeStatus, ServesIs DEF ServeListKnowledgeDocuments
<1>8. ServeGetDocumentViewTicket => Served
  <2> "GetDocumentViewTicket" \in KnowledgeEndpoints
    BY DEF KnowledgeEndpoints
  <2> QED
    BY <1>1, <1>2, KnowledgeStatus, ServesIs DEF ServeGetDocumentViewTicket, viewTicketCode
<1> QED
  BY <1>3, <1>4, <1>5, <1>6, <1>7, <1>8 DEF ServeKnowledgeCall

ServeChatCall == ServeCreateConversation \/ ServeChatStream

\* The Agent's methods.
LEMMA ChatServed == ASSUME ApiInv, ServeChatCall PROVE Served
<1>1. \A method \in ChatEndpoints : method \in Endpoints /\ \A n : HTTPStatus(method, n) = 200
  BY DEF HTTPStatus, ChatEndpoints, Endpoints, Created, FamilyEndpoints
<1>2. CodeOf(<<>>, "AGENT_FAILED") \in Nat \ {0}
  BY DEF CodeOf, CodeInternalError
<1>3. ServeCreateConversation => Served
  BY <1>1, ServesIs DEF ServeCreateConversation, ChatEndpoints
<1>4. ServeChatStream => Served
  BY <1>1, <1>2, ServesIs DEF ServeChatStream, ChatEndpoints
<1> QED
  BY <1>3, <1>4 DEF ServeChatCall

ServeDishCall == ServeListCategories \/ ServeListDishesByCategory \/ ServeSearchDishes \/ ServeGetDishDetail

\* The methods of the DishService.
LEMMA DishServed == ASSUME ApiInv, ServeDishCall PROVE Served
<1>1. DishEndpoints \subseteq Endpoints
  BY DEF Endpoints
<1>2. \A method \in DishEndpoints : \A n : HTTPStatus(method, n) \in {200, dishDetailHTTPStatus(n)}
  BY DEF HTTPStatus, DishEndpoints, Created, FamilyEndpoints
<1> DEFINE codes == [ErrDishNotFound |-> 2002]
<1>3. CodeOf(codes, "ErrDatabase") = 1999 /\ \A e \in DOMAIN codes : CodeOf(codes, e) = 2002
  BY DEF CodeOf, CodeInternalError
<1>4. dishDetailHTTPStatus(1999) = 500 /\ dishDetailHTTPStatus(2002) = 404
  BY DEF dishDetailHTTPStatus
<1>5. {} \subseteq DOMAIN codes /\ {"ErrDishNotFound"} \subseteq DOMAIN codes
  OBVIOUS
<1>6. \A method, refusals : DishServes(method, refusals) => Serves(method, refusals, {"ErrDatabase"}, codes)
  BY DEF DishServes
<1> HIDE DEF codes
<1>7. ASSUME NEW method \in DishEndpoints, NEW refusals \in SUBSET DOMAIN codes, DishServes(method, refusals)
      PROVE  Served
  <2>1. \A e \in refusals : Named(method, codes, e)
    BY <1>2, <1>3, <1>4 DEF Named, CodeInternalError
  <2>2. \A e \in {"ErrDatabase"} : /\ CodeOf(codes, e) \in Nat \ {0}
                                  /\ HTTPStatus(method, CodeOf(codes, e)) # 401
    BY <1>2, <1>3, <1>4
  <2> QED
    BY <1>1, <1>6, <1>7, <2>1, <2>2, ServesIs
<1> QED
  BY <1>5, <1>7 DEF ServeDishCall, ServeListCategories, ServeListDishesByCategory, ServeSearchDishes,
                    ServeGetDishDetail, DishEndpoints

RespondCall ==
  \/ RespondAuthCall \/ RespondFamilyCall \/ RespondKnowledgeCall
  \/ RespondsWith(ChatEndpoints, LAMBDA n : 200) \/ RespondDishCall


\* Every response comes with the status of its endpoint and code.
LEMMA CallResponded == ASSUME RespondCall PROVE Responded
<1> USE DEF RespondsWith, Responded, Streams
<1>1. RespondAuthCall => Responded
  BY AuthStatus DEF RespondAuthCall
<1>2. RespondFamilyCall => Responded
  BY DEF RespondFamilyCall, HTTPStatus, Created, FamilyEndpoints
<1>3. RespondKnowledgeCall => Responded
  BY DEF RespondKnowledgeCall, HTTPStatus, Created, FamilyEndpoints, KnowledgeEndpoints
<1>4. RespondsWith(ChatEndpoints, LAMBDA n : 200) => Responded
  BY DEF ChatEndpoints, HTTPStatus, Created, FamilyEndpoints
<1>5. RespondDishCall => Responded
  BY DEF RespondDishCall, HTTPStatus, Created, FamilyEndpoints, DishEndpoints
<1> HIDE DEF Responded
<1> QED
  BY <1>1, <1>2, <1>3, <1>4, <1>5 DEF RespondCall

\* A picture is put under the caller's id.
LEMMA AvatarKeeps == ASSUME ApiInv, UploadAvatar PROVE ApiInv'
<1> DEFINE all == ApiUsers \cup {Nobody}
<1>1. Caller \in all /\ done \in [all -> Nat] /\ NotYet /\ refused = "none" /\ Caller' = Caller
  BY DEF ApiInv, UploadAvatar, ApiTypeOK, Caller
<1>2. PICK times \in 0..1 : /\ done' = [done EXCEPT ![Caller] = @ + times]
                          /\ \/ Answers(500, CodeInternalError)
                             \/ Answers(400, CodeInternalError)
                             \/ times = 1 /\ Answers(200, 0)
  <2>1. CASE UNCHANGED done
    <3>1. done' = [done EXCEPT ![Caller] = @ + 0]
      BY <1>1, <2>1
    <3>2. Answers(500, CodeInternalError) \/ Answers(400, CodeInternalError) \/ call.json
      BY DEF UploadAvatar
    <3>3. ~Answers(200, 0) \/ done' = [done EXCEPT ![Caller] = @ + 1]
      BY DEF UploadAvatar, Answers, CodeInternalError
    <3> QED
      BY <3>1, <3>3 DEF UploadAvatar
  <2>2. CASE done' = [done EXCEPT ![Caller] = @ + 1]
    BY <2>2 DEF UploadAvatar
  <2> QED
    BY <2>1, <2>2 DEF UploadAvatar
<1>3. done' \in [all -> Nat] /\ \A u \in all : done'[u] = IF u = Caller THEN times ELSE 0
  BY <1>1, <1>2 DEF NotYet
<1>4. ApiTypeOK'
  BY <1>2, <1>3 DEF ApiInv, ApiTypeOK, UploadAvatar, Answers, CodeInternalError
<1>5. ActsForCaller' /\ AtMostOnce'
  BY <1>1, <1>3 DEF ActsForCaller, AtMostOnce
<1>6. Sound(answer.status, answer.code)'
  BY <1>1, <1>2, <1>3 DEF Sound, UploadAvatar, Answers, CodeInternalError
<1> QED
  BY <1>2, <1>4, <1>5, <1>6 DEF ApiInv, UploadAvatar, Answers

AgentUnavailable ==
  /\ stage = "handler"
  /\ call.endpoint \in ChatEndpoints
  /\ \/ Answers(503, CodeInternalError) /\ UNCHANGED refused
     \/ Answers(403, 4003) /\ refused' = "ErrKnowledgePermission"
  /\ UNCHANGED <<signedIn, token, call, retried, message, reply, done>>

\* Logic does not answer the handler, or refuses the base of the request.
LEMMA UnavailableKeeps == ASSUME ApiInv, AgentUnavailable PROVE ApiInv'
<1> USE DEF ApiInv, AgentUnavailable, Answers, CodeInternalError
<1>1. ApiTypeOK'
  BY DEF ApiTypeOK
<1>2. ActsForCaller' /\ AtMostOnce'
  BY DEF ActsForCaller, AtMostOnce, Caller
<1>3. Sound(answer.status, answer.code)'
  BY DEF Sound, NotYet
<1> QED
  BY <1>1, <1>2, <1>3

\* The handlers of the Agent's endpoints.
LEMMA ChatHandled ==
  ASSUME HandleCreateConversation \/ HandleChatStream PROVE Handled \/ AgentUnavailable
<1> USE DEF HandleChat, HandleOr, Handled, AgentUnavailable, MethodOf, Streams, ApiEndpoints, ChatEndpoints,
            Acting, Caller, Public, CodeInternalError
<1>1. HandleCreateConversation => Handled \/ AgentUnavailable
  BY DEF HandleCreateConversation, CreateConversationRequest
<1>2. HandleChatStream => Handled \/ AgentUnavailable
  BY DEF HandleChatStream, ChatStreamRequest
<1> HIDE DEF Handled, AgentUnavailable
<1> QED
  BY <1>1, <1>2

StatusStreamStep ==
  /\ call.endpoint = "DocumentStatusEvents"
  /\ \/ stage = "reply" /\ reply = 0 /\ stage' = "rpc" /\ UNCHANGED answer
     \/ stage \in {"rpc", "reply"} /\ Answers(200, EndOfStream)
  /\ UNCHANGED <<signedIn, token, call, retried, message, reply, done, refused>>

\* The stream of a document's status asks again, or ends.
LEMMA StreamKeeps == ASSUME ApiInv, StatusStreamStep PROVE ApiInv'
<1> USE DEF ApiInv, StatusStreamStep, Answers, EndOfStream
<1>1. ApiTypeOK'
  BY DEF ApiTypeOK
<1>2. Caller' = Caller /\ Acting(message)' = Acting(message)
  BY DEF Caller, Acting
<1>3. ActsForCaller' /\ AtMostOnce'
  BY <1>2 DEF ActsForCaller, AtMostOnce
<1>4. stage' = "answered" => Sound(answer.status, answer.code)'
  BY DEF Sound, Streams
<1> QED
  BY <1>1, <1>2, <1>3, <1>4 DEF Streams

\* What the stream reads it may read again.
LEMMA StatusKeeps == ASSUME ApiInv, ServeGetDocumentStatus PROVE ApiInv'
<1> DEFINE all == ApiUsers \cup {Nobody}
<1> USE DEF ServeGetDocumentStatus, Reads
<1>1. call.endpoint \in Streams /\ Acting(message) = Caller /\ Caller \in all /\ done \in [all -> Nat]
  BY DEF ApiInv, MethodOf, Streams, ApiTypeOK, Caller, Calls, ApiEndpoints,
         AuthEndpoints, FamilyEndpoints, KnowledgeEndpoints, ChatEndpoints, DishEndpoints
<1>2. Caller' = Caller /\ Acting(message)' = Acting(message)
  BY DEF Caller, Acting
<1>3. done' = [done EXCEPT ![Caller] = 1] \/ done' = done
  BY <1>1
<1>4. done' \in [all -> Nat] /\ ActsForCaller' /\ AtMostOnce'
  BY <1>1, <1>2, <1>3 DEF ApiInv, ActsForCaller, AtMostOnce
<1>5. reply' \in Nat
  BY DEF CodeOf, Always, KnowledgeErrors, CodeInternalError
<1>6. ApiTypeOK'
  BY <1>4, <1>5 DEF ApiInv, ApiTypeOK
<1> QED
  BY <1>1, <1>2, <1>4, <1>6 DEF ApiInv

\* The steps of the application and of the middleware.
LEMMA ClientKeeps ==
  ASSUME ApiInv, AppCalls(ApiEndpoints) \/ TokenExpires \/ Auth \/ AuthRetry \/ SignsOut
  PROVE  ApiInv'
<1>1. ASSUME AppCalls(ApiEndpoints) PROVE ApiInv'
  BY <1>1 DEF AppCalls, ApiInv, ApiTypeOK, ActsForCaller, AtMostOnce, NotYet, Calls
<1>2. ASSUME TokenExpires PROVE ApiInv'
  BY <1>2 DEF TokenExpires, ApiInv, ApiTypeOK, ActsForCaller, AtMostOnce, NotYet, Caller
<1>3. ASSUME Auth PROVE ApiInv'
  BY <1>3 DEF Auth, Answers, ApiInv, ApiTypeOK, ActsForCaller, AtMostOnce, NotYet, Sound, Caller
<1>4. ASSUME AuthRetry PROVE ApiInv'
  <2>1. NotYet
    BY <1>4 DEF AuthRetry, ApiInv, Sound
  <2>2. CASE stage' = "gateway"
    BY <1>4, <2>1, <2>2 DEF AuthRetry, ApiInv, ApiTypeOK, ActsForCaller, AtMostOnce, NotYet, NoAnswer
  <2>3. CASE UNCHANGED <<stage, answer, message, refused>>
    BY <1>4, <2>1, <2>3 DEF AuthRetry, ApiInv, ApiTypeOK, ActsForCaller, AtMostOnce, NotYet, Sound, Caller
  <2> QED
    BY <1>4, <2>2, <2>3 DEF AuthRetry
<1>5. ASSUME SignsOut PROVE ApiInv'
  BY <1>5 DEF SignsOut, ApiInv, ApiTypeOK, ActsForCaller, AtMostOnce, NotYet, Sound, Caller
<1> QED
  BY <1>1, <1>2, <1>3, <1>4, <1>5

\* Every step of every endpoint is of one of these kinds.
LEMMA CallStepIs ==
  ASSUME ApiInv, AuthCallStep \/ FamilyCallStep \/ KnowledgeCallStep \/ ChatCallStep \/ DishCallStep
  PROVE  \/ Handled \/ Served \/ Failed \/ Responded
         \/ UploadAvatar \/ AgentUnavailable \/ StatusStreamStep \/ ServeGetDocumentStatus
<1>1. ASSUME NEW endpoints \in SUBSET (ApiEndpoints \ Streams), NEW status \in {500, 503},
             RpcFails(endpoints, status)
      PROVE  Failed
  BY <1>1 DEF Failed, RpcFails
<1>2. /\ AuthEndpoints \subseteq ApiEndpoints \ Streams /\ FamilyEndpoints \subseteq ApiEndpoints \ Streams
      /\ KnowledgeEndpoints \subseteq ApiEndpoints \ Streams /\ ChatEndpoints \subseteq ApiEndpoints \ Streams
      /\ DishEndpoints \subseteq ApiEndpoints \ Streams
  BY DEF ApiEndpoints, Streams, AuthEndpoints, FamilyEndpoints, KnowledgeEndpoints, ChatEndpoints, DishEndpoints
<1>3. CASE AuthCallStep
  BY <1>1, <1>2, <1>3, AuthHandled, AuthServed, CallResponded DEF AuthCallStep, RespondCall
<1>4. CASE FamilyCallStep
  BY <1>1, <1>2, <1>4, FamilyHandled, FamilyServed, CallResponded DEF FamilyCallStep, RespondCall
<1>5. CASE KnowledgeCallStep
  <2>1. \/ HandleKnowledgeCall \/ StatusStreamStep \/ ServeKnowledgeCall \/ ServeGetDocumentStatus
        \/ RpcFails(KnowledgeEndpoints, 503) \/ RespondCall
    BY <1>5 DEF KnowledgeCallStep, HandleKnowledgeCall, ServeKnowledgeCall, DocumentStatusEvents, StatusStreamStep,
                RespondCall
  <2> QED
    BY <1>1, <1>2, <2>1, KnowledgeHandled, KnowledgeServed, CallResponded
<1>6. CASE ChatCallStep
  <2>1. \/ HandleCreateConversation \/ HandleChatStream \/ ServeChatCall
        \/ RpcFails(ChatEndpoints, 503) \/ RespondCall
    BY <1>6 DEF ChatCallStep, ServeChatCall, RespondCall, RespondsWith
  <2> QED
    BY <1>1, <1>2, <2>1, ChatHandled, ChatServed, CallResponded
<1>7. CASE DishCallStep
  <2>1. HandleDishCall \/ ServeDishCall \/ RpcFails(DishEndpoints, 500) \/ RespondCall
    BY <1>7 DEF DishCallStep, HandleDishCall, ServeDishCall, RespondCall
  <2> QED
    BY <1>1, <1>2, <2>1, DishHandled, DishServed, CallResponded
<1> QED
  BY <1>3, <1>4, <1>5, <1>6, <1>7

\* Nothing has been done before the first call.
LEMMA ApiInitInv == ASSUME ApiInit PROVE ApiInv
<1>1. ApiTypeOK
  BY DEF ApiInit, ApiTypeOK, NoAnswer
<1>2. NotYet /\ ActsForCaller /\ AtMostOnce
  BY DEF ApiInit, ActsForCaller, AtMostOnce, NotYet
<1> QED
  BY <1>1, <1>2 DEF ApiInit, ApiInv

\* The invariant is inductive.
LEMMA ApiNextInv == ASSUME ApiInv, [ApiNext]_apiVars PROVE ApiInv'
<1>1. CASE UNCHANGED apiVars
  BY <1>1 DEF apiVars, ApiInv, ApiTypeOK, ActsForCaller, AtMostOnce, NotYet, Sound, Caller, Acting
<1>2. CASE ApiNext
  BY <1>2, CallStepIs, HandledKeeps, ServedKeeps, FailedKeeps, RespondedKeeps, AvatarKeeps, UnavailableKeeps,
     StreamKeeps, StatusKeeps, ClientKeeps DEF ApiNext
<1> QED
  BY <1>1, <1>2

\* So it holds always.
LEMMA ApiAlways == ApiSpec => []ApiInv
BY ApiInitInv, ApiNextInv, PTL DEF ApiSpec

\* Type correctness: every message, code, status and history that a call can
\* have is one of those that ApiTypeOK lists, for any users.
THEOREM ApiTypes == ApiSpec => []ApiTypeOK
<1>1. ApiInv => ApiTypeOK
  BY DEF ApiInv
<1> QED
  BY <1>1, ApiAlways, PTL

\* Whatever user a request names and whatever the server or the network does, a
\* call is carried out as the caller, once at most although a 401 has it sent
\* again; what the application takes for success is success, and a refusal has
\* no effect, is not taken for success and, unless it is that of a lost race,
\* nor for an outage.  For any users.
THEOREM ApiIsKept == ApiSpec => []ApiKept
<1>1. ApiInv => ApiKept
  BY DEF ApiInv, ApiKept, SuccessIsTrue, Succeeded, RefusalsNamed, Sound, NotYet, Caller, ApiTypeOK
<1> QED
  BY <1>1, ApiAlways, PTL

-----------------------------------------------------------------------------
(***************************************************************************)
(* All parts.  A step of one leaves the others as they are, so each of     *)
(* them behaves as it does alone, and what is proved of it holds here.     *)
(***************************************************************************)
\* The parts start in initial states of theirs.
LEMMA PartsBegin ==
  ASSUME Init
  PROVE  SmsInit /\ AccountsInit /\ MenuInit /\ ShoppingInit /\ ChatInit /\ ApiInit
BY DEF Init

\* A step is a step of one part and leaves the others as they are.
LEMMA PartsStep ==
  ASSUME [Next]_<<services, part>>
  PROVE  /\ [SmsNext]_smsVars
         /\ [AccountsNext]_accountVars
         /\ [MenuNext]_menuVars
         /\ [ShoppingNext]_shoppingVars
         /\ [ChatNext]_chatVars
         /\ [ApiNext]_apiVars
BY DEF Next, services

\* The parts side by side: each behaves as its own specification says, so all
\* that is proved of a part holds of them together.
THEOREM PartsBehave ==
  Spec => SmsSpec /\ AccountsSpec /\ MenuSpec /\ ShoppingSpec /\ ChatSpec /\ ApiSpec
BY PartsBegin, PartsStep, PTL
DEF Spec, SmsSpec, AccountsSpec, MenuSpec, ShoppingSpec, ChatSpec, ApiSpec

\* Type correctness of all parts together.
THEOREM ServicesTypes == Spec => []TypeOK
<1>1. SmsTypeOK /\ AccountsTypeOK /\ MenuTypeOK /\ ShoppingTypeOK /\ ChatTypeOK /\ ApiTypeOK => TypeOK
  BY DEF TypeOK
<1> QED
  BY <1>1, PartsBehave, SmsTypes, AccountsTypes, MenuTypes, ShoppingTypes, ChatTypes, ApiTypes, PTL

\* What the parts promise, they promise side by side: guesses and quotas of SMS
\* codes, accounts, meal plans, shopping lists, chats and calls are kept.
THEOREM ServicesAreKept ==
  Spec => /\ [](GuessesBounded /\ QuotasExact /\ ListsKept /\ ApiKept)
          /\ WithdrawsOwnCode /\ AccountsKept /\ MenuKept /\ ChatKept
BY PartsBehave, GuessesAreBounded, QuotasAreExact, OwnCodeIsWithdrawn, AccountsAreKept, MenuIsKept,
   ListsAreKept, ChatIsKept, ApiIsKept, PTL
=============================================================================
