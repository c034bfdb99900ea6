----------------------------- MODULE GatewayApi -----------------------------
(***************************************************************************)
(* The whole HTTP interface: any endpoint, from the tap in the application *)
(* to the answer that it gets.                                             *)
(***************************************************************************)
EXTENDS AuthApi, FamilyApi, KnowledgeApi, ChatApi, DishApi

Streams == {"DocumentStatusEvents"}

ApiEndpoints ==
  AuthEndpoints \cup FamilyEndpoints \cup KnowledgeEndpoints \cup ChatEndpoints \cup DishEndpoints
    \cup Streams

ApiNext ==
  \/ AppCalls(ApiEndpoints)
  \/ TokenExpires
  \/ Auth
  \/ AuthRetry
  \/ SignsOut
  \/ AuthCallStep
  \/ FamilyCallStep
  \/ KnowledgeCallStep
  \/ ChatCallStep
  \/ DishCallStep

ApiSpec == ApiInit /\ [][ApiNext]_apiVars

-----------------------------------------------------------------------------
ApiTypeOK ==
  /\ stage \in {"app", "gateway", "handler", "rpc", "reply", "answered"}
  /\ signedIn \in ApiUsers
  /\ token \in {"valid", "stale", "none"}
  /\ call \in [endpoint : ApiEndpoints, json : BOOLEAN, ids : BOOLEAN, names : ApiUsers] \cup {NoCall}
  /\ retried \in BOOLEAN
  /\ message = NoMessage \/ message.method \in ApiEndpoints \cup {"GetDocumentStatus"}
  /\ reply \in Nat
  /\ answer \in [status : Nat, code : Nat]
  /\ done \in [ApiUsers \cup {Nobody} -> Nat]

\* Whatever user the request names, it is carried out as the user signed in,
\* and not at all without a valid token ...
ActsForCaller ==
  \A u \in ApiUsers \cup {Nobody} : done[u] > 0 => u = Caller

\* ... at most once, although a call answered with 401 is sent again, ...
AtMostOnce == \A u \in ApiUsers \cup {Nobody} : done[u] <= 1

\* ... the application hears of success only if it was carried out, ...
Succeeded == stage = "answered" /\ answer.status \in 200..299 /\ answer.code = 0
SuccessIsTrue == Succeeded => done[Caller] = 1

\* ... and a refusal never looks like a success, nor, unless it is that of a lost
\* race, like a failure of the service: through two services with tables of
\* their own it keeps a code of its kind and a status below 500.
RefusalsNamed ==
  stage = "answered" /\ refused # "none" /\ call.endpoint \notin Streams =>
    /\ done[Caller] = 0
    /\ answer.code # 0
    /\ refused # "ErrLostRace" => answer.code # CodeInternalError /\ answer.status < 500

ApiKept == ActsForCaller /\ AtMostOnce /\ SuccessIsTrue /\ RefusalsNamed
=============================================================================
