-------------------------------- MODULE Api --------------------------------
(***************************************************************************)
(* One HTTP call of the mobile application: its access token, the          *)
(* middleware of the gateway that turns the token into a user, the handler *)
(* that turns the request into a message, the server that carries it out   *)
(* or refuses, and the answer.  A call answered with 401 is sent once      *)
(* more after the token has been refreshed (RefreshSession).  The          *)
(* endpoints are in AuthApi, FamilyApi, KnowledgeApi, ChatApi and DishApi. *)
(***************************************************************************)
EXTENDS Naturals

CONSTANTS
  ApiUsers,  \* users
  Nobody     \* no user: the endpoint is public

ASSUME ApiAssumption == Nobody \notin ApiUsers

VARIABLES
  stage,     \* how far the call is
  signedIn,  \* the user signed in on the device
  token,     \* the access token that the device has
  call,      \* the request
  retried,   \* it has been sent again (_authRetry)
  message,   \* the message for the server
  reply,     \* the code of the server's response
  answer,    \* HTTP status and code that the application gets
  done,      \* history: how often the call was carried out, and as which user
  refused    \* history: the error with which the server refused it

apiVars == <<stage, signedIn, token, call, retried, message, reply, answer, done, refused>>

\* The routes that do not pass the middleware
Public == {"SendSMSCode", "SMSLogin", "RefreshToken", "Logout", "Register", "Login",
           "ListCategories", "ListDishesByCategory", "SearchDishes", "GetDishDetail"}

NoCall == [endpoint |-> "none", json |-> FALSE, ids |-> FALSE, names |-> Nobody]
NoMessage == [method |-> "none"]
NoAnswer == [status |-> 0, code |-> 0]
CodeInternalError == 1999

ApiInit ==
  /\ stage = "app"
  /\ signedIn \in ApiUsers
  /\ token \in {"valid", "stale", "none"}
  /\ call = NoCall
  /\ retried = FALSE
  /\ message = NoMessage
  /\ reply = 0
  /\ answer = NoAnswer
  /\ done = [u \in ApiUsers \cup {Nobody} |-> 0]
  /\ refused = "none"

-----------------------------------------------------------------------------
\* The request holds what the endpoint binds, or not (json); its ids are valid,
\* or not (ids); and it names a user: a member, a cook, or a user_id in a body
\* that the handler binds to the message as it is.
\* A logout clears the credentials first.
AppCalls(endpoints) ==
  /\ stage = "app"
  /\ stage' = "gateway"
  /\ call' \in [endpoint : endpoints, json : BOOLEAN, ids : BOOLEAN, names : ApiUsers]
  /\ token' = IF call'.endpoint = "Logout" THEN "none" ELSE token
  /\ UNCHANGED <<signedIn, retried, message, reply, answer, done, refused>>

Answers(status, code) ==
  /\ stage' = "answered"
  /\ answer' = [status |-> status, code |-> code]

TokenExpires ==
  /\ token = "valid"
  /\ stage \in {"app", "gateway"}
  /\ token' = "stale"
  /\ UNCHANGED <<stage, signedIn, call, retried, message, reply, answer, done, refused>>

\* Only a token that is signed, for this issuer and audience and not expired
\* lets a protected call pass; its subject becomes the caller.
Auth ==
  /\ stage = "gateway"
  /\ IF call.endpoint \in Public \/ token = "valid"
       THEN stage' = "handler" /\ UNCHANGED answer
       ELSE Answers(401, 1018)
  /\ UNCHANGED <<signedIn, token, call, retried, message, reply, done, refused>>

\* CurrentUserID
Caller == IF call.endpoint \in Public THEN Nobody ELSE signedIn

\* The calls of authApi and the streams pass no interceptor.
Bare == {"RefreshToken", "Logout", "DocumentStatusEvents", "ChatStream"}

\* The interceptor: after a first 401 one refresh, then the request again.  A
\* refresh that fails signs the user out ...
AuthRetry ==
  /\ stage = "answered"
  /\ answer.status = 401
  /\ call.endpoint \notin Bare
  /\ ~retried
  /\ \/ /\ stage' = "gateway"
        /\ token' = "valid"
        /\ answer' = NoAnswer
        /\ message' = NoMessage
        /\ refused' = "none"
     \/ /\ token' = "none"
        /\ UNCHANGED <<stage, answer, message, refused>>
  /\ retried' = TRUE
  /\ UNCHANGED <<signedIn, call, reply, done>>

\* ... and so does a second 401.
SignsOut ==
  /\ stage = "answered"
  /\ answer.status = 401
  /\ retried
  /\ token # "none"
  /\ token' = "none"
  /\ UNCHANGED <<stage, signedIn, call, retried, message, reply, answer, done, refused>>

\* A handler answers 400 or passes a message on.
HandleOr(bad, endpoint, ok, m) ==
  /\ stage = "handler"
  /\ call.endpoint = endpoint
  /\ IF ok THEN stage' = "rpc" /\ message' = m /\ UNCHANGED answer
           ELSE Answers(400, bad) /\ UNCHANGED message
  /\ UNCHANGED <<signedIn, token, call, retried, reply, done, refused>>

Handle(endpoint, ok, m) == HandleOr(CodeInternalError, endpoint, ok, m)

\* The user that the server acts for
Acting(m) ==
  CASE "operator_user_id" \in DOMAIN m -> m.operator_user_id
    [] "created_by" \in DOMAIN m -> m.created_by
    [] "user_id" \in DOMAIN m -> m.user_id
    [] OTHER -> Nobody

CarriedOut(times) == done' = [done EXCEPT ![Acting(message)] = @ + times]

\* The code of an error; one that the server's table does not hold is internal:
\* an outage, or ErrLostRace, by which the tables refuse what the checks before
\* let pass (a duplicate key, a row that is gone or already so, a full family).
CodeOf(codes, error) == IF error \in DOMAIN codes THEN codes[error] ELSE CodeInternalError

\* A server carries the message out, refuses it without effect, or meets an
\* outage, before or after the effect.
Serves(method, refusals, outages, codes) ==
  /\ stage = "rpc"
  /\ message.method = method
  /\ stage' = "reply"
  /\ \/ /\ CarriedOut(1)
        /\ reply' = 0
        /\ UNCHANGED refused
     \/ /\ refused' \in refusals
        /\ reply' = CodeOf(codes, refused')
        /\ UNCHANGED done
     \/ /\ \E error \in outages : reply' = CodeOf(codes, error)
        /\ \E times \in 0..1 : CarriedOut(times)
        /\ UNCHANGED refused
  /\ UNCHANGED <<signedIn, token, call, retried, message, answer>>

\* What a method that only reads may return: its calls can be repeated.
Reads(method, refusals, codes) ==
  /\ stage = "rpc"
  /\ message.method = method
  /\ stage' = "reply"
  /\ \/ reply' = 0 /\ done' = [done EXCEPT ![Acting(message)] = 1] /\ UNCHANGED refused
     \/ refused' \in refusals /\ reply' = CodeOf(codes, refused') /\ UNCHANGED done
  /\ UNCHANGED <<signedIn, token, call, retried, message, answer>>

\* The server cannot be reached, or the handler's deadline is over first.
RpcFails(endpoints, status) ==
  /\ stage = "rpc"
  /\ call.endpoint \in endpoints
  /\ Answers(status, CodeInternalError)
  /\ \E times \in 0..1 : CarriedOut(times)
  /\ UNCHANGED <<signedIn, token, call, retried, message, reply, refused>>

RespondsWith(endpoints, Status(_)) ==
  /\ stage = "reply"
  /\ call.endpoint \in endpoints
  /\ Answers(Status(reply), reply)
  /\ UNCHANGED <<signedIn, token, call, retried, message, reply, done, refused>>
=============================================================================
