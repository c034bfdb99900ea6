------------------------ MODULE RefreshSessionProofs ------------------------
(***************************************************************************)
(* Proofs about RefreshSession, for any number of sessions, devices and    *)
(* calls.  What Redis holds changes in five ways only (RedisStep), and the *)
(* results about Redis follow from these.  The token on a device depends   *)
(* on who else holds one of the same session (Custody).                    *)
(***************************************************************************)
EXTENDS RefreshSession, TLAPS

RedisTypeOK ==
  /\ secret \in [Sessions -> 0..MaxSecrets]
  /\ ttl \in [Sessions -> 0..TTL]
  /\ members \subseteq Sessions
  /\ indexTtl \in 0..TTL
  /\ issued \in [Sessions -> 0..MaxSecrets]
  /\ redeemed \subseteq Tokens

\* A session key exists exactly as long as it has time left, and the index
\* has at least as much.
IndexOutlives ==
  \A s \in Sessions :
    /\ secret[s] > 0 <=> ttl[s] > 0
    /\ secret[s] > 0 => s \in members /\ ttl[s] <= indexTtl

\* Only the newest secret is stored, and none that was stored before is not
\* yet redeemed or given up.
SecretsAreNew ==
  /\ \A s \in Sessions : secret[s] > 0 => secret[s] = issued[s]
  /\ \A t \in redeemed : t[2] < issued[t[1]]

RedisInv == RedisTypeOK /\ IndexOutlives /\ SecretsAreNew

\* What a step can do to Redis.
TimePasses ==
  /\ ttl' = [s \in Sessions |-> IF ttl[s] > 0 THEN ttl[s] - 1 ELSE 0]
  /\ secret' = [s \in Sessions |-> IF ttl[s] > 1 THEN secret[s] ELSE 0]
  /\ indexTtl' = IF indexTtl > 0 THEN indexTtl - 1 ELSE 0
  /\ members' = IF indexTtl > 1 THEN members ELSE {}
  /\ UNCHANGED <<issued, redeemed>>

RedisStep ==
  \/ TimePasses
  \/ \E s \in Sessions : issued[s] = 0 /\ CreateScript(s)
  \/ \E t : RotateScript(t)
  \/ \E s : DropSession(s)
  \/ UNCHANGED redisVars

\* Whatever happens, Redis changes in one of these ways.
LEMMA OnlyRedisSteps == ASSUME [Next]_vars PROVE RedisStep
<1>1. CASE UNCHANGED vars
  BY <1>1 DEF vars, RedisStep
<1>2. CASE Tick
  BY <1>2 DEF Tick, RedisStep, TimePasses
<1>3. ASSUME NEW c \in Calls, ServerStep(c) PROVE RedisStep
  <2>1. CASE LookUpUser(c)
    BY <2>1 DEF LookUpUser, RedisStep
  <2>2. CASE RefreshToken(c)
    BY <2>2 DEF RefreshToken, RedisStep
  <2>3. CASE Logout(c)
    BY <2>3 DEF Logout, RevokeScript, RedisStep
  <2>4. CASE CreateSession(c)
    BY <2>4 DEF CreateSession, RedisStep
  <2>5. CASE SignTokens(c)
    BY <2>5 DEF SignTokens, RedisStep
  <2> QED
    BY <1>3, <2>1, <2>2, <2>3, <2>4, <2>5 DEF ServerStep
<1>4. ASSUME NEW d \in Devices, AppStep(d) PROVE RedisStep
  BY <1>4 DEF AppStep, StartLogin, StartRefresh, LogoutAndClear, RefreshSucceeds, RefreshFails,
              LoginSucceeds, LoginFails, RetryRejected, StartLogout, AppKilled, RedisStep
<1> QED
  BY <1>1, <1>2, <1>3, <1>4 DEF Next

\* Without sessions there is nothing to disagree.
LEMMA RedisInit == ASSUME Init PROVE RedisInv
BY SessionAssumption DEF SessionAssumption, Init, RedisInv, RedisTypeOK, IndexOutlives, SecretsAreNew

\* A rotation, under the invariant: the token is the newest of a live session
\* whose index exists.
RotatesTo(s) ==
  /\ issued[s] < MaxSecrets
  /\ secret' = [secret EXCEPT ![s] = issued[s] + 1]
  /\ ttl' = [ttl EXCEPT ![s] = TTL]
  /\ indexTtl' = TTL
  /\ issued' = [issued EXCEPT ![s] = issued[s] + 1]
  /\ redeemed' = redeemed \cup {<<s, issued[s]>>}
  /\ members' = members

\* A rotation that is accepted is one of a live session.
LEMMA Rotation ==
  ASSUME RedisInv, NEW t, RotateScript(t)
  PROVE  \E s \in Sessions : secret[s] > 0 /\ RotatesTo(s)
<1>1. t[1] \in Sessions /\ secret[t[1]] > 0 /\ t = <<t[1], secret[t[1]]>>
  BY DEF RotateScript, RotateAccepts, Live, Newest
<1>2. secret[t[1]] = issued[t[1]] /\ members # {}
  BY <1>1 DEF RedisInv, IndexOutlives, SecretsAreNew
<1>3. RotatesTo(t[1])
  BY <1>1, <1>2 DEF RotateScript, RotatesTo, ExpireIndex
<1> QED
  BY <1>1, <1>3

\* Every change of Redis keeps its invariant.
LEMMA RedisKept == ASSUME RedisInv, RedisStep PROVE RedisInv'
<1> USE SessionAssumption DEF SessionAssumption, RedisInv
<1>1. CASE TimePasses
  <2>1. RedisTypeOK'
    BY <1>1 DEF TimePasses, RedisTypeOK
  <2>2. IndexOutlives'
    BY <1>1 DEF TimePasses, RedisTypeOK, IndexOutlives
  <2>3. SecretsAreNew'
    BY <1>1 DEF TimePasses, RedisTypeOK, SecretsAreNew
  <2> QED
    BY <2>1, <2>2, <2>3
<1>2. ASSUME NEW s \in Sessions, issued[s] = 0, CreateScript(s) PROVE RedisInv'
  <2>1. RedisTypeOK'
    BY <1>2 DEF CreateScript, RedisTypeOK
  <2>2. IndexOutlives'
    BY <1>2 DEF CreateScript, RedisTypeOK, IndexOutlives
  <2>3. SecretsAreNew'
    BY <1>2 DEF CreateScript, RedisTypeOK, SecretsAreNew, Tokens
  <2> QED
    BY <2>1, <2>2, <2>3
<1>3. ASSUME NEW t, RotateScript(t) PROVE RedisInv'
  <2>1. PICK s \in Sessions : secret[s] > 0 /\ RotatesTo(s)
    BY <1>3, Rotation DEF RedisInv
  <2>2. RedisTypeOK'
    <3>1. <<s, issued[s]>> \in Tokens
      BY <2>1 DEF RedisTypeOK, SecretsAreNew, Tokens
    <3>2. redeemed' \subseteq Tokens
      BY <2>1, <3>1 DEF RotatesTo, RedisTypeOK
    <3> QED
      BY <2>1, <3>2 DEF RotatesTo, RedisTypeOK
  <2>3. IndexOutlives'
    BY <2>1 DEF RotatesTo, RedisTypeOK, IndexOutlives
  <2>4. SecretsAreNew'
    BY <2>1 DEF RotatesTo, RedisTypeOK, SecretsAreNew, Tokens
  <2> QED
    BY <2>2, <2>3, <2>4
<1>4. ASSUME NEW s, DropSession(s) PROVE RedisInv'
  <2>1. RedisTypeOK'
    <3>1. secret' \in [Sessions -> 0..MaxSecrets] /\ ttl' \in [Sessions -> 0..TTL]
      <4>1. /\ secret' = [x \in Sessions |-> IF x = s THEN 0 ELSE secret[x]]
            /\ ttl' = [x \in Sessions |-> IF x = s THEN 0 ELSE ttl[x]]
        BY <1>4 DEF DropSession, RedisTypeOK
      <4>2. 0 \in 0..MaxSecrets /\ 0 \in 0..TTL
        OBVIOUS
      <4> QED
        BY <4>1, <4>2 DEF RedisTypeOK
    <3>2. members' \subseteq Sessions
      BY <1>4 DEF DropSession, RedisTypeOK
    <3>3. indexTtl' \in {0, indexTtl}
      BY <1>4 DEF DropSession
    <3>4. indexTtl' \in 0..TTL
      BY <3>3 DEF RedisTypeOK
    <3> QED
      BY <1>4, <3>1, <3>2, <3>4 DEF DropSession, RedisTypeOK
  <2>2. IndexOutlives'
    BY <1>4 DEF DropSession, RedisTypeOK, IndexOutlives
  <2>3. SecretsAreNew'
    BY <1>4 DEF DropSession, RedisTypeOK, SecretsAreNew
  <2> QED
    BY <2>1, <2>2, <2>3
<1>5. CASE UNCHANGED redisVars
  BY <1>5 DEF redisVars, RedisTypeOK, IndexOutlives, SecretsAreNew
<1> QED
  BY <1>1, <1>2, <1>3, <1>4, <1>5 DEF RedisStep

\* What holds of Redis, whatever calls and devices do.
LEMMA RedisInvariant == Spec => []RedisInv
<1>1. RedisInv /\ [Next]_vars => RedisInv'
  BY OnlyRedisSteps, RedisKept
<1> QED
  BY RedisInit, <1>1, PTL DEF Spec

-----------------------------------------------------------------------------
(* The calls and the devices.                                              *)

AppTypeOK ==
  /\ stored \in [Devices -> Tokens \cup {None}]
  /\ refreshing \in [Devices -> Calls \cup {None}]
  /\ loggingIn \in [Devices -> Calls \cup {None}]
  /\ leaving \in [Devices -> Tokens \cup {None}]
  /\ screen \in [Devices -> {"login", "loggedOut", "main"}]
  /\ mishaps \in 0..MaxMishaps

\* A call that moves on stays typed.
LEMMA Becomes ==
  ASSUME calls \in [Calls -> CallStates], NEW c \in Calls, NEW st \in CallStates, Become(c, st)
  PROVE  calls' \in [Calls -> CallStates]
BY DEF Become

\* A call that is answered stays typed.
LEMMA Answered ==
  ASSUME calls \in [Calls -> CallStates], NEW c \in Calls, NEW t \in Tokens \cup {None}, Answer(c, t)
  PROVE  calls' \in [Calls -> CallStates]
<1>1. [kind |-> "answered", token |-> t] \in CallStates /\ Free \in CallStates
  BY DEF CallStates, Answers
<1> QED
  BY <1>1, Becomes DEF Answer

\* What the kind of a call says about its other fields.
LEMMA CallFields ==
  ASSUME calls \in [Calls -> CallStates], NEW c \in Calls
  PROVE  /\ calls[c].kind \in {"refresh", "logout"} => calls[c] \in TokenCalls
         /\ calls[c].kind = "login" => calls[c] \in LoginCalls
         /\ calls[c].kind = "answered" => calls[c] \in Answers
BY DEF CallStates, TokenCalls, LoginCalls, Answers, Free

\* The service keeps the calls typed.
LEMMA CallsKept ==
  ASSUME SessionTypeOK, RedisInv, NEW c \in Calls, ServerStep(c)
  PROVE  calls' \in [Calls -> CallStates]
<1> USE DEF SessionTypeOK
<1>1. CASE LookUpUser(c)
  <2>1. [calls[c] EXCEPT !.at = "script"] \in CallStates
    BY <1>1, CallFields DEF LookUpUser, TokenCalls, CallStates
  <2> QED
    BY <1>1, <2>1, Becomes, Answered DEF LookUpUser
<1>2. CASE RefreshToken(c)
  <2>1. CASE RotateScript(calls[c].token) /\ Answer(c, <<calls[c].token[1], issued[calls[c].token[1]] + 1>>)
    <3>1. calls[c].token[1] \in Sessions
      BY <1>2, CallFields DEF RefreshToken, TokenCalls, Tokens
    <3>2. issued[calls[c].token[1]] \in 0..MaxSecrets /\ issued[calls[c].token[1]] < MaxSecrets
      BY <2>1, <3>1 DEF RotateScript
    <3>3. issued[calls[c].token[1]] + 1 \in 1..MaxSecrets
      BY <3>2, SessionAssumption DEF SessionAssumption
    <3>4. <<calls[c].token[1], issued[calls[c].token[1]] + 1>> \in Tokens
      BY <3>1, <3>3 DEF Tokens
    <3> QED
      BY <2>1, <3>4, Answered
  <2>2. CASE Answer(c, None)
    BY <2>2, Answered
  <2> QED
    BY <1>2, <2>1, <2>2 DEF RefreshToken
<1>3. CASE Logout(c)
  BY <1>3, Answered DEF Logout
<1>4. CASE CreateSession(c)
  <2>1. calls[c] \in LoginCalls
    BY <1>4, CallFields DEF CreateSession
  <2>2. CASE TryAnotherId(c)
    <3>1. CASE calls[c].tries < 3 /\ Become(c, [calls[c] EXCEPT !.tries = @ + 1])
      <4>1. [calls[c] EXCEPT !.tries = @ + 1] \in LoginCalls
        BY <2>1, <3>1 DEF LoginCalls
      <4> QED
        BY <3>1, <4>1, Becomes DEF CallStates
    <3>2. CASE Answer(c, None)
      BY <3>2, Answered
    <3> QED
      BY <2>2, <3>1, <3>2 DEF TryAnotherId
  <2>3. ASSUME NEW s \in Sessions, Become(c, [calls[c] EXCEPT !.at = "sign", !.token = <<s, 1>>])
        PROVE  calls' \in [Calls -> CallStates]
    <3>1. [calls[c] EXCEPT !.at = "sign", !.token = <<s, 1>>] \in LoginCalls
      BY <2>1 DEF LoginCalls
    <3> QED
      BY <2>3, <3>1, Becomes DEF CallStates
  <2> QED
    BY <1>4, <2>2, <2>3 DEF CreateSession
<1>5. CASE SignTokens(c)
  <2>1. calls[c].token \in Tokens
    BY <1>5, CallFields, SessionAssumption DEF SignTokens, LoginCalls, Tokens, SessionAssumption
  <2> QED
    BY <1>5, <2>1, Answered DEF SignTokens
<1> QED
  BY <1>1, <1>2, <1>3, <1>4, <1>5 DEF ServerStep

\* Storing or clearing a token keeps the devices typed.
LEMMA Saves ==
  ASSUME SessionTypeOK, NEW d \in Devices, NEW t \in Tokens,
         SaveAuthTokens(d, t) \/ ClearAuthCredentials(d)
  PROVE  stored' \in [Devices -> Tokens \cup {None}] /\ mishaps' \in 0..MaxMishaps
BY SessionAssumption DEF SessionAssumption, SessionTypeOK, SaveAuthTokens, ClearAuthCredentials

\* Clearing the credentials keeps the devices typed.
LEMMA Clears ==
  ASSUME SessionTypeOK, NEW d \in Devices, ClearAuthCredentials(d)
  PROVE  stored' \in [Devices -> Tokens \cup {None}] /\ mishaps' \in 0..MaxMishaps
BY SessionAssumption DEF SessionAssumption, SessionTypeOK, ClearAuthCredentials

\* The application keeps calls and devices typed.
LEMMA AppKeepsTypes ==
  ASSUME SessionTypeOK, NEW d \in Devices, AppStep(d)
  PROVE  AppTypeOK' /\ calls' \in [Calls -> CallStates]
<1> USE DEF SessionTypeOK, AppTypeOK
<1>1. ASSUME NEW c \in Calls, StartLogin(d, c) PROVE AppTypeOK' /\ calls' \in [Calls -> CallStates]
  <2>1. [kind |-> "login", at |-> "create", token |-> None, tries |-> 1] \in CallStates
    BY DEF CallStates, LoginCalls
  <2> QED
    BY <1>1, <2>1, Becomes DEF StartLogin, Send
<1>2. ASSUME NEW c \in Calls, StartRefresh(d, c) PROVE AppTypeOK' /\ calls' \in [Calls -> CallStates]
  <2>1. [kind |-> "refresh", at |-> "lookup", token |-> stored[d]] \in CallStates
    BY <1>2 DEF StartRefresh, CallStates, TokenCalls
  <2> QED
    BY <1>2, <2>1, Becomes DEF StartRefresh, Send
<1>3. ASSUME NEW c \in Calls, LogoutAndClear(d, c) PROVE AppTypeOK' /\ calls' \in [Calls -> CallStates]
  <2>1. [kind |-> "logout", at |-> "lookup", token |-> leaving[d]] \in CallStates
    BY <1>3 DEF LogoutAndClear, CallStates, TokenCalls
  <2> QED
    BY <1>3, <2>1, Becomes, Clears DEF LogoutAndClear, Send
<1> Free \in CallStates
  BY DEF CallStates
<1>4. CASE RefreshSucceeds(d)
  <2>1. refreshing[d] \in Calls /\ calls[refreshing[d]].token \in Tokens
    BY <1>4, CallFields DEF RefreshSucceeds, Answers
  <2> QED
    BY <1>4, <2>1, Saves, Becomes DEF RefreshSucceeds
<1>5. CASE RefreshFails(d)
  BY <1>5, Clears, Becomes DEF RefreshFails
<1>6. CASE LoginSucceeds(d)
  <2>1. loggingIn[d] \in Calls /\ calls[loggingIn[d]].token \in Tokens
    BY <1>6, CallFields DEF LoginSucceeds, Answers
  <2> QED
    BY <1>6, <2>1, Saves, Becomes DEF LoginSucceeds
<1>7. CASE LoginFails(d)
  BY <1>7, Becomes DEF LoginFails
<1>8. CASE RetryRejected(d)
  BY <1>8, Clears DEF RetryRejected
<1>9. CASE StartLogout(d)
  BY <1>9 DEF StartLogout
<1>10. CASE AppKilled(d)
  BY <1>10, SessionAssumption DEF SessionAssumption, AppKilled
<1> QED
  BY <1>1, <1>2, <1>3, <1>4, <1>5, <1>6, <1>7, <1>8, <1>9, <1>10 DEF AppStep

\* Every step keeps the types.
LEMMA TypesKept == ASSUME SessionTypeOK, RedisInv, [Next]_vars PROVE SessionTypeOK'
<1>1. RedisTypeOK'
  BY OnlyRedisSteps, RedisKept DEF RedisInv
<1>2. AppTypeOK' /\ calls' \in [Calls -> CallStates]
  <2>1. CASE UNCHANGED vars \/ Tick
    BY <2>1 DEF vars, Tick, deviceVars, SessionTypeOK, AppTypeOK
  <2>2. ASSUME NEW c \in Calls, ServerStep(c) PROVE AppTypeOK' /\ calls' \in [Calls -> CallStates]
    <3>1. UNCHANGED deviceVars
      BY <2>2 DEF ServerStep, LookUpUser, RefreshToken, Logout, CreateSession, SignTokens
    <3> QED
      BY <2>2, <3>1, CallsKept DEF deviceVars, SessionTypeOK, AppTypeOK
  <2>3. ASSUME NEW d \in Devices, AppStep(d) PROVE AppTypeOK' /\ calls' \in [Calls -> CallStates]
    BY <2>3, AppKeepsTypes
  <2> QED
    BY <2>1, <2>2, <2>3 DEF Next
<1> QED
  BY <1>1, <1>2 DEF RedisTypeOK, AppTypeOK, SessionTypeOK

\* Type correctness, from the invariant of Redis: a new secret stays in range
\* because a rotation starts from a typed one.
THEOREM SessionTypes == Spec => []SessionTypeOK
<1>1. Init => SessionTypeOK
  BY SessionAssumption DEF SessionAssumption, Init, SessionTypeOK, CallStates
<1>2. SessionTypeOK /\ RedisInv /\ [Next]_vars => SessionTypeOK'
  BY TypesKept
<1> QED
  BY RedisInvariant, <1>1, <1>2, PTL DEF Spec

\* A session that can be refreshed is in the index of its user: the TTLs that
\* rotation renews together never let the index die first.
THEOREM IndexCovers == Spec => []IndexCoversSessions
<1>1. RedisInv => IndexCoversSessions
  BY DEF RedisInv, IndexOutlives, IndexCoversSessions, Live
<1> QED
  BY RedisInvariant, <1>1, PTL

\* A call that answers is no longer what it was.
LEMMA AnswerChanges ==
  ASSUME calls \in [Calls -> CallStates], NEW c \in Calls, NEW t,
         calls[c].kind \in {"refresh", "logout", "login"}, Answer(c, t)
  PROVE  calls'[c] # calls[c]
BY DEF Answer, Become, Free

\* A session that is gone after a step was ended in one of the ways allowed.
LEMMA EndedStep ==
  ASSUME SessionTypeOK, RedisInv, [Next]_vars, NEW s \in Live, s \notin Live'
  PROVE  MayEnd(s)
<1> s \in Sessions /\ secret[s] > 0
  BY DEF Live
<1>1. CASE Tick
  <2>1. secret'[s] = 0
    BY <1>1, SessionAssumption DEF Live, Tick, RedisInv, RedisTypeOK, SessionAssumption
  <2>2. ~(ttl[s] > 1)
    BY <1>1, <2>1 DEF Tick
  <2>3. ttl[s] = 1
    BY <2>2 DEF RedisInv, RedisTypeOK, IndexOutlives
  <2> QED
    BY <1>1, <2>3 DEF Tick, MayEnd
<1>2. ASSUME UNCHANGED secret PROVE FALSE
  BY <1>2 DEF Live
<1>3. ASSUME NEW c \in Calls, ServerStep(c) PROVE MayEnd(s)
  <2>1. CASE RefreshToken(c) \/ CreateSession(c)
    <3>1. CASE UNCHANGED redisVars
      BY <1>2, <3>1 DEF redisVars
    <3>2. CASE RotateScript(calls[c].token)
      <4>1. PICK x \in Sessions : secret[x] > 0 /\ RotatesTo(x)
        BY <3>2, Rotation
      <4> QED
        BY <4>1 DEF RotatesTo, RedisInv, RedisTypeOK, Live
    <3>3. ASSUME NEW x \in Sessions, CreateScript(x) PROVE FALSE
      BY <3>3 DEF CreateScript, RedisInv, RedisTypeOK, Live
    <3> QED
      BY <2>1, <3>1, <3>2, <3>3 DEF RefreshToken, CreateSession
  <2>2. CASE LookUpUser(c)
    BY <1>2, <2>2 DEF LookUpUser, redisVars
  <2>3. ASSUME NEW x, DropSession(x) PROVE x = s
    BY <2>3 DEF DropSession, RedisInv, RedisTypeOK, Live
  <2>4. CASE Logout(c)
    <3>1. RevokeScript(calls[c].token)
      BY <1>2, <2>4 DEF Logout, redisVars
    <3>2. calls[c].token = Newest(s)
      BY <2>3, <3>1 DEF RevokeScript
    <3>3. calls'[c] # calls[c]
      BY <2>4, AnswerChanges DEF Logout, SessionTypeOK
    <3> QED
      BY <2>4, <3>2, <3>3 DEF Logout, MayEnd
  <2>5. CASE SignTokens(c)
    <3>1. DropSession(calls[c].token[1])
      BY <1>2, <2>5 DEF SignTokens, redisVars
    <3>2. calls[c].token = <<s, 1>>
      BY <2>3, <2>5, <3>1, CallFields DEF SignTokens, SessionTypeOK, LoginCalls
    <3>3. calls'[c] # calls[c]
      BY <2>5, AnswerChanges DEF SignTokens, SessionTypeOK
    <3> QED
      BY <2>5, <3>2, <3>3 DEF SignTokens, MayEnd
  <2> QED
    BY <1>3, <2>1, <2>2, <2>4, <2>5 DEF ServerStep
<1>4. ASSUME NEW d \in Devices, AppStep(d) PROVE UNCHANGED secret
  BY <1>4 DEF AppStep, StartLogin, StartRefresh, LogoutAndClear, RefreshSucceeds, RefreshFails,
              LoginSucceeds, LoginFails, RetryRejected, StartLogout, AppKilled, redisVars
<1>5. CASE UNCHANGED vars
  BY <1>2, <1>5 DEF vars, redisVars
<1> QED
  BY <1>1, <1>2, <1>3, <1>4, <1>5 DEF Next

\* A session ends before its time only for the holder of its newest token, or
\* for the login that has not handed it out.
THEOREM NewestTokenEndsSession == Spec => OnlyNewestTokenEndsSession
<1>1. SessionTypeOK /\ RedisInv /\ [Next]_vars =>
        [\A s \in Live : s \notin Live' => MayEnd(s)]_vars
  BY EndedStep
<1> QED
  BY SessionTypes, RedisInvariant, <1>1, PTL DEF Spec, OnlyNewestTokenEndsSession

\* The sessions in Redis, with the secrets Rotate compares, implement one-time
\* tokens: no token is exchanged twice and no session comes back.
THEOREM SessionsImplementOneTimeTokens == Spec => TokensAreOneTime
<1>1. Init => Ledger!Init
  BY DEF Init, Ledger!Init, Live
<1>2. ASSUME RedisInv, RedisStep PROVE [Ledger!Next]_(Ledger!vars)
  <2> USE <1>2, SessionAssumption DEF SessionAssumption, RedisInv
  <2>1. CASE TimePasses
    <3>1. PICK ended \in SUBSET Live : Live' = Live \ ended
      <4>1. Live' \subseteq Live
        BY <2>1 DEF TimePasses, Live, RedisTypeOK
      <4> WITNESS Live \ Live' \in SUBSET Live
      <4> QED
        BY <4>1
    <3>2. CASE ended = {}
      BY <2>1, <3>1, <3>2 DEF TimePasses, Ledger!vars
    <3>3. CASE ended # {}
      BY <2>1, <3>1, <3>3 DEF TimePasses, Ledger!Next, Ledger!Close
    <3> QED
      BY <3>2, <3>3
  <2>2. ASSUME NEW s \in Sessions, issued[s] = 0, CreateScript(s) PROVE Ledger!Open(s)
    <3>1. Live' = Live \cup {s}
      <4>1. \A x \in Sessions : secret'[x] > 0 <=> x = s \/ secret[x] > 0
        BY <2>2 DEF CreateScript, RedisTypeOK
      <4> QED
        BY <4>1 DEF Live
    <3> QED
      BY <2>2, <3>1 DEF CreateScript, Ledger!Open
  <2>3. ASSUME NEW t, RotateScript(t) PROVE \E s \in Sessions : Ledger!Redeem(s)
    <3>1. PICK s \in Sessions : secret[s] > 0 /\ RotatesTo(s)
      BY <2>3, Rotation
    <3>2. <<s, issued[s]>> \notin redeemed
      BY DEF SecretsAreNew, RedisTypeOK
    <3>3. Live' = Live
      <4>1. \A x \in Sessions : secret'[x] > 0 <=> secret[x] > 0
        BY <3>1 DEF RotatesTo, RedisTypeOK
      <4> QED
        BY <4>1 DEF Live
    <3> QED
      BY <3>1, <3>2, <3>3 DEF RotatesTo, Ledger!Redeem, Live
  <2>4. ASSUME NEW s, DropSession(s) PROVE [Ledger!Next]_(Ledger!vars)
    <3>1. Live' = Live \ {s}
      <4>1. \A x \in Sessions : secret'[x] > 0 <=> x # s /\ secret[x] > 0
        BY <2>4 DEF DropSession, RedisTypeOK
      <4> QED
        BY <4>1 DEF Live
    <3>2. CASE s \in Live
      <4>1. Ledger!Close({s})
        BY <2>4, <3>1 DEF DropSession, Ledger!Close
      <4> QED
        BY <4>1, <3>2 DEF Ledger!Next
    <3>3. CASE s \notin Live
      BY <2>4, <3>1, <3>3 DEF DropSession, Ledger!vars
    <3> QED
      BY <3>2, <3>3
  <2>5. CASE UNCHANGED redisVars
    BY <2>5 DEF redisVars, Ledger!vars, Live
  <2> QED
    BY <1>2, <2>1, <2>2, <2>3, <2>4, <2>5 DEF RedisStep, Ledger!Next
<1>3. RedisInv /\ [Next]_vars => [Ledger!Next]_(Ledger!vars)
  BY OnlyRedisSteps, <1>2
<1> QED
  BY RedisInvariant, <1>1, <1>3, PTL DEF Spec, TokensAreOneTime, Ledger!Spec

-----------------------------------------------------------------------------
(* Who holds which token.                                                  *)

\* The token a call will store on a device, if anybody waits for it.
Carried(c) == IF calls[c].kind \in {"login", "refresh", "answered"} THEN calls[c].token ELSE None

Of(token, s) == token # None /\ token[1] = s
Waiting(d, c) == refreshing[d] = c \/ loggingIn[d] = c

\* One device waits for a call, and for the kind of call it made.
OneWaits ==
  /\ \A d \in Devices, c \in Calls :
       /\ refreshing[d] = c => loggingIn[d] # c /\ calls[c].kind \in {"refresh", "answered"}
       /\ loggingIn[d] = c => calls[c].kind \in {"login", "answered"}
  /\ \A d, e \in Devices, c \in Calls : Waiting(d, c) /\ Waiting(e, c) => d = e

\* A session is in one place: on one device, on the way in one call, or in the
\* call that refreshes it for the device.
OneHolds ==
  \A s \in Sessions :
    /\ \A d, e \in Devices : Of(stored[d], s) /\ Of(stored[e], s) => d = e
    /\ \A c, b \in Calls : Of(Carried(c), s) /\ Of(Carried(b), s) => c = b
    /\ \A d \in Devices, c \in Calls : Of(stored[d], s) /\ Of(Carried(c), s) => refreshing[d] = c

HeldIsIssued ==
  \A s \in Sessions :
    /\ \A d \in Devices : Of(stored[d], s) => issued[s] # 0
    /\ \A c \in Calls : Of(Carried(c), s) => issued[s] # 0

\* What is not being refreshed is the newest token of its session.
HeldIsNewest ==
  \A s \in Live :
    /\ \A d \in Devices : Of(stored[d], s) /\ refreshing[d] = None => stored[d] = Newest(s)
    /\ \A c \in Calls : Of(Carried(c), s) /\ calls[c].kind # "refresh" => Carried(c) = Newest(s)

Custody == OneWaits /\ OneHolds /\ HeldIsIssued /\ HeldIsNewest

\* What a step of the service does to call c, the sessions and who holds them.
Serves(c) ==
  /\ \A b \in Calls \ {c} : calls'[b] = calls[b]
  /\ calls'[c].kind \in {calls[c].kind, "answered"} \/ ~Awaited(c)
  /\ \A s \in Sessions :
       /\ issued[s] # 0 => issued'[s] # 0
       /\ Of(Carried(c)', s) => Of(Carried(c), s) \/ issued[s] = 0
       /\ Of(Carried(c)', s) => issued'[s] # 0
       /\ s \in Live' => \/ s \in Live /\ secret'[s] = secret[s]
                         \/ issued[s] = 0
                         \/ Of(Carried(c), s) /\ calls[c].kind = "refresh"
       /\ s \in Live' /\ Of(Carried(c)', s) /\ calls'[c].kind # "refresh" => Carried(c)' = <<s, secret'[s]>>

\* A step of one call leaves the others alone.
LEMMA Became ==
  ASSUME calls \in [Calls -> CallStates], NEW c \in Calls, NEW st, Become(c, st)
  PROVE  calls'[c] = st /\ \A b \in Calls \ {c} : calls'[b] = calls[b]
BY DEF Become

\* An answer is carried to whoever waits for it, or by nobody.
LEMMA AnswerCarries ==
  ASSUME calls \in [Calls -> CallStates], NEW c \in Calls, NEW t, Answer(c, t)
  PROVE  /\ \A b \in Calls \ {c} : calls'[b] = calls[b]
         /\ calls'[c].kind = "answered" \/ ~Awaited(c)
         /\ calls'[c].kind # "refresh"
         /\ Carried(c)' \in {t, None}
<1>1. CASE Awaited(c)
  BY <1>1, Became DEF Answer, Carried
<1>2. CASE ~Awaited(c)
  BY <1>2, Became DEF Answer, Carried, Free
<1> QED
  BY <1>1, <1>2

\* Steps that create no session and rotate none.
LEMMA Quiet ==
  ASSUME RedisInv, UNCHANGED redisVars \/ (\E x : DropSession(x)), NEW s \in Sessions
  PROVE  issued' = issued /\ (s \in Live' => s \in Live /\ secret'[s] = secret[s])
BY DEF redisVars, DropSession, Live, RedisInv, RedisTypeOK

\* Every step of the service is one of these.
LEMMA Served ==
  ASSUME SessionTypeOK, RedisInv, HeldIsIssued, HeldIsNewest, NEW c \in Calls, ServerStep(c)
  PROVE  Serves(c)
<1> calls \in [Calls -> CallStates]
  BY DEF SessionTypeOK
<1>0. ASSUME NEW t, Answer(c, t), t = None \/ t = Carried(c),
             UNCHANGED redisVars \/ (\E x : DropSession(x)),
             calls[c].kind # "refresh" \/ t = None
      PROVE  Serves(c)
  <2>1. /\ \A b \in Calls \ {c} : calls'[b] = calls[b]
        /\ calls'[c].kind = "answered" \/ ~Awaited(c)
        /\ Carried(c)' \in {t, None}
    BY <1>0, AnswerCarries
  <2>2. ASSUME NEW s \in Sessions
        PROVE  /\ issued[s] # 0 => issued'[s] # 0
               /\ Of(Carried(c)', s) => Of(Carried(c), s) /\ issued'[s] # 0
               /\ s \in Live' => s \in Live /\ secret'[s] = secret[s]
               /\ s \in Live' /\ Of(Carried(c)', s) => Carried(c)' = <<s, secret'[s]>>
    <3>1. issued' = issued /\ (s \in Live' => s \in Live /\ secret'[s] = secret[s])
      BY <1>0, Quiet
    <3>2. Of(Carried(c)', s) => Carried(c)' = Carried(c) /\ Of(Carried(c), s) /\ calls[c].kind # "refresh"
      BY <1>0, <2>1 DEF Of
    <3> HIDE DEF Carried, Of
    <3> QED
      BY <3>1, <3>2 DEF HeldIsIssued, HeldIsNewest, Newest
  <2> QED
    BY <2>1, <2>2 DEF Serves
<1>1. CASE LookUpUser(c)
  <2>1. CASE Become(c, [calls[c] EXCEPT !.at = "script"])
    <3>1. calls[c] \in TokenCalls
      BY <1>1, CallFields DEF LookUpUser
    <3>2. /\ \A b \in Calls \ {c} : calls'[b] = calls[b]
          /\ calls'[c].kind = calls[c].kind
          /\ calls'[c].token = calls[c].token
      BY <2>1, <3>1, Became DEF TokenCalls
    <3>3. Carried(c)' = Carried(c) /\ (Carried(c) # None => calls[c].kind = "refresh")
      BY <1>1, <3>2 DEF Carried, LookUpUser
    <3>4. UNCHANGED redisVars
      BY <1>1 DEF LookUpUser
    <3>5. ASSUME NEW s \in Sessions
          PROVE  issued' = issued /\ (s \in Live' => s \in Live /\ secret'[s] = secret[s])
      BY <3>4, Quiet
    <3> HIDE DEF Carried
    <3> QED
      BY <3>2, <3>3, <3>5 DEF Serves, HeldIsIssued, Of
  <2>2. CASE Answer(c, None)
    BY <1>0, <1>1, <2>2 DEF LookUpUser
  <2> QED
    BY <1>1, <2>1, <2>2 DEF LookUpUser
<1>2. CASE RefreshToken(c)
  <2>1. CASE RotateScript(calls[c].token)
    <3> DEFINE s == calls[c].token[1]
               t == <<s, issued[s] + 1>>
    <3>1. PICK x \in Sessions : secret[x] > 0 /\ RotatesTo(x)
      BY <2>1, Rotation
    <3>2. s \in Sessions /\ secret' = [secret EXCEPT ![s] = issued[s] + 1]
                         /\ issued' = [issued EXCEPT ![s] = @ + 1]
                         /\ calls[c].token # None
      BY <1>2, <2>1, CallFields, SessionAssumption
      DEF RotateScript, RefreshToken, TokenCalls, Tokens, SessionAssumption
    <3>3. Of(Carried(c), s)
      BY <1>2, <3>2 DEF Carried, Of, RefreshToken
    <3>4. Answer(c, t) \/ Answer(c, None)
      <4>1. Answer(c, <<calls[c].token[1], issued[calls[c].token[1]] + 1>>) \/ Answer(c, None)
        BY <1>2 DEF RefreshToken
      <4> QED
        BY <4>1
    <3>5. /\ \A b \in Calls \ {c} : calls'[b] = calls[b]
          /\ calls'[c].kind = "answered" \/ ~Awaited(c)
          /\ Carried(c)' \in {t, None}
      <4> HIDE DEF t
      <4> QED
        BY <3>4, AnswerCarries
    <3>6. ASSUME NEW y \in Sessions
          PROVE  /\ issued[y] # 0 => issued'[y] # 0
                 /\ issued'[s] # 0
                 /\ secret'[s] = issued[s] + 1
                 /\ y # s /\ y \in Live' => y \in Live /\ secret'[y] = secret[y]
      BY <3>2 DEF Live, RedisInv, RedisTypeOK
    <3>7. \A y : Of(Carried(c)', y) => y = s /\ Carried(c)' = t
      BY <3>5 DEF Of
    <3>8. calls[c].kind = "refresh"
      BY <1>2 DEF RefreshToken
    <3> HIDE DEF s
    <3> QED
      BY <3>2, <3>3, <3>5, <3>6, <3>7, <3>8 DEF Serves
  <2>2. CASE Answer(c, None) /\ UNCHANGED redisVars
    BY <1>0, <2>2
  <2> QED
    BY <1>2, <2>1, <2>2 DEF RefreshToken
<1>3. CASE Logout(c)
  BY <1>0, <1>3 DEF Logout, RevokeScript
<1>4. CASE CreateSession(c)
  <2>1. calls[c] \in LoginCalls /\ calls[c].token = None
    BY <1>4, CallFields, SessionAssumption
    DEF CreateSession, LoginCalls, Tokens, SessionAssumption
  <2>2. ASSUME TryAnotherId(c)
        PROVE  /\ \A b \in Calls \ {c} : calls'[b] = calls[b]
               /\ calls'[c].kind \in {calls[c].kind, "answered"} \/ ~Awaited(c)
               /\ Carried(c)' = None
    <3>1. CASE Become(c, [calls[c] EXCEPT !.tries = @ + 1])
      <4>1. [calls[c] EXCEPT !.tries = @ + 1].kind = calls[c].kind
            /\ [calls[c] EXCEPT !.tries = @ + 1].token = None
        BY <2>1 DEF LoginCalls
      <4>2. /\ \A b \in Calls \ {c} : calls'[b] = calls[b]
            /\ calls'[c].kind = calls[c].kind
            /\ calls'[c].token = None
        BY <3>1, <4>1, Became
      <4> QED
        BY <4>2 DEF Carried
    <3>2. CASE Answer(c, None)
      BY <3>2, AnswerCarries
    <3> QED
      BY <2>2, <3>1, <3>2 DEF TryAnotherId
  <2>3. ASSUME NEW s \in Sessions, issued[s] = 0, CreateScript(s), NEW y \in Sessions
        PROVE  /\ issued[y] # 0 => issued'[y] # 0
               /\ issued'[s] # 0
               /\ secret'[s] = 1
               /\ y # s /\ y \in Live' => y \in Live /\ secret'[y] = secret[y]
    BY <2>3 DEF CreateScript, Live, RedisInv, RedisTypeOK
  <2>4. ASSUME NEW s \in Sessions, issued[s] = 0, CreateScript(s), TryAnotherId(c) PROVE Serves(c)
    <3> HIDE DEF Carried
    <3> QED
      BY <2>2, <2>3, <2>4 DEF Serves, Of
  <2>5. ASSUME NEW s \in Sessions, issued[s] = 0, CreateScript(s),
               Become(c, [calls[c] EXCEPT !.at = "sign", !.token = <<s, 1>>])
        PROVE  Serves(c)
    <3>1. [calls[c] EXCEPT !.at = "sign", !.token = <<s, 1>>].kind = calls[c].kind
          /\ [calls[c] EXCEPT !.at = "sign", !.token = <<s, 1>>].token = <<s, 1>>
      BY <2>1 DEF LoginCalls
    <3>2. /\ \A b \in Calls \ {c} : calls'[b] = calls[b]
          /\ calls'[c].kind = calls[c].kind
          /\ calls'[c].token = <<s, 1>>
      BY <2>5, <3>1, Became
    <3>3. Carried(c)' = <<s, 1>>
      BY <1>4, <3>2 DEF Carried, CreateSession
    <3>4. \A y : Of(Carried(c)', y) => y = s
      BY <3>3 DEF Of
    <3> HIDE DEF Carried
    <3> QED
      BY <2>3, <2>5, <3>2, <3>3, <3>4 DEF Serves
  <2>6. CASE TryAnotherId(c) /\ UNCHANGED redisVars
    <3>1. ASSUME NEW s \in Sessions
          PROVE  issued' = issued /\ (s \in Live' => s \in Live /\ secret'[s] = secret[s])
      BY <2>6, Quiet
    <3> HIDE DEF Carried
    <3> QED
      BY <2>2, <2>6, <3>1 DEF Serves, Of
  <2> QED
    BY <1>4, <2>4, <2>5, <2>6 DEF CreateSession
<1>5. CASE SignTokens(c)
  <2>1. calls[c].token = Carried(c) /\ calls[c].kind # "refresh"
    BY <1>5 DEF SignTokens, Carried
  <2> QED
    BY <1>0, <1>5, <2>1 DEF SignTokens
<1> QED
  BY <1>1, <1>2, <1>3, <1>4, <1>5 DEF ServerStep

\* The service's steps keep the custody of every token: only the call of the
\* device that holds a token can make it an old one.
LEMMA ServerKeepsCustody ==
  ASSUME SessionTypeOK, Custody, NEW c \in Calls, Serves(c), UNCHANGED deviceVars
  PROVE  Custody'
<1> UNCHANGED <<stored, refreshing, loggingIn>>
  BY DEF deviceVars
<1>1. OneWaits'
  BY SessionAssumption DEF Custody, OneWaits, Serves, Waiting, Awaited
<1>2. \A b \in Calls : b # c => Carried(b)' = Carried(b) /\ calls'[b] = calls[b]
  BY DEF Serves, Carried
<1>3. \A s \in Sessions :
        Of(Carried(c)', s) =>
          \/ Of(Carried(c), s)
          \/ (\A d \in Devices : ~Of(stored[d], s)) /\ (\A b \in Calls : ~Of(Carried(b), s))
  <2>1. \A s \in Sessions : Of(Carried(c)', s) => Of(Carried(c), s) \/ issued[s] = 0
    BY DEF Serves
  <2> QED
    BY <2>1 DEF Custody, HeldIsIssued
<1>4. OneHolds'
  <2>1. OneHolds
    BY DEF Custody
  <2> HIDE DEF Carried
  <2> QED
    BY <1>2, <1>3, <2>1 DEF OneHolds, Of
<1>5. HeldIsIssued'
  <2> HIDE DEF Carried
  <2> QED
    BY <1>2 DEF Custody, HeldIsIssued, Serves, Of
<1>6. HeldIsNewest'
  <2> SUFFICES ASSUME NEW s \in Sessions, s \in Live'
               PROVE  /\ \A d \in Devices : Of(stored[d], s) /\ refreshing[d] = None => stored[d] = <<s, secret'[s]>>
                      /\ \A b \in Calls : Of(Carried(b)', s) /\ calls'[b].kind # "refresh"
                                            => Carried(b)' = <<s, secret'[s]>>
    BY DEF HeldIsNewest, Live, Newest, Of
  <2>1. Of(Carried(c)', s) /\ calls'[c].kind # "refresh" => Carried(c)' = <<s, secret'[s]>>
    BY DEF Serves
  <2>2. CASE s \in Live /\ secret'[s] = secret[s]
    <3> HIDE DEF Carried
    <3> QED
      BY <1>2, <2>1, <2>2 DEF Custody, HeldIsNewest, Newest
  <2>3. CASE issued[s] = 0
    <3> HIDE DEF Carried
    <3> QED
      BY <1>2, <2>1, <2>3 DEF Custody, HeldIsIssued
  <2>4. CASE Of(Carried(c), s)
    <3>1. \A d \in Devices : Of(stored[d], s) => refreshing[d] = c
      BY <2>4 DEF Custody, OneHolds
    <3>2. \A b \in Calls : b # c => ~Of(Carried(b), s)
      BY <2>4 DEF Custody, OneHolds
    <3> HIDE DEF Carried
    <3> QED
      BY <1>2, <2>1, <3>1, <3>2, SessionAssumption DEF SessionAssumption
  <2> QED
    BY <2>2, <2>3, <2>4 DEF Serves
<1> QED
  BY <1>1, <1>4, <1>5, <1>6 DEF Custody

\* Redis is left alone, so the newest tokens are the same.
LEMMA SameSessions ==
  ASSUME UNCHANGED redisVars
  PROVE  /\ issued' = issued /\ Live' = Live
         /\ \A s : Newest(s)' = Newest(s)
BY DEF redisVars, Live, Newest

\* A step of device d that drops its token, or leaves it and goes on waiting,
\* and no longer waits for some call.
LEMMA DropsKeepCustody ==
  ASSUME SessionTypeOK, Custody, UNCHANGED redisVars, NEW d \in Devices,
         refreshing' \in {refreshing, [refreshing EXCEPT ![d] = None]},
         loggingIn' \in {loggingIn, [loggingIn EXCEPT ![d] = None]},
         \/ stored' = [stored EXCEPT ![d] = None]
         \/ stored' = stored /\ refreshing' = refreshing,
         \A b \in Calls : \/ calls'[b] = calls[b]
                          \/ /\ \A e \in Devices : ~Waiting(e, b)'
                             /\ Carried(b)' = None
  PROVE  Custody'
<1> None \notin Calls
  BY SessionAssumption DEF SessionAssumption
<1>1. /\ \A e \in Devices : refreshing'[e] \in {refreshing[e], None} /\ loggingIn'[e] \in {loggingIn[e], None}
      /\ \A e \in Devices : stored'[e] = None \/ (stored'[e] = stored[e] /\ refreshing'[e] = refreshing[e])
  <2>1. \A e \in Devices : refreshing'[e] \in {refreshing[e], None}
    BY DEF SessionTypeOK
  <2>2. \A e \in Devices : loggingIn'[e] \in {loggingIn[e], None}
    BY DEF SessionTypeOK
  <2>3. CASE stored' = [stored EXCEPT ![d] = None]
    <3>1. \A e \in Devices : stored'[e] = None \/ (e # d /\ stored'[e] = stored[e])
      BY <2>3 DEF SessionTypeOK
    <3>2. \A e \in Devices : e # d => refreshing'[e] = refreshing[e]
      BY DEF SessionTypeOK
    <3> QED
      BY <2>1, <2>2, <3>1, <3>2
  <2> QED
    BY <2>1, <2>2, <2>3
<1>2. OneWaits'
  <2>1. \A e \in Devices, b \in Calls : Waiting(e, b)' => Waiting(e, b) /\ calls'[b] = calls[b]
    BY <1>1 DEF Waiting
  <2>2. \A e \in Devices, b \in Calls :
          (refreshing'[e] = b => refreshing[e] = b) /\ (loggingIn'[e] = b => loggingIn[e] = b)
    BY <1>1
  <2>3. \A e \in Devices, b \in Calls :
          /\ refreshing'[e] = b => loggingIn'[e] # b /\ calls'[b].kind \in {"refresh", "answered"}
          /\ loggingIn'[e] = b => calls'[b].kind \in {"login", "answered"}
    BY <2>1, <2>2 DEF Custody, OneWaits, Waiting
  <2>4. \A e, f \in Devices, b \in Calls : Waiting(e, b)' /\ Waiting(f, b)' => e = f
    BY <2>1 DEF Custody, OneWaits
  <2> QED
    BY <2>3, <2>4 DEF OneWaits
<1>3. \A b \in Calls : Carried(b)' = None \/ (Carried(b)' = Carried(b) /\ calls'[b] = calls[b])
  BY DEF Carried
<1> HIDE DEF Carried
<1>4. OneHolds'
  BY <1>1, <1>3 DEF Custody, OneHolds, Of
<1>5. HeldIsIssued' /\ HeldIsNewest'
  BY <1>1, <1>3, SameSessions DEF Custody, HeldIsIssued, HeldIsNewest, Of
<1> QED
  BY <1>2, <1>4, <1>5 DEF Custody

\* The token of the answer device d waited for becomes the token of d.
LEMMA StoreKeepsCustody ==
  ASSUME SessionTypeOK, Custody, UNCHANGED redisVars, NEW d \in Devices, NEW c \in Calls,
         Waiting(d, c), calls[c].kind = "answered", calls[c].token # None,
         stored' = [stored EXCEPT ![d] = calls[c].token],
         Become(c, Free),
         \/ refreshing[d] = c /\ refreshing' = [refreshing EXCEPT ![d] = None] /\ loggingIn' = loggingIn
         \/ loggingIn[d] = c /\ loggingIn' = [loggingIn EXCEPT ![d] = None] /\ refreshing' = refreshing
  PROVE  Custody'
<1> None \notin Calls
  BY SessionAssumption DEF SessionAssumption
<1> calls \in [Calls -> CallStates]
  BY DEF SessionTypeOK
<1>1. /\ \A e \in Devices : e # d => refreshing'[e] = refreshing[e] /\ loggingIn'[e] = loggingIn[e]
      /\ \A e \in Devices : refreshing'[e] \in {refreshing[e], None} /\ loggingIn'[e] \in {loggingIn[e], None}
      /\ ~Waiting(d, c)'
      /\ \A e \in Devices : e # d => stored'[e] = stored[e]
      /\ stored'[d] = calls[c].token
  BY DEF SessionTypeOK, Waiting, Custody, OneWaits
<1>2. calls'[c] = Free /\ \A b \in Calls \ {c} : calls'[b] = calls[b]
  BY Became
<1>3. OneWaits'
  BY <1>1, <1>2 DEF Custody, OneWaits, Waiting
<1>4. Carried(c) = calls[c].token /\ Carried(c)' = None
  BY <1>2 DEF Carried, Free
<1>5. \A b \in Calls : b # c => Carried(b)' = Carried(b) /\ calls'[b] = calls[b]
  BY <1>2 DEF Carried
<1>6. \A s \in Sessions : Of(Carried(c), s) => \A e \in Devices : e # d => ~Of(stored[e], s)
  BY DEF Custody, OneHolds, OneWaits, Waiting
<1> HIDE DEF Carried
<1>7. OneHolds'
  BY <1>1, <1>4, <1>5, <1>6 DEF Custody, OneHolds, OneWaits, Waiting, Of
<1>8. HeldIsIssued' /\ HeldIsNewest'
  BY <1>1, <1>4, <1>5, SameSessions DEF Custody, HeldIsIssued, HeldIsNewest, Of
<1> QED
  BY <1>3, <1>7, <1>8 DEF Custody

\* Device d starts to wait for a new call, which carries its token or none.
LEMMA SendKeepsCustody ==
  ASSUME SessionTypeOK, Custody, UNCHANGED redisVars, UNCHANGED stored,
         NEW d \in Devices, NEW c \in Calls, NEW st, Send(c, st),
         \/ /\ refreshing[d] = None /\ stored[d] # None
            /\ refreshing' = [refreshing EXCEPT ![d] = c] /\ loggingIn' = loggingIn
            /\ st.kind = "refresh" /\ st.token = stored[d]
         \/ /\ loggingIn[d] = None
            /\ loggingIn' = [loggingIn EXCEPT ![d] = c] /\ refreshing' = refreshing
            /\ st.kind = "login" /\ st.token = None
  PROVE  Custody'
<1> None \notin Calls
  BY SessionAssumption DEF SessionAssumption
<1> calls \in [Calls -> CallStates]
  BY DEF SessionTypeOK
<1>1. calls'[c] = st /\ \A b \in Calls \ {c} : calls'[b] = calls[b]
  BY Became DEF Send
<1>2. \A e \in Devices : ~Waiting(e, c)
  BY DEF Send, Free, Custody, OneWaits, Waiting
<1>3. /\ \A e \in Devices : e # d => refreshing'[e] = refreshing[e] /\ loggingIn'[e] = loggingIn[e]
      /\ \/ refreshing'[d] = c /\ loggingIn'[d] = loggingIn[d] /\ st.kind = "refresh"
         \/ loggingIn'[d] = c /\ refreshing'[d] = refreshing[d] /\ st.kind = "login"
  BY DEF SessionTypeOK
<1>4. OneWaits'
  BY <1>1, <1>2, <1>3 DEF Custody, OneWaits, Waiting
<1>5. \A b \in Calls : b # c => Carried(b)' = Carried(b) /\ calls'[b] = calls[b]
  BY <1>1 DEF Carried
<1>6. Carried(c) = None
  BY DEF Send, Carried, Free
<1>7. \/ Carried(c)' = None /\ refreshing' = refreshing
      \/ Carried(c)' = stored[d] /\ refreshing[d] = None /\ refreshing'[d] = c /\ calls'[c].kind = "refresh"
  <2>1. CASE refreshing[d] = None /\ refreshing' = [refreshing EXCEPT ![d] = c] /\ st.kind = "refresh" /\ st.token = stored[d]
    <3>1. refreshing'[d] = c
      BY <2>1 DEF SessionTypeOK
    <3> QED
      BY <1>1, <2>1, <3>1 DEF Carried
  <2>2. CASE refreshing' = refreshing /\ st.kind = "login" /\ st.token = None
    BY <1>1, <2>2 DEF Carried
  <2> QED
    BY <2>1, <2>2
<1> HIDE DEF Carried
<1>8. OneHolds'
  <2>1. CASE Carried(c)' = None /\ refreshing' = refreshing
    BY <1>5, <2>1 DEF Custody, OneHolds, Of
  <2>2. CASE Carried(c)' = stored[d] /\ refreshing[d] = None /\ refreshing'[d] = c
    <3>1. \A s \in Sessions : Of(stored[d], s) => \A b \in Calls : ~Of(Carried(b), s)
      BY <2>2 DEF Custody, OneHolds
    <3> QED
      BY <1>3, <1>5, <2>2, <3>1 DEF Custody, OneHolds
  <2> QED
    BY <1>7, <2>1, <2>2
<1>9. HeldIsIssued'
  BY <1>5, <1>7, SameSessions DEF Custody, HeldIsIssued, Of
<1>10. HeldIsNewest'
  BY <1>3, <1>5, <1>7, SameSessions DEF Custody, HeldIsNewest, Of
<1> QED
  BY <1>4, <1>8, <1>9, <1>10 DEF Custody

\* Without mishaps the application keeps the custody of its tokens.
LEMMA AppKeepsCustody ==
  ASSUME SessionTypeOK, Custody, mishaps' = 0, NEW d \in Devices, AppStep(d)
  PROVE  Custody'
<1> None \notin Calls
  BY SessionAssumption DEF SessionAssumption
<1> mishaps + 1 # 0
  BY SessionAssumption DEF SessionAssumption, SessionTypeOK
<1> calls \in [Calls -> CallStates]
  BY DEF SessionTypeOK
<1>0. ASSUME NEW c \in Calls, UNCHANGED calls \/ (calls[c].kind = "answered" /\ Become(c, Free))
      PROVE  \A b \in Calls : calls'[b] = calls[b] \/ (b = c /\ Carried(b)' = None /\ calls[c].kind = "answered")
  <2>1. CASE Become(c, Free)
    <3>1. calls'[c] = Free /\ \A b \in Calls \ {c} : calls'[b] = calls[b]
      BY <2>1, Became
    <3> QED
      BY <1>0, <2>1, <3>1 DEF Carried, Free
  <2> QED
    BY <1>0, <2>1
<1>1. ASSUME NEW c \in Calls, StartLogin(d, c) PROVE Custody'
  <2> DEFINE st == [kind |-> "login", at |-> "create", token |-> None, tries |-> 1]
  <2>1. st.kind = "login" /\ st.token = None /\ Send(c, st)
    BY <1>1 DEF StartLogin
  <2> HIDE DEF st
  <2> QED
    BY <1>1, <2>1, SendKeepsCustody DEF StartLogin
<1>2. ASSUME NEW c \in Calls, StartRefresh(d, c) PROVE Custody'
  <2> DEFINE st == [kind |-> "refresh", at |-> "lookup", token |-> stored[d]]
  <2>1. st.kind = "refresh" /\ st.token = stored[d] /\ Send(c, st)
    BY <1>2 DEF StartRefresh
  <2> HIDE DEF st
  <2> QED
    BY <1>2, <2>1, SendKeepsCustody DEF StartRefresh
<1>3. ASSUME NEW c \in Calls, LogoutAndClear(d, c) PROVE Custody'
  <2> DEFINE st == [kind |-> "logout", at |-> "lookup", token |-> leaving[d]]
  <2>1. st.kind = "logout" /\ calls[c] = Free /\ Become(c, st)
    BY <1>3 DEF LogoutAndClear, Send
  <2> HIDE DEF st
  <2>2. calls'[c] = st /\ \A b \in Calls \ {c} : calls'[b] = calls[b]
    BY <2>1, Became
  <2>3. Carried(c)' = None
    BY <2>1, <2>2 DEF Carried
  <2>4. \A e \in Devices : ~Waiting(e, c)
    BY <2>1 DEF Free, Custody, OneWaits, Waiting
  <2>5. UNCHANGED <<redisVars, refreshing, loggingIn>> /\ stored' = [stored EXCEPT ![d] = None]
    BY <1>3 DEF LogoutAndClear, ClearAuthCredentials
  <2>6. \A e \in Devices : ~Waiting(e, c)'
    BY <2>4, <2>5 DEF Waiting
  <2> QED
    BY <2>2, <2>3, <2>5, <2>6, DropsKeepCustody
<1>4. CASE RefreshSucceeds(d)
  <2>1. PICK c \in Calls : c = refreshing[d]
    BY <1>4 DEF RefreshSucceeds, SessionTypeOK
  <2>2. stored' = [stored EXCEPT ![d] = calls[c].token]
    BY <1>4, <2>1 DEF RefreshSucceeds, SaveAuthTokens
  <2>3. /\ Waiting(d, c) /\ calls[c].kind = "answered" /\ calls[c].token # None
        /\ Become(c, Free) /\ UNCHANGED <<redisVars, loggingIn>>
        /\ refreshing[d] = c /\ refreshing' = [refreshing EXCEPT ![d] = None]
    BY <1>4, <2>1 DEF RefreshSucceeds, Waiting
  <2> QED
    BY <2>1, <2>2, <2>3, StoreKeepsCustody
<1>5. CASE RefreshFails(d)
  <2>1. PICK c \in Calls : c = refreshing[d]
    BY <1>5 DEF RefreshFails, SessionTypeOK
  <2>2. /\ UNCHANGED <<redisVars, loggingIn>>
        /\ stored' = [stored EXCEPT ![d] = None]
        /\ refreshing' = [refreshing EXCEPT ![d] = None]
        /\ UNCHANGED calls \/ (calls[c].kind = "answered" /\ Become(c, Free))
    BY <1>5, <2>1 DEF RefreshFails, ClearAuthCredentials
  <2>3. \A e \in Devices : ~Waiting(e, c)'
    <3>1. /\ refreshing'[d] = None /\ loggingIn' = loggingIn
          /\ \A e \in Devices : e # d => refreshing'[e] = refreshing[e]
      BY <2>2 DEF SessionTypeOK
    <3>2. \A e \in Devices : Waiting(e, c) => e = d
      BY <2>1 DEF Custody, OneWaits, Waiting
    <3>3. refreshing[d] # loggingIn[d]
      BY <2>1 DEF Custody, OneWaits
    <3> QED
      BY <2>1, <3>1, <3>2, <3>3 DEF Waiting
  <2>4. \A b \in Calls : calls'[b] = calls[b] \/ (b = c /\ Carried(b)' = None /\ calls[c].kind = "answered")
    BY <1>0, <2>1, <2>2
  <2>5. \A b \in Calls :
          \/ calls'[b] = calls[b]
          \/ (\A e \in Devices : ~Waiting(e, b)') /\ Carried(b)' = None
    BY <2>3, <2>4
  <2> QED
    BY <2>2, <2>5, DropsKeepCustody
<1>6. CASE LoginSucceeds(d)
  <2>1. PICK c \in Calls : c = loggingIn[d]
    BY <1>6 DEF LoginSucceeds, SessionTypeOK
  <2>2. stored' = [stored EXCEPT ![d] = calls[c].token]
    BY <1>6, <2>1 DEF LoginSucceeds, SaveAuthTokens
  <2>3. /\ Waiting(d, c) /\ calls[c].kind = "answered" /\ calls[c].token # None
        /\ Become(c, Free) /\ UNCHANGED <<redisVars, refreshing>>
        /\ loggingIn[d] = c /\ loggingIn' = [loggingIn EXCEPT ![d] = None]
    BY <1>6, <2>1 DEF LoginSucceeds, Waiting
  <2> QED
    BY <2>1, <2>2, <2>3, StoreKeepsCustody
<1>7. CASE LoginFails(d)
  <2>1. PICK c \in Calls : c = loggingIn[d]
    BY <1>7 DEF LoginFails, SessionTypeOK
  <2>2. /\ UNCHANGED <<redisVars, refreshing, stored>>
        /\ loggingIn' = [loggingIn EXCEPT ![d] = None]
        /\ UNCHANGED calls \/ (calls[c].kind = "answered" /\ Become(c, Free))
    BY <1>7, <2>1 DEF LoginFails
  <2>3. \A e \in Devices : ~Waiting(e, c)'
    <3>1. /\ loggingIn'[d] = None /\ refreshing' = refreshing
          /\ \A e \in Devices : e # d => loggingIn'[e] = loggingIn[e]
      BY <2>2 DEF SessionTypeOK
    <3>2. \A e \in Devices : Waiting(e, c) => e = d
      BY <2>1 DEF Custody, OneWaits, Waiting
    <3>3. refreshing[d] # loggingIn[d]
      BY <2>1 DEF Custody, OneWaits
    <3> QED
      BY <2>1, <3>1, <3>2, <3>3 DEF Waiting
  <2>4. \A b \in Calls : calls'[b] = calls[b] \/ (b = c /\ Carried(b)' = None /\ calls[c].kind = "answered")
    BY <1>0, <2>1, <2>2
  <2>5. \A b \in Calls :
          \/ calls'[b] = calls[b]
          \/ (\A e \in Devices : ~Waiting(e, b)') /\ Carried(b)' = None
    BY <2>3, <2>4
  <2> QED
    BY <2>2, <2>5, DropsKeepCustody
<1>8. CASE RetryRejected(d)
  <2>1. stored' = [stored EXCEPT ![d] = None] /\ UNCHANGED <<redisVars, calls, refreshing, loggingIn>>
    BY <1>8 DEF RetryRejected, ClearAuthCredentials
  <2> QED
    BY <2>1, DropsKeepCustody
<1>9. CASE StartLogout(d)
  BY <1>9, DropsKeepCustody DEF StartLogout
<1>10. ~AppKilled(d)
  BY DEF AppKilled
<1> QED
  BY <1>1, <1>2, <1>3, <1>4, <1>5, <1>6, <1>7, <1>8, <1>9, <1>10 DEF AppStep

\* Time only ends sessions.
LEMMA TimeKeepsCustody == ASSUME RedisInv, Custody, Tick PROVE Custody'
<1>1. issued' = issued /\ \A s \in Live' : s \in Live /\ secret'[s] = secret[s]
  BY DEF Tick, Live
<1>2. UNCHANGED <<calls, stored, refreshing, loggingIn>>
  BY DEF Tick, deviceVars
<1>3. \A c : Carried(c)' = Carried(c)
  BY <1>2 DEF Carried
<1>4. OneWaits'
  BY <1>2 DEF Custody, OneWaits, Waiting
<1> HIDE DEF Carried
<1>5. OneHolds' /\ HeldIsIssued'
  BY <1>1, <1>2, <1>3 DEF Custody, OneHolds, HeldIsIssued, Of
<1>6. HeldIsNewest'
  BY <1>1, <1>2, <1>3 DEF Custody, HeldIsNewest, Newest, Of
<1> QED
  BY <1>4, <1>5, <1>6 DEF Custody

\* What nobody changed stays in custody.
LEMMA StutterKeepsCustody == ASSUME Custody, UNCHANGED vars PROVE Custody'
BY DEF vars, redisVars, deviceVars, Custody, OneWaits, OneHolds, HeldIsIssued, HeldIsNewest,
       Carried, Of, Waiting, Live, Newest

CustodyInv == mishaps = 0 => Custody

\* Without mishaps, every token is in custody.
LEMMA CustodyInvariant == Spec => []CustodyInv
<1>1. Init => CustodyInv
  BY SessionAssumption DEF SessionAssumption, Init, CustodyInv, Custody, OneWaits, OneHolds,
     HeldIsIssued, HeldIsNewest, Carried, Of, Waiting, Live, Free
<1>2. ASSUME SessionTypeOK, RedisInv, CustodyInv, [Next]_vars PROVE CustodyInv'
  <2> SUFFICES ASSUME mishaps' = 0 PROVE Custody'
    BY DEF CustodyInv
  <2>1. CASE UNCHANGED vars
    BY <1>2, <2>1, StutterKeepsCustody DEF vars, deviceVars, CustodyInv
  <2>2. CASE Tick
    BY <1>2, <2>2, TimeKeepsCustody DEF Tick, deviceVars, CustodyInv
  <2>3. ASSUME NEW c \in Calls, ServerStep(c) PROVE Custody'
    <3>1. UNCHANGED deviceVars
      BY <2>3 DEF ServerStep, LookUpUser, RefreshToken, Logout, CreateSession, SignTokens
    <3>2. Custody
      BY <1>2, <3>1 DEF CustodyInv, deviceVars
    <3>3. Serves(c)
      BY <1>2, <2>3, <3>2, Served DEF Custody
    <3> QED
      BY <1>2, <3>1, <3>2, <3>3, ServerKeepsCustody
  <2>4. ASSUME NEW d \in Devices, AppStep(d) PROVE Custody'
    <3>1. mishaps = 0
      <4>1. mishaps' = mishaps \/ mishaps' = mishaps + 1
        BY <2>4 DEF AppStep, StartLogin, StartRefresh, LogoutAndClear, RefreshSucceeds, RefreshFails,
                    LoginSucceeds, LoginFails, RetryRejected, StartLogout, AppKilled,
                    SaveAuthTokens, ClearAuthCredentials
      <4> QED
        BY <1>2, <4>1, SessionAssumption DEF SessionTypeOK, SessionAssumption
    <3> QED
      BY <1>2, <2>4, <3>1, AppKeepsCustody DEF CustodyInv
  <2> QED
    BY <1>2, <2>1, <2>2, <2>3, <2>4 DEF Next
<1>3. SessionTypeOK /\ RedisInv /\ CustodyInv /\ [Next]_vars => CustodyInv'
  BY <1>2
<1> QED
  BY SessionTypes, RedisInvariant, <1>1, <1>3, PTL DEF Spec

\* Unless the application is killed or its store fails, the token on a device
\* is the newest of its session, whatever calls were given up on the way.
THEOREM StoredTokenIsUsable == Spec => []StoredTokenUsable
<1>1. CustodyInv => StoredTokenUsable
  BY DEF CustodyInv, Custody, HeldIsNewest, StoredTokenUsable, Of
<1> QED
  BY CustodyInvariant, <1>1, PTL
=============================================================================
