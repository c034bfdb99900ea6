--------------------------- MODULE RefreshSession ---------------------------
(***************************************************************************)
(* Login sessions of one user: the session hashes and the index of the     *)
(* user's sessions in Redis, the calls Login, RefreshToken and Logout of   *)
(* the Logic service, and the application that keeps the refresh token.    *)
(*                                                                         *)
(* A refresh token is a session id and a secret.  Redis keeps the hash of  *)
(* the newest secret only and each refresh replaces it.  The scripts that  *)
(* create, rotate and delete a session are atomic; between them a call can *)
(* fail, and its answer can be lost or come after the application has      *)
(* given up waiting, has logged out or was killed.                         *)
(***************************************************************************)
EXTENDS Naturals

CONSTANTS
  Sessions,    \* session ids; random, so an unused one is drawn every time
  Devices,     \* installations of the application, all of the same user
  Calls,       \* bound: calls under way in the gateway and the Logic service
  TTL,         \* REFRESH_TTL, in ticks
  MaxSecrets,  \* bound: secrets stored for one session
  MaxMishaps,  \* bound: applications killed, token stores that fail to write
  None         \* no token, no call

ASSUME SessionAssumption ==
  /\ TTL \in Nat \ {0}
  /\ MaxSecrets \in Nat \ {0}
  /\ MaxMishaps \in Nat
  /\ None \notin Sessions \X Nat
  /\ None \notin Calls

VARIABLES
  secret,      \* number of the secret whose hash is stored; 0 without a session key
  ttl,         \* time the session key has left
  members,     \* the set user_sessions:<user>
  indexTtl,    \* time that set has left
  issued,      \* secrets stored so far: the next one is new
  redeemed,    \* history: tokens that Rotate accepted
  calls,       \* the calls under way
  stored,      \* the refresh token on each device
  refreshing,  \* the call that refreshPromise waits for
  loggingIn,   \* the call the login screen waits for
  leaving,     \* the token logoutAndClear has read, until it has cleared the store
  screen,      \* "main", or the login screen, also "loggedOut" if the user asked for it
  mishaps      \* applications killed and writes failed so far

redisVars  == <<secret, ttl, members, indexTtl, issued, redeemed>>
deviceVars == <<stored, refreshing, loggingIn, leaving, screen, mishaps>>
vars       == <<redisVars, calls, deviceVars>>

Tokens == Sessions \X (1..MaxSecrets)
Live   == {s \in Sessions : secret[s] > 0}
Newest(s) == <<s, secret[s]>>

TokenCalls == [kind : {"refresh", "logout"}, at : {"lookup", "script"}, token : Tokens]
LoginCalls == [kind : {"login"}, at : {"create"}, token : {None}, tries : 1..3]
         \cup [kind : {"login"}, at : {"sign"}, token : Sessions \X {1}, tries : 1..3]
Answers    == [kind : {"answered"}, token : Tokens \cup {None}]
Free       == [kind |-> "free"]
CallStates == TokenCalls \cup LoginCalls \cup Answers \cup {Free}

SessionTypeOK ==
  /\ secret \in [Sessions -> 0..MaxSecrets]
  /\ ttl \in [Sessions -> 0..TTL]
  /\ members \subseteq Sessions
  /\ indexTtl \in 0..TTL
  /\ issued \in [Sessions -> 0..MaxSecrets]
  /\ redeemed \subseteq Tokens
  /\ calls \in [Calls -> CallStates]
  /\ stored \in [Devices -> Tokens \cup {None}]
  /\ refreshing \in [Devices -> Calls \cup {None}]
  /\ loggingIn \in [Devices -> Calls \cup {None}]
  /\ leaving \in [Devices -> Tokens \cup {None}]
  /\ screen \in [Devices -> {"login", "loggedOut", "main"}]
  /\ mishaps \in 0..MaxMishaps

Init ==
  /\ secret = [s \in Sessions |-> 0]
  /\ ttl = [s \in Sessions |-> 0]
  /\ members = {}
  /\ indexTtl = 0
  /\ issued = [s \in Sessions |-> 0]
  /\ redeemed = {}
  /\ calls = [c \in Calls |-> Free]
  /\ stored = [d \in Devices |-> None]
  /\ refreshing = [d \in Devices |-> None]
  /\ loggingIn = [d \in Devices |-> None]
  /\ leaving = [d \in Devices |-> None]
  /\ screen = [d \in Devices |-> "login"]
  /\ mishaps = 0

-----------------------------------------------------------------------------
(* Redis: time, and the scripts.  Keys vanish when their time is over.     *)

Tick ==
  /\ Live # {} \/ indexTtl > 0
  /\ ttl' = [s \in Sessions |-> IF ttl[s] > 0 THEN ttl[s] - 1 ELSE 0]
  /\ secret' = [s \in Sessions |-> IF ttl[s] > 1 THEN secret[s] ELSE 0]
  /\ indexTtl' = IF indexTtl > 0 THEN indexTtl - 1 ELSE 0
  /\ members' = IF indexTtl > 1 THEN members ELSE {}
  /\ UNCHANGED <<issued, redeemed, calls, deviceVars>>

\* createRefreshSessionScript, for an id that no key has.
CreateScript(s) ==
  /\ secret' = [secret EXCEPT ![s] = 1]
  /\ ttl' = [ttl EXCEPT ![s] = TTL]
  /\ members' = members \cup {s}
  /\ indexTtl' = TTL
  /\ issued' = [issued EXCEPT ![s] = 1]
  /\ UNCHANGED redeemed

\* Mutation: rotation compares nothing.
RotateAccepts_AnySecret(token) == secret[token[1]] > 0

\* The stored hash is that of the token.
RotateAccepts(token) == token[1] \in Live /\ token = Newest(token[1])

\* Mutation: rotation does not keep the index alive.
ExpireIndex_Omitted == UNCHANGED indexTtl

\* EXPIRE of the index; a missing key stays missing.
ExpireIndex == indexTtl' = IF members # {} THEN TTL ELSE 0

\* rotateRefreshSessionScript when it answers 0.
RotateScript(token) ==
  LET s == token[1] IN
  /\ RotateAccepts(token)
  /\ issued[s] < MaxSecrets
  /\ secret' = [secret EXCEPT ![s] = issued[s] + 1]
  /\ ttl' = [ttl EXCEPT ![s] = TTL]
  /\ ExpireIndex
  /\ issued' = [issued EXCEPT ![s] = @ + 1]
  /\ redeemed' = redeemed \cup {token}
  /\ UNCHANGED members

\* DEL, SREM and the end of an index without members, in both scripts that
\* delete a session.
DropSession(s) ==
  /\ secret' = [secret EXCEPT ![s] = 0]
  /\ ttl' = [ttl EXCEPT ![s] = 0]
  /\ members' = members \ {s}
  /\ indexTtl' = IF members \subseteq {s} THEN 0 ELSE indexTtl
  /\ UNCHANGED <<issued, redeemed>>

\* Mutation: logout deletes the session of any token.
RevokeScript_AnySecret(token) == token[1] \in Live /\ DropSession(token[1])

\* deleteRefreshSessionScript when it answers 0.
RevokeScript(token) ==
  /\ token[1] \in Live
  /\ token = Newest(token[1])
  /\ DropSession(token[1])

-----------------------------------------------------------------------------
(* The Logic service.  An answer that nobody waits for is dropped.         *)

Awaited(c) == \E d \in Devices : refreshing[d] = c \/ loggingIn[d] = c

Become(c, state) == calls' = [calls EXCEPT ![c] = state]

Answer(c, token) ==
  Become(c, IF Awaited(c) THEN [kind |-> "answered", token |-> token] ELSE Free)

\* Rotate and Logout first read the user id of the session, for the name of
\* the index.
LookUpUser(c) ==
  /\ calls[c].kind \in {"refresh", "logout"}
  /\ calls[c].at = "lookup"
  /\ \/ calls[c].token[1] \in Live /\ Become(c, [calls[c] EXCEPT !.at = "script"])
     \/ Answer(c, None)
  /\ UNCHANGED <<redisVars, deviceVars>>

\* RefreshToken from the script on.  After a rotation the reading of the user
\* or the signing can still fail: the new token is then never sent.
RefreshToken(c) ==
  /\ calls[c].kind = "refresh"
  /\ calls[c].at = "script"
  /\ LET token == calls[c].token IN
     \/ /\ RotateScript(token)
        /\ Answer(c, <<token[1], issued[token[1]] + 1>>) \/ Answer(c, None)
     \/ Answer(c, None) /\ UNCHANGED redisVars
  /\ UNCHANGED deviceVars

Logout(c) ==
  /\ calls[c].kind = "logout"
  /\ calls[c].at = "script"
  /\ RevokeScript(calls[c].token) \/ UNCHANGED redisVars
  /\ Answer(c, None)
  /\ UNCHANGED deviceVars

\* Mutation: the last try is not recognised.
TryAnotherId_Endless(c) == Become(c, [calls[c] EXCEPT !.tries = @ + 1])

\* issueTokenPair tries up to three ids.
TryAnotherId(c) ==
  IF calls[c].tries < 3 THEN Become(c, [calls[c] EXCEPT !.tries = @ + 1]) ELSE Answer(c, None)

\* A session whose creation took effect without an answer stays behind.
CreateSession(c) ==
  /\ calls[c].kind = "login"
  /\ calls[c].at = "create"
  /\ \/ \E s \in Sessions :
          /\ issued[s] = 0
          /\ CreateScript(s)
          /\ Become(c, [calls[c] EXCEPT !.at = "sign", !.token = <<s, 1>>])
             \/ TryAnotherId(c)
     \/ TryAnotherId(c) /\ UNCHANGED redisVars
  /\ UNCHANGED deviceVars

\* The access token is signed, or the session is deleted again, at best effort.
SignTokens(c) ==
  /\ calls[c].kind = "login"
  /\ calls[c].at = "sign"
  /\ \/ Answer(c, calls[c].token) /\ UNCHANGED redisVars
     \/ Answer(c, None) /\ (DropSession(calls[c].token[1]) \/ UNCHANGED redisVars)
  /\ UNCHANGED deviceVars

ServerStep(c) == LookUpUser(c) \/ RefreshToken(c) \/ Logout(c) \/ CreateSession(c) \/ SignTokens(c)

-----------------------------------------------------------------------------
(* The application.                                                        *)

\* A new call takes a free slot.
Send(c, state) == calls[c] = Free /\ Become(c, state)

StartLogin(d, c) ==
  /\ screen[d] # "main"
  /\ loggingIn[d] = None
  /\ Send(c, [kind |-> "login", at |-> "create", token |-> None, tries |-> 1])
  /\ loggingIn' = [loggingIn EXCEPT ![d] = c]
  /\ UNCHANGED <<redisVars, stored, refreshing, leaving, screen, mishaps>>

\* refreshAccessTokenOnce, after any 401; later ones join the same promise.
StartRefresh(d, c) ==
  /\ refreshing[d] = None
  /\ stored[d] # None
  /\ Send(c, [kind |-> "refresh", at |-> "lookup", token |-> stored[d]])
  /\ refreshing' = [refreshing EXCEPT ![d] = c]
  /\ UNCHANGED <<redisVars, stored, loggingIn, leaving, screen, mishaps>>

\* saveAuthTokens.  If the store fails, it clears the credentials, and that
\* may fail as well; what is left on the device is then any of the values.
SaveAuthTokens(d, token) ==
  \/ stored' = [stored EXCEPT ![d] = token] /\ UNCHANGED mishaps
  \/ /\ mishaps < MaxMishaps
     /\ mishaps' = mishaps + 1
     /\ \E left \in {token, stored[d], None} : stored' = [stored EXCEPT ![d] = left]

\* Mutation: only the access token is cleared.
ClearAuthCredentials_AccessOnly(d) == UNCHANGED <<stored, mishaps>>

\* clearAuthCredentials, at best effort.
ClearAuthCredentials(d) ==
  \/ stored' = [stored EXCEPT ![d] = None] /\ UNCHANGED mishaps
  \/ /\ mishaps < MaxMishaps
     /\ mishaps' = mishaps + 1
     /\ UNCHANGED stored

RefreshSucceeds(d) ==
  LET c == refreshing[d] IN
  /\ c # None
  /\ calls[c].kind = "answered"
  /\ calls[c].token # None
  /\ SaveAuthTokens(d, calls[c].token)
  /\ Become(c, Free)
  /\ refreshing' = [refreshing EXCEPT ![d] = None]
  /\ screen' = [screen EXCEPT ![d] = IF stored'[d] = calls[c].token THEN @ ELSE "login"]
  /\ UNCHANGED <<redisVars, loggingIn, leaving>>

\* An error comes back, or nothing in ten seconds: whatever the reason, the
\* credentials are cleared.
RefreshFails(d) ==
  LET c == refreshing[d] IN
  /\ c # None
  /\ IF calls[c].kind = "answered" THEN calls[c].token = None /\ Become(c, Free)
                                   ELSE UNCHANGED calls
  /\ ClearAuthCredentials(d)
  /\ refreshing' = [refreshing EXCEPT ![d] = None]
  /\ screen' = [screen EXCEPT ![d] = "login"]
  /\ UNCHANGED <<redisVars, loggingIn, leaving>>

LoginSucceeds(d) ==
  LET c == loggingIn[d] IN
  /\ c # None
  /\ calls[c].kind = "answered"
  /\ calls[c].token # None
  /\ SaveAuthTokens(d, calls[c].token)
  /\ Become(c, Free)
  /\ loggingIn' = [loggingIn EXCEPT ![d] = None]
  /\ screen' = [screen EXCEPT ![d] = IF stored'[d] = calls[c].token THEN "main" ELSE @]
  /\ UNCHANGED <<redisVars, refreshing, leaving>>

LoginFails(d) ==
  LET c == loggingIn[d] IN
  /\ c # None
  /\ IF calls[c].kind = "answered" THEN calls[c].token = None /\ Become(c, Free)
                                   ELSE UNCHANGED calls
  /\ loggingIn' = [loggingIn EXCEPT ![d] = None]
  /\ UNCHANGED <<redisVars, stored, refreshing, leaving, screen, mishaps>>

\* A request that was repeated with the new access token is refused again.
RetryRejected(d) ==
  /\ stored[d] # None
  /\ ClearAuthCredentials(d)
  /\ screen' = [screen EXCEPT ![d] = "login"]
  /\ UNCHANGED <<redisVars, calls, refreshing, loggingIn, leaving>>

\* logoutAndClear reads the token, then clears the store and tells the server
\* without waiting for it.
StartLogout(d) ==
  /\ screen[d] = "main"
  /\ stored[d] # None
  /\ leaving[d] = None
  /\ leaving' = [leaving EXCEPT ![d] = stored[d]]
  /\ UNCHANGED <<redisVars, calls, stored, refreshing, loggingIn, screen, mishaps>>

LogoutAndClear(d, c) ==
  /\ leaving[d] # None
  /\ ClearAuthCredentials(d)
  /\ Send(c, [kind |-> "logout", at |-> "lookup", token |-> leaving[d]])
  /\ leaving' = [leaving EXCEPT ![d] = None]
  /\ screen' = [screen EXCEPT ![d] = "loggedOut"]
  /\ UNCHANGED <<redisVars, refreshing, loggingIn>>

\* The system ends the application; it starts again where its token puts it.
AppKilled(d) ==
  LET waited == {refreshing[d], loggingIn[d]} IN
  /\ mishaps < MaxMishaps
  /\ mishaps' = mishaps + 1
  /\ calls' = [c \in Calls |-> IF c \in waited /\ calls[c].kind = "answered" THEN Free ELSE calls[c]]
  /\ refreshing' = [refreshing EXCEPT ![d] = None]
  /\ loggingIn' = [loggingIn EXCEPT ![d] = None]
  /\ leaving' = [leaving EXCEPT ![d] = None]
  /\ screen' = [screen EXCEPT ![d] = IF stored[d] # None THEN "main" ELSE "login"]
  /\ UNCHANGED <<redisVars, stored>>

AppStep(d) ==
  \/ \E c \in Calls : StartLogin(d, c) \/ StartRefresh(d, c) \/ LogoutAndClear(d, c)
  \/ RefreshSucceeds(d) \/ RefreshFails(d) \/ LoginSucceeds(d) \/ LoginFails(d)
  \/ RetryRejected(d) \/ StartLogout(d) \/ AppKilled(d)

Next == Tick \/ (\E c \in Calls : ServerStep(c)) \/ (\E d \in Devices : AppStep(d))

Spec == Init /\ [][Next]_vars

-----------------------------------------------------------------------------
(* Properties.                                                             *)

\* Every session that can still be refreshed is in the index of its user: the
\* index, which each session keeps alive in turn, never dies before them.
IndexCoversSessions == Live \subseteq members

Ledger == INSTANCE OneTimeTokens WITH newest <- issued, open <- Live

\* However many calls present the same token, one of them is accepted, and a
\* session that expired or was logged out does not come back.
TokensAreOneTime == Ledger!Spec

\* What ends a session: its time is over, a logout with its newest token, or
\* the login that opened it and could not sign its first one.
MayEnd(s) ==
  \/ ttl[s] = 1 /\ UNCHANGED calls
  \/ \E c \in Calls :
       /\ calls'[c] # calls[c]
       /\ \/ calls[c].kind = "logout" /\ calls[c].token = Newest(s)
          \/ calls[c].kind = "login" /\ calls[c].token = <<s, 1>>

\* Only the holder of the newest token can end a session before its time: a
\* token that was already exchanged does not log anybody out.
OnlyNewestTokenEndsSession == [][\A s \in Live : s \notin Live' => MayEnd(s)]_vars

\* Unless the application is killed or its token store fails, the token on a
\* device is the newest of its session (or the session is over), except while
\* the refresh that replaces it is waited for.
StoredTokenUsable ==
  mishaps = 0 =>
    \A d \in Devices : \A s \in Live :
      stored[d] # None /\ stored[d][1] = s => stored[d] = Newest(s) \/ refreshing[d] # None

\* After the user has logged out, no refresh token is on the device until the
\* next login.
LoggedOutStaysOut ==
  mishaps = 0 => \A d \in Devices : screen[d] = "loggedOut" => stored[d] = None
=============================================================================
