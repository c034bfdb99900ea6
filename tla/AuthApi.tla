------------------------------ MODULE AuthApi ------------------------------
(***************************************************************************)
(* The endpoints of accounts and sessions: messages, handlers of the       *)
(* gateway, methods of the AuthService and their errors.  What a method    *)
(* does is in SmsCodes, Accounts and RefreshSession.                       *)
(***************************************************************************)
EXTENDS Api

\* The messages of public endpoints name nobody.
SendSMSCodeRequest == [method |-> "SendSMSCode"]
SMSLoginRequest == [method |-> "SMSLogin"]
RefreshTokenRequest == [method |-> "RefreshToken"]
LogoutRequest == [method |-> "Logout"]
RegisterRequest == [method |-> "Register"]
LoginRequest == [method |-> "Login"]
GetProfileRequest(u) == [method |-> "GetProfile", user_id |-> u]
UpdateProfileRequest(u) == [method |-> "UpdateProfile", user_id |-> u]
ListDietaryPreferencesRequest(u) == [method |-> "ListDietaryPreferences", user_id |-> u]
ReplaceDietaryPreferencesRequest(u) == [method |-> "ReplaceDietaryPreferences", user_id |-> u]

AuthEndpoints ==
  {"SendSMSCode", "SMSLogin", "RefreshToken", "Logout", "Register", "Login", "GetProfile",
   "UpdateProfile", "ListDietaryPreferences", "ReplaceDietaryPreferences", "UploadAvatar"}

-----------------------------------------------------------------------------
\* The token comes from the header or else from the body; the application puts
\* it into the body, and nothing into the header.
bindRefreshToken == call.json

HandleSendSMSCode == Handle("SendSMSCode", call.json, SendSMSCodeRequest)
HandleSMSLogin == Handle("SMSLogin", call.json, SMSLoginRequest)
HandleRefreshToken ==
  HandleOr(1015, "RefreshToken", bindRefreshToken, RefreshTokenRequest)
HandleLogout ==
  HandleOr(1015, "Logout", bindRefreshToken, LogoutRequest)
HandleRegister == Handle("Register", call.json, RegisterRequest)
HandleLogin == Handle("Login", call.json, LoginRequest)
HandleGetProfile == Handle("GetProfile", TRUE, GetProfileRequest(Caller))
HandleUpdateProfile ==
  Handle("UpdateProfile", call.json, [UpdateProfileRequest(call.names) EXCEPT !.user_id = Caller])
HandleListDietaryPreferences ==
  Handle("ListDietaryPreferences", TRUE, ListDietaryPreferencesRequest(Caller))
HandleReplaceDietaryPreferences ==
  Handle("ReplaceDietaryPreferences", call.json, ReplaceDietaryPreferencesRequest(Caller))

\* The gateway itself puts the picture into the object store, under a name that
\* begins with the caller's id; no store may be configured, or it may fail.
UploadAvatar ==
  /\ stage = "handler"
  /\ call.endpoint = "UploadAvatar"
  /\ \/ Answers(500, CodeInternalError) /\ UNCHANGED done
     \/ ~call.json /\ Answers(400, CodeInternalError) /\ UNCHANGED done
     \/ call.json /\ Answers(200, 0) /\ done' = [done EXCEPT ![Caller] = @ + 1]
  /\ UNCHANGED <<signedIn, token, call, retried, message, reply, refused>>

HandleAuthCall ==
  \/ HandleSendSMSCode \/ HandleSMSLogin \/ HandleRefreshToken \/ HandleLogout
  \/ HandleRegister \/ HandleLogin \/ HandleGetProfile \/ HandleUpdateProfile
  \/ HandleListDietaryPreferences \/ HandleReplaceDietaryPreferences \/ UploadAvatar

-----------------------------------------------------------------------------
mapErrorCode ==
  [ErrInvalidPhone |-> 1001, ErrPasswordTooShort |-> 1002, ErrPhoneAlreadyExists |-> 1003,
   ErrUserNotFound |-> 1004, ErrPasswordWrong |-> 1005, ErrUserDisabled |-> 1006,
   ErrSMSCooldown |-> 1007, ErrSMSDailyLimit |-> 1008, ErrSMSIPLimit |-> 1009,
   ErrSMSSendFailed |-> 1010, ErrSMSUnavailable |-> 1011, ErrSMSCodeInvalidOrExpired |-> 1012,
   ErrSMSCodeAttemptsExceeded |-> 1013, ErrPasswordNotSet |-> 1014, ErrRefreshTokenInvalid |-> 1015,
   ErrRefreshTokenReused |-> 1016, ErrSessionUnavailable |-> 1017,
   ErrDietaryPreferenceUnavailable |-> 1020, ErrDietaryPreferenceType |-> 1021,
   ErrDietaryPreferenceValue |-> 1022, ErrDietaryPreferenceDuplicate |-> 1023]

AuthServes(method, refusals, outages) == Serves(method, refusals, outages, mapErrorCode)

ServeSendSMSCode ==
  AuthServes("SendSMSCode",
    {"ErrInvalidPhone", "ErrSMSCooldown", "ErrSMSDailyLimit", "ErrSMSIPLimit"},
    {"ErrSMSSendFailed", "ErrSMSUnavailable"})
ServeSMSLogin ==
  AuthServes("SMSLogin",
    {"ErrInvalidPhone", "ErrSMSCodeInvalidOrExpired", "ErrSMSCodeAttemptsExceeded", "ErrUserDisabled"},
    {"ErrSMSUnavailable", "ErrSessionUnavailable", "ErrDatabase"})
ServeRefreshToken ==
  AuthServes("RefreshToken", {"ErrRefreshTokenInvalid", "ErrRefreshTokenReused", "ErrUserDisabled"},
    {"ErrSessionUnavailable", "ErrDatabase"})
ServeLogout ==
  AuthServes("Logout", {"ErrRefreshTokenInvalid", "ErrRefreshTokenReused"},
    {"ErrSessionUnavailable"})

\* A phone that is registered after the check is refused by the unique index
\* (Register in Accounts), and that error has no code.
ServeRegister ==
  AuthServes("Register",
    {"ErrInvalidPhone", "ErrPasswordTooShort", "ErrPhoneAlreadyExists", "ErrLostRace"},
    {"ErrSessionUnavailable", "ErrDatabase"})
ServeLogin ==
  AuthServes("Login",
    {"ErrInvalidPhone", "ErrUserNotFound", "ErrPasswordNotSet", "ErrPasswordWrong", "ErrUserDisabled"},
    {"ErrSessionUnavailable", "ErrDatabase"})
ServeGetProfile == AuthServes("GetProfile", {"ErrUserNotFound"}, {"ErrDatabase"})

\* Every error of UpdateProfile is internal.
ServeUpdateProfile == AuthServes("UpdateProfile", {}, {"ErrDatabase"})
ServeListDietaryPreferences ==
  AuthServes("ListDietaryPreferences", {}, {"ErrDietaryPreferenceUnavailable", "ErrDatabase"})
ServeReplaceDietaryPreferences ==
  AuthServes("ReplaceDietaryPreferences",
    {"ErrDietaryPreferenceType", "ErrDietaryPreferenceValue", "ErrDietaryPreferenceDuplicate",
     "ErrLostRace"},
    {"ErrDietaryPreferenceUnavailable", "ErrDatabase"})

ServeAuthCall ==
  \/ ServeSendSMSCode \/ ServeSMSLogin \/ ServeRefreshToken \/ ServeLogout \/ ServeRegister
  \/ ServeLogin \/ ServeGetProfile \/ ServeUpdateProfile \/ ServeListDietaryPreferences
  \/ ServeReplaceDietaryPreferences

-----------------------------------------------------------------------------
smsCodeHTTPStatus(code) ==
  CASE code = 0 -> 200
    [] code = 1001 -> 400
    [] code \in 1007..1009 -> 429
    [] code \in {1010, 1011} -> 503
    [] OTHER -> 500

smsLoginHTTPStatus(code) ==
  CASE code = 0 -> 200
    [] code \in {1001, 1012} -> 400
    [] code = 1006 -> 403
    [] code = 1013 -> 429
    [] code \in {1011, 1017} -> 503
    [] OTHER -> 500

tokenSessionHTTPStatus(code) ==
  CASE code = 0 -> 200
    [] code = 1006 -> 403
    [] code \in {1015, 1016} -> 401
    [] code = 1017 -> 503
    [] OTHER -> 500

dietaryPreferenceHTTPStatus(code) ==
  CASE code = 0 -> 200
    [] code = 1020 -> 503
    [] code \in 1021..1023 -> 400
    [] OTHER -> 500

RespondAuthCall ==
  \/ RespondsWith({"SendSMSCode"}, smsCodeHTTPStatus)
  \/ RespondsWith({"SMSLogin"}, smsLoginHTTPStatus)
  \/ RespondsWith({"RefreshToken", "Logout"}, tokenSessionHTTPStatus)
  \/ RespondsWith({"ListDietaryPreferences", "ReplaceDietaryPreferences"}, dietaryPreferenceHTTPStatus)
  \/ RespondsWith({"Register", "Login", "GetProfile", "UpdateProfile"}, LAMBDA code : 200)

AuthCallStep ==
  \/ HandleAuthCall
  \/ ServeAuthCall
  \/ RpcFails(AuthEndpoints, 500)
  \/ RespondAuthCall
=============================================================================
