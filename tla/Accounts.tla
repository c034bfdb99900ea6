------------------------------ MODULE Accounts ------------------------------
(***************************************************************************)
(* Accounts: registration, login with a password and login with an SMS     *)
(* code, which creates the account when the phone has none; the profile    *)
(* and the dietary preferences of an account.  A call reads the users      *)
(* table and writes it in later statements; the unique index of the phone  *)
(* decides between calls that create the same account.  What becomes of a  *)
(* code is SmsCodes, what of the session a login opens RefreshSession.     *)
(***************************************************************************)
EXTENDS Naturals

CONSTANTS
  AccountPhones,  \* phones, one account each
  Logins,         \* bound: calls under way
  Preferences,    \* dietary preferences
  NoPhone         \* no phone

ASSUME AccountsAssumption == NoPhone \notin AccountPhones

VARIABLES
  users,        \* the row of a phone in table users
  gender,       \* its column gender
  preferences,  \* the rows in table user_dietary_preference
  logins        \* the calls under way

accountVars == <<users, gender, preferences, logins>>

\* A disabled account is one that an operator has disabled.
UserRows == {"absent", "password", "codeOnly", "disabled"}
Genders == 0..2
LoginPhases == {"idle", "verify", "findCodeUser", "createCodeUser", "findRegistered",
                "createRegistered", "findPasswordUser", "lastLogin", "issue"}
LoginCalls == [at : LoginPhases, phone : AccountPhones \cup {NoPhone}]
NoLogin == [at |-> "idle", phone |-> NoPhone]

AccountsInit ==
  /\ users \in [AccountPhones -> UserRows]
  /\ gender = [p \in AccountPhones |-> 0]
  /\ preferences = [p \in AccountPhones |-> {}]
  /\ logins = [l \in Logins |-> NoLogin]

LoginAt(l, phase) == logins[l].at = phase
LoginGoesTo(l, phase) == logins' = [logins EXCEPT ![l] = [@ EXCEPT !.at = phase]]

LoginStarts(l, phase, p) ==
  /\ LoginAt(l, "idle")
  /\ logins' = [logins EXCEPT ![l] = [at |-> phase, phone |-> p]]
  /\ UNCHANGED <<users, gender, preferences>>

Creates(p, row) == users' = [users EXCEPT ![p] = row]

\* Whatever a call waits for can fail, and the deadline that the gateway set
\* can end it: the caller gets an error, what was done stays done.
LoginFails(l) ==
  /\ ~LoginAt(l, "idle")
  /\ logins' = [logins EXCEPT ![l] = NoLogin]
  /\ UNCHANGED <<users, gender, preferences>>

SMSLogin(l, p) == LoginStarts(l, "verify", p)

\* A code that is refused ends the call (LoginFails).
CodeAccepted(l) ==
  /\ LoginAt(l, "verify")
  /\ LoginGoesTo(l, "findCodeUser")
  /\ UNCHANGED <<users, gender, preferences>>

\* A disabled account ends the call with 1006.
FindCodeUser(l) ==
  /\ LoginAt(l, "findCodeUser")
  /\ users[logins[l].phone] # "disabled"
  /\ LoginGoesTo(l, IF users[logins[l].phone] = "absent" THEN "createCodeUser" ELSE "lastLogin")
  /\ UNCHANGED <<users, gender, preferences>>

\* On a duplicate key the call reads the account that came first.
CreateCodeUser(l) ==
  /\ LoginAt(l, "createCodeUser")
  /\ \/ /\ users[logins[l].phone] = "absent"
        /\ Creates(logins[l].phone, "codeOnly")
        /\ LoginGoesTo(l, "lastLogin")
     \/ /\ users[logins[l].phone] # "absent"
        /\ LoginGoesTo(l, "findCodeUser")
        /\ UNCHANGED users
  /\ UNCHANGED <<gender, preferences>>

Register(l, p) == LoginStarts(l, "findRegistered", p)

\* A phone that has an account ends the call with 1003.
FindRegistered(l) ==
  /\ LoginAt(l, "findRegistered")
  /\ users[logins[l].phone] = "absent"
  /\ LoginGoesTo(l, "createRegistered")
  /\ UNCHANGED <<users, gender, preferences>>

\* Mutation: the account is written without regard to the one that came first.
CreateRegisteredOver(l) ==
  /\ LoginAt(l, "createRegistered")
  /\ Creates(logins[l].phone, "password")
  /\ LoginGoesTo(l, "issue")
  /\ UNCHANGED <<gender, preferences>>

\* A duplicate key ends the call with 1999.
CreateRegistered(l) ==
  /\ LoginAt(l, "createRegistered")
  /\ users[logins[l].phone] = "absent"
  /\ Creates(logins[l].phone, "password")
  /\ LoginGoesTo(l, "issue")
  /\ UNCHANGED <<gender, preferences>>

Login(l, p) == LoginStarts(l, "findPasswordUser", p)

\* Ends with 1004, 1014, 1005 or 1006 unless the password is the account's.
FindPasswordUser(l) ==
  /\ LoginAt(l, "findPasswordUser")
  /\ users[logins[l].phone] = "password"
  /\ LoginGoesTo(l, "lastLogin")
  /\ UNCHANGED <<users, gender, preferences>>

UpdateLastLogin(l) ==
  /\ LoginAt(l, "lastLogin")
  /\ LoginGoesTo(l, "issue")
  /\ UNCHANGED <<users, gender, preferences>>

IssueTokenPair(l) ==
  /\ LoginAt(l, "issue")
  /\ logins' = [logins EXCEPT ![l] = NoLogin]
  /\ UNCHANGED <<users, gender, preferences>>

\* The gateway turns a gender that the request leaves out into 0, and 0 is
\* written like any other.  A negative one is not written.
UpdateProfile(p, g) ==
  /\ users[p] # "absent"
  /\ gender' = [gender EXCEPT ![p] = g]
  /\ UNCHANGED <<users, preferences, logins>>

\* One transaction deletes what the account has and inserts what the request
\* holds, no type and value twice.
ReplaceDietaryPreferences(p, wanted) ==
  /\ users[p] # "absent"
  /\ preferences' = [preferences EXCEPT ![p] = wanted]
  /\ UNCHANGED <<users, gender, logins>>

LoginStep(l) ==
  \/ \E p \in AccountPhones : SMSLogin(l, p) \/ Register(l, p) \/ Login(l, p)
  \/ CodeAccepted(l)
  \/ FindCodeUser(l)
  \/ CreateCodeUser(l)
  \/ FindRegistered(l)
  \/ CreateRegistered(l)
  \/ FindPasswordUser(l)
  \/ UpdateLastLogin(l)
  \/ IssueTokenPair(l)
  \/ LoginFails(l)

AccountsNext ==
  \/ \E l \in Logins : LoginStep(l)
  \/ \E p \in AccountPhones : \/ \E g \in Genders : UpdateProfile(p, g)
                              \/ \E w \in SUBSET Preferences : ReplaceDietaryPreferences(p, w)

AccountsSpec == AccountsInit /\ [][AccountsNext]_accountVars

-----------------------------------------------------------------------------
AccountsTypeOK ==
  /\ users \in [AccountPhones -> UserRows]
  /\ gender \in [AccountPhones -> Genders]
  /\ preferences \in [AccountPhones -> SUBSET Preferences]
  /\ logins \in [Logins -> LoginCalls]

\* An account is never replaced, nor its password set or lost: not by a
\* registration that found no account before an SMS login created it, nor by
\* an SMS login that found none before a registration did.  And no call comes
\* to its token pair without an account that may log in.
AccountsKept ==
  [][/\ \A p \in AccountPhones : users[p] # "absent" => users'[p] = users[p]
     /\ \A l \in Logins : logins'[l].at = "issue" => users'[logins'[l].phone] \in {"password", "codeOnly"}]_accountVars
=============================================================================
