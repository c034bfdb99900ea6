------------------------------ MODULE SmsCodes ------------------------------
(***************************************************************************)
(* Login codes sent by SMS: the keys that Redis holds for a phone (code,   *)
(* cooldown, failures, daily bucket) and for the network the requests come *)
(* from (window), the three scripts that work on them, and the calls of    *)
(* SendSMSCode, which reserve a code, hand it to the provider and withdraw *)
(* the reservation when that fails.                                        *)
(*                                                                         *)
(* A code stands for its digest and for the id of its reservation, both    *)
(* drawn afresh by each request.  All requests come from one network.  A   *)
(* key disappears when its time is up, an action of its own.               *)
(*                                                                         *)
(* Times are whole seconds.  TTL rounds: failures, which EXPIRE gives the  *)
(* TTL of the code, can end half a second before or after it.  The rest of *)
(* the day is cut: a daily bucket can end in the last second of its day.   *)
(* A cooldown lasts a second at least.  Redis and the services agree on    *)
(* the time.                                                               *)
(***************************************************************************)
EXTENDS Naturals, FiniteSets

CONSTANTS
  Phones,       \* phone numbers
  Senders,      \* bound: SendSMSCode calls under way
  MaxCodes,     \* bound: codes drawn
  MaxDays,      \* bound: days
  MaxAttempts,  \* maxSMSCodeAttempts
  DailyLimit,   \* sms.daily_limit
  IpLimit,      \* sms.ip_hourly_limit
  NoCode        \* no code, no phone

ASSUME SmsAssumption ==
  /\ MaxCodes \in Nat
  /\ MaxDays \in Nat \ {0}
  /\ MaxAttempts \in Nat \ {0}
  /\ DailyLimit \in Nat \ {0}
  /\ IpLimit \in Nat \ {0}
  /\ NoCode \notin Nat \cup Phones

VARIABLES
  code,         \* the key code of a phone
  ending,       \* the code has less than half a second left: TTL answers 0
  cooldown,     \* the key cooldown: the reservation that set it
  failures,     \* the key failures
  failuresEnd,  \* when failures expires: about with the code, as set for an
                \* earlier code, or never
  daily,        \* the keys daily of a phone, one per day
  ipCount,      \* the key window of the network
  day,          \* the date
  closing,      \* it is the last second of the day
  fragile,      \* phones whose bucket of the day may end before the day does
  cooling,      \* phones whose cooldown was set in the last second of the day
  drawn,        \* codes drawn so far
  sending,      \* the SendSMSCode calls under way
  wrong,        \* history: wrong guesses compared with the phone's code
  today,        \* history: reservations of the day, by phone, not withdrawn
  inWindow,     \* history: those the current window counted and has not given back
  late          \* history: withdrawals that the current window had not counted

smsKeys  == <<code, ending, cooldown, failures, failuresEnd>>
smsLimits == <<daily, ipCount, day, closing, fragile, cooling>>
smsTallies == <<today, inWindow, late>>
smsVars  == <<smsKeys, smsLimits, drawn, sending, wrong, smsTallies>>

Codes == 1..MaxCodes
Days  == 1..MaxDays
SenderPhases == {"idle", "reserve", "send", "withdraw"}
SendCalls == [at : SenderPhases, phone : Phones \cup {NoCode}, day : Days, code : Codes \cup {NoCode}]
NotSending == [at |-> "idle", phone |-> NoCode, day |-> 1, code |-> NoCode]

SmsInit ==
  /\ code = [p \in Phones |-> NoCode]
  /\ ending = [p \in Phones |-> FALSE]
  /\ cooldown = [p \in Phones |-> NoCode]
  /\ failures = [p \in Phones |-> 0]
  /\ failuresEnd = [p \in Phones |-> "code"]
  /\ daily = [p \in Phones |-> [d \in Days |-> 0]]
  /\ ipCount = 0
  /\ day = 1
  /\ closing = FALSE
  /\ fragile = {}
  /\ cooling = {}
  /\ drawn = 0
  /\ sending = [s \in Senders |-> NotSending]
  /\ wrong = [p \in Phones |-> 0]
  /\ today = [p \in Phones |-> {}]
  /\ inWindow = {}
  /\ late = 0

\* The key code of phone p becomes c, or is removed.
CodeIs(p, c) ==
  /\ code' = [code EXCEPT ![p] = c]
  /\ ending' = [ending EXCEPT ![p] = FALSE]
  /\ wrong' = [wrong EXCEPT ![p] = 0]

FailuresAre(p, n, end) ==
  /\ failures' = [failures EXCEPT ![p] = n]
  /\ failuresEnd' = [failuresEnd EXCEPT ![p] = end]

\* The failures of a phone outlive the code they were counted for.
Orphaned(p) == IF failures[p] > 0 /\ failuresEnd[p] = "code" THEN "earlier" ELSE failuresEnd[p]

-----------------------------------------------------------------------------
(* Time                                                                    *)

CodeEnds(p) ==
  /\ code[p] # NoCode
  /\ ~ending[p]
  /\ ending' = [ending EXCEPT ![p] = TRUE]
  /\ UNCHANGED <<code, cooldown, failures, failuresEnd, smsLimits, drawn, sending, wrong, smsTallies>>

CodeExpires(p) ==
  /\ ending[p]
  /\ CodeIs(p, NoCode)
  /\ FailuresAre(p, failures[p], Orphaned(p))
  /\ UNCHANGED <<cooldown, smsLimits, drawn, sending, smsTallies>>

\* Before the code ends, if the TTL was rounded down, or after it.
FailuresExpire(p) ==
  /\ failures[p] > 0
  /\ failuresEnd[p] = "earlier" \/ (failuresEnd[p] = "code" /\ ending[p])
  /\ FailuresAre(p, 0, "code")
  /\ UNCHANGED <<code, ending, cooldown, smsLimits, drawn, sending, wrong, smsTallies>>

CooldownExpires(p) ==
  /\ cooldown[p] # NoCode
  /\ p \notin cooling
  /\ cooldown' = [cooldown EXCEPT ![p] = NoCode]
  /\ UNCHANGED <<code, ending, failures, failuresEnd, smsLimits, drawn, sending, wrong, smsTallies>>

WindowExpires ==
  /\ ipCount > 0
  /\ ipCount' = 0
  /\ inWindow' = {}
  /\ late' = 0
  /\ UNCHANGED <<smsKeys, daily, day, closing, fragile, cooling, drawn, sending, wrong, today>>

\* The last second of the day begins.  The time untilEndOfDay gave the buckets
\* there are can be over before the second is; a bucket made in it gets a
\* second of its own.
DayCloses ==
  /\ ~closing
  /\ day < MaxDays
  /\ closing' = TRUE
  /\ fragile' = {p \in Phones : daily[p][day] > 0}
  /\ UNCHANGED <<smsKeys, daily, ipCount, day, cooling, drawn, sending, wrong, smsTallies>>

BucketExpires(p, d) ==
  /\ daily' = [daily EXCEPT ![p][d] = 0]
  /\ UNCHANGED <<smsKeys, ipCount, day, closing, cooling, drawn, sending, wrong, smsTallies>>

TodayBucketExpires(p) ==
  /\ p \in fragile
  /\ BucketExpires(p, day)
  /\ fragile' = fragile \ {p}

DayEnds ==
  /\ closing
  /\ day' = day + 1
  /\ closing' = FALSE
  /\ fragile' = {}
  /\ cooling' = {}
  /\ today' = [p \in Phones |-> {}]
  /\ UNCHANGED <<smsKeys, daily, ipCount, drawn, sending, wrong, inWindow, late>>

\* The bucket of a day that is over, also one made by a call from before midnight.
OldBucketExpires(p) ==
  \E d \in Days :
    /\ d < day
    /\ daily[p][d] > 0
    /\ BucketExpires(p, d)
    /\ UNCHANGED fragile

-----------------------------------------------------------------------------
(* Sending                                                                 *)

\* The gateway forwards a phone number; the service draws code, reservation
\* id and daily bucket before it asks Redis.
SendSMSCode(s, p) ==
  /\ sending[s].at = "idle"
  /\ sending' = [sending EXCEPT ![s] = [at |-> "reserve", phone |-> p, day |-> day,
                                        code |-> NoCode]]
  /\ UNCHANGED <<smsKeys, smsLimits, drawn, wrong, smsTallies>>

\* The call s returns, with or without an error.
SendReturns(s) == sending' = [sending EXCEPT ![s] = NotSending]

\* The script refuses with 1007, 1008 or 1009.  Redis can also fail, or the
\* deadline of the request end the call: 1011.
ReserveFails(s) ==
  /\ sending[s].at = "reserve"
  /\ SendReturns(s)
  /\ UNCHANGED <<smsKeys, smsLimits, drawn, wrong, smsTallies>>

\* Mutation: the script does not look at the window of the network.
ReserveScriptAnyWindow(p, d, c) ==
  /\ cooldown[p] = NoCode
  /\ daily[p][d] < DailyLimit
  /\ CodeIs(p, c)
  /\ cooldown' = [cooldown EXCEPT ![p] = c]
  /\ daily' = [daily EXCEPT ![p][d] = @ + 1]
  /\ ipCount' = ipCount + 1
  /\ FailuresAre(p, failures[p], Orphaned(p))
  /\ today' = IF d = day THEN [today EXCEPT ![p] = @ \cup {c}] ELSE today
  /\ inWindow' = inWindow \cup {c}
  /\ cooling' = IF closing THEN cooling \cup {p} ELSE cooling
  /\ UNCHANGED <<day, closing, fragile, late>>

ReserveScript(p, d, c) ==
  /\ cooldown[p] = NoCode
  /\ daily[p][d] < DailyLimit
  /\ ipCount < IpLimit
  /\ CodeIs(p, c)
  /\ cooldown' = [cooldown EXCEPT ![p] = c]
  /\ daily' = [daily EXCEPT ![p][d] = @ + 1]
  /\ ipCount' = ipCount + 1
  /\ FailuresAre(p, failures[p], Orphaned(p))
  /\ today' = IF d = day THEN [today EXCEPT ![p] = @ \cup {c}] ELSE today
  /\ inWindow' = inWindow \cup {c}
  /\ cooling' = IF closing THEN cooling \cup {p} ELSE cooling
  /\ UNCHANGED <<day, closing, fragile, late>>

ReserveLoginCode(s) ==
  /\ sending[s].at = "reserve"
  /\ drawn < MaxCodes
  /\ drawn' = drawn + 1
  /\ ReserveScript(sending[s].phone, sending[s].day, drawn')
  /\ sending' = [sending EXCEPT ![s] = [@ EXCEPT !.at = "send", !.code = drawn']]

ProviderAccepts(s) ==
  /\ sending[s].at = "send"
  /\ SendReturns(s)
  /\ UNCHANGED <<smsKeys, smsLimits, drawn, wrong, smsTallies>>

ProviderFails(s) ==
  /\ sending[s].at = "send"
  /\ sending' = [sending EXCEPT ![s].at = "withdraw"]
  /\ UNCHANGED <<smsKeys, smsLimits, drawn, wrong, smsTallies>>

\* DECR, and DEL when nothing is left
LessOne(n) == IF n <= 1 THEN 0 ELSE n - 1

\* The reservation c, which bucket d counted, is withdrawn.
Withdraw(p, d, c) ==
  /\ CodeIs(p, NoCode)
  /\ cooldown' = [cooldown EXCEPT ![p] = NoCode]
  /\ FailuresAre(p, failures[p], Orphaned(p))
  /\ daily' = [daily EXCEPT ![p][d] = LessOne(@)]
  /\ ipCount' = LessOne(ipCount)
  /\ today' = [today EXCEPT ![p] = @ \ {c}]
  /\ inWindow' = inWindow \ {c}
  /\ late' = IF c \in inWindow THEN late ELSE late + 1
  /\ fragile' = {q \in fragile : daily'[q][day] > 0}
  /\ cooling' = cooling \ {p}
  /\ UNCHANGED <<day, closing>>

\* Mutation: the script withdraws whatever reservation the phone has.
WithdrawAny(p, d, c) == Withdraw(p, d, c)

\* Mutation: the script does not give the count of the network back.
WithdrawKeepsWindow(p, d, c) ==
  /\ cooldown[p] = c
  /\ CodeIs(p, NoCode)
  /\ cooldown' = [cooldown EXCEPT ![p] = NoCode]
  /\ FailuresAre(p, failures[p], Orphaned(p))
  /\ daily' = [daily EXCEPT ![p][d] = LessOne(@)]
  /\ today' = [today EXCEPT ![p] = @ \ {c}]
  /\ inWindow' = inWindow \ {c}
  /\ late' = IF c \in inWindow THEN late ELSE late + 1
  /\ fragile' = {q \in fragile : daily'[q][day] > 0}
  /\ cooling' = cooling \ {p}
  /\ UNCHANGED <<day, closing, ipCount>>

RollbackScript(p, d, c) == cooldown[p] = c /\ Withdraw(p, d, c)

RollbackLoginCode(s) ==
  /\ sending[s].at = "withdraw"
  /\ RollbackScript(sending[s].phone, sending[s].day, sending[s].code)
  /\ SendReturns(s)
  /\ UNCHANGED drawn

\* The cooldown is over or another reservation has it; or Redis fails, or the
\* service stops: the error is ignored.
RollbackWithoutEffect(s) ==
  /\ sending[s].at = "withdraw"
  /\ SendReturns(s)
  /\ UNCHANGED <<smsKeys, smsLimits, drawn, wrong, smsTallies>>

-----------------------------------------------------------------------------
(* Verifying: one script, which without a code or with too many failures   *)
(* changes nothing.  The SMS may have reached the phone before the         *)
(* provider answered, so that any code can be guessed right.               *)

Checked(p) == code[p] # NoCode /\ failures[p] < MaxAttempts

VerifyMatch(p) ==
  /\ Checked(p)
  /\ CodeIs(p, NoCode)
  /\ FailuresAre(p, 0, "code")
  /\ UNCHANGED <<cooldown, smsLimits, drawn, sending, smsTallies>>

Mismatch(p, end) ==
  /\ Checked(p)
  /\ FailuresAre(p, failures[p] + 1, end)
  /\ wrong' = [wrong EXCEPT ![p] = @ + 1]
  /\ UNCHANGED <<code, ending, cooldown, smsLimits, drawn, sending, smsTallies>>

\* Mutation: only the first failure is given the time of the code.
VerifyMismatchFirstExpires(p) == ~ending[p] /\ Mismatch(p, failuresEnd[p])

\* EXPIRE gives failures the rounded time of the code.
VerifyMismatch(p) == ~ending[p] /\ Mismatch(p, "code")

\* In the last half second TTL answers 0 and EXPIRE is skipped: failures keep
\* their end, and a first failure gets none.
VerifyMismatchAtEnd(p) ==
  /\ ending[p]
  /\ Mismatch(p, IF failures[p] = 0 THEN "never" ELSE failuresEnd[p])

-----------------------------------------------------------------------------
SmsElapse ==
  \/ \E p \in Phones : \/ CodeEnds(p)
                       \/ CodeExpires(p)
                       \/ FailuresExpire(p)
                       \/ CooldownExpires(p)
                       \/ TodayBucketExpires(p)
                       \/ OldBucketExpires(p)
  \/ WindowExpires
  \/ DayCloses
  \/ DayEnds

SmsSend ==
  \E s \in Senders : \/ \E p \in Phones : SendSMSCode(s, p)
                     \/ ReserveFails(s)
                     \/ ReserveLoginCode(s)
                     \/ ProviderAccepts(s)
                     \/ ProviderFails(s)
                     \/ RollbackLoginCode(s)
                     \/ RollbackWithoutEffect(s)

VerifySMSCode ==
  \E p \in Phones : VerifyMatch(p) \/ VerifyMismatch(p) \/ VerifyMismatchAtEnd(p)

SmsNext == SmsElapse \/ SmsSend \/ VerifySMSCode

SmsSpec == SmsInit /\ [][SmsNext]_smsVars

-----------------------------------------------------------------------------
SmsTypeOK ==
  /\ code \in [Phones -> Codes \cup {NoCode}]
  /\ ending \in [Phones -> BOOLEAN]
  /\ cooldown \in [Phones -> Codes \cup {NoCode}]
  /\ failures \in [Phones -> 0..MaxAttempts]
  /\ failuresEnd \in [Phones -> {"code", "earlier", "never"}]
  /\ daily \in [Phones -> [Days -> 0..DailyLimit]]
  /\ ipCount \in 0..IpLimit
  /\ day \in Days
  /\ closing \in BOOLEAN
  /\ fragile \subseteq Phones
  /\ cooling \subseteq Phones
  /\ drawn \in 0..MaxCodes
  /\ sending \in [Senders -> SendCalls]
  /\ wrong \in [Phones -> Nat]
  /\ today \in [Phones -> SUBSET Codes]
  /\ inWindow \subseteq Codes
  /\ late \in Nat

\* A code is compared with MaxAttempts wrong guesses at most, although the
\* failures of a phone are counted under one key for all its codes, and that
\* key can outlive the code it was set for (verifySMSCodeScript).  Only in the
\* last half second of a code can failures be over before it, and then as many
\* guesses are free again.
GuessesBounded ==
  \A p \in Phones : wrong[p] <= IF ending[p] THEN 2 * MaxAttempts ELSE MaxAttempts

\* A withdrawal takes no code but that of its own call, whatever was reserved,
\* expired or used while the provider failed (rollbackSMSCodeScript).
WithdrawsOwnCode ==
  [][\A s \in Senders, p \in Phones :
       sending[s].at = "withdraw" /\ sending'[s] # sending[s]
         => code'[p] = code[p] \/ code[p] = sending[s].code]_smsVars

\* The daily counter is exact in spite of withdrawals after midnight.  In the
\* last second of the day it may be gone, and then one reservation more is let
\* through than the limit.  The counter of the network is too low by at most
\* the withdrawals of reservations that an earlier window had counted.
QuotasExact ==
  /\ \A p \in Phones :
       /\ ~closing => daily[p][day] = Cardinality(today[p])
       /\ daily[p][day] <= Cardinality(today[p])
       /\ Cardinality(today[p]) <= DailyLimit + 1
  /\ ipCount <= Cardinality(inWindow)
  /\ Cardinality(inWindow) <= ipCount + late
=============================================================================
