----------------------------- MODULE AuthProofs -----------------------------
(***************************************************************************)
(* Proofs about SmsCodes and Accounts, for any number of phones, codes,    *)
(* days and calls.                                                         *)
(***************************************************************************)
EXTENDS SmsCodes, Accounts, FiniteSetTheorems, TLAPS

(***************************************************************************)
(* Codes.  SmsInv is the conjunction of the types, of what relates the     *)
(* keys of a phone to each other (KeysInv), and of what relates the calls  *)
(* under way to the counters (CallsInv, QuotasInv).                        *)
(***************************************************************************)

\* The wrong guesses w that a code may have met, by the failures n of its
\* phone, when these end, and whether the code is about to.  Until then every
\* wrong guess is a failure, and there is none before an earlier end.  In its
\* last half second the failures may have ended once; those counted after
\* that never end.
GuessesAllowed(n, end, w, ends) ==
  /\ n = 0 => end = "code"
  /\ ~ends => w <= n /\ (end # "code" => w = 0)
  /\ ends /\ n > 0 /\ end # "never" => w <= n
  /\ ends => w <= MaxAttempts + n

\* The cooldown of a phone is that of its code, if there is still a code.
KeysInv ==
  \A p \in Phones :
    /\ cooldown[p] # NoCode => code[p] \in {cooldown[p], NoCode}
    /\ GuessesAllowed(failures[p], failuresEnd[p], wrong[p], ending[p])

KeysTyped ==
  /\ code \in [Phones -> Codes \cup {NoCode}]
  /\ ending \in [Phones -> BOOLEAN]
  /\ cooldown \in [Phones -> Codes \cup {NoCode}]
  /\ failures \in [Phones -> 0..MaxAttempts]
  /\ failuresEnd \in [Phones -> {"code", "earlier", "never"}]
  /\ wrong \in [Phones -> Nat]

Reserved(s) == sending[s].at \in {"send", "withdraw"}

\* Every reservation under way has a code of its own, drawn already, for a day
\* that has come.
CallsInv ==
  /\ \A s \in Senders :
       /\ sending[s].at # "idle" => sending[s].phone \in Phones
       /\ sending[s].day <= day
       /\ Reserved(s) => sending[s].code \in 1..drawn
  /\ \A s, t \in Senders : Reserved(s) /\ Reserved(t) /\ sending[s].code = sending[t].code => s = t

\* The bucket of today counts what is reserved today; or it ended in the last
\* second of the day; or one reservation followed that, whose cooldown lasts
\* until the day is over.
Counted(p) == daily[p][day] = Cardinality(today[p])

Ended(p) ==
  /\ closing /\ p \notin fragile
  /\ daily[p][day] = 0
  /\ Cardinality(today[p]) <= DailyLimit

Reopened(p) ==
  /\ closing /\ p \notin fragile /\ p \in cooling
  /\ daily[p][day] = 1
  /\ Cardinality(today[p]) <= DailyLimit + 1
  /\ cooldown[p] \in today[p]

BucketsInv ==
  /\ ~closing => fragile = {}
  /\ \A p \in Phones : Counted(p) \/ Ended(p) \/ Reopened(p)

WindowInv ==
  /\ ipCount <= Cardinality(inWindow)
  /\ Cardinality(inWindow) <= ipCount + late

\* There is a day after one that is about to end.
DaysInv == closing => day < MaxDays

\* A reservation under way counts for today exactly if it was made today, and
\* nothing counts for a day to come.
QuotasInv ==
  /\ inWindow \subseteq 1..drawn
  /\ \A p \in Phones : today[p] \subseteq 1..drawn
  /\ \A p \in Phones, d \in Days : d > day => daily[p][d] = 0
  /\ \A s \in Senders :
       Reserved(s) => (sending[s].code \in today[sending[s].phone] <=> sending[s].day = day)
  /\ BucketsInv
  /\ WindowInv
  /\ DaysInv

SmsInv == SmsTypeOK /\ KeysInv /\ CallsInv /\ QuotasInv

\* Initially no key exists and no call is under way.
LEMMA SmsInitInv == ASSUME SmsInit PROVE SmsInv
<1> USE SmsAssumption DEF SmsAssumption, SmsInit
<1>1. SmsTypeOK
  <2>1. sending \in [Senders -> SendCalls]
    BY DEF Days, SendCalls, NotSending, SenderPhases
  <2>2. daily \in [Phones -> [Days -> 0..DailyLimit]] /\ day \in Days
    BY DEF Days
  <2>3. failures \in [Phones -> 0..MaxAttempts] /\ ipCount \in 0..IpLimit /\ drawn \in 0..MaxCodes /\ late \in Nat
    OBVIOUS
  <2>4. /\ code \in [Phones -> Codes \cup {NoCode}] /\ cooldown \in [Phones -> Codes \cup {NoCode}]
        /\ ending \in [Phones -> BOOLEAN] /\ failuresEnd \in [Phones -> {"code", "earlier", "never"}]
        /\ wrong \in [Phones -> Nat] /\ today \in [Phones -> SUBSET Codes]
    OBVIOUS
  <2>5. closing \in BOOLEAN /\ fragile \subseteq Phones /\ cooling \subseteq Phones /\ inWindow \subseteq Codes
    OBVIOUS
  <2> QED
    BY <2>1, <2>2, <2>3, <2>4, <2>5 DEF SmsTypeOK
<1>2. KeysInv
  BY DEF KeysInv, GuessesAllowed
<1>3. CallsInv
  BY DEF CallsInv, NotSending, Reserved
<1>4. QuotasInv
  BY FS_EmptySet DEF QuotasInv, BucketsInv, WindowInv, DaysInv, Counted, NotSending, Reserved, Days
<1> QED
  BY <1>1, <1>2, <1>3, <1>4 DEF SmsInv

\* A counter that is given one back has one less, or nothing.
LEMMA LessOneIs == \A n \in Nat : LessOne(n) \in Nat /\ LessOne(n) <= n /\ n <= LessOne(n) + 1 /\ (n > 0 => LessOne(n) = n - 1)
BY DEF LessOne

\* What the steps do to the keys of one phone, the others' staying as they are.
KeysOf(p, c, e, cd, n, end, w) ==
  /\ code' = [code EXCEPT ![p] = c]
  /\ ending' = [ending EXCEPT ![p] = e]
  /\ cooldown' = [cooldown EXCEPT ![p] = cd]
  /\ failures' = [failures EXCEPT ![p] = n]
  /\ failuresEnd' = [failuresEnd EXCEPT ![p] = end]
  /\ wrong' = [wrong EXCEPT ![p] = w]

\* The values that the keys of a phone may have together.
KeysAllowed(c, e, cd, n, end, w) ==
  /\ c \in Codes \cup {NoCode}
  /\ e \in BOOLEAN
  /\ cd \in Codes \cup {NoCode}
  /\ n \in 0..MaxAttempts
  /\ end \in {"code", "earlier", "never"}
  /\ w \in Nat
  /\ cd # NoCode => c \in {cd, NoCode}
  /\ GuessesAllowed(n, end, w, e)

\* The invariant of the keys, as what it allows their values to be.
LEMMA KeysAllowedNow ==
  ASSUME SmsInv, NEW p \in Phones
  PROVE  KeysAllowed(code[p], ending[p], cooldown[p], failures[p], failuresEnd[p], wrong[p])
BY DEF SmsInv, SmsTypeOK, KeysInv, KeysAllowed

\* A step on the keys of one phone keeps types and KeysInv if the new values
\* of that phone are allowed.
LEMMA KeysOfKept ==
  ASSUME SmsInv, NEW p \in Phones, NEW c, NEW e, NEW cd, NEW n, NEW end, NEW w,
         KeysOf(p, c, e, cd, n, end, w),
         KeysAllowed(c, e, cd, n, end, w)
  PROVE  KeysTyped' /\ KeysInv'
<1>1. KeysTyped'
  BY DEF KeysOf, KeysAllowed, KeysTyped, SmsInv, SmsTypeOK
<1>2. ASSUME NEW q \in Phones
      PROVE  /\ cooldown'[q] # NoCode => code'[q] \in {cooldown'[q], NoCode}
             /\ GuessesAllowed(failures'[q], failuresEnd'[q], wrong'[q], ending'[q])
  <2>1. CASE q = p
    <3>1. /\ code'[q] = c /\ ending'[q] = e /\ cooldown'[q] = cd
          /\ failures'[q] = n /\ failuresEnd'[q] = end /\ wrong'[q] = w
      BY <2>1 DEF KeysOf, SmsInv, SmsTypeOK
    <3> QED
      BY <3>1 DEF KeysAllowed
  <2>2. CASE q # p
    <3>1. /\ code'[q] = code[q] /\ ending'[q] = ending[q] /\ cooldown'[q] = cooldown[q]
          /\ failures'[q] = failures[q] /\ failuresEnd'[q] = failuresEnd[q] /\ wrong'[q] = wrong[q]
      BY <2>2 DEF KeysOf, SmsInv, SmsTypeOK
    <3> QED
      BY <3>1 DEF SmsInv, KeysInv
  <2> QED
    BY <2>1, <2>2
<1>3. KeysInv'
  BY <1>2 DEF KeysInv, GuessesAllowed
<1> QED
  BY <1>1, <1>3

\* When a code goes, the failures of its phone may stay.
LEMMA OrphansAllowed ==
  ASSUME SmsInv, NEW p \in Phones, NEW c \in Codes \cup {NoCode}, NEW cd \in {c, NoCode}
  PROVE  /\ KeysAllowed(c, FALSE, cd, failures[p], Orphaned(p), 0)
         /\ KeysAllowed(NoCode, FALSE, cooldown[p], failures[p], Orphaned(p), 0)
BY KeysAllowedNow DEF KeysAllowed, GuessesAllowed, Orphaned

\* Time takes keys away and keeps KeysInv.
LEMMA ElapseKeepsKeys == ASSUME SmsInv, SmsElapse PROVE KeysTyped' /\ KeysInv'
<1> USE SmsAssumption DEF SmsAssumption
<1>1. KeysTyped /\ KeysInv
  BY DEF SmsInv, SmsTypeOK, KeysTyped
<1>2. CASE UNCHANGED <<smsKeys, wrong>>
  BY <1>1, <1>2 DEF smsKeys, KeysTyped, KeysInv, GuessesAllowed
<1>3. ASSUME NEW p \in Phones, CodeEnds(p) PROVE KeysTyped' /\ KeysInv'
  <2>1. KeysOf(p, code[p], TRUE, cooldown[p], failures[p], failuresEnd[p], wrong[p])
    BY <1>1, <1>3 DEF CodeEnds, KeysOf, KeysTyped
  <2>2. KeysAllowed(code[p], TRUE, cooldown[p], failures[p], failuresEnd[p], wrong[p])
    BY <1>3, KeysAllowedNow DEF CodeEnds, KeysAllowed, GuessesAllowed
  <2> QED
    BY <2>1, <2>2, KeysOfKept
<1>4. ASSUME NEW p \in Phones, CodeExpires(p) PROVE KeysTyped' /\ KeysInv'
  <2>1. KeysOf(p, NoCode, FALSE, cooldown[p], failures[p], Orphaned(p), 0)
    BY <1>1, <1>4 DEF CodeExpires, CodeIs, FailuresAre, KeysOf, KeysTyped
  <2> QED
    BY <2>1, OrphansAllowed, KeysOfKept
<1>5. ASSUME NEW p \in Phones, FailuresExpire(p) PROVE KeysTyped' /\ KeysInv'
  <2>1. KeysOf(p, code[p], ending[p], cooldown[p], 0, "code", wrong[p])
    BY <1>1, <1>5 DEF FailuresExpire, FailuresAre, KeysOf, KeysTyped
  <2>2. KeysAllowed(code[p], ending[p], cooldown[p], 0, "code", wrong[p])
    BY <1>5, KeysAllowedNow DEF FailuresExpire, KeysAllowed, GuessesAllowed
  <2> QED
    BY <2>1, <2>2, KeysOfKept
<1>6. ASSUME NEW p \in Phones, CooldownExpires(p) PROVE KeysTyped' /\ KeysInv'
  <2>1. KeysOf(p, code[p], ending[p], NoCode, failures[p], failuresEnd[p], wrong[p])
    BY <1>1, <1>6 DEF CooldownExpires, KeysOf, KeysTyped
  <2>2. KeysAllowed(code[p], ending[p], NoCode, failures[p], failuresEnd[p], wrong[p])
    BY KeysAllowedNow DEF KeysAllowed
  <2> QED
    BY <2>1, <2>2, KeysOfKept
<1> QED
  BY <1>2, <1>3, <1>4, <1>5, <1>6
     DEF SmsElapse, WindowExpires, DayCloses, TodayBucketExpires, DayEnds, OldBucketExpires, BucketExpires

\* So do reservations and withdrawals: a reservation is the first guess-free
\* moment of its code, and a withdrawal takes cooldown and code together.
LEMMA SendKeepsKeys == ASSUME SmsInv, SmsSend PROVE KeysTyped' /\ KeysInv'
<1> USE SmsAssumption DEF SmsAssumption
<1>1. KeysTyped /\ KeysInv
  BY DEF SmsInv, SmsTypeOK, KeysTyped
<1>2. CASE UNCHANGED <<smsKeys, wrong>>
  BY <1>1, <1>2 DEF smsKeys, KeysTyped, KeysInv, GuessesAllowed
<1>3. ASSUME NEW s \in Senders, ReserveLoginCode(s) PROVE KeysTyped' /\ KeysInv'
  <2> DEFINE p == sending[s].phone
  <2>1. p \in Phones /\ drawn' \in Codes
    BY <1>3 DEF ReserveLoginCode, SmsInv, CallsInv, SmsTypeOK, Codes
  <2>2. KeysOf(p, drawn', FALSE, drawn', failures[p], Orphaned(p), 0)
    BY <1>1, <1>3 DEF ReserveLoginCode, ReserveScript, CodeIs, FailuresAre, KeysOf
  <2> HIDE DEF p
  <2> QED
    BY <2>1, <2>2, OrphansAllowed, KeysOfKept
<1>4. ASSUME NEW s \in Senders, RollbackLoginCode(s) PROVE KeysTyped' /\ KeysInv'
  <2> DEFINE p == sending[s].phone
  <2>1. p \in Phones
    BY <1>4 DEF RollbackLoginCode, SmsInv, CallsInv
  <2>2. KeysOf(p, NoCode, FALSE, NoCode, failures[p], Orphaned(p), 0)
    BY <1>1, <1>4 DEF RollbackLoginCode, RollbackScript, Withdraw, CodeIs, FailuresAre, KeysOf
  <2> HIDE DEF p
  <2> QED
    BY <2>1, <2>2, OrphansAllowed, KeysOfKept
<1> QED
  BY <1>2, <1>3, <1>4 DEF SmsSend, SendSMSCode, ReserveFails, ProviderAccepts, ProviderFails, RollbackWithoutEffect

\* And so do guesses: a wrong one is counted with the failures, which end
\* about with the code, or later.
LEMMA VerifyKeepsKeys == ASSUME SmsInv, VerifySMSCode PROVE KeysTyped' /\ KeysInv'
<1> USE SmsAssumption DEF SmsAssumption
<1>1. KeysTyped /\ KeysInv
  BY DEF SmsInv, SmsTypeOK, KeysTyped
<1>2. ASSUME NEW p \in Phones, VerifyMatch(p) PROVE KeysTyped' /\ KeysInv'
  <2>1. KeysOf(p, NoCode, FALSE, cooldown[p], 0, "code", 0)
    BY <1>1, <1>2 DEF VerifyMatch, CodeIs, FailuresAre, KeysOf, KeysTyped
  <2>2. KeysAllowed(NoCode, FALSE, cooldown[p], 0, "code", 0)
    BY KeysAllowedNow DEF KeysAllowed, GuessesAllowed
  <2> QED
    BY <2>1, <2>2, KeysOfKept
<1>3. ASSUME NEW p \in Phones, NEW end, Mismatch(p, end),
             KeysAllowed(code[p], ending[p], cooldown[p], failures[p] + 1, end, wrong[p] + 1)
      PROVE  KeysTyped' /\ KeysInv'
  <2>1. KeysOf(p, code[p], ending[p], cooldown[p], failures[p] + 1, end, wrong[p] + 1)
    BY <1>1, <1>3 DEF Mismatch, FailuresAre, KeysOf, KeysTyped
  <2> QED
    BY <1>3, <2>1, KeysOfKept
<1>4. ASSUME NEW p \in Phones, VerifyMismatch(p) PROVE KeysTyped' /\ KeysInv'
  <2>1. KeysAllowed(code[p], ending[p], cooldown[p], failures[p] + 1, "code", wrong[p] + 1)
    BY <1>4, KeysAllowedNow DEF VerifyMismatch, Mismatch, Checked, KeysAllowed, GuessesAllowed
  <2> QED
    BY <1>3, <1>4, <2>1 DEF VerifyMismatch
<1>5. ASSUME NEW p \in Phones, VerifyMismatchAtEnd(p) PROVE KeysTyped' /\ KeysInv'
  <2> DEFINE end == IF failures[p] = 0 THEN "never" ELSE failuresEnd[p]
  <2>1. KeysAllowed(code[p], ending[p], cooldown[p], failures[p] + 1, end, wrong[p] + 1)
    BY <1>5, KeysAllowedNow DEF VerifyMismatchAtEnd, Mismatch, Checked, KeysAllowed, GuessesAllowed
  <2> QED
    BY <1>3, <1>5, <2>1 DEF VerifyMismatchAtEnd
<1> QED
  BY <1>2, <1>4, <1>5 DEF VerifySMSCode

-----------------------------------------------------------------------------
(* Calls and counters.                                                     *)

CountersTyped ==
  /\ daily \in [Phones -> [Days -> 0..DailyLimit]]
  /\ ipCount \in 0..IpLimit
  /\ day \in Days
  /\ closing \in BOOLEAN
  /\ fragile \subseteq Phones
  /\ cooling \subseteq Phones
  /\ drawn \in 0..MaxCodes
  /\ sending \in [Senders -> SendCalls]
  /\ today \in [Phones -> SUBSET Codes]
  /\ inWindow \subseteq Codes
  /\ late \in Nat

CountersInv == CountersTyped /\ CallsInv /\ QuotasInv

\* The invariant in the two halves that the steps keep separately.
LEMMA SmsInvIs == SmsInv <=> KeysTyped /\ KeysInv /\ CountersInv
BY DEF SmsInv, SmsTypeOK, KeysTyped, CountersInv, CountersTyped

\* What counts for the quotas is finite.
LEMMA TalliesFinite ==
  ASSUME CountersInv
  PROVE  /\ IsFiniteSet(inWindow) /\ Cardinality(inWindow) \in Nat
         /\ \A p \in Phones : IsFiniteSet(today[p]) /\ Cardinality(today[p]) \in Nat
<1> USE SmsAssumption DEF SmsAssumption
<1>1. IsFiniteSet(Codes)
  BY FS_Interval DEF Codes
<1>2. inWindow \subseteq Codes /\ \A p \in Phones : today[p] \subseteq Codes
  BY DEF CountersInv, CountersTyped
<1>3. \A S \in SUBSET Codes : IsFiniteSet(S) /\ Cardinality(S) \in Nat
  BY <1>1, FS_Subset, FS_CardinalityType
<1> QED
  BY <1>2, <1>3

\* A new code counts once more, an old one that is taken away once less.
LEMMA Counts ==
  ASSUME NEW S, IsFiniteSet(S), NEW c
  PROVE  /\ c \notin S => Cardinality(S \cup {c}) = Cardinality(S) + 1
         /\ c \in S => Cardinality(S \ {c}) = Cardinality(S) - 1 /\ Cardinality(S) > 0
         /\ c \notin S => S \ {c} = S
<1>1. Cardinality(S) \in Nat
  BY FS_CardinalityType
<1>2. c \notin S => Cardinality(S \cup {c}) = Cardinality(S) + 1
  BY FS_AddElement
<1>3. c \in S => Cardinality(S \ {c}) = Cardinality(S) - 1
  BY FS_RemoveElement
<1>4. c \in S => Cardinality(S) # 0
  BY FS_EmptySet
<1> QED
  BY <1>1, <1>2, <1>3, <1>4

\* The steps that leave counters, codes and tallies alone, and at most let one
\* call go on to another phase in which it has no reservation it did not have.
LEMMA CallsMove ==
  ASSUME CountersInv, NEW s \in Senders, NEW call \in SendCalls,
         sending' = [sending EXCEPT ![s] = call],
         UNCHANGED <<smsLimits, drawn, smsTallies, cooldown>>,
         call.at # "idle" => call.phone \in Phones,
         call.day <= day,
         call.at \in {"send", "withdraw"} =>
           /\ Reserved(s)
           /\ call.phone = sending[s].phone /\ call.code = sending[s].code /\ call.day = sending[s].day
  PROVE  CountersInv'
<1> USE DEF CountersInv, smsLimits, smsTallies
<1>1. CountersTyped'
  BY DEF CountersTyped
<1>2. \A t \in Senders : sending'[t] = IF t = s THEN call ELSE sending[t]
  BY DEF CountersTyped
<1>3. CallsInv'
  BY <1>2 DEF CallsInv, Reserved
<1>4. QuotasInv'
  BY <1>2 DEF QuotasInv, BucketsInv, WindowInv, DaysInv, Counted, Ended, Reopened, Reserved
<1> QED
  BY <1>1, <1>3, <1>4

\* A step that touches no counter, and no cooldown of the last second of the
\* day, keeps what is known of them.
LEMMA CountersStay ==
  ASSUME CountersInv, UNCHANGED <<smsLimits, drawn, sending, smsTallies>>,
         \A p \in cooling : cooldown'[p] = cooldown[p]
  PROVE  CountersInv'
<1> USE DEF CountersInv, smsLimits, smsTallies
<1>1. CountersTyped'
  BY DEF CountersTyped
<1>2. CallsInv'
  BY DEF CallsInv, Reserved
<1>3. BucketsInv'
  BY DEF QuotasInv, BucketsInv, Counted, Ended, Reopened
<1>4. QuotasInv'
  BY <1>3 DEF QuotasInv, WindowInv, DaysInv, Reserved
<1> QED
  BY <1>1, <1>2, <1>4

\* The window ends: nothing it counted counts any more, and nothing is late.
LEMMA WindowKeepsCounters == ASSUME CountersInv, WindowExpires PROVE CountersInv'
<1> USE SmsAssumption DEF SmsAssumption, CountersInv, WindowExpires
<1>1. CountersTyped'
  BY DEF CountersTyped
<1>2. CallsInv'
  BY DEF CallsInv, Reserved
<1>3. BucketsInv'
  BY DEF QuotasInv, BucketsInv, Counted, Ended, Reopened, smsKeys
<1>4. WindowInv'
  BY FS_EmptySet DEF WindowInv
<1>5. QuotasInv'
  BY <1>3, <1>4 DEF QuotasInv, DaysInv, Reserved
<1> QED
  BY <1>1, <1>2, <1>5

\* In the last second of the day every bucket still counts its day.
LEMMA ClosingKeepsCounters == ASSUME CountersInv, DayCloses PROVE CountersInv'
<1> USE SmsAssumption DEF SmsAssumption, CountersInv, DayCloses, smsTallies
<1>1. CountersTyped'
  BY DEF CountersTyped
<1>2. CallsInv'
  BY DEF CallsInv, Reserved
<1>3. BucketsInv'
  BY DEF QuotasInv, BucketsInv, Counted, Ended, Reopened
<1>4. QuotasInv'
  BY <1>3 DEF QuotasInv, WindowInv, DaysInv, Reserved
<1> QED
  BY <1>1, <1>2, <1>4

\* The day ends: no reservation under way is of the new day, whose bucket is
\* still empty.
LEMMA DayKeepsCounters == ASSUME CountersInv, DayEnds PROVE CountersInv'
<1> USE SmsAssumption DEF SmsAssumption, CountersInv, DayEnds
<1>0. day < MaxDays
  BY DEF QuotasInv, DaysInv
<1>1. CountersTyped'
  <2>1. day' \in Days
    BY <1>0 DEF CountersTyped, Days
  <2>2. today' \in [Phones -> SUBSET Codes] /\ fragile' \subseteq Phones /\ cooling' \subseteq Phones
    OBVIOUS
  <2>3. closing' \in BOOLEAN
    OBVIOUS
  <2> QED
    BY <2>1, <2>2, <2>3 DEF CountersTyped
<1>2. CallsInv'
  BY DEF CallsInv, Reserved, CountersTyped, Days, SendCalls
<1>3. QuotasInv'
  <2>1. \A p \in Phones : daily'[p] = daily[p] /\ today'[p] = {}
    BY DEF CountersTyped
  <2>2. \A p \in Phones, d \in Days : d > day => daily'[p][d] = 0
    BY <2>1 DEF QuotasInv
  <2>3. day' \in Days /\ day' > day
    BY <1>0 DEF CountersTyped, Days
  <2>4. BucketsInv'
    BY <2>1, <2>2, <2>3, FS_EmptySet DEF BucketsInv, Counted
  <2>5. \A p \in Phones, d \in Days : d > day' => daily'[p][d] = 0
    BY <2>2, <2>3 DEF CountersTyped, Days
  <2>6. \A s \in Senders :
          Reserved(s)' => sending'[s].code \notin today'[sending'[s].phone] /\ sending'[s].day # day'
    BY <2>1, <2>3 DEF CallsInv, Reserved, CountersTyped, Days, SendCalls
  <2> QED
    BY <2>1, <2>4, <2>5, <2>6 DEF QuotasInv, WindowInv, DaysInv
<1> QED
  BY <1>1, <1>2, <1>3

\* A bucket that ends is that of an earlier day, or of this one in its last
\* second.
LEMMA BucketKeepsCounters ==
  ASSUME CountersInv, NEW p \in Phones, NEW d \in Days, BucketExpires(p, d),
         \/ d < day /\ fragile' = fragile
         \/ d = day /\ p \in fragile /\ fragile' = fragile \ {p}
  PROVE  CountersInv'
<1> USE SmsAssumption DEF SmsAssumption, CountersInv, BucketExpires
<1>1. CountersTyped'
  BY DEF CountersTyped, smsTallies
<1>2. CallsInv'
  BY DEF CallsInv, Reserved
<1>3. \A q \in Phones, e \in Days : daily'[q][e] = IF q = p /\ e = d THEN 0 ELSE daily[q][e]
  BY DEF CountersTyped
<1>4. day' = day /\ day \in Days /\ today' = today /\ Days \subseteq Nat
  BY DEF CountersTyped, Days, smsTallies
<1>5. BucketsInv'
  <2>1. ~closing' => fragile' = {}
    BY DEF QuotasInv, BucketsInv
  <2>2. ASSUME NEW q \in Phones, q # p \/ d < day PROVE (Counted(q) \/ Ended(q) \/ Reopened(q))'
    <3>1. daily'[q][day'] = daily[q][day] /\ (q \in fragile' <=> q \in fragile)
      BY <1>3, <1>4, <2>2
    <3>2. Counted(q) \/ Ended(q) \/ Reopened(q)
      BY DEF QuotasInv, BucketsInv
    <3> QED
      BY <1>4, <3>1, <3>2 DEF Counted, Ended, Reopened, smsKeys
  <2>3. ASSUME d = day, p \in fragile PROVE Ended(p)'
    <3>1. closing /\ Counted(p)
      BY <2>3 DEF QuotasInv, BucketsInv, Ended, Reopened
    <3>2. daily'[p][day'] = 0
      BY <1>3, <1>4, <2>3
    <3>3. daily[p][day] \in 0..DailyLimit
      BY <1>4 DEF CountersTyped
    <3> QED
      BY <1>4, <2>3, <3>1, <3>2, <3>3 DEF Counted, Ended
  <2> QED
    BY <1>4, <2>1, <2>2, <2>3 DEF BucketsInv
<1>6. \A q \in Phones, e \in Days : e > day' => daily'[q][e] = 0
  BY <1>3, <1>4 DEF QuotasInv
<1>7. QuotasInv'
  BY <1>4, <1>5, <1>6 DEF QuotasInv, WindowInv, DaysInv, smsTallies, Reserved
<1> QED
  BY <1>1, <1>2, <1>7

\* Keys that expire keep the counters.
LEMMA ElapseKeepsCounters == ASSUME CountersInv, KeysTyped, SmsElapse PROVE CountersInv'
<1>1. CASE \E p \in Phones : CodeEnds(p) \/ CodeExpires(p) \/ FailuresExpire(p)
  BY <1>1, CountersStay DEF CodeEnds, CodeExpires, FailuresExpire
<1>2. ASSUME NEW p \in Phones, CooldownExpires(p) PROVE CountersInv'
  <2>1. \A q \in Phones \ {p} : cooldown'[q] = cooldown[q]
    BY <1>2 DEF CooldownExpires, KeysTyped
  <2>2. cooling \subseteq Phones \ {p}
    BY <1>2 DEF CooldownExpires, CountersInv, CountersTyped
  <2> QED
    BY <1>2, <2>1, <2>2, CountersStay DEF CooldownExpires
<1>3. ASSUME NEW p \in Phones, TodayBucketExpires(p) PROVE CountersInv'
  BY <1>3, BucketKeepsCounters DEF TodayBucketExpires, CountersInv, CountersTyped
<1>4. ASSUME NEW p \in Phones, OldBucketExpires(p) PROVE CountersInv'
  BY <1>4, BucketKeepsCounters DEF OldBucketExpires
<1> QED
  BY <1>1, <1>2, <1>3, <1>4, WindowKeepsCounters, ClosingKeepsCounters, DayKeepsCounters DEF SmsElapse

\* A verification touches no quota.
LEMMA VerifyKeepsCounters == ASSUME CountersInv, VerifySMSCode PROVE CountersInv'
BY CountersStay DEF VerifySMSCode, VerifyMatch, VerifyMismatch, VerifyMismatchAtEnd, Mismatch

\* The record of a call that goes on to the provider.
Sent(call, c) == [call EXCEPT !.at = "send", !.code = c]

\* The call of a sender after its request.
LEMMA CallSent ==
  ASSUME NEW call \in SendCalls, NEW c \in Codes
  PROVE  /\ Sent(call, c) \in SendCalls
         /\ Sent(call, c).at = "send" /\ Sent(call, c).code = c
         /\ Sent(call, c).phone = call.phone /\ Sent(call, c).day = call.day
BY DEF Sent, SendCalls, SenderPhases

\* A reservation: its code is new to every tally.
LEMMA ReserveKeepsCounters ==
  ASSUME CountersInv, KeysTyped, NEW s \in Senders, ReserveLoginCode(s)
  PROVE  CountersInv'
<1> USE SmsAssumption DEF SmsAssumption, CountersInv
<1> DEFINE p == sending[s].phone
           d == sending[s].day
           c == drawn'
<1>1. /\ p \in Phones /\ d \in Days /\ d <= day
      /\ c = drawn + 1 /\ c \in Codes /\ c \notin 1..drawn
  <2>1. sending[s].at = "reserve" /\ sending[s] \in SendCalls
    BY DEF ReserveLoginCode, CountersTyped
  <2>2. p \in Phones /\ d \in Days /\ d <= day
    BY <2>1 DEF CallsInv, SendCalls
  <2>3. c = drawn + 1 /\ c \in Codes /\ c \notin 1..drawn
    BY DEF ReserveLoginCode, CountersTyped, Codes
  <2> QED
    BY <2>2, <2>3
<1>2. /\ daily[p][d] < DailyLimit
      /\ ipCount < IpLimit
      /\ daily' = [daily EXCEPT ![p][d] = @ + 1]
      /\ ipCount' = ipCount + 1
      /\ today' = IF d = day THEN [today EXCEPT ![p] = @ \cup {c}] ELSE today
      /\ inWindow' = inWindow \cup {c}
      /\ cooldown[p] = NoCode /\ cooldown' = [cooldown EXCEPT ![p] = c]
      /\ cooling' = IF closing THEN cooling \cup {p} ELSE cooling
      /\ UNCHANGED <<day, closing, fragile, late>>
  BY DEF ReserveLoginCode, ReserveScript
<1>3. c \notin inWindow /\ \A q \in Phones : c \notin today[q]
  BY <1>1 DEF QuotasInv
<1>4. /\ \A t \in Senders \ {s} : sending'[t] = sending[t]
      /\ sending'[s].at = "send" /\ sending'[s].phone = p /\ sending'[s].day = d /\ sending'[s].code = c
      /\ sending' \in [Senders -> SendCalls]
  <2>1. sending' = [sending EXCEPT ![s] = Sent(sending[s], c)] /\ sending \in [Senders -> SendCalls]
    BY DEF ReserveLoginCode, CountersTyped, Sent
  <2>2. sending[s] \in SendCalls /\ c \in Codes
    BY <1>1, <2>1
  <2>3. sending'[s] = Sent(sending[s], c)
    BY <2>1
  <2> QED
    BY <2>1, <2>2, <2>3, CallSent
<1> HIDE DEF p, d, c
<1>5. /\ \A q \in Phones, e \in Days :
           daily'[q][e] = IF q = p /\ e = d THEN daily[q][e] + 1 ELSE daily[q][e]
      /\ \A q \in Phones : today'[q] = IF q = p /\ d = day THEN today[q] \cup {c} ELSE today[q]
  BY <1>1, <1>2 DEF CountersTyped
<1>6. CountersTyped'
  <2>1. daily' \in [Phones -> [Days -> 0..DailyLimit]]
    BY <1>1, <1>2 DEF CountersTyped
  <2>2. today' \in [Phones -> SUBSET Codes]
    BY <1>1, <1>2 DEF CountersTyped
  <2>3. drawn' \in 0..MaxCodes
    BY <1>1 DEF CountersTyped, Codes, c
  <2> QED
    BY <1>1, <1>2, <1>4, <2>1, <2>2, <2>3 DEF CountersTyped
<1>7. CallsInv'
  <2>1. drawn \in Nat /\ drawn' = drawn + 1 /\ c = drawn' /\ day' = day
    BY <1>1, <1>2 DEF CountersTyped, c
  <2>2. \A t \in Senders \ {s} : Reserved(t)' => Reserved(t) /\ sending'[t].code \in 1..drawn
    BY <1>4 DEF CallsInv, Reserved
  <2>3. \A t \in Senders : Reserved(t)' => sending'[t].code \in 1..drawn'
    BY <1>4, <2>1, <2>2
  <2>4. \A t, u \in Senders :
          Reserved(t)' /\ Reserved(u)' /\ sending'[t].code = sending'[u].code => t = u
    BY <1>1, <1>4, <2>2 DEF CallsInv
  <2>5. \A t \in Senders : sending'[t].at # "idle" => sending'[t].phone \in Phones
    BY <1>1, <1>4 DEF CallsInv
  <2>6. \A t \in Senders : sending'[t].day <= day'
    BY <1>1, <1>4, <2>1 DEF CallsInv
  <2> QED
    BY <2>3, <2>4, <2>5, <2>6 DEF CallsInv
<1>8. WindowInv' /\ BucketsInv'
  <2>1. /\ Cardinality(inWindow') = Cardinality(inWindow) + 1
        /\ \A q \in Phones : Cardinality(today[q] \cup {c}) = Cardinality(today[q]) + 1
        /\ Cardinality(inWindow) \in Nat
        /\ \A q \in Phones : Cardinality(today[q]) \in Nat
    BY <1>2, <1>3, TalliesFinite, Counts
  <2>2. WindowInv'
    BY <1>2, <2>1 DEF QuotasInv, WindowInv, CountersTyped
  <2>3. ASSUME NEW q \in Phones, q # p \/ d # day PROVE (Counted(q) \/ Ended(q) \/ Reopened(q))'
    <3>1. daily'[q][day'] = daily[q][day] /\ today'[q] = today[q] /\ (q # p => cooldown'[q] = cooldown[q])
      BY <1>2, <1>5, <2>3 DEF CountersTyped, KeysTyped
    <3>2. Counted(q) \/ Ended(q) \/ (q # p /\ Reopened(q))
      BY <1>1, <1>2, SmsAssumption DEF QuotasInv, BucketsInv, Reopened, CountersTyped, Codes
    <3> QED
      BY <1>2, <3>1, <3>2 DEF Counted, Ended, Reopened
  <2>4. ASSUME NEW q \in Phones, q = p, d = day PROVE (Counted(q) \/ Reopened(q))'
    <3>1. /\ daily'[q][day'] = daily[q][day] + 1
          /\ today'[q] = today[q] \cup {c} /\ Cardinality(today'[q]) = Cardinality(today[q]) + 1
          /\ cooldown'[q] = c
      BY <1>1, <1>2, <1>5, <2>1, <2>4 DEF KeysTyped
    <3>2. Counted(q) \/ Ended(q)
      BY <1>1, <1>2, <2>4, SmsAssumption DEF QuotasInv, BucketsInv, Reopened, CountersTyped, Codes
    <3>3. CASE Counted(q)
      BY <3>1, <3>3 DEF Counted
    <3>4. CASE Ended(q)
      <4>1. closing' /\ q \notin fragile' /\ q \in cooling' /\ daily'[q][day'] = 1 /\ cooldown'[q] \in today'[q]
        BY <1>2, <2>4, <3>1, <3>4 DEF Ended
      <4>2. Cardinality(today'[q]) <= DailyLimit + 1
        BY <1>1, <2>1, <3>1, <3>4 DEF Ended
      <4> QED
        BY <4>1, <4>2 DEF Reopened
    <3> QED
      BY <3>2, <3>3, <3>4
  <2>5. ~closing' => fragile' = {}
    BY <1>2 DEF QuotasInv, BucketsInv
  <2>6. \A q \in Phones : (Counted(q) \/ Ended(q) \/ Reopened(q))'
    BY <2>3, <2>4 DEF Counted, Ended, Reopened
  <2> QED
    BY <2>2, <2>5, <2>6 DEF BucketsInv
<1>9. QuotasInv'
  <2>1. inWindow' \subseteq 1..drawn' /\ \A q \in Phones : today'[q] \subseteq 1..drawn'
    BY <1>1, <1>2, <1>5 DEF QuotasInv, c, CountersTyped
  <2>2. \A q \in Phones, e \in Days : e > day' => daily'[q][e] = 0
    BY <1>1, <1>2, <1>5 DEF QuotasInv, CountersTyped, Days
  <2>3. \A t \in Senders :
          Reserved(t)' => (sending'[t].code \in today'[sending'[t].phone] <=> sending'[t].day = day')
    <3>1. \A t \in Senders \ {s} : Reserved(t) => sending[t].code # c /\ sending[t].phone \in Phones
      BY <1>1 DEF CallsInv, Reserved
    <3>2. \A t \in Senders \ {s} :
            Reserved(t)' => (sending'[t].code \in today'[sending'[t].phone] <=> sending'[t].day = day')
      BY <1>1, <1>2, <1>4, <1>5, <3>1 DEF QuotasInv, Reserved
    <3>3. c \in today'[p] <=> d = day'
      BY <1>1, <1>2, <1>3, <1>5
    <3> QED
      BY <1>4, <3>2, <3>3
  <2> QED
    BY <1>2, <1>8, <2>1, <2>2, <2>3 DEF QuotasInv, DaysInv
<1> QED
  BY <1>6, <1>7, <1>9

\* A withdrawal: its bucket gets back what the reservation counted, and the
\* tallies of the day and of the window lose the code only if they had it.
LEMMA RollbackKeepsCounters ==
  ASSUME CountersInv, KeysTyped, NEW s \in Senders, RollbackLoginCode(s)
  PROVE  CountersInv'
<1> USE SmsAssumption DEF SmsAssumption, CountersInv
<1> DEFINE p == sending[s].phone
           d == sending[s].day
           c == sending[s].code
<1>1. /\ p \in Phones /\ d \in Days /\ d <= day
      /\ c \in 1..drawn
      /\ c \in today[p] <=> d = day
  BY DEF RollbackLoginCode, CallsInv, CountersTyped, SendCalls, QuotasInv, Reserved
<1>2. /\ daily' = [daily EXCEPT ![p][d] = LessOne(@)]
      /\ ipCount' = LessOne(ipCount)
      /\ today' = [today EXCEPT ![p] = @ \ {c}]
      /\ inWindow' = inWindow \ {c}
      /\ late' = IF c \in inWindow THEN late ELSE late + 1
      /\ cooldown[p] = c /\ cooldown' = [cooldown EXCEPT ![p] = NoCode]
      /\ fragile' = {q \in fragile : daily'[q][day] > 0}
      /\ cooling' = cooling \ {p}
      /\ UNCHANGED <<day, closing, drawn>>
      /\ sending' = [sending EXCEPT ![s] = NotSending]
  BY DEF RollbackLoginCode, RollbackScript, Withdraw, SendReturns
<1>3. Reserved(s)
  BY DEF RollbackLoginCode, Reserved
<1> HIDE DEF p, d, c
<1>4. /\ \A q \in Phones, e \in Days :
           daily'[q][e] = IF q = p /\ e = d THEN LessOne(daily[q][e]) ELSE daily[q][e]
      /\ \A q \in Phones : today'[q] = IF q = p THEN today[q] \ {c} ELSE today[q]
      /\ \A t \in Senders \ {s} : sending'[t] = sending[t]
      /\ sending'[s] = NotSending
  BY <1>1, <1>2 DEF CountersTyped
<1>5. CountersTyped'
  <2>1. \A n \in 0..DailyLimit : LessOne(n) \in 0..DailyLimit
    BY LessOneIs
  <2>2. daily' \in [Phones -> [Days -> 0..DailyLimit]]
    BY <1>1, <1>2, <2>1 DEF CountersTyped
  <2>3. ipCount' \in 0..IpLimit
    BY <1>2, LessOneIs DEF CountersTyped
  <2>4. NotSending \in SendCalls
    BY DEF NotSending, SendCalls, SenderPhases, Days
  <2> QED
    BY <1>1, <1>2, <2>2, <2>3, <2>4 DEF CountersTyped
<1>6. CallsInv'
  <2>1. 1 <= day /\ NotSending.at = "idle" /\ NotSending.day = 1
    BY DEF CountersTyped, Days, NotSending
  <2>2. \A t \in Senders : Reserved(t)' => t # s /\ Reserved(t)
    BY <1>4, <2>1 DEF Reserved
  <2> QED
    BY <1>2, <1>4, <2>1, <2>2 DEF CallsInv
<1>7. \A t \in Senders : Reserved(t)' => t # s /\ Reserved(t) /\ sending'[t] = sending[t]
  BY <1>4 DEF Reserved, NotSending
<1>8. BucketsInv'
  <2>0. fragile' \subseteq fragile /\ (~closing' => fragile' = {})
    BY <1>2 DEF QuotasInv, BucketsInv
  <2> SUFFICES ASSUME NEW q \in Phones PROVE (Counted(q) \/ Ended(q) \/ Reopened(q))'
    BY <2>0 DEF BucketsInv
  <2>1. /\ Cardinality(today[q]) \in Nat /\ IsFiniteSet(today[q]) /\ day \in Days /\ day' = day
        /\ daily[q][day] \in 0..DailyLimit
    BY <1>2, TalliesFinite DEF CountersTyped
  <2>5. Counted(q) \/ Ended(q) \/ Reopened(q)
    BY DEF QuotasInv, BucketsInv
  <2>2. CASE q # p
    <3>1. daily'[q][day'] = daily[q][day] /\ today'[q] = today[q] /\ cooldown'[q] = cooldown[q]
      BY <1>2, <1>4, <2>1, <2>2 DEF KeysTyped
    <3> QED
      BY <1>2, <2>0, <2>2, <2>5, <3>1 DEF Counted, Ended, Reopened
  <2>3. CASE q = p /\ d = day
    <3>1. Cardinality(today[q] \ {c}) = Cardinality(today[q]) - 1 /\ Cardinality(today[q]) > 0
      BY <1>1, <2>1, <2>3, Counts
    <3>2. daily'[q][day'] = LessOne(daily[q][day]) /\ today'[q] = today[q] \ {c}
      BY <1>4, <2>1, <2>3
    <3>3. CASE Counted(q)
      <4>1. LessOne(daily[q][day]) = daily[q][day] - 1
        BY <2>1, <3>1, <3>3, LessOneIs DEF Counted
      <4> QED
        BY <2>1, <3>1, <3>2, <3>3, <4>1 DEF Counted
    <3>4. CASE Ended(q) \/ Reopened(q)
      <4>1. LessOne(daily[q][day]) = 0
        BY <3>4 DEF Ended, Reopened, LessOne
      <4>2. closing' /\ q \notin fragile' /\ Cardinality(today[q]) <= DailyLimit + 1
        BY <1>2, <2>0, <2>1, <3>4 DEF Ended, Reopened
      <4> QED
        BY <2>1, <3>1, <3>2, <4>1, <4>2 DEF Ended
    <3> QED
      BY <2>5, <3>3, <3>4
  <2>4. CASE q = p /\ d # day
    <3>1. today'[q] = today[q] /\ c \notin today[q] /\ daily'[q][day'] = daily[q][day]
      <4>1. daily'[q][day'] = daily[q][day] /\ today'[q] = today[q] \ {c}
        BY <1>4, <2>1, <2>4
      <4> QED
        BY <1>1, <2>4, <4>1
    <3>2. Counted(q) \/ Ended(q)
      BY <1>2, <2>4, <2>5, <3>1 DEF Reopened
    <3> QED
      BY <1>2, <2>0, <3>1, <3>2 DEF Counted, Ended
  <2> QED
    BY <2>2, <2>3, <2>4
<1>9. WindowInv'
  <2>1. /\ IsFiniteSet(inWindow) /\ Cardinality(inWindow) \in Nat /\ ipCount \in Nat /\ late \in Nat
        /\ ipCount <= Cardinality(inWindow) /\ Cardinality(inWindow) <= ipCount + late
    BY TalliesFinite DEF QuotasInv, WindowInv, CountersTyped
  <2>2. ipCount' \in Nat /\ ipCount' <= ipCount /\ ipCount <= ipCount' + 1 /\ (ipCount > 0 => ipCount' = ipCount - 1)
    BY <1>2, <2>1, LessOneIs
  <2>3. CASE c \in inWindow
    BY <1>2, <2>1, <2>2, <2>3, Counts DEF WindowInv
  <2>4. CASE c \notin inWindow
    <3>1. inWindow' = inWindow /\ late' = late + 1
      BY <1>2, <2>1, <2>4
    <3> QED
      BY <2>1, <2>2, <3>1 DEF WindowInv
  <2> QED
    BY <2>3, <2>4 DEF WindowInv
<1>10. QuotasInv'
  <2>1. inWindow' \subseteq 1..drawn' /\ \A q \in Phones : today'[q] \subseteq 1..drawn'
    BY <1>2, <1>4 DEF QuotasInv
  <2>2. \A q \in Phones, e \in Days : e > day' => daily'[q][e] = 0
    BY <1>1, <1>2, <1>4 DEF QuotasInv, CountersTyped, Days
  <2>3. \A t \in Senders : Reserved(t) /\ t # s => sending[t].code # c /\ sending[t].phone \in Phones
    BY <1>3 DEF CallsInv, Reserved, c
  <2>4. \A t \in Senders :
          Reserved(t)' => (sending'[t].code \in today'[sending'[t].phone] <=> sending'[t].day = day')
    BY <1>2, <1>4, <1>7, <2>3 DEF QuotasInv
  <2> QED
    BY <1>2, <1>8, <1>9, <2>1, <2>2, <2>4 DEF QuotasInv, DaysInv
<1> QED
  BY <1>5, <1>6, <1>10

\* Reservation and withdrawal keep the counters as exact as they were.
LEMMA SendKeepsCounters == ASSUME CountersInv, KeysTyped, SmsSend PROVE CountersInv'
<1> USE SmsAssumption DEF SmsAssumption
<1>1. ASSUME NEW s \in Senders, NEW p \in Phones, SendSMSCode(s, p) PROVE CountersInv'
  <2> DEFINE call == [at |-> "reserve", phone |-> p, day |-> day, code |-> NoCode]
  <2>1. call \in SendCalls /\ call.at = "reserve" /\ call.phone = p /\ call.day = day /\ day <= day
    BY DEF CountersInv, CountersTyped, SendCalls, SenderPhases, Days
  <2>2. sending' = [sending EXCEPT ![s] = call] /\ UNCHANGED <<smsLimits, drawn, smsTallies, cooldown>>
    BY <1>1 DEF SendSMSCode, smsKeys
  <2> HIDE DEF call
  <2> QED
    BY <2>1, <2>2, CallsMove
<1>2. ASSUME NEW s \in Senders, SendReturns(s), UNCHANGED <<smsLimits, drawn, smsTallies, cooldown>> PROVE CountersInv'
  <2>1. NotSending \in SendCalls /\ NotSending.at = "idle" /\ NotSending.day = 1 /\ 1 <= day
    BY DEF NotSending, CountersInv, CountersTyped, SendCalls, SenderPhases, Days
  <2>2. sending' = [sending EXCEPT ![s] = NotSending]
    BY <1>2 DEF SendReturns
  <2> QED
    BY <1>2, <2>1, <2>2, CallsMove
<1>3. ASSUME NEW s \in Senders, ProviderFails(s) PROVE CountersInv'
  <2> DEFINE call == [sending[s] EXCEPT !.at = "withdraw"]
  <2>1. sending[s] \in SendCalls /\ sending \in [Senders -> SendCalls]
    BY DEF CountersInv, CountersTyped
  <2>2. /\ call \in SendCalls /\ call.at = "withdraw"
        /\ call.phone = sending[s].phone /\ call.code = sending[s].code /\ call.day = sending[s].day
    BY <2>1 DEF SendCalls, SenderPhases
  <2>3. sending' = [sending EXCEPT ![s] = call] /\ UNCHANGED <<smsLimits, drawn, smsTallies, cooldown>>
    BY <1>3, <2>1 DEF ProviderFails, smsKeys
  <2>4. Reserved(s) /\ sending[s].phone \in Phones /\ sending[s].day <= day
    BY <1>3 DEF ProviderFails, Reserved, CountersInv, CallsInv
  <2> HIDE DEF call
  <2> QED
    BY <2>2, <2>3, <2>4, CallsMove
<1> QED
  BY <1>1, <1>2, <1>3, ReserveKeepsCounters, RollbackKeepsCounters
     DEF SmsSend, ReserveFails, ProviderAccepts, RollbackWithoutEffect, smsKeys

\* Every step keeps the invariant.
LEMMA SmsNextInv == ASSUME SmsInv, [SmsNext]_smsVars PROVE SmsInv'
<1>1. CASE UNCHANGED smsVars
  <2>1. CountersInv'
    BY <1>1, SmsInvIs, CountersStay DEF smsVars, smsKeys
  <2>2. KeysTyped' /\ KeysInv'
    BY <1>1, SmsInvIs DEF smsVars, smsKeys, KeysTyped, KeysInv, GuessesAllowed
  <2> QED
    BY <2>1, <2>2 DEF SmsInv, SmsTypeOK, KeysTyped, CountersInv, CountersTyped
<1>2. CASE SmsNext
  <2>1. CountersInv' /\ KeysTyped' /\ KeysInv'
    BY <1>2, SmsInvIs, ElapseKeepsKeys, SendKeepsKeys, VerifyKeepsKeys,
       ElapseKeepsCounters, SendKeepsCounters, VerifyKeepsCounters DEF SmsNext
  <2> QED
    BY <2>1 DEF SmsInv, SmsTypeOK, KeysTyped, CountersInv, CountersTyped
<1> QED
  BY <1>1, <1>2

\* Hence it holds always.
LEMMA SmsAlways == SmsSpec => []SmsInv
BY SmsInitInv, SmsNextInv, PTL DEF SmsSpec

\* Keys, counters and calls keep their types; in particular no daily bucket
\* and no window exceeds its limit, however reservations and withdrawals of
\* concurrent calls follow each other.
THEOREM SmsTypes == SmsSpec => []SmsTypeOK
<1>1. SmsInv => SmsTypeOK
  BY DEF SmsInv
<1> QED
  BY <1>1, SmsAlways, PTL

\* No code meets more than MaxAttempts wrong guesses, and in its last half
\* second not more than twice as many (verifySMSCodeScript).
THEOREM GuessesAreBounded == SmsSpec => []GuessesBounded
<1>1. SmsInv => GuessesBounded
  BY SmsAssumption DEF SmsAssumption, SmsInv, SmsTypeOK, KeysInv, GuessesAllowed, GuessesBounded
<1> QED
  BY <1>1, SmsAlways, PTL

\* The daily counter of a phone is exact until the last second of the day, in
\* which at most one reservation too many is let through; that of the network
\* is as exact as late withdrawals let it be.
THEOREM QuotasAreExact == SmsSpec => []QuotasExact
<1>1. ASSUME SmsInv PROVE QuotasExact
  <2>1. ASSUME NEW p \in Phones
        PROVE  /\ ~closing => daily[p][day] = Cardinality(today[p])
               /\ daily[p][day] <= Cardinality(today[p])
               /\ Cardinality(today[p]) <= DailyLimit + 1
    <3>1. Counted(p) \/ Ended(p) \/ Reopened(p)
      BY <1>1 DEF SmsInv, QuotasInv, BucketsInv
    <3>2. Cardinality(today[p]) \in Nat /\ IsFiniteSet(today[p]) /\ daily[p][day] \in 0..DailyLimit
      BY <1>1, SmsInvIs, TalliesFinite DEF CountersInv, CountersTyped
    <3>3. today[p] # {} => Cardinality(today[p]) # 0
      BY <3>2, FS_EmptySet
    <3> QED
      BY <3>1, <3>2, <3>3, SmsAssumption DEF Counted, Ended, Reopened, SmsAssumption
  <2> QED
    BY <1>1, <2>1 DEF SmsInv, QuotasInv, WindowInv, QuotasExact
<1> QED
  BY <1>1, SmsAlways, PTL

\* A withdrawal takes the code of its own call or none.
THEOREM OwnCodeIsWithdrawn == SmsSpec => WithdrawsOwnCode
<1> DEFINE Own == \A s \in Senders, p \in Phones :
                    sending[s].at = "withdraw" /\ sending'[s] # sending[s]
                      => code'[p] = code[p] \/ code[p] = sending[s].code
<1>1. ASSUME SmsInv, [SmsNext]_smsVars PROVE Own
  <2> SUFFICES ASSUME NEW s \in Senders, NEW p \in Phones,
                      sending[s].at = "withdraw", sending'[s] # sending[s]
               PROVE  code'[p] = code[p] \/ code[p] = sending[s].code
    OBVIOUS
  <2>1. sending \in [Senders -> SendCalls] /\ code \in [Phones -> Codes \cup {NoCode}]
    BY <1>1 DEF SmsInv, SmsTypeOK
  <2>2. \/ \E t \in Senders : SendReturns(t) /\ UNCHANGED code
        \/ \E t \in Senders : RollbackLoginCode(t)
        \/ \E t \in Senders : sending[t].at # "withdraw" /\ \A u \in Senders \ {t} : sending'[u] = sending[u]
        \/ UNCHANGED sending
    BY <1>1, <2>1 DEF smsVars, smsKeys, SmsNext, SmsElapse, SmsSend, VerifySMSCode, CodeEnds, CodeExpires, FailuresExpire,
       CooldownExpires, TodayBucketExpires, OldBucketExpires, BucketExpires, WindowExpires, DayCloses, DayEnds, SendSMSCode, ReserveFails, ReserveLoginCode,
       ProviderAccepts, ProviderFails, RollbackWithoutEffect, VerifyMatch, VerifyMismatch, VerifyMismatchAtEnd, Mismatch
  <2>3. ASSUME NEW t \in Senders, RollbackLoginCode(t) PROVE code'[p] = code[p] \/ code[p] = sending[s].code
    <3>1. t = s
      BY <2>1, <2>3 DEF RollbackLoginCode, SendReturns
    <3>2. /\ cooldown[sending[s].phone] = sending[s].code
          /\ code' = [code EXCEPT ![sending[s].phone] = NoCode]
      BY <2>3, <3>1 DEF RollbackLoginCode, RollbackScript, Withdraw, CodeIs
    <3>3. sending[s].phone \in Phones /\ sending[s].code \in Nat
      BY <1>1 DEF SmsInv, CallsInv, Reserved
    <3>4. code[sending[s].phone] \in {sending[s].code, NoCode}
      BY <1>1, <3>2, <3>3, SmsAssumption DEF SmsInv, KeysInv, SmsAssumption
    <3> QED
      BY <2>1, <3>2, <3>3, <3>4
  <2> QED
    BY <2>1, <2>2, <2>3
<1> QED
  BY <1>1, SmsAlways, PTL DEF SmsSpec, WithdrawsOwnCode

-----------------------------------------------------------------------------
(* Accounts: a call that is past its checks has an account that may log in, *)
(* and no step takes that away.                                            *)

MayLogIn == {"password", "codeOnly"}

LoginsInv ==
  \A l \in Logins :
    /\ logins[l].at # "idle" => logins[l].phone \in AccountPhones
    /\ logins[l].at \in {"lastLogin", "issue"} => users[logins[l].phone] \in MayLogIn

AccountsInv == AccountsTypeOK /\ LoginsInv

\* The table of users changes by new accounts only, and the calls one by one.
UsersGrow == \A p \in AccountPhones : users[p] # "absent" => users'[p] = users[p]

LoginMoves ==
  \/ UNCHANGED logins
  \/ \E l \in Logins, call \in LoginCalls :
       /\ logins' = [logins EXCEPT ![l] = call]
       /\ call.at # "idle" => call.phone \in AccountPhones
       /\ call.at \in {"lastLogin", "issue"} => users'[call.phone] \in MayLogIn

\* The record of a call that goes on.
LEMMA LoginGoesOn ==
  ASSUME AccountsInv, NEW l \in Logins, NEW phase \in LoginPhases, LoginGoesTo(l, phase), ~LoginAt(l, "idle"),
         phase \in {"lastLogin", "issue"} => users'[logins[l].phone] \in MayLogIn
  PROVE  LoginMoves
<1> DEFINE call == [logins[l] EXCEPT !.at = phase]
<1>1. logins[l] \in LoginCalls /\ logins \in [Logins -> LoginCalls] /\ logins[l].phone \in AccountPhones
  BY DEF AccountsInv, AccountsTypeOK, LoginsInv, LoginAt
<1>2. call \in LoginCalls /\ call.at = phase /\ call.phone = logins[l].phone
  BY <1>1 DEF LoginCalls
<1>3. logins' = [logins EXCEPT ![l] = call]
  BY <1>1 DEF LoginGoesTo
<1> HIDE DEF call
<1> QED
  BY <1>1, <1>2, <1>3 DEF LoginMoves

\* What each step of a call about accounts may change.
LEMMA AccountStep ==
  ASSUME AccountsInv, AccountsNext
  PROVE  /\ UsersGrow /\ LoginMoves
         /\ users' \in [AccountPhones -> UserRows]
         /\ gender' \in [AccountPhones -> Genders]
         /\ preferences' \in [AccountPhones -> SUBSET Preferences]
<1> DEFINE Goal == /\ UsersGrow /\ LoginMoves
                   /\ users' \in [AccountPhones -> UserRows]
                   /\ gender' \in [AccountPhones -> Genders]
                   /\ preferences' \in [AccountPhones -> SUBSET Preferences]
<1> USE DEF AccountsInv
<1>1. ASSUME NEW p \in AccountPhones, NEW g \in Genders, UpdateProfile(p, g) PROVE Goal
  BY <1>1 DEF UpdateProfile, UsersGrow, LoginMoves, AccountsTypeOK
<1>2. ASSUME NEW p \in AccountPhones, NEW w \in SUBSET Preferences, ReplaceDietaryPreferences(p, w) PROVE Goal
  BY <1>2 DEF ReplaceDietaryPreferences, UsersGrow, LoginMoves, AccountsTypeOK
<1>3. ASSUME NEW l \in Logins, LoginStep(l) PROVE Goal
  <2>0. logins \in [Logins -> LoginCalls] /\ logins[l] \in LoginCalls
    BY DEF AccountsTypeOK
  <2>1. ASSUME NEW p \in AccountPhones, NEW phase \in LoginPhases \ {"idle", "lastLogin", "issue"}, LoginStarts(l, phase, p) PROVE Goal
    <3> DEFINE call == [at |-> phase, phone |-> p]
    <3>1. call \in LoginCalls /\ call.at = phase /\ call.phone = p
      BY DEF LoginCalls
    <3>2. logins' = [logins EXCEPT ![l] = call] /\ UNCHANGED <<users, gender, preferences>>
      BY <2>1 DEF LoginStarts
    <3> HIDE DEF call
    <3>3. LoginMoves
      BY <3>1, <3>2 DEF LoginMoves
    <3> QED
      BY <3>2, <3>3 DEF UsersGrow, AccountsTypeOK
  <2>2. ASSUME logins' = [logins EXCEPT ![l] = NoLogin], UNCHANGED <<users, gender, preferences>> PROVE Goal
    <3>1. NoLogin \in LoginCalls /\ NoLogin.at = "idle"
      BY DEF NoLogin, LoginCalls, LoginPhases
    <3>2. LoginMoves
      BY <2>2, <3>1 DEF LoginMoves
    <3> QED
      BY <2>2, <3>2 DEF UsersGrow, AccountsTypeOK
  <2>3. ASSUME NEW phase \in LoginPhases, ~LoginAt(l, "idle"), LoginGoesTo(l, phase), UNCHANGED <<users, gender, preferences>>,
               phase \in {"lastLogin", "issue"} => users[logins[l].phone] \in MayLogIn
        PROVE  Goal
    <3>1. LoginMoves
      BY <2>3, LoginGoesOn
    <3> QED
      BY <2>3, <3>1 DEF UsersGrow, AccountsTypeOK
  <2>4. ASSUME NEW phase \in {"lastLogin", "issue"}, ~LoginAt(l, "idle"), LoginGoesTo(l, phase), NEW row \in MayLogIn,
               users[logins[l].phone] = "absent", Creates(logins[l].phone, row), UNCHANGED <<gender, preferences>>
        PROVE  Goal
    <3>1. logins[l].phone \in AccountPhones
      BY <2>4 DEF LoginsInv, LoginAt
    <3>2. users' \in [AccountPhones -> UserRows] /\ users'[logins[l].phone] = row /\ UsersGrow
      BY <2>4, <3>1 DEF Creates, AccountsTypeOK, UserRows, MayLogIn, UsersGrow
    <3>3. LoginMoves
      BY <2>4, <3>2, LoginGoesOn DEF LoginPhases
    <3> QED
      BY <2>4, <3>2, <3>3 DEF AccountsTypeOK
  <2>5. CASE \E p \in AccountPhones : SMSLogin(l, p) \/ Register(l, p) \/ Login(l, p)
    BY <2>1, <2>5 DEF SMSLogin, Register, Login, LoginPhases
  <2>6. CASE CodeAccepted(l) \/ FindRegistered(l)
    BY <2>3, <2>6 DEF CodeAccepted, FindRegistered, LoginPhases, LoginAt
  <2>7. CASE FindCodeUser(l)
    <3>1. logins[l].phone \in AccountPhones
      BY <2>7 DEF FindCodeUser, LoginAt, LoginsInv
    <3>2. users[logins[l].phone] \in UserRows \ {"disabled"}
      BY <2>7, <3>1 DEF FindCodeUser, AccountsTypeOK
    <3> QED
      BY <2>3, <2>7, <3>2 DEF FindCodeUser, LoginPhases, LoginAt, UserRows, MayLogIn
  <2>8. CASE FindPasswordUser(l) \/ UpdateLastLogin(l)
    BY <2>3, <2>8 DEF FindPasswordUser, UpdateLastLogin, LoginPhases, LoginAt, MayLogIn, LoginsInv
  <2>9. CASE CreateCodeUser(l)
    <3>1. CASE users[logins[l].phone] = "absent"
      BY <2>4, <2>9, <3>1 DEF CreateCodeUser, LoginAt, MayLogIn
    <3>2. CASE users[logins[l].phone] # "absent"
      BY <2>3, <2>9, <3>2 DEF CreateCodeUser, LoginAt, LoginPhases
    <3> QED
      BY <3>1, <3>2
  <2>10. CASE CreateRegistered(l)
    BY <2>4, <2>10 DEF CreateRegistered, LoginAt, MayLogIn
  <2>11. CASE IssueTokenPair(l) \/ LoginFails(l)
    BY <2>2, <2>11 DEF IssueTokenPair, LoginFails
  <2> QED
    BY <1>3, <2>5, <2>6, <2>7, <2>8, <2>9, <2>10, <2>11 DEF LoginStep
<1> QED
  BY <1>1, <1>2, <1>3 DEF AccountsNext

\* Initially nobody is on the way to an account.
LEMMA AccountsInitInv == ASSUME AccountsInit PROVE AccountsInv
BY DEF AccountsInit, AccountsInv, AccountsTypeOK, LoginsInv, NoLogin, LoginCalls, LoginPhases, Genders

\* Every step keeps the invariant.
LEMMA AccountsNextInv == ASSUME AccountsInv, [AccountsNext]_accountVars PROVE AccountsInv'
<1>1. CASE UNCHANGED accountVars
  BY <1>1 DEF accountVars, AccountsInv, AccountsTypeOK, LoginsInv
<1>2. CASE AccountsNext
  <2>1. AccountsTypeOK'
    BY <1>2, AccountStep DEF LoginMoves, AccountsInv, AccountsTypeOK
  <2>2. LoginsInv'
    <3>1. \A l \in Logins :
            logins[l].at \in {"lastLogin", "issue"} => users'[logins[l].phone] \in MayLogIn
      BY <1>2, AccountStep DEF AccountsInv, LoginsInv, UsersGrow, MayLogIn
    <3>2. LoginMoves
      BY <1>2, AccountStep
    <3> QED
      BY <3>1, <3>2 DEF LoginMoves, AccountsInv, AccountsTypeOK, LoginsInv
  <2> QED
    BY <2>1, <2>2 DEF AccountsInv
<1> QED
  BY <1>1, <1>2

\* Hence it holds always.
LEMMA AccountsAlways == AccountsSpec => []AccountsInv
BY AccountsInitInv, AccountsNextInv, PTL DEF AccountsSpec

\* Accounts and calls keep their types.
THEOREM AccountsTypes == AccountsSpec => []AccountsTypeOK
<1>1. AccountsInv => AccountsTypeOK
  BY DEF AccountsInv
<1> QED
  BY <1>1, AccountsAlways, PTL

\* Registration and first login race for a phone without either losing what the
\* other created, and no call issues tokens for an account that does not exist
\* or may not log in.
THEOREM AccountsAreKept == AccountsSpec => AccountsKept
<1> DEFINE Kept ==
      /\ \A p \in AccountPhones : users[p] # "absent" => users'[p] = users[p]
      /\ \A l \in Logins : logins'[l].at = "issue" => users'[logins'[l].phone] \in {"password", "codeOnly"}
<1>1. ASSUME AccountsInv, [AccountsNext]_accountVars PROVE Kept
  <2>1. UsersGrow
    BY <1>1, AccountStep DEF accountVars, UsersGrow
  <2>2. AccountsInv'
    BY <1>1, AccountsNextInv
  <2> QED
    BY <2>1, <2>2 DEF UsersGrow, AccountsInv, LoginsInv, MayLogIn
<1> QED
  BY <1>1, AccountsAlways, PTL DEF AccountsSpec, AccountsKept
=============================================================================
