# FamilyOS: a TLA+ model of the system's core

FamilyOS is a family kitchen assistant: families plan meals and shopping, and an
assistant answers from documents that users upload.  This directory models the
parts of it where several processes share state, and the HTTP interface in front
of them; checks them with TLC on small instances; and proves the results with
TLAPS for instances of any size.

Paths below are relative to the repository; `A/` stands for
`agent-python-service/src/familyos_agent/`.

## 1. Inventory

| Part | State | Operations | What makes it hard |
| --- | --- | --- | --- |
| Knowledge documents (`logic-service`: `service/knowledge.go`, `repository/knowledge.go`) | `knowledge_document`, `knowledge_upload_session`, OSS objects | upload ticket, confirm, delete, three callbacks of the Agent | a check of OSS between two reads of the same rows; deletion at any time |
| Outbox (`service/outbox.go`, `repository/knowledge.go`, `provider/rocketmq.go`) | `integration_outbox` | insert in the business transaction, claim, send, mark | crash between any two calls, takeover of stale locks, lost receipts |
| Index event adapter and ingress (`agent-index-event-adapter`, `A/transport/grpc/index_ingress.py`) | none; inserts into `agent_document_index_task` | receive, forward, acknowledge | redelivery, lost answers |
| Index worker (`A/indexing.py`, `A/repositories`, `A/clients`) | task table, MySQL chunks, Milvus, OpenSearch, Neo4j | claim, fetch, write five stores, compensate, call back, mark | four stores without a common transaction, locks that are never renewed, attempts, an exception handler that can itself raise |
| Login sessions (`service/token.go`, `repository/refresh_session.go`, `mobile-app/src/services/api.ts`) | Redis: token families | issue, rotate, revoke | one-time tokens under concurrent refreshes and logouts |
| SMS codes (`service/sms.go`, `repository/sms_code.go`) | Redis: codes, counters | reserve, send, roll back, verify | rollback of an older reservation; counters at their limits; keys that expire one by one |
| Accounts (`service/auth.go`, `repository/user.go`) | users, dietary preferences | register, log in with a password or a code, profile, preferences | reads before inserts, decided by a unique index |
| Families (`service/family.go`, `repository/family.go`) | families, members | create, join, leave, remove, change roles, reset the invite code, dissolve | checks some queries older than the transaction; member limit and counter |
| Meal plans and ratings (`service/meal_plan.go`) | plans, ratings | create, advance, rate, delete | read-check-write of the status |
| Shopping lists (`service/shopping_list.go`) | lists, items | generate from plans, tick, delete | reads before the transaction; merging of quantities |
| Chat (`A/transport/grpc/chat.py`, `A/agent`) | conversation messages, checkpoints | begin, stream, complete, fail, replay | duplicate request ids, cancellation between steps |
| HTTP gateway (`gateway-service`), client of the application | the access token on the device | binding, calls, codes, statuses, refresh and repetition | a repeated request; errors that lose their meaning on the way; whose id a message carries |
| Retrieval, graph RAG, parsing, chunking | read only | search, rerank | quality, not states |
| Dish catalogue, screens of the application | none shared | queries, forms | little |
| `agent-service` (legacy Go agent) | as the Python Agent | superseded | must not run beside it |

The parts interact in one long chain.  The application uploads a file to OSS
with a signed URL and confirms it; Logic, in one transaction, makes the document
`Pending` and inserts an outbox row; a publisher goroutine sends the row to
RocketMQ; the adapter receives the message and forwards it over gRPC; the
ingress inserts a task row; a worker claims the task, writes the stores, asks
Logic over gRPC to activate the version and marks the task.  Any process may
stop anywhere, any call may fail before or after its effect, and users delete
documents at any moment.

Everything else is a call of the application: HTTP to the gateway, gRPC from
there to Logic or, for questions, to the Agent.  Sessions and SMS codes are
Redis scripts; accounts, families, plans, ratings and lists are MySQL rows that
a call reads, checks and writes in separate statements.  These services share
nothing but the ids of users and families, which never change; a plan, for
instance, asks whether its user is a member, and that answer may be out of date.

## 2. Modules

| Module | Models |
| --- | --- |
| `EventDelivery` | the promise of a transactional outbox (abstract) |
| `OutboxRelay` | outbox table, publishers, broker, adapters, ingress |
| `OutboxRelayProofs` | its theorems |
| `DocumentLifecycle` | the life of a document as the application sees it (abstract) |
| `KnowledgeLogic` | documents, sessions and objects; handlers and callbacks of Logic |
| `IndexWorker` | task table, workers, stores; extends `KnowledgeLogic`, whose callbacks the workers call |
| `OneTimeTokens` | what refresh tokens promise (abstract) |
| `RefreshSession` | the sessions in Redis, the calls that use them, the application that keeps the token |
| `RefreshSessionMC`, `RefreshSessionProofs` | its symmetry for TLC; its theorems |
| `FamilyLife` | what the calls about families promise, as if each happened in one moment (abstract) |
| `FamilyMembership` | the tables of families and members, and the calls that read them before they change them |
| `FamilyMembershipMC`, `FamilyMembershipProofs` | its symmetry for TLC; its theorems |
| `KnowledgePipeline` | everything about documents composed: the workers and handlers of `IndexWorker`, and `OutboxRelay` by INSTANCE |
| `IndexWorkerProofs`, `PipelineProofs` | theorems about the workers; about the composition, from theirs and the relay's |
| `SmsCodes` | the keys of login codes in Redis, the three scripts, the calls of `SendSMSCode` |
| `Accounts` | users and dietary preferences, and the calls that read them before they write |
| `AuthProofs` | theorems about `SmsCodes` and `Accounts` |
| `MealPlans` | meal plans and ratings, and the calls about them |
| `ShoppingLists` | the shopping lists of one family and range of dates |
| `MenuProofs` | theorems about `MealPlans` and `ShoppingLists` |
| `Chat` | the streams of a question and the stored answer |
| `Api` | one HTTP call, from the application through the gateway to a server and back |
| `AuthApi`, `FamilyApi`, `KnowledgeApi`, `ChatApi`, `DishApi` | its endpoints: what is bound, the message, the errors of the service, codes and statuses |
| `GatewayApi` | all endpoints together, and what must hold of every call |
| `UserServicesMC` | the user services side by side, for TLC |
| `UserServicesProofs` | theorems about `Chat`, about the HTTP interface, and about all of `UserServicesMC` |

How state and actions correspond to the code:

* **OutboxRelay.**  `outbox[e]` is a row with its status, `locked_by`, and
  whether `locked_at` is older than the lock timeout (`stale`): time is reduced
  to that one comparison.  `sender[p]` is the program counter of
  `publishAvailable`.  `copies[e]` counts messages of the broker that are not
  acknowledged; a receive leaves the message there, because its invisibility may
  end before it is acknowledged.  `recorded` is the set of events with a task
  row.  `next_retry_at` only delays a claim, so a claimable row may be claimed
  or not.  `unreadable` holds the events whose `occurred_at` the ingress cannot
  parse: Logic writes it as RFC3339Nano, with as many digits as the moment needs,
  and before Python 3.11 `datetime.fromisoformat` reads three or six only.  The
  ingress answers INVALID_ARGUMENT and the adapter acknowledges and drops the
  event (`ForwardDropped`).  The repository supports Python 3.10, so the runs and
  the theorems have `AnyFraction = FALSE` or leave it open.
* **KnowledgeLogic.**  `CompleteUpload` is two actions, `CheckUpload` (rows read,
  object checked) and `ConfirmUpload` (the transaction), because OSS is called in
  between; everything else that is one transaction is one action.  The three
  RPCs of the Agent are given as a condition and an effect, since it is the
  worker that sees the answer or loses it.  The index version is always 1 in this
  code and is left out.
* **IndexWorker.**  `pc[w]` is the next call of `process_one`.  Each action is one
  call to a database, a store or Logic, with its outcomes: no effect and an
  exception, the effect and an exception (answer lost), or success.  `store[d]`
  holds the stores with the complete chunks of `d`; `replace_version` is a
  deletion and an insertion, two actions.  `stale` is as above; `LiveLocksExpire`
  says whether a live worker may be slower than the lock timeout
  (`WORKER_LOCK_TIMEOUT`, five minutes by default).
* **KnowledgePipeline.**  A transaction of Logic and the insertion of its outbox
  row are one step; `IngestEvent` is the adapter's forward together with the
  ingress's insert.  `recorded` is mapped to the existing task rows.
* **RefreshSession.**  `secret[s]` numbers the secret whose hash the session key
  holds, so a token is `<<session, number>>`; random ids and secrets are new
  ones (`issued` counts them).  Each Lua script is one action or part of one,
  time is `Tick`, and `calls` holds the calls that are between two Redis
  commands or whose answer is on its way.  Giving up waiting leaves the call
  running.  `stored`, `refreshing`, `loggingIn`, `leaving` and `screen` are the
  application: secure store, `refreshPromise`, login screen, `logoutAndClear`
  between reading and clearing, navigation.
* **FamilyMembership.**  `family` and `members` are the rows of the two tables,
  `calls[c]` a call of `FamilyService` with its arguments and what it has read:
  `at` is the query it makes next, `rank` the caller's role when it was read.
  Each query is an action.  Each transaction is one too: it locks the rows it
  changes before or as it changes them and holds them until it commits, and what
  MySQL rolls back (a unique index, a deadlock) is `CallEnds`.  `UpdateMember`
  writes any positive role, cut to eight bits: `RoleRequests` may hold all of
  `Roles`, in which `other` stands for the numbers that no service knows, so a
  family may get further owners and members without a known role.
* **SmsCodes.**  A code is a number drawn afresh and stands for its digest and the
  id of its reservation.  Each script is one action; between them a call of
  `SendSMSCode` waits for the provider (`sending[s]`).  Every key can expire, in
  an action of its own.  Of the remaining times the model keeps what decides
  something: whether `failures` ends with the code, earlier or never, and what
  whole seconds do to it.  `TTL` rounds, so that in the last half second of a code
  (`ending`) the failures may be over before it and a mismatch sets no end; the
  rest of the day is truncated, so that in the last second of a day (`closing`)
  its buckets may be gone already (`fragile`), while a reservation made in that
  second blocks the phone for a second at least (`cooling`).  `day` is the date the
  daily keys are named after; `wrong`, `today`, `inWindow` and `late` are histories
  that the properties compare the keys with.
* **Accounts.**  `logins[l]` is a call between two of its statements: after the
  read that found no account, before the insert, before the second read after a
  duplicate key, before the token pair.  A row is an account with a password, one
  that only codes open, or one that is disabled.
* **MealPlans.**  `menuCalls[c].at` is the query that a call makes next, and the
  call keeps the requested change, because it was checked against a plan that
  may have changed since; the write names the columns of the request only, with
  the condition the statement has.  `past` and `pastCooks` are histories.
* **ShoppingLists.**  A generation reads the plans, the latest list and its
  items, and then writes in one transaction; what the plans say is any amounts.
  Items carry the statement that inserted them (`stamp`), ticks are kept as
  history, and `bought` is what inheritance leaves of a tick.
* **Chat.**  `answers[r]` is the assistant's message of a request: none,
  generating, or final as answer, question or failure; `chatStreams[s]` is one
  gRPC stream with its next step.  The graph is external and its outcome any of
  those the service handles.  The gateway draws a request id per call
  (`agent_chat.go:93`), so the same id comes twice only from another client of
  the RPC; the service handles it, and so does the model.
* **Api and its endpoints.**  A call is an endpoint with what matters of its
  request: whether it binds, whether its ids are valid, and which user it names.
  `Auth` is the middleware, each `...Handler` binds and makes the message, each
  `...Service` carries the call out or returns one of the errors of that method
  (`refused`), which the code tables of Logic turn into a code and the gateway
  into a status.  `AuthRetry` is the interceptor of the application; refresh and
  logout go through `authApi`, which has none, and a logout has cleared the
  credentials before (`Bare`, `AppCalls`).  `ErrLostRace` stands for the refusals
  that come from the tables after the checks have passed, a duplicate key or a row
  that is gone: no table of codes has them, so they become 1999.  `done` counts how
  often and as whom a call was carried out.

## 3. What is checked

| Run | Instance | Shows |
| --- | --- | --- |
| `outbox_relay` | 1 INDEX and 1 DELETE event, 2 publishers, 1 adapter, 2 copies | `NoLostEvent`, `OnlyHolderSettles`, and the refinement of `EventDelivery` with its liveness, for the events that the ingress can read (64,588 states) |
| `worker_takeover` | 1 document, 2 workers, 2 attempts, 2 search-side stores, locks of live workers may expire, 1 kill | `TaskAgreesWithDocument`, `OnlyHolderSettlesTask`, `OneVerdict` |
| `worker_patient` | the same, live workers keep their locks | `ExclusiveIndexing`, `VerdictStands`, `ActivatedOnlyWhenWritten`, `PendingSettles` (liveness) |
| `pipeline` | 1 document, 2 concurrent confirmations, 1 worker, publisher and adapter, 1 kill | `NoLostWork`, `TasksAreForConfirmedUploads`, the refinements of `DocumentLifecycle` and `OutboxRelay` (706,000 states) |
| `pipeline_live` | 1 document, 1 attempt, no kill | `ConfirmedDocumentsSettle`: `DocumentLifecycle` with its liveness, if the event can be read |
| `refresh_session` | 1 device, 2 sessions of up to 3 secrets, 2 concurrent calls, TTL of 2 ticks, 1 mishap (application killed or token store failing) | `IndexCoversSessions`, `OnlyNewestTokenEndsSession`, `StoredTokenUsable`, the refinement of `OneTimeTokens` |
| `family_membership` | 3 users, 2 families, 2 invite codes, 2 concurrent calls, at most 2 members; the roles requested are owner, admin and an unknown one | `MemberCountAgrees`, `WithinLimit`, `OneFamilyPerUser`, `FounderOwns`, `CodesAreUnique`, `OnlyOwnerChangesRoles`, the refinement of `FamilyLife` (1,131,039 states) |
| `user_services` | 2 phones or users or requests and 2 concurrent calls of each service; the other bounds below | of the SMS codes `GuessesBounded`, `QuotasExact`, `WithdrawsOwnCode`; `AccountsKept`; `MenuKept`; `ListsKept`; `ChatKept`; of the HTTP interface `ApiKept` (1,449,172 states) |
| `completed_has_content` | 1 worker, no kill, no slow worker | **violated**: a Completed document loses its content |
| `failed_has_no_content` | the same | **violated**: a Failed document keeps its content in the search stores |
| `logged_out_stays_out` | `refresh_session` without mishaps | **violated**: a refresh that was under way logs the user in again |
| `dissolved_families_empty` | 2 users, 1 family, 1 code, 2 calls | **violated**: a join commits into a family that was dissolved meanwhile |

**Bounds.**  `MaxCopies` caps what the broker holds of one message: two are
enough for "sent twice, acknowledged once".  `MaxConfirms` caps concurrent
confirmations of one document.  `MaxAttempts` is a parameter of the code (5 by
default); 2 is the least with a retry and an exhausted task, and attempts are
counted no further than it, which is what the code compares with.  `MaxCrashes`
bounds kills of workers; a worker also ends, without bound, when its exception
handler raises.  Documents do not interact except by occupying a worker, so one
document with two competing workers is the interesting instance.

For the sessions two calls are enough for every pair that races (two uses of one
token, refresh and logout, refresh and login), three secrets for the reuse of a
token that is two rotations old, and two sessions for an index they share.
`MaxMishaps` bounds kills of the application and failures of its token store.

In the families two calls are enough for every pair that races, and the calls
run one after another without bound.  `FamilyLife` sees the status of a family, who
founded it and the rows of its members, and neither calls nor counts: its `Join` compares the
number of members where the code compares `member_count`.  A limit of two members lets two users
compete for the last place; the third is somebody to remove.  `Families` and
`Codes` bound how many families are ever created and which codes are drawn.  The
role member is not requested in the run, since joining gives it.

`Reduced` in `FamilyMembershipMC` is a constraint that loses no behaviour of the
tables the properties speak of.  `ArriveInTime`: an arrival reads and changes
nothing, so a call that has arrived but made no query may as well arrive just
before its first query, whatever the other call does between; and a call whose
first query refuses it has no effect.  TLC does not go on from states in which two
calls have only arrived, or one has whose first query is not enabled.
`FewExpire`: the expiry of an invite code is read by the search of a join alone,
where it can only refuse; so what happens with it can happen without it too, and
one family whose code has an expiry shows the rest.  The theorems need no such
constraint.

`user_services` is one run for six parts that share no variable: `part` says
whose behaviour it is, so its states are the sum of theirs.  Two calls again are
every pair that races; where three would matter (three streams of one request, a
third withdrawal), the theorems of section 4 cover any number.  `MaxCodes = 2`
and `MaxDays = 2` let a code be replaced and a withdrawal come after midnight;
with `MaxAttempts = 2`, `DailyLimit = 1` and `IpLimit = 1` every limit is reached
and passed.  `OnePhoneGuessed` is a bound too: wrong codes are tried for one of
the two phones only.  The keys that a wrong guess changes are that phone's own, so
two guessed phones show no more than one; `GuessesAreBounded` is for all of them.
One plan is enough, since calls about different plans do not meet;
`MaxLists = 2` lets two first generations each make a list, `MaxStamps = 2` lets
one list be written twice, and amounts of an ingredient are its one unit or
nothing.  The HTTP interface is one call at a time: calls meet in the services,
which have modules of their own.  `ann` and `bob` are the caller and somebody
whose id the request carries.

**Fairness.**  A running process takes its next step and clocks advance (weak
fairness); a call that is repeated again and again succeeds some time (strong
fairness, of its successful outcome).  The goroutine and the loops of adapter
and worker justify the first.  The second is what retrying is for, and nothing
bounds how often a call fails before.  A stopped worker is started again: the
compose file of the repository covers infrastructure only, so this is an
assumption about the operator.  Indexing itself is never assumed to succeed, nor
is a user assumed to do anything.

**The violated runs** are disagreements between the code and its documents,
explained in `PROJECT.json` under `findings`.  Two come from what surrounds
`process`: the worker does not remember that Logic accepted its result, and
compensation covers the writes of the stores only.  The third comes from
`refreshAccessTokenOnce`, which stores the answer of a refresh whatever happened
while it waited.  The fourth is an error of the code: the transaction of
`JoinFamily` locks the family and asks again whether there is room, but not
whether the family still is a normal one.

`StoredTokenUsable` excludes a killed application and a failing token store
(`mishaps = 0`): an application killed while a refresh is under way starts with a
spent token, is refused once and shows the login screen, which is the price of
one-time tokens and not an error.

`ChatKept` excludes requests whose graph ran in two streams at once
(`overlapping`): the second stream of a request id that is still generating runs
the graph again, and one may report success after the other has stored a failure.
`QuotasExact` lets the counter of the network be too low by the withdrawals of an
earlier window: a withdrawal takes one from whatever window is open.
The daily counter is exact until the last second of the day, in which its key may
be over and one code more than the limit is let through.  `GuessesBounded` allows
twice the limit in the last half second of a code, for the same kind of reason.

`FounderOwns` is about who created the family; that there be one owner only is not
promised by the code and not checked.  `OnlyOwnerChangesRoles` excepts a caller
who was another owner when it was checked: such a user can lose the role before
the transaction, the founder cannot.

`NoLostEvent`, `NoLostWork` and the liveness properties except the events that the
ingress cannot read; their documents stay Pending, on Python 3.10.

`RefusalsNamed`, a part of `ApiKept`, is about errors that a service names: they
have no effect, are not told as success and keep a code other than 1999 and a
status below 500.  That the code is the right one of its table is not claimed:
some methods of Knowledge answer all errors with one code.  Refusals by a lost
race are 1999 (`ErrLostRace`), outages 1999 or, on the routes that know no better,
the code of the last check.

`ActivatedOnlyWhenWritten` and `ExclusiveIndexing` are checked for workers that
keep within their lock.  With `LiveLocksExpire = TRUE` they do not hold: a late
worker can erase or compensate a store after the one that took over has filled
it.  The lock is never renewed, so this is a condition on the deployment (the
timeout must exceed the longest indexing), and the run states it.

## 4. What is proved

`OutboxRelayProofs`, for all sets of events, publishers and adapters and every
`MaxCopies >= 1`, from `RelayAssumption`:

* `RelayTypes`: `RelaySpec => []RelayTypeOK`;
* `NothingLost`: `RelaySpec => []NoLostEvent`;
* `NothingDropped`: with `AnyFraction` no event is unreadable, so `NoLostEvent`
  holds of all of them;
* `HolderSettles`: `RelaySpec => OnlyHolderSettles`;
* `RelayImplementsDelivery`: `RelaySpec => Delivery!SafeSpec`.

`NoLostEvent` speaks of rows marked Sent, but the publisher marks a row some
steps after it sent, and the adapter acknowledges some steps after it forwarded.
The inductive invariant `IInv` therefore adds `Handovers`, what each process
carries from call to call: a publisher about to mark its row Sent has its message
in the broker or already recorded, an adapter about to acknowledge has it
recorded (both unless the ingress cannot read it), and only rows that exist are sent, held or received.  Each of these is
kept by every action, for the other processes' steps as well; the refinement
follows because an adapter forwards only what was once inserted.

`RefreshSessionProofs`, for any sessions, devices and calls, from
`SessionAssumption`:

* `SessionTypes`: `Spec => []SessionTypeOK`;
* `IndexCovers`: `Spec => []IndexCoversSessions`;
* `SessionsImplementOneTimeTokens`: `Spec => TokensAreOneTime`;
* `NewestTokenEndsSession`: `Spec => OnlyNewestTokenEndsSession`.

The argument is about Redis alone.  Whatever a call does, it changes Redis in one
of four ways or not at all (`OnlyRedisSteps`), and these keep `RedisInv`: the
index has at least as much time left as each session key (`IndexOutlives`, which
membership alone does not imply), and the stored secret is the last one issued,
while redeemed ones are older (`SecretsAreNew`, which makes a second redemption
of a token impossible).  The lemma `Rotation` says once what an accepted rotation
does under that invariant.

`FamilyMembershipProofs`, for any users, families, codes, calls and limit, from
`FamilyAssumption`:

* `FamilyTypes`, `CountsAgree`, `LimitKept`, `SingleFamily`, `FounderStays`,
  `UniqueCodes`: the invariants of the run;
* `OwnerRanks`: `Spec => OnlyOwnerChangesRoles`;
* `CallsAreSteps`: `Spec => CallsSeemAtomic`, the refinement of `FamilyLife`.

A transaction relies on what its call has read, so none of the invariants is
inductive without `InFlight`, which says what a call knows at each point: the
target of a removal was not the founder, the caller of a change of role was an
owner, the family exists.  These facts are stable, whatever other calls do,
because the founder of a family never changes, its row is never the target of a
deletion or an update, and nobody else becomes founder (`StepsLast`); that is why
the stale reads are harmless here, and `status` and the role of a further owner,
which are not stable, are what the failing run and the exception in
`OnlyOwnerChangesRoles` turn on.  The tables themselves
change in seven ways (`OnlyTableSteps`); `Columns` and the three `CountAfter`
lemmas say what each does, the `Kept` lemmas that the invariants survive, and
`TableStepIsOne` that each is one step of `FamilyLife` or changes nothing there.

`RefreshSessionProofs` has a second part, `StoredTokenIsUsable`
(`Spec => []StoredTokenUsable`).  It is about who holds which token.  The
invariant `Custody`, which holds as long as `mishaps = 0`, says: one device waits
for a call, and for the kind of call it made (`OneWaits`); a session is in one
place, on one device, on its way in one call, or in the call that refreshes it
for the device (`OneHolds`); what is held was issued (`HeldIsIssued`, so a new
session is held by nobody); and what is not being refreshed is the newest token
(`HeldIsNewest`).  A refresh that was given up may still rotate, but giving up
clears the device, so it rotates a session that nobody holds any more.  `Serves`
says what all steps of the service have in common, three more lemmas what those
of the application have.

`IndexWorkerProofs`, for any documents, workers, attempts and configured stores,
has two parts.  Whatever locks expire, `IndexInv` (the types, `JobsInv` and
`TaskAgreesWithDocument`) is inductive, and gives `AgentTypes`, `TasksAgree`,
`HolderSettlesTask` and `VerdictIsOne`: a worker about to mark an outcome was told
it by Logic, and only a deletion changes a settled document, so late workers can
only agree.  If no live worker outlasts its lock (`ASSUME ~LiveLocksExpire`),
`PatientInv` adds that a working worker holds a fresh lock unless its task is
completed (`HoldersInv`), that there is one per document, that what it has not
written is still to be written (`WritesInv`) and that a verdict stands, and gives `IndexingIsExclusive`,
`VerdictsStand` and `ActivatedWhenWritten`.

`PipelineProofs`, for any documents and processes, from `PipelineAssumption`:
`PipelineTypes`, `NoWorkIsLost`, `TasksAreConfirmed`, and the two refinements
`PipelineImplementsLifecycle` (of `DocumentLifecycle!SafeSpec`) and
`PipelineImplementsRelay` (of `OutboxRelay!RelaySpec`).  It proves nothing about
the parts again: the workers' lemmas come with EXTENDS, the relay's from an
instance of `OutboxRelayProofs` in which the recorded events are the task rows.
What is new is `LifeInv`, what the parts know of each other: which outbox row
exists with which session and document, and that a task row comes from an INDEX
row.

Three more theorems say that composing the parts takes nothing away from them.
The specification of the pipeline is not that of the workers, who start there
from nothing and get their tasks from a broker, so what was proved of
`WorkerSpec` has to be shown again of `Spec`, step by step, from the same lemmas:
`WorkersInPipeline` (`TaskAgreesWithDocument`, `OnlyHolderSettlesTask`,
`OneVerdict`) and, with `ASSUME ~LiveLocksExpire`, `PatientPipeline`
(`ExclusiveIndexing`, `VerdictStands`, `ActivatedOnlyWhenWritten`).  The step that
matters in the second is `IngestEvent`: a message may arrive at any time and any
number of times, and inserts a task only while there is none, hence while nobody
works on the document.  `RelayKeptInPipeline` has the relay's promises in the
pipeline's variables: no event lost, rows settled by their holders, and
`EventDelivery!SafeSpec` with the task rows as deliveries.

`AuthProofs`, from `SmsAssumption` and `AccountsAssumption`: `SmsTypes`,
`GuessesAreBounded`, `QuotasAreExact`, `OwnCodeIsWithdrawn`, `AccountsTypes`,
`AccountsAreKept`.  `SmsInv` relates the keys of a phone to each other (`KeysInv`:
the cooldown is that of the code, if there is one; every wrong guess is a failure,
or was one before the failures ended in the last half second of the code) and the calls under way to the counters (`CallsInv`, `QuotasInv`: reservations
under way have codes of their own, and count for today exactly if they were made
today, which is why a withdrawal after midnight does no harm).  `BucketsInv` says
what the last second of a day can do to a bucket: it counts what is reserved today,
or it has ended (`Ended`), or one reservation followed that, whose cooldown keeps
the phone from another until the day is over (`Reopened`).

`MenuProofs`, from `MealPlansAssumption` and `ShoppingAssumption`: `MenuTypes`,
`MenuIsKept`, `ShoppingTypes`, `ListsAreKept`.  A plan's status may go back,
because it was read before, but the history of a plan only grows (`PlansGrow`);
so what a call knows (`Fits`: its user has been the cook, the plan has been
cooking) stays true while others write.  For the lists, `ShoppingInv` adds to
`ListsKept` what a call carries from statement to statement (`Carries`): a list
that exists, and as bought only what was ticked in that list.

`UserServicesProofs` begins with `Chat`, from `ChatAssumption`: `ChatTypes`,
`ChatIsKept`.  A request whose
graph never ran twice at once has one stream that may still settle it
(`OneRuns`), its message is generating until then (`StreamsInv`), and everything
heard agrees with it (`AllHeardAsStored`).

Its second part is the HTTP interface, for any set of users and any ids that a
request may carry: `ApiTypes` and `ApiIsKept` (`ApiSpec => []ApiKept`).
`ApiKept` speaks of answered calls; `ApiInv` says the same of the stages before,
one line each.  Until a service has been called nothing is carried out and
nothing is refused; the message on its way acts for the caller, whomever the
request named; and the code on its way back is `Sound` together with the status
the gateway will make of it (`HTTPStatus`, one line per table of statuses).
`Sound` has a conjunct that `ApiKept` lacks and the repetition needs: nothing
was carried out of a call that is answered with 401, so that the interceptor of
the application may send it again.  The endpoints are not gone through one by
one: a step of any of them is one of a few kinds (`Handled`, `Served`, `Failed`,
`Responded` and a few steps of streams and uploads), a lemma per endpoint family
says of which, and one lemma per kind that it keeps `ApiInv`.

Its third part is the run `user_services` as a whole: `PartsBehave` (each of the
six parts behaves in it as its own specification says), `ServicesTypes` and
`ServicesAreKept`, which carry the theorems above over to `UserServicesMC!Spec`.

So every safety property that a passing run checks is also a theorem.  What is
model-checked only is liveness, which needs fairness and ENABLED: the liveness
parts of `DeliversEveryEvent` and `ConfirmedDocumentsSettle`, and
`PendingSettles`.

## 5. Not modelled

* **Checks and descriptions of the pipeline and of families.**  Permission checks
  of their handlers (the actions are those they let through; `FamilyApi` and
  `KnowledgeApi` have the refusals), names and other descriptive columns,
  `GetOrCreatePersonalBase`.
* **Read-only queries**: lists, profiles, dishes, documents, searches.
* **What documents and answers contain**: parsing, chunking, embedding, retrieval,
  graph RAG and the LangGraph graph with its checkpoints are third-party models
  and libraries over data; the worker sees them as one step that succeeds or
  raises, the chat as an outcome.
* **The broker's dead-letter limit** (the model redelivers for ever) and a consumer
  of DELETE events, which does not exist.
* **`ExpireUploadSessions`**: nothing calls it, so an upload that is never confirmed
  stays Uploading.
* **The screens of the application**, and the legacy Go agent, which the Python
  Agent supersedes.

Some behaviour that reading the code for the model brought up is in no violated
run.  In the first five cases the model shows it and the properties of the passing
runs except it by name; of the others no document of the repository promises
otherwise, or they are outside what the modules cover:

* On Python 3.10 the ingress refuses an INDEX event whose `occurred_at` has another
  number of fractional digits than three or six, which with a clock of nanoseconds
  are nearly all, and the adapter drops it: its document stays Pending, although
  `README.md:88` names 3.10 as supported.
* More than five wrong guesses can be compared with one code, in its last half
  second (`接口文档.md:77` says five).
* A registration that loses the race for a phone is answered with 1999 and HTTP 200;
  `接口文档.md:273` says 1003.
* An owner can make a second owner; a change of role that such an owner asked for
  takes effect even if the first owner has taken the role away since
  (`service/family.go:415` says that only the owner may).
* An update of a member that changes nothing affects no row and is answered with
  1999 and HTTP 500.
* `service/meal_plan.go:218` says that a status only moves forward; two updates
  that read the same plan can move it back, which `MenuKept` therefore does not
  exclude.
* Two first generations for the same dates make two lists; a tick or a manual
  item that comes while a list is generated again is lost.
* The comment at `repository/family_meal_plan_rating.go:28` names a unique key that no
  schema file of the repository creates.
* A profile update without a gender writes 0, although -1 is what its
  documentation says leaves it alone.
* `Register`, `Login`, `GetProfile` and `UpdateProfile` answer HTTP 200 with any
  code, `GetMyFamily` 200 with 1999, and an outage of Logic is seen as 4003, 4001
  or 4004 on routes that check a base first.
* A replayed answer has no citations, and a replayed question is told as
  completed; when the graph fails, the client hears its error code while the row
  stores `AGENT_FAILED`.
* `AIScreen.tsx` allows the next message as soon as a question arrives, before
  its checkpoint is stored, and two streams of one conversation both resume it.

## 6. Plan

What is left, in order of use:

1. The checkpoint of a conversation: two streams that resume one question, from
   how the service uses the saver.
2. `MealPlans` on `FamilyMembership` instead of an open membership check, to say
   what a member who has left may still finish.
3. A consumer of DELETE events, when the repository has one: then
   `DocumentLifecycle` can promise that a deleted document leaves no content.
