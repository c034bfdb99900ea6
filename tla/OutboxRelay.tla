---------------------------- MODULE OutboxRelay ----------------------------
(***************************************************************************)
(* How an integration event gets from the Logic database to the Agent      *)
(* database: the table integration_outbox, the OutboxPublisher goroutine   *)
(* of each Logic process, the RocketMQ topic, the Go adapter that consumes *)
(* it and the Python ingress that writes the task row.                     *)
(*                                                                         *)
(* The publisher claims a row in one transaction, sends without holding    *)
(* any transaction and marks the row in another one; the adapter forwards  *)
(* before it acknowledges.  Every call can fail before or after its        *)
(* effect, every process can stop between two calls, and a lock that is    *)
(* older than the lock timeout is taken over even if its holder is alive.  *)
(*                                                                         *)
(* An event that the ingress rejects as INVALID_ARGUMENT is acknowledged   *)
(* and dropped.  The events Logic writes can be such: occurred_at has as   *)
(* many fractional digits as the moment needs (RFC3339Nano), and before    *)
(* Python 3.11 datetime.fromisoformat reads three or six of them only.     *)
(***************************************************************************)
EXTENDS Naturals

CONSTANTS
  Events,       \* outbox rows, one for each dedup_key
  IndexEvents,  \* those with tag INDEX, the only tag the adapter subscribes to
  Publishers,   \* Logic processes, each with one publisher goroutine
  Adapters,     \* agent-index-event-adapter processes
  AnyFraction,  \* the ingress reads any number of fractional digits (Python 3.11)
  MaxCopies,    \* bound: copies of one message the broker holds at once
  None          \* no event, no lock holder

ASSUME RelayAssumption ==
  /\ IndexEvents \subseteq Events
  /\ None \notin Events
  /\ None \notin Publishers
  /\ AnyFraction \in BOOLEAN
  /\ MaxCopies \in Nat \ {0}

VARIABLES
  outbox,      \* the row of each event; "absent" until the business transaction inserts it
  unreadable,  \* INDEX events whose occurred_at the ingress cannot parse
  sender,      \* what each publisher is doing, and with which row
  copies,      \* messages the broker holds: sent and not acknowledged
  adapter,     \* what each adapter is doing, and with which message
  recorded     \* events whose task row exists in the Agent database

relayVars == <<outbox, unreadable, sender, copies, adapter, recorded>>

RowStatus == {"absent", "Pending", "Sending", "Sent", "Failed"}
NewRow    == [status |-> "Pending", lockedBy |-> None, stale |-> FALSE]
NoRow     == [status |-> "absent",  lockedBy |-> None, stale |-> FALSE]
Idle      == [at |-> "idle", event |-> None]

Rows == [status : RowStatus, lockedBy : Publishers \cup {None}, stale : BOOLEAN]

RelayTypeOK ==
  /\ outbox \in [Events -> Rows]
  /\ unreadable \subseteq IndexEvents
  /\ sender \in [Publishers -> [at : {"idle", "send", "sent", "failed"}, event : Events \cup {None}]]
  /\ copies \in [Events -> 0..MaxCopies]
  /\ adapter \in [Adapters -> [at : {"idle", "forward", "ack"}, event : Events \cup {None}]]
  /\ recorded \subseteq Events

RelayInit ==
  /\ outbox = [e \in Events |-> NoRow]
  /\ unreadable = {}
  /\ sender = [p \in Publishers |-> Idle]
  /\ copies = [e \in Events |-> 0]
  /\ adapter = [a \in Adapters |-> Idle]
  /\ recorded = {}

-----------------------------------------------------------------------------
(* The outbox table.                                                       *)

\* The insert at the end of CompleteUpload and RequestDocumentDeletion; a
\* second row with the same dedup_key is refused by the unique index.  The
\* moment decides how many digits its occurred_at gets.
Enqueue(e) ==
  /\ outbox[e].status = "absent"
  /\ outbox' = [outbox EXCEPT ![e] = NewRow]
  /\ \/ UNCHANGED unreadable
     \/ ~AnyFraction /\ e \in IndexEvents /\ unreadable' = unreadable \cup {e}
  /\ UNCHANGED <<sender, copies, adapter, recorded>>

\* locked_at falls behind now - lockTimeout.
LockExpires(e) ==
  /\ outbox[e].status = "Sending"
  /\ ~outbox[e].stale
  /\ outbox' = [outbox EXCEPT ![e].stale = TRUE]
  /\ UNCHANGED <<unreadable, sender, copies, adapter, recorded>>

\* Mutation: the claim forgets the rows whose publisher died while sending.
Claimable_NoTakeover(e) == outbox[e].status \in {"Pending", "Failed"}

\* The WHERE clause of the claim.  next_retry_at may have come or not, and
\* SKIP LOCKED may pass over a lower id, so any such row can be the one taken.
Claimable(e) ==
  \/ outbox[e].status \in {"Pending", "Failed"}
  \/ outbox[e].status = "Sending" /\ outbox[e].stale

\* Mutation: the ids of the event and of the publisher are swapped.
ClaimOutboxEvent_SwappedIds(p, e) ==
  /\ sender[p].at = "idle"
  /\ Claimable(e)
  /\ outbox' = [outbox EXCEPT ![e] = [status |-> "Sending", lockedBy |-> e, stale |-> FALSE]]
  /\ sender' = [sender EXCEPT ![p] = [at |-> "send", event |-> e]]
  /\ UNCHANGED <<unreadable, copies, adapter, recorded>>

ClaimOutboxEvent(p, e) ==
  /\ sender[p].at = "idle"
  /\ Claimable(e)
  /\ outbox' = [outbox EXCEPT ![e] = [status |-> "Sending", lockedBy |-> p, stale |-> FALSE]]
  /\ sender' = [sender EXCEPT ![p] = [at |-> "send", event |-> e]]
  /\ UNCHANGED <<unreadable, copies, adapter, recorded>>

-----------------------------------------------------------------------------
(* The publisher goroutine.                                                *)

OneMore(n) == IF n < MaxCopies THEN n + 1 ELSE n

\* The broker stores the message; the publisher sees success, or an error
\* because the receipt was lost.
SendDelivered(p) ==
  /\ sender[p].at = "send"
  /\ copies' = [copies EXCEPT ![sender[p].event] = OneMore(@)]
  /\ \E at \in {"sent", "failed"} : sender' = [sender EXCEPT ![p].at = at]
  /\ UNCHANGED <<outbox, unreadable, adapter, recorded>>

\* Mutation: a Send whose error is dropped, so the row is marked sent.
SendRefused_ErrorDropped(p) ==
  /\ sender[p].at = "send"
  /\ sender' = [sender EXCEPT ![p].at = "sent"]
  /\ UNCHANGED <<outbox, unreadable, copies, adapter, recorded>>

\* The broker never stored it, and Send returns an error.
SendRefused(p) ==
  /\ sender[p].at = "send"
  /\ sender' = [sender EXCEPT ![p].at = "failed"]
  /\ UNCHANGED <<outbox, unreadable, copies, adapter, recorded>>

\* status = Sending AND locked_by = workerID.
HoldsRow(p, e) == outbox[e].status = "Sending" /\ outbox[e].lockedBy = p

\* Mutation: the mark updates by id alone.
MarkOutbox_AnyHolder(p, at, status) ==
  /\ sender[p].at = at
  /\ outbox' = [outbox EXCEPT ![sender[p].event] =
                  [status |-> status, lockedBy |-> None, stale |-> FALSE]]
  /\ sender' = [sender EXCEPT ![p] = Idle]
  /\ UNCHANGED <<unreadable, copies, adapter, recorded>>

\* MarkOutboxSent and MarkOutboxFailed: the update applies only to a row the
\* publisher still holds.  A lost lock and a database error are both logged
\* and leave the row as it is.
MarkOutbox(p, at, status) ==
  /\ sender[p].at = at
  /\ LET e == sender[p].event IN
       \/ /\ HoldsRow(p, e)
          /\ outbox' = [outbox EXCEPT ![e] = [status |-> status, lockedBy |-> None, stale |-> FALSE]]
       \/ UNCHANGED outbox
  /\ sender' = [sender EXCEPT ![p] = Idle]
  /\ UNCHANGED <<unreadable, copies, adapter, recorded>>

MarkOutboxSent(p)   == MarkOutbox(p, "sent", "Sent")
MarkOutboxFailed(p) == MarkOutbox(p, "failed", "Failed")

\* A Logic process stops and is started again: what it had claimed stays
\* Sending, and what it had sent stays sent.
PublisherCrash(p) ==
  /\ sender[p].at # "idle"
  /\ sender' = [sender EXCEPT ![p] = Idle]
  /\ UNCHANGED <<outbox, unreadable, copies, adapter, recorded>>

-----------------------------------------------------------------------------
(* The topic, the adapter and the ingress.                                 *)

\* Receive makes the message invisible for a while, and a message that is not
\* acknowledged becomes visible again: two adapters may hold the same one.
Receive(a, e) ==
  /\ adapter[a].at = "idle"
  /\ e \in IndexEvents
  /\ copies[e] > 0
  /\ adapter' = [adapter EXCEPT ![a] = [at |-> "forward", event |-> e]]
  /\ UNCHANGED <<outbox, unreadable, sender, copies, recorded>>

\* INSERT IGNORE on the key (document_id, index_version), committed before the
\* reply; the reply may still not reach the adapter.
ForwardRecorded(a) ==
  /\ adapter[a].at = "forward"
  /\ adapter[a].event \notin unreadable
  /\ recorded' = recorded \cup {adapter[a].event}
  /\ \/ adapter' = [adapter EXCEPT ![a].at = "ack"]
     \/ adapter' = [adapter EXCEPT ![a] = Idle]
  /\ UNCHANGED <<outbox, unreadable, sender, copies>>

\* Mutation: any forwarding error is taken for an illegal event and dropped.
ForwardRefused_Drops(a) ==
  /\ adapter[a].at = "forward"
  /\ adapter' = [adapter EXCEPT ![a].at = "ack"]
  /\ UNCHANGED <<outbox, unreadable, sender, copies, recorded>>

\* INVALID_ARGUMENT: the ingress cannot parse the event, and the adapter goes
\* on to acknowledge it.
ForwardDropped(a) ==
  /\ adapter[a].at = "forward"
  /\ adapter[a].event \in unreadable
  /\ adapter' = [adapter EXCEPT ![a].at = "ack"]
  /\ UNCHANGED <<outbox, unreadable, sender, copies, recorded>>

\* The ingress is unavailable, its insert fails or the call times out first:
\* the message is left unacknowledged.
ForwardRefused(a) ==
  /\ adapter[a].at = "forward"
  /\ adapter' = [adapter EXCEPT ![a] = Idle]
  /\ UNCHANGED <<outbox, unreadable, sender, copies, recorded>>

\* A failed Ack is logged, and the message will be delivered again.
Ack(a) ==
  /\ adapter[a].at = "ack"
  /\ LET e == adapter[a].event IN
       \/ copies[e] > 0 /\ copies' = [copies EXCEPT ![e] = @ - 1]
       \/ UNCHANGED copies
  /\ adapter' = [adapter EXCEPT ![a] = Idle]
  /\ UNCHANGED <<outbox, unreadable, sender, recorded>>

AdapterCrash(a) ==
  /\ adapter[a].at # "idle"
  /\ adapter' = [adapter EXCEPT ![a] = Idle]
  /\ UNCHANGED <<outbox, unreadable, sender, copies, recorded>>

-----------------------------------------------------------------------------
PublisherStep(p) ==
  SendDelivered(p) \/ SendRefused(p) \/ MarkOutboxSent(p) \/ MarkOutboxFailed(p)

AdapterStep(a) == ForwardRecorded(a) \/ ForwardDropped(a) \/ ForwardRefused(a) \/ Ack(a)

\* Everything but the insert, which belongs to the business transaction.
RelayStep ==
  \/ \E e \in Events : LockExpires(e)
  \/ \E p \in Publishers, e \in Events : ClaimOutboxEvent(p, e)
  \/ \E p \in Publishers : PublisherStep(p) \/ PublisherCrash(p)
  \/ \E a \in Adapters, e \in Events : Receive(a, e)
  \/ \E a \in Adapters : AdapterStep(a) \/ AdapterCrash(a)

RelayNext == (\E e \in Events : Enqueue(e)) \/ RelayStep

RelaySpec == RelayInit /\ [][RelayNext]_relayVars

(***************************************************************************)
(* Fairness.  The goroutine and the adapter loop run as long as their      *)
(* process does and clocks advance (weak fairness).  A call that is tried  *)
(* again and again succeeds at last (strong fairness of its successful     *)
(* outcome); nothing limits how often it fails or a process stops before.  *)
(***************************************************************************)
RelayFairness ==
  /\ \A e \in Events :
       /\ WF_relayVars(LockExpires(e))
       /\ SF_relayVars(\E p \in Publishers : ClaimOutboxEvent(p, e))
       /\ SF_relayVars(\E p \in Publishers : sender[p].event = e /\ SendDelivered(p))
       /\ SF_relayVars(\E a \in Adapters : Receive(a, e))
       /\ SF_relayVars(\E a \in Adapters : adapter[a].event = e /\ ForwardRecorded(a))
  /\ \A p \in Publishers : WF_relayVars(PublisherStep(p))
  /\ \A a \in Adapters : WF_relayVars(AdapterStep(a))

RelayFairSpec == RelaySpec /\ RelayFairness

-----------------------------------------------------------------------------
(* Properties.                                                             *)

\* A row marked Sent is no longer anybody's to send, so its message must be
\* safe elsewhere, unless the ingress cannot read it: still in the broker, or
\* already recorded.  No interleaving of takeovers, lost receipts and crashes
\* loses any other event.
NoLostEvent ==
  \A e \in Events \ unreadable : outbox[e].status = "Sent" => copies[e] > 0 \/ e \in recorded

\* A row is settled only by the publisher that holds it at that moment, and
\* with the outcome of its own Send: a slow publisher whose row was taken over
\* cannot settle it for the new holder, and a Sent row is never touched again.
OnlyHolderSettles ==
  [][\A e \in Events :
       /\ outbox[e].status = "Sent" => outbox'[e] = outbox[e]
       /\ outbox'[e].status = "Sent" /\ outbox[e].status # "Sent" =>
            \E p \in Publishers : outbox[e].lockedBy = p /\ sender[p] = [at |-> "sent", event |-> e]
       /\ outbox'[e].status = "Failed" /\ outbox[e].status # "Failed" =>
            \E p \in Publishers : outbox[e].lockedBy = p /\ sender[p] = [at |-> "failed", event |-> e]
    ]_relayVars

\* The events whose delivery is promised: those the consumer can read.
Requested == {e \in Events \ unreadable : outbox[e].status # "absent"}

Delivery == INSTANCE EventDelivery WITH requested <- Requested

\* The relay implements the outbox's promise: only events some transaction
\* inserted are recorded, and under the fairness above every INDEX event is
\* that the ingress can read.  One it cannot read is dropped for good.
DeliversEveryEvent == Delivery!Spec
=============================================================================
