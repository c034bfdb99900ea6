-------------------------- MODULE OutboxRelayProofs --------------------------
(***************************************************************************)
(* Proofs about the relay of OutboxRelay, for any number of events,        *)
(* publishers and adapters: its types, that no event is lost which the     *)
(* ingress can read, that only the holder of a row settles it, and that    *)
(* the relay implements the safety part of EventDelivery.                  *)
(***************************************************************************)
EXTENDS OutboxRelay, TLAPS

Exists(e) == outbox[e].status # "absent"

\* What the processes carry from one call to the next.  NoLostEvent alone is
\* not inductive: a row is marked Sent by a publisher that sent its message
\* some steps ago, and a message is acknowledged by an adapter that forwarded
\* it some steps ago.
Handovers ==
  /\ \A e \in Events : copies[e] > 0 => Exists(e)
  /\ \A p \in Publishers : sender[p].at # "idle" =>
       sender[p].event \in Events /\ Exists(sender[p].event)
  /\ \A p \in Publishers : sender[p].at = "sent" =>
       copies[sender[p].event] > 0 \/ sender[p].event \in recorded \cup unreadable
  /\ \A a \in Adapters : adapter[a].at # "idle" =>
       adapter[a].event \in IndexEvents /\ Exists(adapter[a].event)
  /\ \A a \in Adapters : adapter[a].at = "ack" => adapter[a].event \in recorded \cup unreadable
  /\ \A e \in unreadable : Exists(e)

IInv == RelayTypeOK /\ Handovers /\ NoLostEvent

-----------------------------------------------------------------------------
(* Types.                                                                  *)

\* The variables have their types initially, and every step keeps them; the
\* message an adapter forwards is one it received, hence an event.
LEMMA TypeInit == RelayInit => RelayTypeOK
  BY RelayAssumption
     DEF RelayInit, RelayTypeOK, NoRow, Idle, Rows, RowStatus

\* Every step keeps the types.
LEMMA TypeStep == RelayTypeOK /\ Handovers /\ [RelayNext]_relayVars => RelayTypeOK'
<1> SUFFICES ASSUME RelayTypeOK, Handovers, [RelayNext]_relayVars
             PROVE  RelayTypeOK'
  OBVIOUS
<1> USE RelayAssumption DEF RelayTypeOK, RowStatus
<1>1. ASSUME NEW e \in Events, Enqueue(e)
      PROVE  RelayTypeOK'
  <2>1. NewRow \in Rows
    BY DEF NewRow, Rows
  <2> QED
    BY <1>1, <2>1 DEF Enqueue
<1>2. ASSUME NEW e \in Events, LockExpires(e)
      PROVE  RelayTypeOK'
  <2>1. outbox[e] \in Rows
    OBVIOUS
  <2>2. [outbox[e] EXCEPT !.stale = TRUE] \in Rows
    BY <2>1 DEF Rows
  <2>3. outbox' = [outbox EXCEPT ![e] = [outbox[e] EXCEPT !.stale = TRUE]]
    BY <1>2 DEF LockExpires
  <2> QED
    BY <1>2, <2>2, <2>3 DEF LockExpires
<1>3. ASSUME NEW p \in Publishers, NEW e \in Events, ClaimOutboxEvent(p, e)
      PROVE  RelayTypeOK'
  <2>1. [status |-> "Sending", lockedBy |-> p, stale |-> FALSE] \in Rows
    BY DEF Rows
  <2> QED
    BY <1>3, <2>1 DEF ClaimOutboxEvent
<1>4. ASSUME NEW p \in Publishers, SendDelivered(p)
      PROVE  RelayTypeOK'
  <2>1. copies' \in [Events -> 0..MaxCopies]
    <3>1. \A n \in 0..MaxCopies : OneMore(n) \in 0..MaxCopies
      BY DEF OneMore
    <3> QED
      BY <1>4, <3>1 DEF SendDelivered, Handovers
  <2>2. sender' \in [Publishers -> [at : {"idle", "send", "sent", "failed"},
                                    event : Events \cup {None}]]
    BY <1>4 DEF SendDelivered
  <2> QED
    BY <1>4, <2>1, <2>2 DEF SendDelivered
<1>5. ASSUME NEW p \in Publishers, SendRefused(p)
      PROVE  RelayTypeOK'
  BY <1>5 DEF SendRefused
<1>6. ASSUME NEW p \in Publishers, MarkOutboxSent(p) \/ MarkOutboxFailed(p)
      PROVE  RelayTypeOK'
  <2>1. ASSUME NEW status \in {"Sent", "Failed"}
        PROVE  [status |-> status, lockedBy |-> None, stale |-> FALSE] \in Rows
    BY DEF Rows
  <2>2. outbox' \in [Events -> Rows] /\ UNCHANGED <<unreadable, copies, adapter, recorded>>
    BY <1>6, <2>1 DEF MarkOutboxSent, MarkOutboxFailed, MarkOutbox
  <2>3. sender' \in [Publishers -> [at : {"idle", "send", "sent", "failed"},
                                    event : Events \cup {None}]]
    BY <1>6 DEF MarkOutboxSent, MarkOutboxFailed, MarkOutbox, Idle
  <2> QED
    BY <2>2, <2>3
<1>7. ASSUME NEW p \in Publishers, PublisherCrash(p)
      PROVE  RelayTypeOK'
  BY <1>7 DEF PublisherCrash, Idle
<1>8. ASSUME NEW a \in Adapters, NEW e \in Events, Receive(a, e)
      PROVE  RelayTypeOK'
  BY <1>8 DEF Receive
<1>9. ASSUME NEW a \in Adapters, ForwardRecorded(a)
      PROVE  RelayTypeOK'
  <2>1. adapter[a].event \in Events
    BY <1>9, IndexEvents \subseteq Events DEF ForwardRecorded, Handovers
  <2>2. recorded' \subseteq Events
    BY <1>9, <2>1 DEF ForwardRecorded
  <2>3. adapter' \in [Adapters -> [at : {"idle", "forward", "ack"}, event : Events \cup {None}]]
    <3>1. [at |-> "ack", event |-> adapter[a].event] \in
            [at : {"idle", "forward", "ack"}, event : Events \cup {None}]
      BY <2>1
    <3> QED
      BY <1>9, <2>1, <3>1 DEF ForwardRecorded, Idle
  <2> QED
    BY <1>9, <2>2, <2>3 DEF ForwardRecorded
<1>10. ASSUME NEW a \in Adapters, ForwardDropped(a) \/ ForwardRefused(a) \/ AdapterCrash(a)
       PROVE  RelayTypeOK'
  BY <1>10 DEF ForwardDropped, ForwardRefused, AdapterCrash, Idle
<1>11. ASSUME NEW a \in Adapters, Ack(a)
       PROVE  RelayTypeOK'
  BY <1>11 DEF Ack, Idle
<1>12. CASE UNCHANGED relayVars
  BY <1>12 DEF relayVars
<1> QED
  BY <1>1, <1>2, <1>3, <1>4, <1>5, <1>6, <1>7, <1>8, <1>9, <1>10, <1>11, <1>12
     DEF RelayNext, RelayStep, PublisherStep, AdapterStep

-----------------------------------------------------------------------------
(* The inductive invariant.                                                *)

\* Marking changes at most the row in hand, and only if it is still held.
LEMMA Marked ==
  ASSUME RelayTypeOK, NEW p \in Publishers, NEW at, NEW status, MarkOutbox(p, at, status),
         NEW e \in Events, outbox'[e] # outbox[e]
  PROVE  e = sender[p].event /\ HoldsRow(p, e) /\ outbox'[e].status = status
<1>1. PICK f \in {sender[p].event} :
        /\ HoldsRow(p, f)
        /\ outbox' = [outbox EXCEPT ![f] = [status |-> status, lockedBy |-> None, stale |-> FALSE]]
  BY DEF MarkOutbox
<1>2. e = f
  BY <1>1 DEF RelayTypeOK
<1> QED
  BY <1>1, <1>2 DEF RelayTypeOK

\* A row is never removed.
LEMMA RowsStay ==
  ASSUME RelayTypeOK, [RelayNext]_relayVars, NEW e \in Events, Exists(e)
  PROVE  Exists(e)'
<1> USE DEF RelayTypeOK, Rows, Exists
<1>1. ASSUME NEW f \in Events, Enqueue(f) \/ LockExpires(f)
      PROVE  Exists(e)'
  BY <1>1 DEF Enqueue, LockExpires, NewRow
<1>2. ASSUME NEW p \in Publishers, NEW f \in Events, ClaimOutboxEvent(p, f)
      PROVE  Exists(e)'
  BY <1>2 DEF ClaimOutboxEvent
<1>3. ASSUME NEW p \in Publishers, MarkOutboxSent(p) \/ MarkOutboxFailed(p)
      PROVE  Exists(e)'
  <2>1. PICK at \in {"sent", "failed"}, status \in {"Sent", "Failed"} : MarkOutbox(p, at, status)
    BY <1>3 DEF MarkOutboxSent, MarkOutboxFailed
  <2> QED
    BY <2>1, Marked
<1>4. CASE UNCHANGED outbox
  BY <1>4
<1> QED
  BY <1>1, <1>2, <1>3, <1>4
     DEF RelayNext, RelayStep, PublisherStep, AdapterStep, SendDelivered, SendRefused,
         PublisherCrash, Receive, ForwardRecorded, ForwardDropped, ForwardRefused, Ack, AdapterCrash, relayVars

\* And only a business transaction makes one.
LEMMA StepsMakeNoRow ==
  ASSUME RelayTypeOK, RelayStep, NEW e \in Events
  PROVE  Exists(e)' <=> Exists(e)
<1> USE DEF RelayTypeOK, Rows, Exists
<1>1. ASSUME NEW f \in Events, LockExpires(f)
      PROVE  Exists(e)' <=> Exists(e)
  BY <1>1 DEF LockExpires
<1>2. ASSUME NEW p \in Publishers, NEW f \in Events, ClaimOutboxEvent(p, f)
      PROVE  Exists(e)' <=> Exists(e)
  BY <1>2 DEF ClaimOutboxEvent, Claimable
<1>3. ASSUME NEW p \in Publishers, MarkOutboxSent(p) \/ MarkOutboxFailed(p)
      PROVE  Exists(e)' <=> Exists(e)
  <2>1. PICK at \in {"sent", "failed"}, status \in {"Sent", "Failed"} : MarkOutbox(p, at, status)
    BY <1>3 DEF MarkOutboxSent, MarkOutboxFailed
  <2> QED
    BY <2>1, Marked DEF HoldsRow
<1>4. CASE UNCHANGED outbox
  BY <1>4
<1> QED
  BY <1>1, <1>2, <1>3, <1>4
     DEF RelayStep, PublisherStep, AdapterStep, SendDelivered, SendRefused,
         PublisherCrash, Receive, ForwardRecorded, ForwardDropped, ForwardRefused, Ack, AdapterCrash

\* At first nobody carries anything.
LEMMA HandoversInit == RelayInit => Handovers /\ NoLostEvent
<1> SUFFICES ASSUME RelayInit PROVE Handovers /\ NoLostEvent
  OBVIOUS
<1>1. /\ unreadable = {}
      /\ \A e \in Events : copies[e] = 0 /\ outbox[e].status = "absent"
      /\ \A p \in Publishers : sender[p].at = "idle"
      /\ \A a \in Adapters : adapter[a].at = "idle"
  BY DEF RelayInit, NoRow, Idle
<1> QED
  BY <1>1 DEF Handovers, NoLostEvent

\* What each process carries from call to call outlasts the steps of the others.
LEMMA HandoversStep == IInv /\ [RelayNext]_relayVars => Handovers'
<1> SUFFICES ASSUME IInv, [RelayNext]_relayVars
             PROVE  Handovers'
  OBVIOUS
<1> USE RelayAssumption, RowsStay DEF IInv, RelayTypeOK, Handovers
<1>1. ASSUME NEW e \in Events, Enqueue(e) \/ LockExpires(e)
      PROVE  Handovers'
  <2>1. \A f \in unreadable' : f \in unreadable \/ f = e
    BY <1>1 DEF Enqueue, LockExpires
  <2>2. Exists(e)'
    BY <1>1 DEF Enqueue, LockExpires, NewRow, Exists, Rows
  <2>3. unreadable \subseteq unreadable' /\ UNCHANGED <<sender, copies, adapter, recorded>>
    BY <1>1 DEF Enqueue, LockExpires
  <2> QED
    BY <2>1, <2>2, <2>3
<1>2. ASSUME NEW p \in Publishers, NEW e \in Events, ClaimOutboxEvent(p, e)
      PROVE  Handovers'
  <2>1. Exists(e)'
    BY <1>2 DEF ClaimOutboxEvent, Exists
  <2> QED
    BY <1>2, <2>1 DEF ClaimOutboxEvent
<1>3. ASSUME NEW p \in Publishers, SendDelivered(p)
      PROVE  Handovers'
  <2>1. \A n \in 0..MaxCopies : OneMore(n) > 0
    BY DEF OneMore
  <2>2. sender[p].event \in Events /\ Exists(sender[p].event)
    BY <1>3 DEF SendDelivered
  <2>3. \A e \in Events : copies'[e] > 0 => copies[e] > 0 \/ e = sender[p].event
    BY <1>3 DEF SendDelivered
  <2>4. \A e \in Events : copies[e] > 0 \/ e = sender[p].event => copies'[e] > 0
    BY <1>3, <2>1, <2>2 DEF SendDelivered
  <2>5. \A q \in Publishers : sender'[q].event = sender[q].event
                              /\ (sender'[q].at # "idle" => sender[q].at # "idle")
                              /\ (sender'[q].at = "sent" => sender[q].at = "sent" \/ q = p)
    BY <1>3 DEF SendDelivered
  <2> QED
    BY <1>3, <2>2, <2>3, <2>4, <2>5 DEF SendDelivered
<1>4. ASSUME NEW p \in Publishers,
             SendRefused(p) \/ MarkOutboxSent(p) \/ MarkOutboxFailed(p) \/ PublisherCrash(p)
      PROVE  Handovers'
  <2>1. \A q \in Publishers :
          sender'[q].at # "idle" => sender[q].at # "idle" /\ sender'[q].event = sender[q].event
                                    /\ (sender'[q].at = "sent" => sender[q].at = "sent")
    BY <1>4 DEF SendRefused, MarkOutboxSent, MarkOutboxFailed, MarkOutbox, PublisherCrash, Idle
  <2>2. UNCHANGED <<unreadable, copies, adapter, recorded>>
    BY <1>4 DEF SendRefused, MarkOutboxSent, MarkOutboxFailed, MarkOutbox, PublisherCrash
  <2> QED
    BY <2>1, <2>2
<1>5. ASSUME NEW a \in Adapters, NEW e \in Events, Receive(a, e)
      PROVE  Handovers'
  BY <1>5 DEF Receive
<1>6. ASSUME NEW a \in Adapters, ForwardRecorded(a)
      PROVE  Handovers'
  <2>1. recorded' = recorded \cup {adapter[a].event} /\ UNCHANGED <<outbox, unreadable, sender, copies>>
    BY <1>6 DEF ForwardRecorded
  <2>2. \A b \in Adapters : adapter'[b].at # "idle" =>
          /\ adapter[b].at # "idle" /\ adapter'[b].event = adapter[b].event
          /\ adapter'[b].at = "ack" => adapter[b].at = "ack" \/ b = a
    BY <1>6 DEF ForwardRecorded, Idle
  <2> QED
    BY <2>1, <2>2
<1>7. ASSUME NEW a \in Adapters, ForwardDropped(a) \/ ForwardRefused(a) \/ AdapterCrash(a)
      PROVE  Handovers'
  <2>1. UNCHANGED <<outbox, unreadable, sender, copies, recorded>>
    BY <1>7 DEF ForwardDropped, ForwardRefused, AdapterCrash
  <2>2. \A b \in Adapters : adapter'[b].at # "idle" =>
          /\ adapter[b].at # "idle" /\ adapter'[b].event = adapter[b].event
          /\ adapter'[b].at = "ack" => adapter[b].at = "ack" \/ adapter[b].event \in unreadable
    BY <1>7 DEF ForwardDropped, ForwardRefused, AdapterCrash, Idle
  <2> QED
    BY <2>1, <2>2
<1>8. ASSUME NEW a \in Adapters, Ack(a)
      PROVE  Handovers'
  <2>1. adapter[a].event \in recorded \cup unreadable
    BY <1>8 DEF Ack
  <2>2. \A e \in Events : /\ copies'[e] > 0 => copies[e] > 0
                          /\ copies[e] > 0 => copies'[e] > 0 \/ e \in recorded \cup unreadable
    BY <1>8, <2>1 DEF Ack
  <2>3. \A b \in Adapters : adapter'[b].at # "idle" => adapter'[b] = adapter[b]
    BY <1>8 DEF Ack, Idle
  <2> QED
    BY <1>8, <2>2, <2>3 DEF Ack
<1>9. CASE UNCHANGED relayVars
  BY <1>9 DEF relayVars
<1> QED
  BY <1>1, <1>2, <1>3, <1>4, <1>5, <1>6, <1>7, <1>8, <1>9
     DEF RelayNext, RelayStep, PublisherStep, AdapterStep

\* A row is marked Sent only by a publisher whose message is on its way or recorded.
LEMMA NoLossStep == IInv /\ [RelayNext]_relayVars => NoLostEvent'
<1> SUFFICES ASSUME IInv, [RelayNext]_relayVars
             PROVE  NoLostEvent'
  OBVIOUS
<1> USE RelayAssumption DEF IInv, RelayTypeOK, Rows, NoLostEvent
<1>1. ASSUME NEW e \in Events, Enqueue(e) \/ LockExpires(e)
      PROVE  NoLostEvent'
  <2>1. unreadable \subseteq unreadable' /\ UNCHANGED <<copies, recorded>>
    BY <1>1 DEF Enqueue, LockExpires
  <2>2. \A f \in Events : outbox'[f].status = "Sent" => outbox[f].status = "Sent"
    BY <1>1 DEF Enqueue, LockExpires, NewRow
  <2> QED
    BY <2>1, <2>2
<1>2. ASSUME NEW p \in Publishers, NEW e \in Events, ClaimOutboxEvent(p, e)
      PROVE  NoLostEvent'
  BY <1>2 DEF ClaimOutboxEvent
<1>3. ASSUME NEW p \in Publishers, SendDelivered(p)
      PROVE  NoLostEvent'
  <2>1. \A n \in 0..MaxCopies : OneMore(n) > 0
    BY DEF OneMore
  <2>2. \A e \in Events : copies[e] > 0 => copies'[e] > 0
    BY <1>3, <2>1 DEF SendDelivered
  <2> QED
    BY <1>3, <2>2 DEF SendDelivered
<1>4. ASSUME NEW p \in Publishers, MarkOutboxSent(p)
      PROVE  NoLostEvent'
  <2>1. copies[sender[p].event] > 0 \/ sender[p].event \in recorded \cup unreadable
    BY <1>4 DEF MarkOutboxSent, MarkOutbox, Handovers
  <2>2. \A e \in Events : outbox'[e].status = "Sent" => outbox[e].status = "Sent" \/ e = sender[p].event
    BY <1>4 DEF MarkOutboxSent, MarkOutbox
  <2> QED
    BY <1>4, <2>1, <2>2 DEF MarkOutboxSent, MarkOutbox
<1>5. ASSUME NEW p \in Publishers, MarkOutboxFailed(p)
      PROVE  NoLostEvent'
  BY <1>5 DEF MarkOutboxFailed, MarkOutbox
<1>6. ASSUME NEW a \in Adapters, ForwardRecorded(a)
      PROVE  NoLostEvent'
  BY <1>6 DEF ForwardRecorded
<1>7. ASSUME NEW a \in Adapters, Ack(a)
      PROVE  NoLostEvent'
  <2>1. adapter[a].event \in recorded \cup unreadable
    BY <1>7 DEF Ack, Handovers
  <2>2. \A e \in Events : copies[e] > 0 => copies'[e] > 0 \/ e \in recorded \cup unreadable
    BY <1>7, <2>1 DEF Ack
  <2> QED
    BY <1>7, <2>2 DEF Ack
<1>8. CASE UNCHANGED <<outbox, unreadable, copies, recorded>>
  BY <1>8
<1> QED
  BY <1>1, <1>2, <1>3, <1>4, <1>5, <1>6, <1>7, <1>8
     DEF RelayNext, RelayStep, PublisherStep, AdapterStep, SendRefused, PublisherCrash,
         Receive, ForwardDropped, ForwardRefused, AdapterCrash, relayVars

\* The invariant is inductive.
LEMMA Inductive == RelaySpec => []IInv
<1>1. RelayInit => IInv
  BY TypeInit, HandoversInit DEF IInv
<1>2. IInv /\ [RelayNext]_relayVars => IInv'
  BY TypeStep, HandoversStep, NoLossStep DEF IInv
<1> QED
  BY <1>1, <1>2, PTL DEF RelaySpec

-----------------------------------------------------------------------------
(* The results.                                                            *)

\* The variables of the relay have their types in every reachable state,
\* whatever the numbers of events and processes.
THEOREM RelayTypes == RelaySpec => []RelayTypeOK
<1>1. IInv => RelayTypeOK
  BY DEF IInv
<1> QED
  BY <1>1, Inductive, PTL

\* A row is marked Sent only when its message is in the broker, was recorded
\* by the ingress or is one the ingress cannot read, and that stays so:
\* takeovers, crashes, lost receipts and lost acknowledgements lose no other.
THEOREM NothingLost == RelaySpec => []NoLostEvent
<1>1. IInv => NoLostEvent
  BY DEF IInv
<1> QED
  BY <1>1, Inductive, PTL

\* With an ingress that reads any number of fractional digits there is no
\* exception: the row of every INDEX or DELETE event is marked Sent only when
\* its message is safe elsewhere.
THEOREM NothingDropped ==
  ASSUME AnyFraction
  PROVE  RelaySpec => [](unreadable = {} /\ NoLostEvent)
<1>1. RelayInit => unreadable = {}
  BY DEF RelayInit
<1>2. unreadable = {} /\ [RelayNext]_relayVars => (unreadable = {})'
  BY AnyFraction
     DEF RelayNext, RelayStep, PublisherStep, AdapterStep, Enqueue, LockExpires, ClaimOutboxEvent,
         SendDelivered, SendRefused, MarkOutboxSent, MarkOutboxFailed, MarkOutbox, PublisherCrash,
         Receive, ForwardRecorded, ForwardDropped, ForwardRefused, Ack, AdapterCrash, relayVars
<1> QED
  BY <1>1, <1>2, NothingLost, PTL DEF RelaySpec

\* Only the publisher in whose name a row is locked settles it, with the
\* outcome of its own Send, and nobody touches a row that was marked Sent.
THEOREM HolderSettles == RelaySpec => OnlyHolderSettles
<1> DEFINE
  Settled(e) ==
    /\ outbox[e].status = "Sent" => outbox'[e] = outbox[e]
    /\ outbox'[e].status = "Sent" /\ outbox[e].status # "Sent" =>
         \E p \in Publishers : outbox[e].lockedBy = p /\ sender[p] = [at |-> "sent", event |-> e]
    /\ outbox'[e].status = "Failed" /\ outbox[e].status # "Failed" =>
         \E p \in Publishers : outbox[e].lockedBy = p /\ sender[p] = [at |-> "failed", event |-> e]
<1>1. ASSUME IInv, [RelayNext]_relayVars, NEW e \in Events
      PROVE  Settled(e)
  <2> USE <1>1 DEF IInv, RelayTypeOK, Rows
  <2>1. ASSUME NEW f \in Events, Enqueue(f) \/ LockExpires(f)
        PROVE  Settled(e)
    BY <2>1 DEF Enqueue, LockExpires, NewRow
  <2>2. ASSUME NEW p \in Publishers, NEW f \in Events, ClaimOutboxEvent(p, f)
        PROVE  Settled(e)
    BY <2>2 DEF ClaimOutboxEvent, Claimable
  <2>3. ASSUME NEW p \in Publishers, MarkOutboxSent(p)
        PROVE  Settled(e)
    <3>1. CASE outbox'[e] = outbox[e]
      BY <3>1
    <3>2. CASE outbox'[e] # outbox[e]
      <4>1. e = sender[p].event /\ HoldsRow(p, e) /\ outbox'[e].status = "Sent"
        BY <2>3, <3>2, Marked DEF MarkOutboxSent
      <4>2. sender[p] = [at |-> "sent", event |-> e]
        BY <2>3, <4>1 DEF MarkOutboxSent, MarkOutbox
      <4> QED
        BY <4>1, <4>2 DEF HoldsRow
    <3> QED
      BY <3>1, <3>2
  <2>4. ASSUME NEW p \in Publishers, MarkOutboxFailed(p)
        PROVE  Settled(e)
    <3>1. CASE outbox'[e] = outbox[e]
      BY <3>1
    <3>2. CASE outbox'[e] # outbox[e]
      <4>1. e = sender[p].event /\ HoldsRow(p, e) /\ outbox'[e].status = "Failed"
        BY <2>4, <3>2, Marked DEF MarkOutboxFailed
      <4>2. sender[p] = [at |-> "failed", event |-> e]
        BY <2>4, <4>1 DEF MarkOutboxFailed, MarkOutbox
      <4> QED
        BY <4>1, <4>2 DEF HoldsRow
    <3> QED
      BY <3>1, <3>2
  <2>5. CASE UNCHANGED outbox
    BY <2>5
  <2> QED
    BY <2>1, <2>2, <2>3, <2>4, <2>5
       DEF RelayNext, RelayStep, PublisherStep, AdapterStep, SendDelivered, SendRefused,
           PublisherCrash, Receive, ForwardRecorded, ForwardDropped, ForwardRefused, Ack, AdapterCrash, relayVars
<1>2. IInv /\ [RelayNext]_relayVars => [\A e \in Events : Settled(e)]_relayVars
  BY <1>1
<1> QED
  BY <1>2, Inductive, PTL DEF RelaySpec, OnlyHolderSettles

\* The relay does what the outbox promises, as far as safety goes: an event is
\* recorded only if a transaction inserted it, in a form the ingress reads,
\* and recorded once.
THEOREM RelayImplementsDelivery == RelaySpec => Delivery!SafeSpec
<1>1. RelayInit => Delivery!Init
  BY DEF RelayInit, Delivery!Init, Requested, NoRow
<1>2. IInv /\ [RelayNext]_relayVars => [Delivery!Next]_<<Requested, recorded>>
  <2> SUFFICES ASSUME IInv, [RelayNext]_relayVars
               PROVE  [Delivery!Next]_<<Requested, recorded>>
    OBVIOUS
  <2> USE RelayAssumption DEF IInv, RelayTypeOK, Rows, Requested
  <2>1. ASSUME NEW e \in Events, Enqueue(e)
        PROVE  [Delivery!Next]_<<Requested, recorded>>
    <3>1. recorded' = recorded /\ e \notin Requested /\ e \notin unreadable
      BY <2>1 DEF Enqueue, Handovers, Exists
    <3>2. CASE unreadable' = unreadable
      <4>1. Requested' = Requested \cup {e}
        BY <2>1, <3>1, <3>2 DEF Enqueue, NewRow
      <4> QED
        BY <3>1, <4>1 DEF Delivery!Next, Delivery!Request
    <3>3. CASE unreadable' = unreadable \cup {e}
      <4>1. Requested' = Requested
        BY <2>1, <3>1, <3>3 DEF Enqueue
      <4> QED
        BY <3>1, <4>1
    <3> QED
      BY <2>1, <3>2, <3>3 DEF Enqueue
  <2>2. ASSUME NEW e \in Events, LockExpires(e)
        PROVE  UNCHANGED <<Requested, recorded>>
    BY <2>2 DEF LockExpires
  <2>3. ASSUME NEW p \in Publishers, NEW e \in Events, ClaimOutboxEvent(p, e)
        PROVE  UNCHANGED <<Requested, recorded>>
    BY <2>3 DEF ClaimOutboxEvent, Claimable
  <2>4. ASSUME NEW p \in Publishers, MarkOutboxSent(p) \/ MarkOutboxFailed(p)
        PROVE  UNCHANGED <<Requested, recorded>>
    <3>1. PICK at \in {"sent", "failed"}, status \in {"Sent", "Failed"} : MarkOutbox(p, at, status)
      BY <2>4 DEF MarkOutboxSent, MarkOutboxFailed
    <3>2. \A e \in Events : (outbox'[e].status # "absent") = (outbox[e].status # "absent")
      BY <3>1, Marked DEF HoldsRow
    <3> QED
      BY <3>1, <3>2 DEF MarkOutbox
  <2>5. ASSUME NEW a \in Adapters, ForwardRecorded(a)
        PROVE  [Delivery!Next]_<<Requested, recorded>>
    <3> DEFINE e == adapter[a].event
    <3>1. e \in Requested \cap IndexEvents
      BY <2>5 DEF ForwardRecorded, Handovers, Exists
    <3>2. UNCHANGED Requested /\ recorded' = recorded \cup {e}
      BY <2>5 DEF ForwardRecorded
    <3>3. CASE e \in recorded
      BY <3>2, <3>3
    <3>4. CASE e \notin recorded
      BY <3>1, <3>2, <3>4 DEF Delivery!Next, Delivery!Record
    <3> QED
      BY <3>3, <3>4
  <2>6. CASE UNCHANGED <<outbox, unreadable, recorded>>
    BY <2>6
  <2> QED
    BY <2>1, <2>2, <2>3, <2>4, <2>5, <2>6
       DEF RelayNext, RelayStep, PublisherStep, AdapterStep, SendDelivered, SendRefused,
           PublisherCrash, Receive, ForwardDropped, ForwardRefused, Ack, AdapterCrash, relayVars
<1> QED
  BY <1>1, <1>2, Inductive, PTL DEF RelaySpec, Delivery!SafeSpec, Delivery!vars
=============================================================================
