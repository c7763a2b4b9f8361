------------------------------- MODULE Outbox -------------------------------
(***************************************************************************)
(* The transactional outbox after a transfer has committed its event:      *)
(* relays (outbox.Relay.Run over postgres.Store.DispatchBatch), operators  *)
(* replaying events (POST /events/{id}/replay over Store.ReplayEvent) and  *)
(* readers of GET /events/{id}, all on one database.                       *)
(*                                                                         *)
(* Time is reduced to whether available_at has passed.  The publisher is   *)
(* outside: a call may succeed, fail, or fail after the broker took the    *)
(* envelope.                                                               *)
(*                                                                         *)
(* A definition whose name ends in Mutant is what a plausible bug would    *)
(* make of the definition that follows it; no specification uses it.       *)
(***************************************************************************)
EXTENDS Integers, Sequences, FiniteSets, Backoff

CONSTANTS
    Events,         \* event ids; the order of the integers is ORDER BY created_at
    Relays,         \* relay loops, in any number of processes
    Replayers,      \* replay requests
    Readers,        \* GET /events/{id} requests
    MaxAttempts,    \* outbox.MaxAttempts, 10 in the code
    BatchSize,      \* RelayOptions.BatchSize
    MaxFaults       \* bound: database errors and lost sessions

ASSUME OutboxAssumption ==
    /\ Events \subseteq Int
    /\ Relays \cap Replayers = {}
    /\ MaxAttempts \in Nat \ {0} /\ BatchSize \in Nat \ {0} /\ MaxFaults \in Nat

Workers == Relays \cup Replayers

VARIABLES
    (* committed tables *)
    status, attempts,   \* outbox_events.status and .attempts
    due,                \* outbox_events.available_at <= now()
    deliveries,         \* outbox_deliveries of each event, oldest first
    (* the outside world *)
    accepted,           \* events the broker has taken at least once
    (* workers and their database sessions *)
    pc,
    scan,               \* rows the worker's SELECT has yet to visit
    batch,              \* rows claimed and not yet settled, as they were read
    result,             \* did the last Publish return nil?
    settled,            \* attempts recorded in the open transaction
    locked,             \* rows the session holds FOR UPDATE
    lost,               \* workers whose session died under them
    view,               \* what a reader has read so far
    faults              \* faults so far

tables == <<status, attempts, due, deliveries>>
session == <<pc, scan, batch, result, settled, locked, lost>>
vars == <<tables, accepted, session, view, faults>>

Init ==
    /\ status = [e \in Events |-> "absent"]
    /\ attempts = [e \in Events |-> 0]
    /\ due = [e \in Events |-> FALSE]
    /\ deliveries = [e \in Events |-> <<>>]
    /\ accepted = {}
    /\ pc = [w \in Workers |-> "idle"]
    /\ scan = [w \in Workers |-> {}]
    /\ batch = [w \in Workers |-> <<>>]
    /\ result = [w \in Workers |-> FALSE]
    /\ settled = [w \in Workers |-> {}]
    /\ locked = [w \in Workers |-> {}]
    /\ lost = {}
    /\ view = [v \in Readers |-> <<>>]
    /\ faults = 0

-----------------------------------------------------------------------------
(* A transfer commits its event; transactions may commit in any order. *)
InsertEvent(e) ==
    /\ status[e] = "absent"
    /\ status' = [status EXCEPT ![e] = "pending"]
    /\ due' = [due EXCEPT ![e] = TRUE]
    /\ UNCHANGED <<attempts, deliveries, accepted, session, view, faults>>

(* The backoff of an event runs out. *)
BackoffElapses(e) ==
    /\ status[e] # "absent"
    /\ ~due[e]
    /\ due' = [due EXCEPT ![e] = TRUE]
    /\ UNCHANGED <<status, attempts, deliveries, accepted, session, view, faults>>

-----------------------------------------------------------------------------
(* DispatchBatch: claiming.                                                 *)

Goto(w, step) == pc' = [pc EXCEPT ![w] = step]

Row(e) == [id |-> e, attempts |-> attempts[e]]

(* The rows are read without being locked. *)
Unlocked_Mutant(w, e) == TRUE

Unlocked(w, e) == \A x \in Workers \ {w} : e \notin locked[x]

(* WHERE status = 'pending' AND available_at <= now() *)
Eligible(e) == status[e] = "pending" /\ due[e]

(* The ticker of Run fires. *)
Tick(w) ==
    /\ w \in Relays
    /\ pc[w] = "idle"
    /\ Goto(w, "begin")
    /\ UNCHANGED <<tables, accepted, scan, batch, result, settled, locked, lost, view, faults>>

(* BEGIN, and the snapshot of the SELECT. *)
StartBatch(w) ==
    /\ pc[w] = "begin"
    /\ scan' = [scan EXCEPT ![w] = {e \in Events : Eligible(e)}]
    /\ Goto(w, "scan")
    /\ UNCHANGED <<tables, accepted, batch, result, settled, locked, lost, view, faults>>

(* A row of the snapshot is claimed as it was, without a second look. *)
StillClaimable_Mutant(w, e) == Unlocked(w, e)

(* SKIP LOCKED passes over a row another session holds; a row that changed
   since the snapshot is checked again in its current version. *)
StillClaimable(w, e) == Unlocked(w, e) /\ Eligible(e)

ScanRow(w) ==
    /\ pc[w] = "scan"
    /\ Len(batch[w]) < BatchSize
    /\ \E e \in scan[w] :
        /\ \A x \in scan[w] : e <= x
        /\ scan' = [scan EXCEPT ![w] = @ \ {e}]
        /\ IF StillClaimable(w, e)
           THEN /\ batch' = [batch EXCEPT ![w] = Append(@, Row(e))]
                /\ locked' = [locked EXCEPT ![w] = @ \cup {e}]
           ELSE UNCHANGED <<batch, locked>>
    /\ UNCHANGED <<tables, accepted, pc, result, settled, lost, view, faults>>

(* The batch is read; an empty one ends the drain until the next tick. *)
EndScan(w) ==
    /\ pc[w] = "scan"
    /\ scan[w] = {} \/ Len(batch[w]) = BatchSize
    /\ scan' = [scan EXCEPT ![w] = {}]
    /\ Goto(w, IF batch[w] = <<>> THEN "idle" ELSE "publish")
    /\ UNCHANGED <<tables, accepted, batch, result, settled, locked, lost, view, faults>>

-----------------------------------------------------------------------------
(* ReplayEvent: claiming one event, whatever its status. *)

Replay(w, e) ==
    /\ w \in Replayers
    /\ pc[w] = "idle"
    /\ scan' = [scan EXCEPT ![w] = {e}]
    /\ Goto(w, "select")
    /\ UNCHANGED <<tables, accepted, batch, result, settled, locked, lost, view, faults>>

(* SELECT ... FOR UPDATE waits for the row's lock; no row is a 404. *)
SelectForReplay(w) ==
    /\ pc[w] = "select"
    /\ \E e \in scan[w] :
        /\ Unlocked(w, e)
        /\ IF status[e] = "absent"
           THEN Goto(w, "done") /\ UNCHANGED <<batch, locked>>
           ELSE /\ batch' = [batch EXCEPT ![w] = <<Row(e)>>]
                /\ locked' = [locked EXCEPT ![w] = {e}]
                /\ Goto(w, "publish")
    /\ scan' = [scan EXCEPT ![w] = {}]
    /\ UNCHANGED <<tables, accepted, result, settled, lost, view, faults>>

-----------------------------------------------------------------------------
(* Publishing and settling, common to relays and replays. *)

Current(w) == Head(batch[w]).id

(* While a worker is at "publish" its call of Publish is under way. *)
Publish(w) ==
    /\ pc[w] = "publish"
    /\ \E ok, taken \in BOOLEAN :
        /\ ok => taken
        /\ result' = [result EXCEPT ![w] = ok]
        /\ accepted' = IF taken THEN accepted \cup {Current(w)} ELSE accepted
    /\ Goto(w, "settle")
    /\ UNCHANGED <<tables, scan, batch, settled, locked, lost, view, faults>>

Trigger(w) == IF w \in Relays THEN "relay" ELSE "manual_replay"

(* An error counts as a success. *)
Outcome_Mutant(w) == [id |-> Current(w), attempts |-> Head(batch[w]).attempts + 1, ok |-> TRUE]

(* The row that settleAttempt and recordDelivery write. *)
Outcome(w) == [id |-> Current(w), attempts |-> Head(batch[w]).attempts + 1, ok |-> result[w]]

SettleAttempt(w) ==
    /\ pc[w] = "settle"
    /\ w \notin lost
    /\ settled' = [settled EXCEPT ![w] = @ \cup {Outcome(w)}]
    /\ batch' = [batch EXCEPT ![w] = Tail(@)]
    /\ Goto(w, IF Len(batch[w]) = 1 THEN "commit" ELSE "publish")
    /\ UNCHANGED <<tables, accepted, scan, result, locked, lost, view, faults>>

(* A status the enum does not have. *)
StatusAfter_EnumMutant(o) ==
    IF o.ok THEN "delivered" ELSE IF o.attempts >= MaxAttempts THEN "failed" ELSE "pending"

(* Off by one: the last attempt is granted once more. *)
StatusAfter_Mutant(o) ==
    IF o.ok THEN "published" ELSE IF o.attempts > MaxAttempts THEN "failed" ELSE "pending"

StatusAfter(o) ==
    IF o.ok THEN "published" ELSE IF o.attempts >= MaxAttempts THEN "failed" ELSE "pending"

(* recordDelivery writes no row for a failed attempt. *)
Delivered_Mutant(w, o) ==
    IF o.ok THEN Append(deliveries[o.id], [ok |-> o.ok, trigger |-> Trigger(w)])
            ELSE deliveries[o.id]

(* One delivery row per event, overwritten by each attempt. *)
Delivered_UpsertMutant(w, o) == <<[ok |-> o.ok, trigger |-> Trigger(w)]>>

Delivered(w, o) == Append(deliveries[o.id], [ok |-> o.ok, trigger |-> Trigger(w)])

Settles(w, e) == \E o \in settled[w] : o.id = e
OutcomeOf(w, e) == CHOOSE o \in settled[w] : o.id = e

(* The COMMIT of a batch or of a replay. *)
Record(w) ==
    /\ status' = [e \in Events |->
                    IF Settles(w, e) THEN StatusAfter(OutcomeOf(w, e)) ELSE status[e]]
    /\ attempts' = [e \in Events |->
                    IF Settles(w, e) THEN OutcomeOf(w, e).attempts ELSE attempts[e]]
    /\ due' = [e \in Events |-> due[e] /\ (Settles(w, e) => OutcomeOf(w, e).ok)]
    /\ deliveries' = [e \in Events |->
                    IF Settles(w, e) THEN Delivered(w, OutcomeOf(w, e)) ELSE deliveries[e]]

(* The rows stay locked when the session ends. *)
EndSession_Mutant(w) ==
    /\ scan' = [scan EXCEPT ![w] = {}]
    /\ batch' = [batch EXCEPT ![w] = <<>>]
    /\ settled' = [settled EXCEPT ![w] = {}]
    /\ lost' = lost \ {w}
    /\ UNCHANGED locked

(* The session is over, by COMMIT or by the deferred Rollback. *)
EndSession(w) ==
    /\ scan' = [scan EXCEPT ![w] = {}]
    /\ batch' = [batch EXCEPT ![w] = <<>>]
    /\ settled' = [settled EXCEPT ![w] = {}]
    /\ locked' = [locked EXCEPT ![w] = {}]
    /\ lost' = lost \ {w}

(* Where a worker goes when its call returns: Run breaks to the next tick, a
   replay request is answered. *)
Returns(w) == IF w \in Relays THEN "idle" ELSE "done"

(* Run drains: a full batch is followed by another at once. *)
Commit(w) ==
    /\ pc[w] = "commit"
    /\ w \notin lost
    /\ Record(w)
    /\ Goto(w, IF w \in Relays /\ Cardinality(settled[w]) = BatchSize
               THEN "begin" ELSE Returns(w))
    /\ EndSession(w)
    /\ UNCHANGED <<accepted, result, view, faults>>

-----------------------------------------------------------------------------
(* Faults. *)

Fault == faults < MaxFaults /\ faults' = faults + 1

Rollback(w) ==
    /\ Goto(w, Returns(w))
    /\ EndSession(w)
    /\ UNCHANGED <<tables, accepted, result, view>>

(* A statement fails: everything the transaction did is undone, the envelopes
   of the batch that were already published stay published. *)
StatementFails(w) ==
    /\ pc[w] \in {"begin", "scan", "select", "settle", "commit"}
    /\ Fault
    /\ Rollback(w)

(* The COMMIT is done and its acknowledgement lost. *)
CommitUnacknowledged(w) ==
    /\ pc[w] = "commit"
    /\ w \notin lost
    /\ Fault
    /\ Record(w)
    /\ Goto(w, Returns(w))
    /\ EndSession(w)
    /\ UNCHANGED <<accepted, result, view>>

(* The session dies while Publish is under way: PostgreSQL rolls back and
   releases the rows, and the worker does not know.  With an error from
   Publish and the failing settle below, this is also a crash. *)
SessionLost(w) ==
    /\ pc[w] = "publish"
    /\ w \notin lost
    /\ Fault
    /\ lost' = lost \cup {w}
    /\ settled' = [settled EXCEPT ![w] = {}]
    /\ locked' = [locked EXCEPT ![w] = {}]
    /\ UNCHANGED <<tables, accepted, pc, scan, batch, result, view>>

(* The worker finds out at its next statement. *)
SettleFails(w) ==
    /\ pc[w] = "settle"
    /\ w \in lost
    /\ Rollback(w)
    /\ UNCHANGED faults

-----------------------------------------------------------------------------
(* handleGetEvent: the event, then its deliveries, in two statements; a view is
   the id, the attempts the first one showed and the rows the second found. *)

ReadEvent(v, e) ==
    /\ view[v] = <<>>
    /\ status[e] # "absent"
    /\ view' = [view EXCEPT ![v] = <<e, attempts[e]>>]
    /\ UNCHANGED <<tables, accepted, session, faults>>

ReadDeliveries(v) ==
    /\ Len(view[v]) = 2
    /\ view' = [view EXCEPT ![v] = Append(@, Len(deliveries[view[v][1]]))]
    /\ UNCHANGED <<tables, accepted, session, faults>>

-----------------------------------------------------------------------------
(* The steps of a worker's own code. *)
Work(w) ==
    \/ Tick(w) \/ StartBatch(w) \/ ScanRow(w) \/ EndScan(w)
    \/ SelectForReplay(w)
    \/ Publish(w) \/ SettleAttempt(w) \/ SettleFails(w) \/ Commit(w)

Fails(w) == StatementFails(w) \/ CommitUnacknowledged(w) \/ SessionLost(w)

Next ==
    \/ \E e \in Events : InsertEvent(e) \/ BackoffElapses(e)
    \/ \E w \in Workers : Work(w) \/ Fails(w)
    \/ \E w \in Replayers, e \in Events : Replay(w, e)
    \/ \E v \in Readers : ReadDeliveries(v) \/ \E e \in Events : ReadEvent(v, e)

Spec == Init /\ [][Next]_vars

-----------------------------------------------------------------------------
(* Properties. *)

Statuses == {"absent", "pending", "published", "failed"}
Steps == {"idle", "begin", "scan", "select", "publish", "settle", "commit", "done"}
DeliveryRows == [ok : BOOLEAN, trigger : {"relay", "manual_replay"}]

(* Every variable has its type. *)
TypeOK ==
    /\ status \in [Events -> Statuses]
    /\ attempts \in [Events -> Nat]
    /\ due \in [Events -> BOOLEAN]
    /\ deliveries \in [Events -> Seq(DeliveryRows)]
    /\ accepted \subseteq Events
    /\ pc \in [Workers -> Steps]
    /\ scan \in [Workers -> SUBSET Events]
    /\ batch \in [Workers -> Seq([id : Events, attempts : Nat])]
    /\ result \in [Workers -> BOOLEAN]
    /\ settled \in [Workers -> SUBSET [id : Events, attempts : Nat, ok : BOOLEAN]]
    /\ locked \in [Workers -> SUBSET Events]
    /\ lost \subseteq Workers
    /\ view \in [Readers -> Seq(Int)]
    /\ faults \in 0..MaxFaults

(* At least once: an event is only marked published when the broker has taken
   it, whatever failed before, between or after (DispatchBatch publishes
   inside the transaction; committing first "could silently lose events"). *)
NothingLost == \A e \in Events : status[e] = "published" => e \in accepted

Last(s) == s[Len(s)]

(* The status of an event is what its delivery history says: it has been
   attempted as often as it has delivery rows, it is published when its last
   attempt succeeded, and it is given up exactly when the last one failed and
   the attempts are used up.  No attempt is counted twice or forgotten when
   relays and replays race for the event (settleAttempt). *)
HistoryExplainsStatus ==
    \A e \in Events : LET h == deliveries[e] IN
        /\ attempts[e] = Len(h)
        /\ status[e] = "published" <=> h # <<>> /\ Last(h).ok
        /\ status[e] = "failed" <=>
            h # <<>> /\ ~Last(h).ok /\ attempts[e] >= MaxAttempts

Publishing(w, e) == pc[w] = "publish" /\ Current(w) = e

(* Two workers are never inside Publish with the same event, unless the
   session of one of them died under it (DispatchBatch: "no event is
   delivered twice concurrently"; ReplayEvent locks the row "so a concurrent
   relay tick cannot publish the same event at the same moment"). *)
NoConcurrentDelivery ==
    \A w, x \in Workers, e \in Events :
        w # x /\ Publishing(w, e) /\ Publishing(x, e) => w \in lost \/ x \in lost

(* GET /events/{id} never shows an attempt without its delivery row, though
   the two are read by different statements. *)
ViewsComplete ==
    \A v \in Readers : Len(view[v]) = 3 => view[v][2] <= view[v][3]

(* The relay leaves alone what is not pending: an attempt it records was made
   on an event that was still pending when the attempt was committed, also if
   a replay or another relay settled it after the claim's snapshot. *)
RelayTakesPendingOnly ==
    [][ \A e \in Events :
            deliveries'[e] # deliveries[e] /\ Last(deliveries'[e]).trigger = "relay"
                => status[e] = "pending" ]_vars

(* The delivery history only grows, and an event is never withdrawn. *)
DeliveriesAppendOnly ==
    [][ \A e \in Events :
            /\ Len(deliveries'[e]) >= Len(deliveries[e])
            /\ SubSeq(deliveries'[e], 1, Len(deliveries[e])) = deliveries[e]
            /\ status[e] # "absent" => status'[e] # "absent" ]_vars

(* Every pending event is published or given up, through failing publishes,
   lost sessions, failing batches and competing relays. *)
EventuallyDecided ==
    \A e \in Events : status[e] = "pending" ~> status[e] \in {"published", "failed"}

(* However often an event is tried and replayed from here on, its wait is the
   doubling one up to the cap: the shift never wraps into a delay of nothing
   or into the past, which would have the relay try without a pause. *)
BackoffDoublesToCap == \A e \in Events : attempts[e]..66 \subseteq Doubled

(* Every replay request is answered: its wait for the row, which a relay may
   keep through a whole batch of publishes, ends. *)
ReplaysAnswered == \A w \in Replayers : pc[w] = "select" ~> pc[w] = "done"

-----------------------------------------------------------------------------
(* The inductive invariant: what holds of a worker's session between two of
   its statements, and of the tables whatever the sessions are doing. *)

Claimed(w) == {batch[w][i].id : i \in DOMAIN batch[w]}
Attempted(w) == {o.id : o \in settled[w]}

(* Where a session has rows and where it has none. *)
Located(w) ==
    /\ w \in Replayers => pc[w] \notin {"begin", "scan"}
    /\ w \in Relays => pc[w] # "select"
    /\ pc[w] \in {"idle", "begin", "select", "done"} =>
        batch[w] = <<>> /\ settled[w] = {} /\ w \notin lost
    /\ pc[w] = "scan" => settled[w] = {} /\ w \notin lost
    /\ pc[w] \in {"publish", "settle"} => batch[w] # <<>>
    /\ pc[w] = "commit" => batch[w] = <<>> /\ w \notin lost

(* A live session holds the rows it has claimed and those it has settled; a
   dead one holds nothing and has nothing to commit. *)
LocksWhatItClaimed(w) ==
    IF w \in lost THEN locked[w] = {} /\ settled[w] = {}
    ELSE locked[w] = Claimed(w) \cup Attempted(w)

(* An event is claimed once and settled once in a transaction. *)
ClaimsOnce(w) ==
    /\ \A i, j \in DOMAIN batch[w] : batch[w][i].id = batch[w][j].id => i = j
    /\ \A o, p \in settled[w] : o.id = p.id => o = p
    /\ Claimed(w) \cap Attempted(w) = {}
    /\ pc[w] = "scan" => Claimed(w) \cap scan[w] = {}

(* What was read with the lock is still so: the attempts of a locked row are
   the ones the session read, and a relay's row is still pending. *)
ReadIsCurrent(w) ==
    /\ w \notin lost => \A i \in DOMAIN batch[w] :
                            batch[w][i].attempts = attempts[batch[w][i].id]
    /\ \A o \in settled[w] : o.attempts = attempts[o.id] + 1
    /\ \A e \in locked[w] : status[e] # "absent" /\ (w \in Relays => status[e] = "pending")

(* A success that is to be recorded is one the broker has seen. *)
SuccessIsReal(w) ==
    /\ \A o \in settled[w] : o.ok => o.id \in accepted
    /\ pc[w] = "settle" /\ result[w] => Current(w) \in accepted

SessionOK(w) ==
    /\ Located(w) /\ LocksWhatItClaimed(w) /\ ClaimsOnce(w)
    /\ ReadIsCurrent(w) /\ SuccessIsReal(w)

(* No row is held by two sessions. *)
RowsExclusive == \A w, x \in Workers : w # x => locked[w] \cap locked[x] = {}

(* An event that is not there has no history. *)
HistoryNeedsEvent == \A e \in Events : status[e] = "absent" => deliveries[e] = <<>>

(* A reader has seen no more attempts than there are by now. *)
ViewsBehind ==
    \A v \in Readers :
        /\ Len(view[v]) \in {0, 2, 3}
        /\ Len(view[v]) = 2 => view[v][1] \in Events /\ view[v][2] <= attempts[view[v][1]]
        /\ Len(view[v]) = 3 => view[v][2] <= view[v][3]

(* Together they are preserved by every step of relays, replays and readers
   and by every fault; NothingLost, HistoryExplainsStatus, NoConcurrentDelivery
   and ViewsComplete follow. *)
OutboxInv ==
    /\ TypeOK
    /\ \A w \in Workers : SessionOK(w)
    /\ RowsExclusive
    /\ NothingLost
    /\ HistoryExplainsStatus /\ HistoryNeedsEvent
    /\ ViewsBehind

(* Only an event that is there is claimed, by live sessions and dead ones, and
   only such an event is ever published: the broker is never told of a transfer
   that did not happen. *)
ReportsExist ==
    /\ \A w \in Workers : \A i \in DOMAIN batch[w] : status[batch[w][i].id] # "absent"
    /\ \A e \in accepted : status[e] # "absent"

-----------------------------------------------------------------------------
(* What the documentation says. *)

(* A replay "resets status/available_at so a failed event re-enters the relay"
   (docs/IMPLEMENTATION_PLAN.md): a replay that is recorded for a failed event
   does not leave it failed. *)
ReplayRevives ==
    [][ \A e \in Events :
            status[e] = "failed" /\ deliveries'[e] # deliveries[e] => status'[e] # "failed" ]_vars
=============================================================================
