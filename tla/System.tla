------------------------------- MODULE System -------------------------------
(***************************************************************************)
(* The whole service: transfers (LedgerStore) and the delivery of their    *)
(* events (Outbox) over one database, and the reads of                     *)
(* GET /transactions/{id}.  The two meet in the COMMIT of a transfer,      *)
(* which makes its row of outbox_events visible to the relays in the same  *)
(* step as its entries.  An event is named by the request that wrote it.   *)
(***************************************************************************)
EXTENDS Integers, Sequences, FiniteSets, Functions

CONSTANTS
    (* LedgerStore *)
    Requests, AccountIds, Profile, Opened, Keys, NoKey, BadKey, Bodies, WellFormed,
    Command, Hashes, Fingerprint, Currencies, Supported, Refs, NoRef, MaxBalance,
    MaxConns, MaxFaults, NoRow, NoTx,
    (* Outbox *)
    Relays, Replayers, Readers, MaxAttempts, BatchSize, MaxWorkerFaults

VARIABLES
    created, balance, transactions, entries, events, keys,
    req, pc, todo, held, seen, reply, lost,
    status, attempts, due, deliveries, accepted,
    wpc, scan, batch, result, settled, locked, wlost, view, faults,
    page            \* what a GET /transactions/{id} has read so far

L == INSTANCE LedgerStore

O == INSTANCE Outbox WITH
        Events <- Requests, MaxFaults <- MaxWorkerFaults, pc <- wpc, lost <- wlost

(* The constants of the two parts are what each part takes them for. *)
ASSUME SystemAssumption ==
    /\ L!ConstantsAssumption /\ L!NoRowAssumption /\ L!OpenedAssumption
    /\ O!OutboxAssumption

ledger == <<created, balance, transactions, entries, events, keys,
            req, pc, todo, held, seen, reply, lost>>
outbox == <<status, attempts, due, deliveries, accepted,
            wpc, scan, batch, result, settled, locked, wlost, view, faults>>
vars == <<ledger, outbox, page>>

Init == L!Init /\ O!Init /\ page = [g \in Readers |-> <<>>]

-----------------------------------------------------------------------------
(* insertEvent runs on the pool instead of on the transaction: the event is
   there before the transfer has committed. *)
Handover_Mutant ==
    IF \E r \in Requests : pc[r] # "commit" /\ pc'[r] = "commit"
    THEN \E r \in Requests : pc[r] # "commit" /\ pc'[r] = "commit" /\ O!InsertEvent(r)
    ELSE UNCHANGED outbox

(* The events that a step of a transfer commits are the relays' to take. *)
Handover ==
    IF events' # events
    THEN \E v \in events' \ events : O!InsertEvent(v.aggregate)
    ELSE UNCHANGED outbox

Transfer == L!Next /\ Handover /\ UNCHANGED page

Deliver ==
    /\ \/ \E e \in Requests : O!BackoffElapses(e)
       \/ \E w \in O!Workers : O!Work(w) \/ O!Fails(w)
       \/ \E w \in Replayers, e \in Requests : O!Replay(w, e)
       \/ \E g \in Readers : O!ReadDeliveries(g)
       \/ \E g \in Readers, e \in Requests : page[g] = <<>> /\ O!ReadEvent(g, e)
    /\ UNCHANGED <<ledger, page>>

(* GetTransaction reads the row ... *)
GetRow(g, t) ==
    /\ page[g] = <<>> /\ view[g] = <<>>
    /\ t \in transactions
    /\ page' = [page EXCEPT ![g] = <<t>>]
    /\ UNCHANGED <<ledger, outbox>>

(* The loop over the rows stops after the first. *)
GetEntries_Mutant(g) ==
    /\ Len(page[g]) = 1
    /\ \E e \in entries :
        /\ e.tx = page[g][1].id
        /\ page' = [page EXCEPT ![g] = Append(@, {e})]
    /\ UNCHANGED <<ledger, outbox>>

(* ... and then its entries, in a statement of its own. *)
GetEntries(g) ==
    /\ Len(page[g]) = 1
    /\ page' = [page EXCEPT ![g] = Append(@, {e \in entries : e.tx = page[g][1].id})]
    /\ UNCHANGED <<ledger, outbox>>

Next == Transfer \/ Deliver \/ \E g \in Readers : GetEntries(g) \/ \E t \in transactions : GetRow(g, t)

Spec == Init /\ [][Next]_vars

(* The ticker keeps firing, calls return and backoffs run out; no request has
   to go on, nobody is obliged to replay, and no fault has to happen. *)
Fairness ==
    /\ \A w \in O!Workers : WF_vars(O!Work(w) /\ UNCHANGED <<ledger, page>>)
    /\ \A e \in Requests : WF_vars(O!BackoffElapses(e) /\ UNCHANGED <<ledger, page>>)

FairSpec == Spec /\ Fairness

-----------------------------------------------------------------------------
(* What an event says about an account's balance. *)
Share(v, a) == L!SignedSum({l \in v.legs : l.account = a})

(* What a listener knows about the balance when it adds up the events it has
   been sent, each event once. *)
Mirrored(a) ==
    SumFunctionOnSet([v \in events |-> Share(v, a)], {v \in events : v.aggregate \in accepted})

(* Balances rebuilt from the events are the ledger's balances as soon as every
   transfer has been reported, however often relays, replays and retries sent
   one and whatever happened to the clients in between. *)
EventsRebuildBalances ==
    {t.id : t \in transactions} \subseteq accepted =>
        \A a \in AccountIds : Mirrored(a) = balance[a]

(* GET /transactions/{id} shows a transaction with both its legs or not at
   all, though row and entries are read by two statements. *)
PagesComplete ==
    \A g \in Readers : Len(page[g]) = 2 => L!TriggerAccepts(page[g][2])

(* GET /events/{id} never shows an attempt without its delivery row. *)
ViewsComplete == O!ViewsComplete

(* Every POST /events/{id}/replay is answered: its wait for a row that a relay
   keeps through a whole batch ends, while transfers bring new events. *)
ReplaysAnswered == O!ReplaysAnswered

(* Abstract specification: a transfer is posted and its event is there at
   once; only posted transfers are reported; sooner or later each is reported
   or given up. *)
R == INSTANCE Reporting WITH
        Transfers <- Requests,
        posted <- {t.id : t \in transactions},
        reported <- accepted,
        verdict <- status

(* Transfers and relays together implement Reporting. *)
ImplementsReporting == R!Spec

-----------------------------------------------------------------------------
(* What holds the parts together.  The outbox has the events of the transfers
   that committed and no others, and a page holds what one COMMIT wrote. *)
EventsFollow == \A r \in Requests : status[r] # "absent" <=> L!Wrote(r)

Pages == {<<>>} \cup {<<t>> : t \in transactions} \cup {<<t, L!Legs(t.id)>> : t \in transactions}

Coupled == EventsFollow /\ page \in [Readers -> Pages]
=============================================================================
