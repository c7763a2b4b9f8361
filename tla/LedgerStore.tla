----------------------------- MODULE LedgerStore -----------------------------
(***************************************************************************)
(* POST /transactions from the HTTP handler down to the COMMIT:            *)
(* httpapi.handleCreateTransaction, ledger.Service.Transfer and            *)
(* postgres.Store.Transfer, run by any number of concurrent requests over  *)
(* one PostgreSQL database, together with account creation.                *)
(*                                                                         *)
(* A request is executed once; a client's retry is another request that    *)
(* carries the same Idempotency-Key.  The transaction a request writes is  *)
(* named by the request itself (the code draws a fresh UUID).              *)
(*                                                                         *)
(* PostgreSQL (READ COMMITTED) is modelled by what Store.Transfer relies   *)
(* on: a unique index makes the second inserter wait for the first one to  *)
(* commit or abort, FOR UPDATE locks one row at a time in ORDER BY order   *)
(* and returns the row as it is once the lock is granted, nothing of a     *)
(* transaction is visible before its COMMIT, and an abort undoes it all.   *)
(*                                                                         *)
(* A definition whose name ends in Mutant is what a plausible bug would    *)
(* make of the definition that follows it; no specification uses it.       *)
(***************************************************************************)
EXTENDS Integers, FiniteSets, Functions

CONSTANTS
    Requests,       \* HTTP requests, at most one ledger transaction each
    AccountIds,     \* account ids; the order of the integers is ORDER BY id
    Profile,        \* account id -> the CreateAccountCommand it is made from
    Opened,         \* accounts that exist when the model starts
    Keys,           \* Idempotency-Key values that pass ValidateKey
    NoKey, BadKey,  \* a missing header, and one that ValidateKey rejects
    Bodies,         \* request bodies
    WellFormed,     \* the bodies that decode into a TransferCommand ...
    Command,        \* ... and the command each of them decodes into
    Hashes,         \* SHA-256 values
    Fingerprint,    \* body -> the request hash (method and path are fixed)
    Currencies,     \* currency strings a client may send ...
    Supported,      \* ... and those ValidCurrency accepts
    Refs, NoRef,    \* external references, and SQL NULL
    MaxBalance,     \* the largest value of the bigint column balance
    MaxConns,       \* size of the connection pool (10 in NewPool)
    MaxFaults,      \* bound: how many sessions lose their connection
    NoRow, NoTx     \* no idempotency_keys row; no transaction in the answer

AccountKinds == {"asset", "liability", "equity", "revenue", "expense"}

Profiles == [named : BOOLEAN, kind : AccountKinds \cup {"unknown"},
             currency : Currencies, allowNegative : BOOLEAN]

Commands == [debit : AccountIds, credit : AccountIds, amount : Int,
             currency : Currencies, ref : Refs \cup {NoRef}]

Headers == Keys \cup {NoKey, BadKey}

ASSUME ConstantsAssumption ==
    /\ AccountIds \subseteq Int /\ IsFiniteSet(AccountIds)
    /\ Profile \in [AccountIds -> Profiles]
    /\ Opened \subseteq AccountIds
    /\ NoKey \notin Keys /\ BadKey \notin Keys /\ NoKey # BadKey
    /\ WellFormed \subseteq Bodies
    /\ Command \in [WellFormed -> Commands]
    /\ Fingerprint \in [Bodies -> Hashes]
    /\ Supported \subseteq Currencies
    /\ NoRef \notin Refs
    /\ NoTx \notin Requests
    /\ MaxBalance \in Nat /\ MaxConns \in Nat \ {0} /\ MaxFaults \in Nat

KeyRows == [hash : Hashes, response : Requests \cup {NoTx}]
ASSUME NoRowAssumption == NoRow \notin KeyRows

VARIABLES
    (* committed tables *)
    created,        \* accounts: the ids that exist
    balance,        \* accounts.balance, the materialised balance
    transactions,   \* transactions
    entries,        \* ledger_entries
    events,         \* outbox_events, as written by insertEvent
    keys,           \* idempotency_keys of this endpoint
    (* requests and their database sessions *)
    req,            \* the header and the body each client sends
    pc,             \* where the request is
    todo,           \* rows the FOR UPDATE statement matched and has yet to lock
    held,           \* account rows the session has locked
    seen,           \* the funding account's balance as FOR UPDATE returned it
    reply,          \* what the client has been told
    lost            \* requests whose connection broke or whose deadline passed

tables   == <<created, balance, transactions, entries, events, keys>>
sessions == <<pc, todo, held, seen>>
vars     == <<tables, req, sessions, reply, lost>>

-----------------------------------------------------------------------------
(* Commands and their validation. *)

Cmd(r) == Command[req[r].body]
Ids(r) == {Cmd(r).debit, Cmd(r).credit}
Hash(r) == Fingerprint[req[r].body]

ValidCurrency(c) == c \in Supported

(* CreateAccountCommand.Validate *)
ValidAccount(p) ==
    /\ p.named
    /\ p.kind \in AccountKinds
    /\ ValidCurrency(p.currency)

ASSUME OpenedAssumption == \A a \in Opened : ValidAccount(Profile[a])

(* TransferCommand.Validate: the first violation, or "ok" *)
Validate(c) ==
    IF c.amount <= 0 THEN "invalid_amount"
    ELSE IF ~ValidCurrency(c.currency) THEN "invalid_currency"
    ELSE IF c.debit = c.credit THEN "same_account"
    ELSE "ok"

(* What is decided before the store is called: ValidateKey, the body and
   the two UUIDs, and the command.  Nothing here touches the database.  A body
   of more than 1 MiB, a 413, counts as a bad request. *)
Precheck(r) ==
    IF req[r].key = NoKey THEN "key_required"
    ELSE IF req[r].key = BadKey THEN "key_invalid"
    ELSE IF req[r].body \notin WellFormed THEN "bad_request"
    ELSE Validate(Cmd(r))

-----------------------------------------------------------------------------
(* Answers and their HTTP status. *)

Kinds == {"created", "replayed",
          "key_required", "key_invalid", "bad_request",
          "invalid_amount", "invalid_currency", "same_account",
          "account_not_found", "duplicate_ref", "key_reuse",
          "currency_mismatch", "insufficient_funds", "floor_backstop",
          "null_response", "internal"}

NoReply == [kind |-> "none", tx |-> NoTx]
Replies == [kind : Kinds \cup {"none"}, tx : Requests \cup {NoTx}]

Status(kind) ==
    CASE kind \in {"created", "replayed"} -> 201
      [] kind \in {"key_required", "key_invalid", "bad_request",
                   "invalid_amount", "invalid_currency", "same_account"} -> 400
      [] kind = "account_not_found" -> 404
      [] kind = "duplicate_ref" -> 409
      [] kind \in {"key_reuse", "currency_mismatch",
                   "insufficient_funds", "floor_backstop"} -> 422
      [] OTHER -> 500

Answer(r, kind, tx) == reply' = [reply EXCEPT ![r] = [kind |-> kind, tx |-> tx]]

(* The deferred Rollback is missing: the rows stay locked. *)
EndSession_Mutant(r) ==
    /\ pc' = [pc EXCEPT ![r] = "done"]
    /\ todo' = [todo EXCEPT ![r] = {}]
    /\ seen' = [seen EXCEPT ![r] = 0]
    /\ UNCHANGED held

(* The end of a database session, by COMMIT or by the deferred Rollback. *)
EndSession(r) ==
    /\ pc' = [pc EXCEPT ![r] = "done"]
    /\ todo' = [todo EXCEPT ![r] = {}]
    /\ held' = [held EXCEPT ![r] = {}]
    /\ seen' = [seen EXCEPT ![r] = 0]

Refuse(r, kind) ==
    /\ Answer(r, kind, NoTx)
    /\ EndSession(r)
    /\ UNCHANGED <<tables, req, lost>>

Goto(r, step) == pc' = [pc EXCEPT ![r] = step]

-----------------------------------------------------------------------------
(* Who holds what.  A session owns its key's index tuple from claimKey on,
   and its external reference from the INSERT INTO transactions on. *)

OwningKey == {"select", "lock", "insert", "apply", "commit"}
OwningRef == {"apply", "commit"}
InTx      == {"claim", "stored"} \cup OwningKey

HoldsKey(s, k) == pc[s] \in OwningKey /\ req[s].key = k
HoldsRef(s, f) == pc[s] \in OwningRef /\ Cmd(s).ref = f

(* The key is looked up and inserted without the unique index. *)
KeyFree_Mutant(r) == TRUE

KeyFree(r) == \A s \in Requests \ {r} : ~HoldsKey(s, req[r].key)
(* The reference is looked up and inserted without the unique index. *)
RefFree_Mutant(r) == TRUE

RefFree(r) == Cmd(r).ref = NoRef \/ \A s \in Requests \ {r} : ~HoldsRef(s, Cmd(r).ref)
RowFree(r, a) == \A s \in Requests \ {r} : a \notin held[s]

(* FOR SHARE in place of FOR UPDATE. *)
ForUpdate_Mutant(r, a) == TRUE

(* FOR UPDATE: the lock is exclusive. *)
ForUpdate(r, a) == RowFree(r, a)

(* ORDER BY id is dropped. *)
LocksNext_Mutant(r, a) == a \in todo[r]

(* ORDER BY id: the row the FOR UPDATE statement locks next. *)
LocksNext(r, a) == a \in todo[r] /\ \A b \in todo[r] : a <= b

-----------------------------------------------------------------------------
(* What a transfer writes. *)

SignedAmount(e) == IF e.direction = "debit" THEN e.amount ELSE -e.amount

Leg(r, account, direction) ==
    [tx |-> r, account |-> account, direction |-> direction, amount |-> Cmd(r).amount]

Legs(r) == {Leg(r, Cmd(r).debit, "debit"), Leg(r, Cmd(r).credit, "credit")}

(* The sum of signed amounts of a set of ledger entries. *)
SignedSum(S) == SumFunctionOnSet([e \in S |-> SignedAmount(e)], S)

(* assert_transaction_balanced, run at COMMIT, and Transaction.Balanced *)
Balanced(legs) == SignedSum(legs) = 0
TriggerAccepts(legs) == Cardinality(legs) >= 2 /\ Balanced(legs)

TransactionRow(r) == [id |-> r, ref |-> Cmd(r).ref, currency |-> Cmd(r).currency]

(* The event names the legs the wrong way round. *)
TransactionCreated_Mutant(r) ==
    [aggregate |-> r, legs |-> {Leg(r, Cmd(r).debit, "credit"), Leg(r, Cmd(r).credit, "debit")}]

(* insertEvent: the payload carries the entries. *)
TransactionCreated(r) == [aggregate |-> r, legs |-> Legs(r)]

(* The key is bound where the hash belongs. *)
StoredResponse_SwapMutant(r) == [hash |-> req[r].key, response |-> r]

(* The idempotency_keys row: claimed with the hash, then given its response. *)
StoredResponse(r) == [hash |-> Hash(r), response |-> r]

(* The CASE of the UPDATE has no second sign. *)
NewBalance_Mutant(r, a) == balance[a] + Cmd(r).amount

(* UPDATE accounts SET balance = balance + CASE WHEN id = debit ... *)
NewBalance(r, a) ==
    IF a = Cmd(r).debit THEN balance[a] + Cmd(r).amount
                        ELSE balance[a] - Cmd(r).amount

InRange(n) == -MaxBalance - 1 <= n /\ n <= MaxBalance

(* CHECK accounts_balance_floor *)
FloorHolds(a, n) == Profile[a].allowNegative \/ n >= 0

(* Off by one. *)
Covered_Mutant(r) == Profile[Cmd(r).credit].allowNegative \/ seen[r] + 1 >= Cmd(r).amount

(* The funds check of Transfer, made on the row FOR UPDATE returned. *)
Covered(r) == Profile[Cmd(r).credit].allowNegative \/ seen[r] >= Cmd(r).amount

(* Only the debited account's currency is compared. *)
CurrenciesAgree_Mutant(r) == Profile[Cmd(r).debit].currency = Cmd(r).currency

CurrenciesAgree(r) == \A a \in Ids(r) : Profile[a].currency = Cmd(r).currency

-----------------------------------------------------------------------------
Init ==
    /\ created = Opened
    /\ balance = [a \in AccountIds |-> 0]
    /\ transactions = {}
    /\ entries = {}
    /\ events = {}
    /\ keys = [k \in Keys |-> NoRow]
    /\ req \in [Requests -> [key : Headers, body : Bodies]]
    /\ pc = [r \in Requests |-> "new"]
    /\ todo = [r \in Requests |-> {}]
    /\ held = [r \in Requests |-> {}]
    /\ seen = [r \in Requests |-> 0]
    /\ reply = [r \in Requests |-> NoReply]
    /\ lost = {}

(* A step of request r's own handler: its connection is intact. *)
At(r, step) == pc[r] = step /\ r \notin lost

(* POST /accounts: the account starts at a zero balance. *)
CreateAccount(a) ==
    /\ a \notin created
    /\ ValidAccount(Profile[a])
    /\ created' = created \cup {a}
    /\ balance' = [balance EXCEPT ![a] = 0]
    /\ UNCHANGED <<transactions, entries, events, keys, req, sessions, reply, lost>>

(* handleCreateTransaction up to the call of the store. *)
Receive(r) ==
    /\ At(r, "new")
    /\ IF Precheck(r) # "ok"
       THEN Refuse(r, Precheck(r))
       ELSE /\ Goto(r, "begin")
            /\ UNCHANGED <<tables, req, todo, held, seen, reply, lost>>

(* A connection is out from BeginTx to the end of the handler's call. *)
PoolHasRoom == Cardinality({s \in Requests \ lost : pc[s] \in InTx}) < MaxConns

(* BeginTx takes a connection of the pool, or waits for one. *)
Begin(r) ==
    /\ At(r, "begin")
    /\ PoolHasRoom
    /\ Goto(r, "claim")
    /\ UNCHANGED <<tables, req, todo, held, seen, reply, lost>>

(* ON CONFLICT DO UPDATE in place of DO NOTHING. *)
ClaimKey_Mutant(r) ==
    /\ At(r, "claim")
    /\ KeyFree(r)
    /\ Goto(r, "select")
    /\ UNCHANGED <<tables, req, todo, held, seen, reply, lost>>

(* claimKey: INSERT ... ON CONFLICT DO NOTHING waits for a session that has
   the key's tuple in flight; afterwards the row is there, or it is ours. *)
ClaimKey(r) ==
    /\ At(r, "claim")
    /\ KeyFree(r)
    /\ Goto(r, IF keys[req[r].key] = NoRow THEN "select" ELSE "stored")
    /\ UNCHANGED <<tables, req, todo, held, seen, reply, lost>>

(* The stored response is returned whatever the request was. *)
StoredKind_Mutant(r) ==
    IF keys[req[r].key].response = NoTx THEN "null_response" ELSE "replayed"

(* replayStoredResponse: the hashes are compared before anything is said. *)
StoredKind(r) ==
    IF keys[req[r].key].hash # Hash(r) THEN "key_reuse"
    ELSE IF keys[req[r].key].response = NoTx THEN "null_response"
    ELSE "replayed"

ReplayStoredResponse(r) ==
    /\ At(r, "stored")
    /\ IF StoredKind(r) = "replayed"
       THEN /\ Answer(r, "replayed", keys[req[r].key].response)
            /\ EndSession(r)
            /\ UNCHANGED <<tables, req, lost>>
       ELSE Refuse(r, StoredKind(r))

(* FOR UPDATE SKIP LOCKED: rows that others hold are passed over. *)
SelectAccounts_Mutant(r) ==
    /\ At(r, "select")
    /\ todo' = [todo EXCEPT ![r] = {a \in Ids(r) \cap created : RowFree(r, a)}]
    /\ Goto(r, "lock")
    /\ UNCHANGED <<tables, req, held, seen, reply, lost>>

(* lockAccounts, statement start: the snapshot fixes which rows match. *)
SelectAccounts(r) ==
    /\ At(r, "select")
    /\ todo' = [todo EXCEPT ![r] = Ids(r) \cap created]
    /\ Goto(r, "lock")
    /\ UNCHANGED <<tables, req, held, seen, reply, lost>>

(* lockAccounts, one row: wait for its lock, then read its current version. *)
LockAccount(r, a) ==
    /\ At(r, "lock")
    /\ LocksNext(r, a)
    /\ ForUpdate(r, a)
    /\ todo' = [todo EXCEPT ![r] = @ \ {a}]
    /\ held' = [held EXCEPT ![r] = @ \cup {a}]
    /\ seen' = IF a = Cmd(r).credit THEN [seen EXCEPT ![r] = balance[a]] ELSE seen
    /\ UNCHANGED <<tables, req, pc, reply, lost>>

(* The rules that need the locked rows, in the code's order. *)
AccountsVerdict(r) ==
    IF ~(Ids(r) \subseteq held[r]) THEN "account_not_found"
    ELSE IF ~CurrenciesAgree(r) THEN "currency_mismatch"
    ELSE IF ~Covered(r) THEN "insufficient_funds"
    ELSE "ok"

CheckAccounts(r) ==
    /\ At(r, "lock")
    /\ todo[r] = {}
    /\ IF AccountsVerdict(r) # "ok"
       THEN Refuse(r, AccountsVerdict(r))
       ELSE /\ Goto(r, "insert")
            /\ UNCHANGED <<tables, req, todo, held, seen, reply, lost>>

(* writeTransaction: the unique index on external_ref makes a second INSERT
   of a reference wait for the first, and then fail if that one committed. *)
RefTaken(r) == Cmd(r).ref # NoRef /\ \E t \in transactions : t.ref = Cmd(r).ref

(* The entries are inserted on the pool instead of on the transaction. *)
WriteTransaction_Mutant(r) ==
    /\ At(r, "insert")
    /\ RefFree(r)
    /\ IF RefTaken(r)
       THEN Refuse(r, "duplicate_ref")
       ELSE /\ Goto(r, "apply")
            /\ entries' = entries \cup Legs(r)
            /\ UNCHANGED <<created, balance, transactions, events, keys,
                           req, todo, held, seen, reply, lost>>

WriteTransaction(r) ==
    /\ At(r, "insert")
    /\ RefFree(r)
    /\ IF RefTaken(r)
       THEN Refuse(r, "duplicate_ref")
       ELSE /\ Goto(r, "apply")
            /\ UNCHANGED <<tables, req, todo, held, seen, reply, lost>>

(* applyBalances, then insertEvent, render and storeResponse: the UPDATE
   needs both row locks and can fail on the column's range or on its floor;
   the others touch rows no other session can see or wait for. *)
ApplyBalances(r) ==
    /\ At(r, "apply")
    /\ \A a \in Ids(r) : RowFree(r, a)
    /\ IF \E a \in Ids(r) : ~InRange(NewBalance(r, a))
       THEN Refuse(r, "internal")
       ELSE IF \E a \in Ids(r) : ~FloorHolds(a, NewBalance(r, a))
       THEN Refuse(r, "floor_backstop")
       ELSE /\ held' = [held EXCEPT ![r] = @ \cup Ids(r)]
            /\ Goto(r, "commit")
            /\ UNCHANGED <<tables, req, todo, seen, reply, lost>>

(* Everything the session wrote becomes visible at once. *)
Publish(r) ==
    /\ balance' = [a \in AccountIds |-> IF a \in Ids(r) THEN NewBalance(r, a) ELSE balance[a]]
    /\ transactions' = transactions \cup {TransactionRow(r)}
    /\ entries' = entries \cup Legs(r)
    /\ events' = events \cup {TransactionCreated(r)}
    /\ keys' = [keys EXCEPT ![req[r].key] = StoredResponse(r)]
    /\ UNCHANGED created

(* Service.Transfer looks at the committed transaction once more: it answers
   500 for one that is not balanced. *)
Asserted(r) ==
    IF Balanced(Legs(r)) THEN [kind |-> "created", tx |-> r] ELSE [kind |-> "internal", tx |-> NoTx]

(* COMMIT, with the deferred trigger; then the answer of the handler. *)
Commit(r) ==
    /\ At(r, "commit")
    /\ IF TriggerAccepts(Legs(r))
       THEN /\ Publish(r)
            /\ EndSession(r)
            /\ Answer(r, Asserted(r).kind, Asserted(r).tx)
            /\ UNCHANGED <<req, lost>>
       ELSE Refuse(r, "internal")

-----------------------------------------------------------------------------
(* Broken connections, clients that go away and the 30 s RequestTimeout: the
   handler's current statement fails and the client sees a 500, whatever the
   server side of the session goes on to do. *)
Disconnect(r) ==
    /\ \E step \in {"begin"} \cup InTx : At(r, step)
    /\ Cardinality(lost) < MaxFaults
    /\ lost' = lost \cup {r}
    /\ Answer(r, "internal", NoTx)
    /\ UNCHANGED <<tables, req, sessions>>

(* PostgreSQL notices that the client is gone and rolls back ... *)
OrphanAbort(r) ==
    /\ r \in lost
    /\ pc[r] # "done"
    /\ EndSession(r)
    /\ UNCHANGED <<tables, req, reply, lost>>

(* ... unless the COMMIT had already been sent. *)
OrphanCommit(r) ==
    /\ r \in lost
    /\ pc[r] = "commit"
    /\ TriggerAccepts(Legs(r))
    /\ Publish(r)
    /\ EndSession(r)
    /\ UNCHANGED <<req, reply, lost>>

-----------------------------------------------------------------------------
(* All of request r's own steps. *)
Serve(r) ==
    \/ Receive(r) \/ Begin(r) \/ ClaimKey(r) \/ ReplayStoredResponse(r)
    \/ SelectAccounts(r) \/ \E a \in AccountIds : LockAccount(r, a)
    \/ CheckAccounts(r) \/ WriteTransaction(r) \/ ApplyBalances(r) \/ Commit(r)

OrphanEnds(r) == OrphanAbort(r) \/ OrphanCommit(r)

(* Every request has been answered and every session is over. *)
Finished == (\A r \in Requests : pc[r] = "done") /\ UNCHANGED vars

Next ==
    \/ \E a \in AccountIds : CreateAccount(a)
    \/ \E r \in Requests : Serve(r) \/ Disconnect(r) \/ OrphanEnds(r)
    \/ Finished

(* The Go scheduler runs every handler, PostgreSQL grants a free lock to a
   waiter, and it ends a session whose client is gone; nothing obliges a
   connection to break. *)
Fairness == \A r \in Requests : WF_vars(Serve(r)) /\ WF_vars(OrphanEnds(r))

Spec == Init /\ [][Next]_vars
FairSpec == Spec /\ Fairness

-----------------------------------------------------------------------------
(* Properties. *)

TransactionRows == [id : Requests, ref : Refs \cup {NoRef}, currency : Currencies]
EntryRows == [tx : Requests, account : AccountIds,
              direction : {"debit", "credit"}, amount : Int]
EventRows == [aggregate : Requests, legs : SUBSET EntryRows]
Steps == {"new", "begin", "done"} \cup InTx

(* Every variable has its type. *)
TypeOK ==
    /\ created \subseteq AccountIds
    /\ balance \in [AccountIds -> Int]
    /\ transactions \subseteq TransactionRows
    /\ entries \subseteq EntryRows
    /\ events \subseteq EventRows
    /\ keys \in [Keys -> KeyRows \cup {NoRow}]
    /\ req \in [Requests -> [key : Headers, body : Bodies]]
    /\ pc \in [Requests -> Steps]
    /\ todo \in [Requests -> SUBSET AccountIds]
    /\ held \in [Requests -> SUBSET AccountIds]
    /\ seen \in [Requests -> Int]
    /\ reply \in [Requests -> Replies]
    /\ lost \subseteq Requests

Wrote(r) == \E t \in transactions : t.id = r

(* However requests with one Idempotency-Key are retried, interleaved or cut
   off, at most one of them has moved money (claimKey). *)
ExactlyOncePerKey ==
    \A r, s \in Requests :
        Wrote(r) /\ Wrote(s) /\ req[r].key = req[s].key => r = s

(* One COMMIT carries the transaction row, its two legs, its outbox event and
   the stored response of its key: none of them ever exists without the
   others, and a committed key always has a response (replayStoredResponse's
   "committed without a response" cannot happen). *)
AllOrNothing ==
    /\ \A t \in transactions :
        /\ t = TransactionRow(t.id)
        /\ {e \in entries : e.tx = t.id} = Legs(t.id)
        /\ TransactionCreated(t.id) \in events
        /\ keys[req[t.id].key] = StoredResponse(t.id)
    /\ \A e \in entries : Wrote(e.tx)
    /\ \A v \in events : Wrote(v.aggregate) /\ v.legs = Legs(v.aggregate)
    /\ \A k \in Keys : keys[k] # NoRow => keys[k].response # NoTx /\ Wrote(keys[k].response)

(* The materialised balance of every account is the sum of its entries, every
   transaction's legs cancel, and each currency's balances sum to zero: no
   interleaving of transfers creates, loses or converts money. *)
BooksBalance ==
    /\ \A a \in AccountIds :
        balance[a] = SignedSum({e \in entries : e.account = a})
    /\ \A t \in transactions : TriggerAccepts({e \in entries : e.tx = t.id})
    /\ \A c \in Currencies :
        SumFunctionOnSet(balance, {a \in AccountIds : Profile[a].currency = c}) = 0

(* The Go funds check, made on rows locked FOR UPDATE, is enough: the CHECK
   accounts_balance_floor is never reached ("reaching this backstop means the
   application logic and the schema disagree"), and no account without
   allow_negative_balance is overdrawn. *)
BackstopSilent ==
    /\ \A r \in Requests : reply[r].kind # "floor_backstop"
    /\ \A a \in AccountIds : FloorHolds(a, balance[a])

(* What a client is told is true: a 201 names a committed transaction made by
   a request with the same key and the same fingerprint, its own exactly when
   it is not a replay; a 4xx means that this request moved nothing and never
   will (its session is over).  Only a 500 leaves the outcome open. *)
AnswerHonest ==
    \A r \in Requests :
        /\ Status(reply[r].kind) = 201 =>
            /\ Wrote(reply[r].tx)
            /\ req[reply[r].tx].key = req[r].key
            /\ Hash(reply[r].tx) = Hash(r)
            /\ reply[r].kind = "created" <=> reply[r].tx = r
        /\ Status(reply[r].kind) \in 400..499 => ~Wrote(r) /\ pc[r] = "done"

(* Every committed transaction obeys the rules of the domain: a positive
   amount in a supported currency, between two different accounts that exist,
   passed validation and are kept in that currency. *)
PostedLawfully ==
    \A t \in transactions :
        /\ Validate(Cmd(t.id)) = "ok"
        /\ \A a \in Ids(t.id) : /\ a \in created
                               /\ ValidAccount(Profile[a])
                               /\ Profile[a].currency = t.currency

(* An external reference names at most one transaction, also when two
   requests with different keys insert it at the same time. *)
RefUsedOnce ==
    \A t, u \in transactions : t.ref = u.ref /\ t.ref # NoRef => t = u

(* r's current statement waits for something that s holds. *)
WaitsFor(r, s) ==
    /\ r # s
    /\ \/ pc[r] = "claim" /\ HoldsKey(s, req[r].key)
       \/ pc[r] = "lock" /\ \E a \in held[s] : LocksNext(r, a)
       \/ pc[r] = "insert" /\ Cmd(r).ref # NoRef /\ HoldsRef(s, Cmd(r).ref)
       \/ pc[r] = "apply" /\ Ids(r) \cap held[s] # {}

(* The global order in which a transfer takes its locks: its key, then its
   account rows by id, then its reference. *)
Before(r, s) ==
    \/ pc[r] = "claim" /\ pc[s] # "claim"
    \/ pc[r] = "lock" /\ pc[s] = "lock"
        /\ \A a, b \in AccountIds : LocksNext(r, a) /\ LocksNext(s, b) => a < b
    \/ pc[r] = "lock" /\ pc[s] \in {"insert", "apply"}
    \/ pc[r] = "insert" /\ pc[s] = "apply"

(* Whoever is waited for and waits itself waits for something later in that
   order, so no set of transfers can wait for each other in a circle
   (lockAccounts: "concurrent transfers between the same pair cannot
   deadlock"), and the UPDATE of applyBalances never waits. *)
WaitsAscend ==
    \A r, s \in Requests :
        WaitsFor(r, s) => /\ pc[r] # "apply"
                          /\ (\E q \in Requests : WaitsFor(s, q)) => Before(r, s)

(* Nothing committed is ever changed or removed, and an answer stands. *)
HistoryIsAppendOnly ==
    [][ /\ transactions \subseteq transactions'
        /\ entries \subseteq entries'
        /\ events \subseteq events'
        /\ \A k \in Keys : keys[k] # NoRow => keys'[k] = keys[k]
        /\ \A r \in Requests : reply[r] # NoReply => reply'[r] = reply[r] ]_vars

(* A refusal for want of funds, made from the balance read under the lock, is
   still right at the moment it is made: no transfer is refused because of a
   balance another session has changed since. *)
RefusalsAreCurrent ==
    [][ \A r \in Requests :
            reply[r] = NoReply /\ reply'[r].kind = "insufficient_funds"
                => balance[Cmd(r).credit] < Cmd(r).amount ]_vars

(* A transfer whose accounts were there before its SELECT began is never told
   that one of them does not exist, whoever holds or waits for their rows and
   whatever accounts are created meanwhile (lockAccounts: the snapshot fixes
   which rows match before the statement starts to wait for them). *)
KnownAccountsFound ==
    \A r \in Requests :
        [](/\ pc[r] \in {"new", "begin", "claim", "select"}
           /\ Precheck(r) = "ok" /\ Ids(r) \subseteq created
           => [](reply[r].kind # "account_not_found"))

(* Every request is answered and lets go of its locks, whoever it queued
   behind and whichever of them lost its connection. *)
EveryRequestAnswered ==
    \A r \in Requests : pc[r] = "new" ~> (pc[r] = "done" /\ reply[r] # NoReply)
=============================================================================
