--------------------------- MODULE LedgerInvariant ---------------------------
(***************************************************************************)
(* The inductive invariant of LedgerStore: what is true of every session   *)
(* between two of its statements, and what makes the safety properties     *)
(* follow from it.                                                         *)
(***************************************************************************)
EXTENDS LedgerStore

(* Only a request that passed every check of the handler and of the service
   reaches the database. *)
Admitted == \A r \in Requests : pc[r] \in {"begin"} \cup InTx => Precheck(r) = "ok"

(* A key's index tuple has one owner, and until it commits there is no row. *)
KeysExclusive ==
    \A r, s \in Requests :
        pc[r] \in OwningKey /\ pc[s] \in OwningKey /\ req[r].key = req[s].key => r = s

KeysUnclaimed == \A r \in Requests : pc[r] \in OwningKey => keys[req[r].key] = NoRow

(* A session that was told the key has a row finds that row. *)
KeysStored == \A r \in Requests : pc[r] = "stored" => keys[req[r].key] # NoRow

(* So has a reference. *)
RefsExclusive ==
    \A r, s \in Requests :
        /\ pc[r] \in OwningRef /\ pc[s] \in OwningRef
        /\ Cmd(r).ref = Cmd(s).ref /\ Cmd(r).ref # NoRef
        => r = s

RefsUnused == \A r \in Requests : pc[r] \in OwningRef => ~RefTaken(r)

(* No account row is locked by two sessions. *)
RowsExclusive == \A r, s \in Requests : r # s => held[r] \cap held[s] = {}

(* A session holds rows from FOR UPDATE to its end, took them in ascending
   order, and has both once the statement is over. *)
RowsInOrder ==
    \A r \in Requests :
        /\ pc[r] \notin {"lock", "insert", "apply", "commit"} => held[r] = {} /\ todo[r] = {}
        /\ pc[r] = "lock" =>
            /\ held[r] \subseteq Ids(r) /\ todo[r] \subseteq Ids(r)
            /\ \A a \in held[r], b \in todo[r] : a < b
        /\ pc[r] \in {"insert", "apply", "commit"} => held[r] = Ids(r)
        /\ held[r] \cup todo[r] \subseteq created

(* The balance read with the lock is still the balance, and it covers the
   transfer once the check has passed. *)
SeenIsCurrent ==
    \A r \in Requests :
        /\ pc[r] \in {"lock", "insert", "apply", "commit"} /\ Cmd(r).credit \in held[r]
            => seen[r] = balance[Cmd(r).credit]
        /\ pc[r] \in {"insert", "apply", "commit"} => Covered(r)

(* A transaction row belongs to a session that is over and whose key replays
   it; no row outlives that. *)
WrittenIsStored ==
    \A t \in transactions :
        /\ pc[t.id] = "done"
        /\ req[t.id].key \in Keys
        /\ keys[req[t.id].key] = StoredResponse(t.id)
        /\ t = TransactionRow(t.id)

IndInv ==
    /\ TypeOK
    /\ Admitted
    /\ KeysExclusive /\ KeysUnclaimed /\ KeysStored
    /\ RefsExclusive /\ RefsUnused
    /\ RowsExclusive /\ RowsInOrder
    /\ SeenIsCurrent
    /\ BackstopSilent
    /\ WrittenIsStored
    /\ RefUsedOnce

-----------------------------------------------------------------------------
(* What is true of the answers and of the history, once IndInv is. *)

(* A client has its answer when the session is over or its connection is, and
   a broken connection has only ever said "internal error". *)
AnsweredAtTheEnd ==
    \A r \in Requests :
        /\ reply[r] # NoReply <=> pc[r] = "done" \/ r \in lost
        /\ r \in lost => reply[r] = [kind |-> "internal", tx |-> NoTx]

(* The row of a key is the stored response of a request with that key. *)
KeysNameTheirWriter ==
    \A k \in Keys : keys[k] # NoRow =>
        /\ keys[k].response \in Requests
        /\ Wrote(keys[k].response)
        /\ req[keys[k].response].key = k
        /\ keys[k] = StoredResponse(keys[k].response)

(* Accounts are valid and empty before their first transfer, and what the
   deferred trigger let through is balanced. *)
AccountsValid == \A a \in created : ValidAccount(Profile[a])
UnopenedEmpty == \A a \in AccountIds \ created : balance[a] = 0
PostingsBalance == \A t \in transactions : TriggerAccepts(Legs(t.id))

(* The comparison of the currencies is not repeated, and need not be. *)
CurrenciesChecked ==
    \A r \in Requests : pc[r] \in {"insert", "apply", "commit"} => CurrenciesAgree(r)

HistoryInv ==
    /\ AnsweredAtTheEnd
    /\ KeysNameTheirWriter
    /\ AccountsValid /\ UnopenedEmpty /\ CurrenciesChecked
    /\ PostingsBalance
    /\ AllOrNothing /\ AnswerHonest /\ PostedLawfully

LedgerInv == IndInv /\ HistoryInv

(* The events tell the same story as the entries: an account's balance is what
   they say about it, added up. *)
EventsAddUp ==
    \A a \in AccountIds :
        balance[a] = SumFunctionOnSet([v \in events |-> SignedSum({l \in v.legs : l.account = a})], events)

(* The books balance, and what is added up is finite. *)
BooksInv ==
    /\ LedgerInv
    /\ IsFiniteSet(entries) /\ BooksBalance
    /\ IsFiniteSet(events) /\ EventsAddUp
=============================================================================
