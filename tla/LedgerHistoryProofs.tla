------------------------- MODULE LedgerHistoryProofs -------------------------
(***************************************************************************)
(* Proofs about what LedgerStore tells its clients and keeps for ever:     *)
(* HistoryInv is inductive next to IndInv, nothing committed or answered   *)
(* changes, and the store implements ExactlyOnce.                          *)
(***************************************************************************)
EXTENDS LedgerProofs, LedgerRefinement, SumTheorems

(* The kinds of a step as a client of the database or of the API sees it.  A
   step of r is silent, or it ends r's session, with or without a COMMIT, or
   it ends r's connection. *)
Late == {"insert", "apply", "commit"}

Silent(r) ==
    /\ pc[r] # "done" /\ pc'[r] # "done"
    /\ pc'[r] \in Late => pc[r] \in Late \/ CurrenciesAgree(r)
    /\ UNCHANGED <<tables, reply, lost>>

(* What each refusal says, at the moment it is made. *)
Warranted(r, kind) ==
    /\ kind \in Promise!Refusals \cup {"internal"}
    /\ kind = "insufficient_funds" =>
        ~Promise!Covered(r) /\ balance[Cmd(r).credit] < Cmd(r).amount
    /\ kind = "account_not_found" => pc[r] = "lock" /\ todo[r] = {} /\ ~(Ids(r) \subseteq held[r])
    /\ kind = "currency_mismatch" => ~Promise!OneCurrency(r)
    /\ kind = "key_reuse" =>
        /\ req[r].key \in Keys /\ keys[req[r].key] # NoRow
        /\ keys[req[r].key].hash # Hash(r)
    /\ kind = "duplicate_ref" => RefTaken(r)

Refused(r, kind) ==
    /\ pc[r] # "done" /\ r \notin lost /\ pc'[r] = "done"
    /\ Warranted(r, kind)
    /\ Answer(r, kind, NoTx)
    /\ UNCHANGED <<tables, lost>>

Replayed(r) ==
    /\ pc[r] = "stored" /\ r \notin lost /\ pc'[r] = "done"
    /\ req[r].key \in Keys /\ keys[req[r].key] # NoRow
    /\ keys[req[r].key].hash = Hash(r)
    /\ Answer(r, "replayed", keys[req[r].key].response)
    /\ UNCHANGED <<tables, lost>>

Committed(r) ==
    /\ pc[r] = "commit" /\ pc'[r] = "done"
    /\ TriggerAccepts(Legs(r))
    /\ Publish(r)
    /\ UNCHANGED lost

Posts(r) == Committed(r) /\ r \notin lost /\ Answer(r, "created", r)
PostsLate(r) == Committed(r) /\ r \in lost /\ UNCHANGED reply

CutOff(r) ==
    /\ pc[r] # "done" /\ r \notin lost /\ UNCHANGED pc
    /\ lost' = lost \cup {r}
    /\ Answer(r, "internal", NoTx)
    /\ UNCHANGED tables

Abandoned(r) ==
    /\ r \in lost /\ pc[r] # "done" /\ pc'[r] = "done"
    /\ UNCHANGED <<tables, reply, lost>>

Visible(r) ==
    \/ Silent(r) \/ (\E kind \in Kinds : Refused(r, kind)) \/ Replayed(r)
    \/ Posts(r) \/ PostsLate(r) \/ CutOff(r) \/ Abandoned(r)

(* A session that moves on says nothing. *)
LEMMA AdvanceSilent ==
    ASSUME IndInv, NEW r \in Requests, NEW to, to # "done", pc[r] # "done",
           to \in Late => pc[r] \in Late \/ CurrenciesAgree(r),
           Goto(r, to), UNCHANGED <<tables, reply, lost>>
    PROVE  Visible(r)
<1>1. pc'[r] = to
  BY DEF Goto, IndInv, TypeOK
<1> QED BY <1>1 DEF Visible, Silent

(* A refusal is one, if what it says is so. *)
LEMMA RefuseVisible ==
    ASSUME IndInv, NEW r \in Requests, NEW kind \in Kinds, pc[r] # "done", r \notin lost,
           Warranted(r, kind), Refuse(r, kind)
    PROVE  Visible(r)
<1>1. pc'[r] = "done"
  BY DEF Refuse, EndSession, IndInv, TypeOK
<1> QED BY <1>1 DEF Visible, Refused, Refuse

(* The refusals that claim nothing about the database. *)
LEMMA PlainlyWarranted ==
    ASSUME NEW r \in Requests, NEW kind,
           kind \in (Promise!Refusals \cup {"internal"})
                        \ {"account_not_found", "insufficient_funds", "currency_mismatch",
                           "key_reuse", "duplicate_ref"}
    PROVE  Warranted(r, kind) /\ kind \in Kinds
  BY DEF Warranted, Promise!Refusals, Kinds

(* Where the request is still with the handler: nothing was looked at. *)
LEMMA ReceiveVisible ==
    ASSUME IndInv, NEW r \in Requests, Receive(r)
    PROVE  Visible(r)
<1>1. pc[r] = "new" /\ r \notin lost
  BY DEF Receive, At
<1>2. CASE Precheck(r) = "ok"
  <2>1. Goto(r, "begin") /\ UNCHANGED <<tables, reply, lost>>
    BY <1>2 DEF Receive
  <2> QED BY <1>1, <2>1, AdvanceSilent DEF Late
<1>3. CASE Precheck(r) # "ok"
  <2>1. Precheck(r) \in {"key_required", "key_invalid", "bad_request", "invalid_amount",
                         "invalid_currency", "same_account"}
    BY <1>3 DEF Precheck, Validate
  <2>2. Warranted(r, Precheck(r)) /\ Precheck(r) \in Kinds
    BY <2>1, PlainlyWarranted DEF Promise!Refusals
  <2> QED BY <1>1, <1>3, <2>2, RefuseVisible DEF Receive
<1> QED BY <1>2, <1>3

(* replayStoredResponse: there is a response, and it is the key's. *)
LEMMA StoredVisible ==
    ASSUME LedgerInv, NEW r \in Requests, ReplayStoredResponse(r)
    PROVE  Visible(r)
<1>1. pc[r] = "stored" /\ r \notin lost
  BY DEF ReplayStoredResponse, At
<1>2. req[r].key \in Keys /\ keys[req[r].key] # NoRow
  <2>1. Precheck(r) = "ok" /\ keys[req[r].key] # NoRow
    BY <1>1 DEF LedgerInv, IndInv, Admitted, KeysStored, InTx
  <2> QED BY <2>1, AdmittedCommand DEF LedgerInv, IndInv
<1>3. keys[req[r].key].response # NoTx
  BY <1>2, ConstantsAssumption DEF LedgerInv, HistoryInv, KeysNameTheirWriter
<1>4. CASE keys[req[r].key].hash = Hash(r)
  <2>1. StoredKind(r) = "replayed"
    BY <1>3, <1>4 DEF StoredKind
  <2>2. pc'[r] = "done" /\ Answer(r, "replayed", keys[req[r].key].response)
        /\ UNCHANGED <<tables, lost>>
    BY <2>1 DEF ReplayStoredResponse, EndSession, LedgerInv, IndInv, TypeOK
  <2> QED BY <1>1, <1>2, <1>4, <2>2 DEF Visible, Replayed
<1>5. CASE keys[req[r].key].hash # Hash(r)
  <2>1. StoredKind(r) = "key_reuse"
    BY <1>5 DEF StoredKind
  <2>2. Refuse(r, "key_reuse")
    BY <2>1 DEF ReplayStoredResponse
  <2>3. Warranted(r, "key_reuse") /\ "key_reuse" \in Kinds
    BY <1>2, <1>5 DEF Warranted, Promise!Refusals, Kinds
  <2> QED BY <1>1, <2>2, <2>3, RefuseVisible DEF LedgerInv
<1> QED BY <1>4, <1>5

(* The promise and the store mean the same by one currency. *)
LEMMA OneCurrencyAgrees ==
    ASSUME TypeOK, NEW r \in Requests, Precheck(r) = "ok"
    PROVE  Promise!OneCurrency(r) <=> CurrenciesAgree(r)
<1>1. Ids(r) \subseteq AccountIds
  BY AdmittedCommand
<1> QED BY <1>1 DEF Promise!OneCurrency, Promise!Transfer, CurrenciesAgree, Ids, Cmd

(* The checks on the locked rows: a refusal for want of funds is right about
   the balance as it is now. *)
LEMMA CheckVisible ==
    ASSUME IndInv, NEW r \in Requests, CheckAccounts(r)
    PROVE  Visible(r)
<1>1. pc[r] = "lock" /\ r \notin lost
  BY DEF CheckAccounts, At
<1>2. CASE AccountsVerdict(r) = "ok"
  <2>1. Goto(r, "insert") /\ UNCHANGED <<tables, reply, lost>> /\ CurrenciesAgree(r)
    BY <1>2 DEF CheckAccounts, AccountsVerdict
  <2> QED BY <1>1, <2>1, AdvanceSilent
<1>3. CASE AccountsVerdict(r) = "insufficient_funds"
  <2>1. Cmd(r).credit \in held[r] /\ ~Covered(r)
    BY <1>3 DEF AccountsVerdict, Ids
  <2>2. seen[r] = balance[Cmd(r).credit]
    BY <1>1, <2>1 DEF IndInv, SeenIsCurrent
  <2>3. Precheck(r) = "ok"
    BY <1>1 DEF IndInv, Admitted, InTx, OwningKey
  <2>4. Cmd(r).credit \in AccountIds /\ Cmd(r).amount \in Int /\ balance[Cmd(r).credit] \in Int
    BY <2>3, AdmittedCommand DEF IndInv, TypeOK
  <2>5. ~Profile[Cmd(r).credit].allowNegative /\ balance[Cmd(r).credit] < Cmd(r).amount
    BY <2>1, <2>2, <2>4 DEF Covered
  <2>6. ~Promise!Covered(r)
    BY <2>4, <2>5 DEF Promise!Covered, Promise!Transfer, Cmd
  <2>7. Warranted(r, "insufficient_funds") /\ "insufficient_funds" \in Kinds
    BY <2>5, <2>6 DEF Warranted, Promise!Refusals, Kinds
  <2> QED BY <1>1, <1>3, <2>7, RefuseVisible DEF CheckAccounts
<1>4. CASE AccountsVerdict(r) = "account_not_found"
  <2>1. ~(Ids(r) \subseteq held[r]) /\ todo[r] = {}
    BY <1>4 DEF CheckAccounts, AccountsVerdict
  <2>2. Warranted(r, "account_not_found") /\ "account_not_found" \in Kinds
    BY <1>1, <2>1 DEF Warranted, Promise!Refusals, Kinds
  <2> QED BY <1>1, <1>4, <2>2, RefuseVisible DEF CheckAccounts
<1>5. CASE AccountsVerdict(r) = "currency_mismatch"
  <2>1. ~CurrenciesAgree(r) /\ Precheck(r) = "ok"
    BY <1>1, <1>5 DEF AccountsVerdict, IndInv, Admitted, InTx, OwningKey
  <2>2. Warranted(r, "currency_mismatch") /\ "currency_mismatch" \in Kinds
    BY <2>1, OneCurrencyAgrees DEF IndInv, Warranted, Promise!Refusals, Kinds
  <2> QED BY <1>1, <1>5, <2>2, RefuseVisible DEF CheckAccounts
<1> QED BY <1>2, <1>3, <1>4, <1>5 DEF AccountsVerdict

(* The statements after the checks. *)
LEMMA WriteVisible ==
    ASSUME IndInv, NEW r \in Requests, WriteTransaction(r) \/ ApplyBalances(r)
    PROVE  Visible(r)
<1>1. CASE WriteTransaction(r) /\ RefTaken(r)
  <2>1. Warranted(r, "duplicate_ref") /\ "duplicate_ref" \in Kinds
    BY <1>1 DEF Warranted, Promise!Refusals, Kinds
  <2> QED BY <1>1, <2>1, RefuseVisible DEF WriteTransaction, At
<1>2. CASE WriteTransaction(r) /\ ~RefTaken(r)
  <2>1. pc[r] = "insert" /\ Goto(r, "apply") /\ UNCHANGED <<tables, reply, lost>>
    BY <1>2 DEF WriteTransaction, At
  <2> QED BY <2>1, AdvanceSilent DEF Late
<1>3. CASE ApplyBalances(r)
  <2>1. pc[r] = "apply" /\ r \notin lost /\ \A a \in Ids(r) : FloorHolds(a, NewBalance(r, a))
    BY <1>3, FloorSafe DEF ApplyBalances, At
  <2>2. CASE Refuse(r, "internal")
    <3>1. Warranted(r, "internal") /\ "internal" \in Kinds
      BY PlainlyWarranted
    <3> QED BY <2>1, <2>2, <3>1, RefuseVisible
  <2>3. CASE Goto(r, "commit") /\ UNCHANGED <<tables, reply, lost>>
    BY <2>1, <2>3, AdvanceSilent DEF Late
  <2> QED BY <1>3, <2>1, <2>2, <2>3 DEF ApplyBalances
<1> QED BY <1>1, <1>2, <1>3

(* COMMIT. *)
LEMMA CommitVisible ==
    ASSUME IndInv, NEW r \in Requests, Commit(r)
    PROVE  Visible(r)
<1>1. pc[r] = "commit" /\ r \notin lost
  BY DEF Commit, At
<1>2. CASE TriggerAccepts(Legs(r))
  <2>1. Publish(r) /\ EndSession(r) /\ Answer(r, "created", r) /\ UNCHANGED lost
    BY <1>2 DEF Commit, Asserted, TriggerAccepts
  <2>2. pc'[r] = "done"
    BY <2>1 DEF EndSession, IndInv, TypeOK
  <2> QED BY <1>1, <1>2, <2>1, <2>2 DEF Visible, Posts, Committed
<1>3. CASE ~TriggerAccepts(Legs(r))
  <2>1. Warranted(r, "internal") /\ "internal" \in Kinds
    BY PlainlyWarranted
  <2> QED BY <1>1, <1>3, <2>1, RefuseVisible DEF Commit
<1> QED BY <1>2, <1>3

(* All the steps of a request. *)
LEMMA RequestVisible ==
    ASSUME LedgerInv, NEW r \in Requests, Serve(r) \/ Disconnect(r) \/ OrphanEnds(r)
    PROVE  Visible(r) /\ Shape(r)
<1>1. IndInv
  BY DEF LedgerInv
<1>2. Shape(r)
  <2>1. CASE Disconnect(r)
    BY <2>1 DEF Disconnect, Shape, Drops, Speaks, Kinds
  <2>2. CASE OrphanEnds(r)
    BY <2>2 DEF OrphanEnds, OrphanAbort, OrphanCommit, Shape, Ends, Writes, Speaks
  <2> QED BY <1>1, <2>1, <2>2, ServeShape
<1> SUFFICES Visible(r)
  BY <1>2
<1>3. CASE Begin(r)
  BY <1>1, <1>3, AdvanceSilent DEF Begin, At, Late
<1>4. CASE ClaimKey(r)
  BY <1>1, <1>4, AdvanceSilent DEF ClaimKey, At, Late
<1>5. CASE SelectAccounts(r)
  BY <1>1, <1>5, AdvanceSilent DEF SelectAccounts, At, Late
<1>6. ASSUME NEW a \in AccountIds, LockAccount(r, a) PROVE Visible(r)
  BY <1>6 DEF LockAccount, At, Visible, Silent, Late
<1>7. CASE Disconnect(r)
  BY <1>7 DEF Disconnect, At, Visible, CutOff, InTx, OwningKey, sessions
<1>8. CASE OrphanEnds(r)
  <2>1. pc'[r] = "done"
    BY <1>1, <1>8 DEF OrphanEnds, OrphanAbort, OrphanCommit, EndSession, IndInv, TypeOK
  <2> QED BY <1>8, <2>1 DEF OrphanEnds, OrphanAbort, OrphanCommit, Visible, PostsLate, Committed,
                            Abandoned
<1> QED BY <1>1, <1>3, <1>4, <1>5, <1>6, <1>7, <1>8, ReceiveVisible, StoredVisible,
           CheckVisible, WriteVisible, CommitVisible DEF Serve

(* And of the system. *)
LEMMA NextVisible ==
    ASSUME LedgerInv, [Next]_vars
    PROVE  \/ UNCHANGED vars
           \/ \E a \in AccountIds : CreateAccount(a)
           \/ \E r \in Requests : Visible(r) /\ Shape(r)
  BY RequestVisible DEF Next, Finished

-----------------------------------------------------------------------------
(* The steps preserve HistoryInv. *)

(* What belongs to a request does not change. *)
LEMMA RequestsFixed ==
    ASSUME IndInv, NEW r \in Requests, Shape(r), NEW s \in Requests
    PROVE  /\ req' = req
           /\ Cmd(s)' = Cmd(s) /\ Ids(s)' = Ids(s) /\ Hash(s)' = Hash(s) /\ Legs(s)' = Legs(s)
           /\ TransactionRow(s)' = TransactionRow(s)
           /\ TransactionCreated(s)' = TransactionCreated(s)
           /\ StoredResponse(s)' = StoredResponse(s)
           /\ CurrenciesAgree(s)' = CurrenciesAgree(s)
<1>1. req' = req
  BY Frame
<1> QED BY <1>1 DEF Cmd, Ids, Hash, Legs, Leg, TransactionRow, TransactionCreated, StoredResponse,
                    CurrenciesAgree

(* A request whose session is not over has written nothing. *)
LEMMA NotYetWritten ==
    ASSUME IndInv, NEW r \in Requests, pc[r] # "done"
    PROVE  ~Wrote(r)
  BY DEF IndInv, WrittenIsStored, Wrote

(* The tables change by a COMMIT or not at all. *)
LEMMA CommitOrNothing ==
    ASSUME NEW r \in Requests, Visible(r)
    PROVE  UNCHANGED tables \/ Committed(r)
  BY DEF Visible, Silent, Refused, Replayed, Posts, PostsLate, CutOff, Abandoned

(* Nothing but r's own rows is new in the tables after r's COMMIT. *)
LEMMA CommittedTables ==
    ASSUME IndInv, NEW r \in Requests, Committed(r)
    PROVE  /\ transactions' = transactions \cup {TransactionRow(r)} /\ TransactionRow(r).id = r
           /\ entries' = entries \cup Legs(r) /\ \A e \in Legs(r) : e.tx = r
           /\ events' = events \cup {TransactionCreated(r)}
           /\ TransactionCreated(r).aggregate = r /\ TransactionCreated(r).legs = Legs(r)
           /\ req[r].key \in Keys /\ keys[req[r].key] = NoRow
           /\ keys'[req[r].key] = StoredResponse(r)
           /\ StoredResponse(r).response = r /\ StoredResponse(r).hash = Hash(r)
           /\ \A k \in Keys : k # req[r].key => keys'[k] = keys[k]
           /\ StoredResponse(r) # NoRow
           /\ created' = created
           /\ \A s \in Requests : Wrote(s)' <=> Wrote(s) \/ s = r
<1>1. pc[r] = "commit" /\ Publish(r)
  BY DEF Committed
<1>2. req[r].key \in Keys /\ keys[req[r].key] = NoRow
  BY <1>1, PublishedRows DEF IndInv, KeysUnclaimed, OwningKey
<1>3. StoredResponse(r) # NoRow
  BY <1>1, PublishedRows, NoRowAssumption
<1>4. keys'[req[r].key] = StoredResponse(r) /\ \A k \in Keys : k # req[r].key => keys'[k] = keys[k]
  BY <1>1, <1>2 DEF Publish, IndInv, TypeOK
<1>5. TransactionRow(r).id = r /\ transactions' = transactions \cup {TransactionRow(r)}
  BY <1>1 DEF Publish, TransactionRow
<1>6. \A s \in Requests : Wrote(s)' <=> Wrote(s) \/ s = r
  BY <1>5 DEF Wrote
<1>7. /\ entries' = entries \cup Legs(r) /\ events' = events \cup {TransactionCreated(r)}
      /\ created' = created
  BY <1>1 DEF Publish
<1>8. \A e \in Legs(r) : e.tx = r
  BY DEF Legs, Leg
<1>9. TransactionCreated(r).aggregate = r /\ TransactionCreated(r).legs = Legs(r)
  BY DEF TransactionCreated
<1>10. StoredResponse(r).response = r /\ StoredResponse(r).hash = Hash(r)
  BY DEF StoredResponse
<1> QED BY <1>2, <1>3, <1>4, <1>5, <1>6, <1>7, <1>8, <1>9, <1>10

(* A client is answered at the end of its session or of its connection. *)
LEMMA AnsweredStep ==
    ASSUME LedgerInv, NEW r \in Requests, Visible(r), Shape(r)
    PROVE  AnsweredAtTheEnd'
<1> DEFINE Told(s) == /\ reply[s] # NoReply <=> pc[s] = "done" \/ s \in lost
                      /\ s \in lost => reply[s] = [kind |-> "internal", tx |-> NoTx]
<1>1. IndInv /\ \A s \in Requests : Told(s)
  BY DEF LedgerInv, HistoryInv, AnsweredAtTheEnd
<1>2. \A s \in Requests \ {r} : pc'[s] = pc[s]
  BY <1>1, Frame
<1>3. \A s \in Requests \ {r} : (s \in lost' <=> s \in lost) /\ reply'[s] = reply[s]
  BY <1>1 DEF Visible, Silent, Refused, Replayed, Committed, Posts, PostsLate, CutOff, Abandoned,
      Answer, IndInv, TypeOK
<1>4. \A s \in Requests \ {r} : Told(s)'
  BY <1>1, <1>2, <1>3
<1>5. ASSUME NEW kind, NEW tx, Answer(r, kind, tx), kind # "none"
      PROVE  reply'[r] = [kind |-> kind, tx |-> tx] /\ reply'[r] # NoReply
  BY <1>1, <1>5 DEF Answer, NoReply, IndInv, TypeOK
<1>6. Told(r)'
  <2>1. CASE Silent(r)
    BY <1>1, <2>1 DEF Silent
  <2>2. ASSUME NEW kind \in Kinds, Refused(r, kind) PROVE Told(r)'
    <3>1. kind # "none"
      BY DEF Kinds
    <3> QED BY <1>5, <2>2, <3>1 DEF Refused
  <2>3. CASE Replayed(r)
    BY <1>5, <2>3 DEF Replayed
  <2>4. CASE Posts(r)
    BY <1>5, <2>4 DEF Posts, Committed
  <2>5. CASE PostsLate(r)
    BY <1>1, <2>5 DEF PostsLate, Committed
  <2>6. CASE CutOff(r)
    BY <1>5, <2>6 DEF CutOff
  <2>7. CASE Abandoned(r)
    BY <1>1, <2>7 DEF Abandoned
  <2> QED BY <2>1, <2>2, <2>3, <2>4, <2>5, <2>6, <2>7 DEF Visible
<1> QED BY <1>4, <1>6 DEF AnsweredAtTheEnd

(* The row of a key stays the response of the request that wrote it. *)
LEMMA WriterStep ==
    ASSUME LedgerInv, NEW r \in Requests, Visible(r), Shape(r)
    PROVE  KeysNameTheirWriter'
<1>1. IndInv /\ KeysNameTheirWriter
  BY DEF LedgerInv, HistoryInv
<1>2. req' = req /\ \A s \in Requests : StoredResponse(s)' = StoredResponse(s)
  BY <1>1, RequestsFixed
<1>3. CASE UNCHANGED tables
  BY <1>1, <1>2, <1>3 DEF tables, KeysNameTheirWriter, Wrote
<1>4. CASE Committed(r)
  <2> SUFFICES ASSUME NEW k \in Keys, keys'[k] # NoRow
               PROVE  \E w \in Requests : /\ keys'[k].response = w /\ Wrote(w)'
                                          /\ req'[w].key = k /\ keys'[k] = StoredResponse(w)'
    BY DEF KeysNameTheirWriter
  <2>1. CASE k = req[r].key
    BY <1>1, <1>2, <1>4, <2>1, CommittedTables
  <2>2. CASE k # req[r].key
    <3>1. keys'[k] = keys[k]
      BY <1>1, <1>4, <2>2, CommittedTables
    <3>2. PICK w \in Requests : /\ keys[k].response = w /\ Wrote(w)
                               /\ req[w].key = k /\ keys[k] = StoredResponse(w)
      BY <1>1, <3>1 DEF KeysNameTheirWriter
    <3>3. Wrote(w)'
      BY <1>1, <1>4, <3>2, CommittedTables
    <3> QED BY <1>2, <3>1, <3>2, <3>3
  <2> QED BY <2>1, <2>2
<1> QED BY <1>3, <1>4, CommitOrNothing

(* The accounts a COMMIT touches exist, and the currency check was made. *)
LEMMA AccountsStep ==
    ASSUME LedgerInv, NEW r \in Requests, Visible(r), Shape(r)
    PROVE  AccountsValid' /\ UnopenedEmpty' /\ CurrenciesChecked'
<1>1. IndInv /\ AccountsValid /\ UnopenedEmpty /\ CurrenciesChecked
  BY DEF LedgerInv, HistoryInv
<1>2. AccountsValid' /\ UnopenedEmpty'
  <2>1. CASE UNCHANGED tables
    BY <1>1, <2>1 DEF tables, AccountsValid, UnopenedEmpty, ValidAccount, ValidCurrency
  <2>2. CASE Committed(r)
    <3>1. Ids(r) \subseteq created
      BY <1>1, <2>2 DEF Committed, IndInv, RowsInOrder
    <3>2. created' = created
      BY <1>1, <2>2, CommittedTables
    <3>3. \A a \in AccountIds \ created : balance'[a] = balance[a]
      BY <2>2, <3>1 DEF Committed, Publish
    <3> QED BY <1>1, <3>2, <3>3 DEF AccountsValid, UnopenedEmpty, ValidAccount, ValidCurrency
  <2> QED BY <2>1, <2>2, CommitOrNothing
<1>3. CurrenciesChecked'
  <2>1. \A s \in Requests : CurrenciesAgree(s)' = CurrenciesAgree(s)
    BY <1>1, RequestsFixed
  <2>2. \A s \in Requests \ {r} : pc'[s] = pc[s]
    BY <1>1, Frame
  <2>3. pc'[r] \in Late => pc[r] \in Late \/ CurrenciesAgree(r)
    BY DEF Visible, Silent, Refused, Replayed, Posts, PostsLate, Committed, CutOff, Abandoned, Late
  <2> QED BY <1>1, <2>1, <2>2, <2>3 DEF CurrenciesChecked, Late
<1> QED BY <1>2, <1>3

(* A COMMIT brings all of its rows, and they stay together. *)
LEMMA AllOrNothingStep ==
    ASSUME LedgerInv, NEW r \in Requests, Visible(r), Shape(r), KeysNameTheirWriter'
    PROVE  AllOrNothing' /\ PostingsBalance'
<1> DEFINE Whole(t) ==
      /\ t = TransactionRow(t.id)
      /\ {e \in entries : e.tx = t.id} = Legs(t.id)
      /\ TransactionCreated(t.id) \in events
      /\ keys[req[t.id].key] = StoredResponse(t.id)
<1>1. IndInv /\ AllOrNothing /\ PostingsBalance
  BY DEF LedgerInv, HistoryInv
<1>2. req' = req /\ \A s \in Requests :
        /\ StoredResponse(s)' = StoredResponse(s) /\ TransactionRow(s)' = TransactionRow(s)
        /\ Legs(s)' = Legs(s) /\ TransactionCreated(s)' = TransactionCreated(s)
  BY <1>1, RequestsFixed
<1>3. /\ \A t \in transactions : t.id \in Requests
      /\ \A e \in entries : e.tx \in Requests
      /\ \A v \in events : v.aggregate \in Requests
  BY <1>1 DEF IndInv, TypeOK, TransactionRows, EntryRows, EventRows
<1>4. \A k \in Keys : keys'[k] # NoRow => keys'[k].response # NoTx /\ Wrote(keys[k].response)'
  BY ConstantsAssumption DEF KeysNameTheirWriter
<1>5. CASE UNCHANGED tables
  <2>1. \A t \in transactions : Whole(t)
    BY <1>1 DEF AllOrNothing
  <2>2. \A t \in transactions' : Whole(t)'
    BY <1>2, <1>3, <1>5, <2>1 DEF tables
  <2>3. PostingsBalance'
    BY <1>1, <1>2, <1>3, <1>5 DEF PostingsBalance, tables
  <2>4. /\ \A e \in entries' : Wrote(e.tx)'
        /\ \A v \in events' : Wrote(v.aggregate)' /\ v.legs = Legs(v.aggregate)'
    BY <1>1, <1>2, <1>3, <1>5 DEF AllOrNothing, Wrote, tables
  <2> QED BY <1>4, <2>2, <2>3, <2>4 DEF AllOrNothing
<1>6. CASE Committed(r)
  <2>1. ~Wrote(r)
    BY <1>1, <1>6, NotYetWritten DEF Committed
  <2>2. /\ transactions' = transactions \cup {TransactionRow(r)} /\ TransactionRow(r).id = r
        /\ entries' = entries \cup Legs(r) /\ \A e \in Legs(r) : e.tx = r
        /\ events' = events \cup {TransactionCreated(r)}
        /\ TransactionCreated(r).aggregate = r /\ TransactionCreated(r).legs = Legs(r)
        /\ \A s \in Requests : Wrote(s)' <=> Wrote(s) \/ s = r
    BY <1>1, <1>6, CommittedTables
  <2>3. ASSUME NEW t \in transactions PROVE Whole(t)'
    <3>1. Whole(t) /\ t.id \in Requests /\ t.id # r
      BY <1>1, <1>3, <2>1 DEF AllOrNothing, Wrote
    <3>2. {e \in entries' : e.tx = t.id} = {e \in entries : e.tx = t.id}
      BY <2>2, <3>1
    <3>3. keys'[req[t.id].key] = keys[req[t.id].key]
      <4>1. req[t.id].key \in Keys /\ keys[req[t.id].key] # NoRow
        <5>1. StoredResponse(t.id) \in KeyRows
          <6>1. Hash(t.id) \in Hashes
            BY <1>1, <3>1, ConstantsAssumption DEF IndInv, TypeOK, Hash
          <6> QED BY <3>1, <6>1 DEF StoredResponse, KeyRows
        <5> QED BY <1>1, <3>1, <5>1, NoRowAssumption DEF IndInv, WrittenIsStored
      <4> QED BY <1>1, <1>6, <4>1, CommittedTables
    <3> QED BY <1>2, <2>2, <3>1, <3>2, <3>3
  <2>4. Whole(TransactionRow(r))'
    <3>1. {e \in entries' : e.tx = r} = Legs(r)
      BY <1>1, <2>1, <2>2 DEF AllOrNothing
    <3>2. keys'[req[r].key] = StoredResponse(r)
      BY <1>1, <1>6, CommittedTables
    <3>3. TransactionRow(r)' = TransactionRow(r) /\ TransactionRow(r).id = r
      BY <1>2, <2>2
    <3> QED BY <1>2, <2>2, <3>1, <3>2, <3>3
  <2>5. \A t \in transactions' : Whole(t)'
    BY <1>2, <2>2, <2>3, <2>4
  <2>6. \A e \in entries' : Wrote(e.tx)'
    BY <1>1, <1>3, <2>2 DEF AllOrNothing
  <2>7. \A v \in events' : Wrote(v.aggregate)' /\ v.legs = Legs(v.aggregate)'
    BY <1>1, <1>2, <1>3, <2>2 DEF AllOrNothing
  <2>8. PostingsBalance'
    <3>1. TriggerAccepts(Legs(r))
      BY <1>6 DEF Committed
    <3> QED BY <1>1, <1>2, <1>3, <2>2, <3>1 DEF PostingsBalance
  <2> QED BY <1>4, <2>5, <2>6, <2>7, <2>8 DEF AllOrNothing
<1> QED BY <1>5, <1>6, CommitOrNothing

(* What is posted obeys the rules that were checked before. *)
LEMMA LawfulStep ==
    ASSUME LedgerInv, NEW r \in Requests, Visible(r), Shape(r)
    PROVE  PostedLawfully'
<1>1. IndInv /\ PostedLawfully /\ AccountsValid /\ CurrenciesChecked
  BY DEF LedgerInv, HistoryInv
<1>2. \A s \in Requests : Cmd(s)' = Cmd(s) /\ Ids(s)' = Ids(s)
  BY <1>1, RequestsFixed
<1>3. \A t \in transactions : t.id \in Requests
  BY <1>1 DEF IndInv, TypeOK, TransactionRows
<1>4. CASE UNCHANGED tables
  BY <1>1, <1>2, <1>3, <1>4 DEF PostedLawfully, tables, ValidAccount, ValidCurrency, Validate
<1>5. CASE Committed(r)
  <2>1. pc[r] = "commit" /\ Precheck(r) = "ok"
    BY <1>1, <1>5 DEF Committed, IndInv, Admitted, InTx, OwningKey
  <2>2. Validate(Cmd(r)) = "ok"
    BY <2>1 DEF Precheck
  <2>3. Ids(r) \subseteq created /\ CurrenciesAgree(r)
    BY <1>1, <2>1 DEF IndInv, RowsInOrder, CurrenciesChecked
  <2>4. \A a \in Ids(r) : /\ a \in created /\ ValidAccount(Profile[a])
                          /\ Profile[a].currency = TransactionRow(r).currency
    BY <1>1, <2>3 DEF AccountsValid, CurrenciesAgree, TransactionRow
  <2>5. /\ transactions' = transactions \cup {TransactionRow(r)} /\ TransactionRow(r).id = r
        /\ created' = created
    BY <1>1, <1>5, CommittedTables
  <2> QED BY <1>1, <1>2, <1>3, <2>2, <2>4, <2>5
          DEF PostedLawfully, ValidAccount, ValidCurrency, Validate
<1> QED BY <1>4, <1>5, CommitOrNothing

(* A 201 is said of what is committed only; a broken connection is a 500. *)
LEMMA StatusCodes ==
    /\ Status("created") = 201 /\ Status("replayed") = 201 /\ Status("internal") = 500
    /\ \A kind \in Promise!Refusals \cup {"internal"} : Status(kind) # 201
  BY DEF Status, Promise!Refusals

(* Only r is told anything by a step of r. *)
LEMMA OthersUntold ==
    ASSUME IndInv, NEW r \in Requests, Visible(r), NEW s \in Requests, s # r
    PROVE  reply'[s] = reply[s]
  BY DEF Visible, Silent, Refused, Replayed, Committed, Posts, PostsLate, CutOff, Abandoned,
         Answer, IndInv, TypeOK

(* What a client is told is true when it is said and stays true. *)
LEMMA HonestStep ==
    ASSUME LedgerInv, NEW r \in Requests, Visible(r), Shape(r)
    PROVE  AnswerHonest'
<1> DEFINE Honest(s) ==
      /\ Status(reply[s].kind) = 201 =>
            /\ Wrote(reply[s].tx)
            /\ req[reply[s].tx].key = req[s].key
            /\ Hash(reply[s].tx) = Hash(s)
            /\ reply[s].kind = "created" <=> reply[s].tx = s
      /\ Status(reply[s].kind) \in 400..499 => ~Wrote(s) /\ pc[s] = "done"
<1>1. IndInv /\ \A s \in Requests : Honest(s)
  BY DEF LedgerInv, HistoryInv, AnswerHonest
<1>2. req' = req
  BY <1>1, RequestsFixed
<1>3. /\ transactions \subseteq transactions'
      /\ \A s \in Requests \ {r} : Wrote(s)' <=> Wrote(s)
  BY <1>1, CommitOrNothing, CommittedTables DEF tables, Wrote
<1>4. \A s \in Requests \ {r} : reply'[s] = reply[s] /\ pc'[s] = pc[s]
  BY <1>1, OthersUntold, Frame
<1>5. ASSUME NEW s \in Requests, reply'[s] = reply[s], Status(reply[s].kind) = 201
      PROVE  /\ Wrote(reply[s].tx)'
             /\ req'[reply'[s].tx].key = req'[s].key
             /\ Hash(reply[s].tx)' = Hash(s)'
             /\ reply'[s].kind = "created" <=> reply'[s].tx = s
  BY <1>1, <1>2, <1>3, <1>5 DEF Wrote, Hash
<1>6. ASSUME NEW s \in Requests \ {r} PROVE Honest(s)'
  <2>1. Status(reply'[s].kind) \in 400..499 => ~Wrote(s)' /\ pc'[s] = "done"
    BY <1>1, <1>3, <1>4
  <2> QED BY <1>4, <1>5, <2>1
<1> SUFFICES Honest(r)'
  BY <1>6 DEF AnswerHonest
<1>7. ASSUME reply'[r] = reply[r], pc[r] # "done" PROVE Honest(r)'
  <2>1. ~(Status(reply[r].kind) \in 400..499)
    BY <1>1, <1>7
  <2> QED BY <1>5, <1>7, <2>1
<1>8. ASSUME NEW kind, NEW tx, Answer(r, kind, tx)
      PROVE  reply'[r].kind = kind /\ reply'[r].tx = tx
  BY <1>1, <1>8 DEF Answer, IndInv, TypeOK
<1>9. CASE Silent(r) \/ PostsLate(r) \/ Abandoned(r)
  BY <1>7, <1>9 DEF Silent, PostsLate, Committed, Abandoned
<1>10. ASSUME NEW kind \in Kinds, Refused(r, kind) PROVE Honest(r)'
  <2>1. ~Wrote(r)' /\ pc'[r] = "done"
    BY <1>1, <1>10, NotYetWritten DEF Refused, tables, Wrote
  <2>2. reply'[r].kind = kind /\ Status(kind) # 201
    BY <1>8, <1>10, StatusCodes DEF Refused, Warranted
  <2> QED BY <2>1, <2>2
<1>11. CASE Replayed(r)
  <2>1. PICK w \in Requests : /\ keys[req[r].key].response = w /\ Wrote(w)
                             /\ req[w].key = req[r].key /\ keys[req[r].key] = StoredResponse(w)
    BY <1>11 DEF Replayed, LedgerInv, HistoryInv, KeysNameTheirWriter
  <2>2. Hash(w) = Hash(r)
    BY <1>11, <2>1 DEF Replayed, StoredResponse
  <2>3. w # r
    BY <1>1, <1>11, <2>1, NotYetWritten DEF Replayed
  <2>4. reply'[r].kind = "replayed" /\ reply'[r].tx = w
    BY <1>8, <1>11, <2>1 DEF Replayed
  <2>5. Wrote(w)' /\ Hash(w)' = Hash(r)'
    BY <1>2, <1>3, <2>1, <2>2 DEF Wrote, Hash
  <2>6. Status(reply'[r].kind) = 201
    BY <2>4, StatusCodes
  <2> QED BY <1>2, <2>1, <2>3, <2>4, <2>5, <2>6
<1>12. CASE Posts(r)
  <2>1. reply'[r].kind = "created" /\ reply'[r].tx = r
    BY <1>8, <1>12 DEF Posts
  <2>2. Wrote(r)'
    BY <1>1, <1>12, CommittedTables DEF Posts
  <2>3. Status(reply'[r].kind) = 201
    BY <2>1, StatusCodes
  <2> QED BY <2>1, <2>2, <2>3
<1>13. CASE CutOff(r)
  <2>1. reply'[r].kind = "internal"
    BY <1>8, <1>13 DEF CutOff
  <2>2. Status(reply'[r].kind) = 500
    BY <2>1, StatusCodes
  <2> QED BY <2>2
<1> QED BY <1>9, <1>10, <1>11, <1>12, <1>13 DEF Visible

-----------------------------------------------------------------------------
(* The empty ledger, new accounts and stuttering. *)
LEMMA HistoryInit ==
    ASSUME Init PROVE HistoryInv
<1> USE DEF Init
<1>1. AnsweredAtTheEnd /\ KeysNameTheirWriter
  BY DEF AnsweredAtTheEnd, KeysNameTheirWriter
<1>2. AccountsValid /\ UnopenedEmpty /\ CurrenciesChecked
  BY OpenedAssumption DEF AccountsValid, UnopenedEmpty, CurrenciesChecked
<1>3. PostingsBalance /\ PostedLawfully /\ AllOrNothing
  BY DEF PostingsBalance, PostedLawfully, AllOrNothing
<1>4. AnswerHonest
  <2>1. Status("none") = 500
    BY DEF Status
  <2>2. \A r \in Requests : Status(reply[r].kind) = 500
    BY <2>1 DEF NoReply
  <2> QED BY <2>2 DEF AnswerHonest
<1> QED BY <1>1, <1>2, <1>3, <1>4 DEF HistoryInv

(* A new account is valid and empty, and nothing else changes. *)
LEMMA HistoryCreate ==
    ASSUME LedgerInv, NEW a \in AccountIds, CreateAccount(a)
    PROVE  HistoryInv' /\ balance' = balance
<1>1. /\ created' = created \cup {a} /\ a \notin created /\ ValidAccount(Profile[a])
      /\ balance' = [balance EXCEPT ![a] = 0]
      /\ UNCHANGED <<transactions, entries, events, keys, req, pc, todo, held, seen, reply, lost>>
  BY DEF CreateAccount, sessions
<1>2. balance' = balance
  BY <1>1 DEF LedgerInv, IndInv, TypeOK, HistoryInv, UnopenedEmpty
<1>3. AnsweredAtTheEnd' /\ KeysNameTheirWriter'
  BY <1>1 DEF LedgerInv, HistoryInv, AnsweredAtTheEnd, KeysNameTheirWriter, Wrote, StoredResponse, Hash
<1>4. AccountsValid' /\ UnopenedEmpty'
  BY <1>1, <1>2 DEF LedgerInv, HistoryInv, AccountsValid, UnopenedEmpty, ValidAccount, ValidCurrency
<1>5. CurrenciesChecked'
  BY <1>1 DEF LedgerInv, HistoryInv, CurrenciesChecked, CurrenciesAgree, Ids, Cmd
<1>6. PostingsBalance'
  BY <1>1 DEF LedgerInv, HistoryInv, PostingsBalance, Legs, Leg, Cmd
<1>7. AllOrNothing'
  BY <1>1 DEF LedgerInv, HistoryInv, AllOrNothing, TransactionRow, TransactionCreated, StoredResponse,
              Hash, Legs, Leg, Cmd, Wrote
<1>8. AnswerHonest'
  BY <1>1 DEF LedgerInv, HistoryInv, AnswerHonest, Wrote, Hash
<1>9. PostedLawfully'
  <2>1. transactions' = transactions /\ req' = req /\ created \subseteq created'
    BY <1>1
  <2>2. PostedLawfully
    BY DEF LedgerInv, HistoryInv
  <2> QED BY <2>1, <2>2, ZenonT(30) DEF PostedLawfully, Ids, Cmd, ValidAccount, ValidCurrency, Validate
<1> QED BY <1>2, <1>3, <1>4, <1>5, <1>6, <1>7, <1>8, <1>9 DEF HistoryInv

(* A step that changes nothing keeps all of it. *)
LEMMA HistoryStutter ==
    ASSUME HistoryInv, UNCHANGED vars
    PROVE  HistoryInv'
<1>1. UNCHANGED <<created, balance, transactions, entries, events, keys, req, pc, reply, lost>>
  BY DEF vars, tables, sessions
<1>2. AnsweredAtTheEnd' /\ KeysNameTheirWriter'
  BY <1>1 DEF HistoryInv, AnsweredAtTheEnd, KeysNameTheirWriter, Wrote, StoredResponse, Hash
<1>3. AccountsValid' /\ UnopenedEmpty' /\ CurrenciesChecked' /\ PostingsBalance'
  BY <1>1 DEF HistoryInv, AccountsValid, UnopenedEmpty, ValidAccount, ValidCurrency,
              CurrenciesChecked, CurrenciesAgree, PostingsBalance, Legs, Leg, Ids, Cmd
<1>4. AllOrNothing'
  BY <1>1 DEF HistoryInv, AllOrNothing, TransactionRow, TransactionCreated, StoredResponse,
              Hash, Legs, Leg, Cmd, Wrote
<1>5. AnswerHonest'
  BY <1>1 DEF HistoryInv, AnswerHonest, Wrote, Hash
<1>6. PostedLawfully'
  BY <1>1 DEF HistoryInv, PostedLawfully, Ids, Cmd, ValidAccount, ValidCurrency, Validate
<1> QED BY <1>2, <1>3, <1>4, <1>5, <1>6 DEF HistoryInv

(* LedgerInv is inductive. *)
LEMMA LedgerInductive ==
    ASSUME LedgerInv, [Next]_vars
    PROVE  LedgerInv'
<1>1. IndInv'
  BY NextPreserves DEF LedgerInv
<1>2. ASSUME NEW r \in Requests, Visible(r), Shape(r) PROVE HistoryInv'
  BY <1>2, AnsweredStep, WriterStep, AccountsStep, AllOrNothingStep, LawfulStep, HonestStep
     DEF HistoryInv
<1>3. HistoryInv'
  BY <1>2, NextVisible, HistoryCreate, HistoryStutter DEF LedgerInv
<1> QED BY <1>1, <1>3 DEF LedgerInv

-----------------------------------------------------------------------------
(* The theorems. *)

(* Sessions, tables and answers agree in every reachable state. *)
THEOREM LedgerInvariance == Spec => []LedgerInv
<1>1. Init => LedgerInv
  BY InitHolds, HistoryInit DEF LedgerInv
<1> QED BY <1>1, LedgerInductive, PTL DEF Spec

(* The transaction, its legs, its event and the stored response of its key are
   there together or not at all (Store.Transfer commits them at once). *)
THEOREM CommitsWhole == Spec => []AllOrNothing
<1>1. LedgerInv => AllOrNothing
  BY DEF LedgerInv, HistoryInv
<1> QED BY <1>1, LedgerInvariance, PTL

(* A 201 names a committed transaction of the same key and fingerprint; a 4xx
   moved nothing and never will (replayStoredResponse, writeError). *)
THEOREM AnswersTrue == Spec => []AnswerHonest
<1>1. LedgerInv => AnswerHonest
  BY DEF LedgerInv, HistoryInv
<1> QED BY <1>1, LedgerInvariance, PTL

(* Every committed transaction passed TransferCommand.Validate and moves money
   between two existing, valid accounts of its currency. *)
THEOREM PostingsLawful == Spec => []PostedLawfully
<1>1. LedgerInv => PostedLawfully
  BY DEF LedgerInv, HistoryInv
<1> QED BY <1>1, LedgerInvariance, PTL

(* Whoever has been answered is not answered again. *)
LEMMA AnswerStands ==
    ASSUME LedgerInv, NEW r \in Requests, Visible(r), NEW s \in Requests, reply[s] # NoReply
    PROVE  reply'[s] = reply[s]
<1>1. IndInv /\ (pc[s] = "done" \/ s \in lost)
  BY DEF LedgerInv, HistoryInv, AnsweredAtTheEnd
<1>2. CASE s # r
  BY <1>1, <1>2, OthersUntold
<1>3. CASE s = r
  BY <1>1, <1>3 DEF Visible, Silent, Refused, Replayed, Committed, Posts, PostsLate, CutOff, Abandoned
<1> QED BY <1>2, <1>3

(* Nothing committed is changed or removed, and an answer stands. *)
THEOREM HistoryFixed == Spec => HistoryIsAppendOnly
<1> DEFINE Grows ==
      /\ transactions \subseteq transactions'
      /\ entries \subseteq entries'
      /\ events \subseteq events'
      /\ \A k \in Keys : keys[k] # NoRow => keys'[k] = keys[k]
      /\ \A r \in Requests : reply[r] # NoReply => reply'[r] = reply[r]
<1>1. ASSUME LedgerInv, [Next]_vars PROVE [Grows]_vars
  <2>1. ASSUME NEW a \in AccountIds, CreateAccount(a) PROVE Grows
    BY <2>1 DEF CreateAccount
  <2>2. ASSUME NEW r \in Requests, Visible(r) PROVE Grows
    <3>1. \A s \in Requests : reply[s] # NoReply => reply'[s] = reply[s]
      BY <1>1, <2>2, AnswerStands
    <3>2. CASE UNCHANGED tables
      BY <3>1, <3>2 DEF tables
    <3>3. CASE Committed(r)
      BY <1>1, <3>1, <3>3, CommittedTables DEF LedgerInv
    <3> QED BY <2>2, <3>2, <3>3, CommitOrNothing
  <2> QED BY <1>1, <2>1, <2>2, NextVisible
<1> QED BY <1>1, LedgerInvariance, PTL DEF Spec, HistoryIsAppendOnly

(* A refusal for want of funds is right about the balance at the moment it is
   made (Transfer's check under FOR UPDATE). *)
THEOREM FundsRefusedRightly == Spec => RefusalsAreCurrent
<1> DEFINE Current ==
      \A r \in Requests :
        reply[r] = NoReply /\ reply'[r].kind = "insufficient_funds"
            => balance[Cmd(r).credit] < Cmd(r).amount
<1>1. ASSUME LedgerInv, [Next]_vars PROVE [Current]_vars
  <2>1. IndInv /\ NoReply.kind # "insufficient_funds"
    BY <1>1 DEF LedgerInv, NoReply
  <2>2. ASSUME NEW a \in AccountIds, CreateAccount(a) PROVE Current
    BY <2>1, <2>2 DEF CreateAccount
  <2>3. ASSUME NEW r \in Requests, Visible(r) PROVE Current
    <3> SUFFICES ASSUME NEW s \in Requests, reply[s] = NoReply, reply'[s].kind = "insufficient_funds"
                 PROVE  balance[Cmd(s).credit] < Cmd(s).amount
      OBVIOUS
    <3>1. s = r /\ reply'[r] # reply[r]
      BY <2>1, <2>3, OthersUntold
    <3>2. ASSUME NEW kind, NEW tx, Answer(r, kind, tx) PROVE reply'[r].kind = kind
      BY <2>1, <3>2 DEF Answer, IndInv, TypeOK
    <3>3. PICK kind \in Kinds : Refused(r, kind)
      BY <2>3, <3>1, <3>2 DEF Visible, Silent, Replayed, Posts, PostsLate, CutOff, Abandoned
    <3>4. kind = "insufficient_funds"
      BY <3>1, <3>2, <3>3 DEF Refused
    <3> QED BY <3>1, <3>3, <3>4 DEF Refused, Warranted
  <2> QED BY <1>1, <2>2, <2>3, NextVisible
<1> QED BY <1>1, LedgerInvariance, PTL DEF Spec, RefusalsAreCurrent

(* The accounts a transfer names are there, and its SELECT has not missed one
   of them. *)
Known(r) ==
    /\ Precheck(r) = "ok" /\ Ids(r) \subseteq created
    /\ pc[r] = "lock" => Ids(r) \subseteq held[r] \cup todo[r]
    /\ reply[r].kind # "account_not_found"

(* The rows that a session has locked or has yet to lock stay the ones its
   SELECT matched. *)
LEMMA MatchedStep ==
    ASSUME IndInv, NEW r \in Requests, Shape(r), Known(r)
    PROVE  pc'[r] = "lock" => Ids(r) \subseteq held'[r] \cup todo'[r]
<1> USE DEF IndInv, TypeOK, Known
<1>1. ASSUME NEW from, NEW to, to # "lock", Advances(r, from, to) PROVE pc'[r] # "lock"
  BY <1>1 DEF Advances, Goto
<1>2. CASE SelectAccounts(r)
  BY <1>2 DEF SelectAccounts
<1>3. ASSUME NEW a \in AccountIds, LockAccount(r, a)
      PROVE  Ids(r) \subseteq held'[r] \cup todo'[r]
  <2>1. pc[r] = "lock" /\ held'[r] = held[r] \cup {a} /\ todo'[r] = todo[r] \ {a}
    BY <1>3 DEF LockAccount, At
  <2> QED BY <2>1
<1>4. CASE Ends(r) \/ Writes(r)
  BY <1>4 DEF Ends, Writes, EndSession
<1>5. CASE Drops(r)
  BY <1>5 DEF Drops, sessions
<1> QED BY <1>1, <1>2, <1>3, <1>4, <1>5 DEF Shape

(* Once a transfer's accounts are known they stay so. *)
LEMMA KnownStep ==
    ASSUME LedgerInv, [Next]_vars, NEW s \in Requests, Known(s)
    PROVE  Known(s)'
<1>1. IndInv
  BY DEF LedgerInv
<1>2. CASE UNCHANGED vars
  BY <1>2 DEF vars, tables, sessions, Known, Precheck, Cmd, Ids
<1>3. ASSUME NEW a \in AccountIds, CreateAccount(a) PROVE Known(s)'
  BY <1>3 DEF CreateAccount, sessions, Known, Precheck, Cmd, Ids
<1>4. ASSUME NEW r \in Requests, Shape(r)
      PROVE  /\ Precheck(s)' = "ok" /\ Ids(s)' \subseteq created'
             /\ pc'[s] = "lock" => Ids(s)' \subseteq held'[s] \cup todo'[s]
  <2>1. created' = created /\ Precheck(s)' = "ok" /\ Ids(s)' = Ids(s) /\ Ids(s) \subseteq created
    BY <1>1, <1>4, Frame, TablesStep DEF tables, Known
  <2>2. pc'[s] = "lock" => Ids(s) \subseteq held'[s] \cup todo'[s]
    BY <1>1, <1>4, Frame, MatchedStep DEF Known
  <2> QED BY <2>1, <2>2
<1>5. ASSUME NEW r \in Requests, Visible(r) PROVE reply'[s].kind # "account_not_found"
  <2>1. CASE s # r
    BY <1>1, <1>5, <2>1, OthersUntold DEF Known
  <2>2. CASE s = r
    <3>1. ASSUME NEW kind, NEW tx, Answer(r, kind, tx) PROVE reply'[r].kind = kind
      BY <1>1, <3>1 DEF Answer, IndInv, TypeOK
    <3>2. ASSUME NEW kind \in Kinds, Refused(r, kind) PROVE kind # "account_not_found"
      BY <2>2, <3>2 DEF Refused, Warranted, Known
    <3> QED BY <1>5, <2>2, <3>1, <3>2
          DEF Visible, Silent, Refused, Replayed, Posts, PostsLate, CutOff, Abandoned, Known
  <2> QED BY <2>1, <2>2
<1>6. \/ UNCHANGED vars
      \/ \E a \in AccountIds : CreateAccount(a)
      \/ \E r \in Requests : Shape(r)
  BY <1>1, NextShape
<1>7. \/ UNCHANGED vars
      \/ \E a \in AccountIds : CreateAccount(a)
      \/ \E r \in Requests : Visible(r)
  BY NextVisible
<1> QED BY <1>2, <1>3, <1>4, <1>5, <1>6, <1>7 DEF Known

(* A transfer whose accounts exist when its SELECT starts is never refused as
   one without (lockAccounts), however many sessions hold their rows. *)
THEOREM AccountsFound == Spec => KnownAccountsFound
<1> SUFFICES ASSUME NEW r \in Requests
             PROVE  Spec => [](/\ pc[r] \in {"new", "begin", "claim", "select"}
                               /\ Precheck(r) = "ok" /\ Ids(r) \subseteq created
                               => [](reply[r].kind # "account_not_found"))
  BY DEF KnownAccountsFound
<1>1. /\ LedgerInv /\ pc[r] \in {"new", "begin", "claim", "select"}
      /\ Precheck(r) = "ok" /\ Ids(r) \subseteq created
      => Known(r)
  <2> SUFFICES ASSUME LedgerInv, pc[r] \in {"new", "begin", "claim", "select"},
                      Precheck(r) = "ok", Ids(r) \subseteq created
               PROVE  Known(r)
    OBVIOUS
  <2>1. reply[r] = NoReply \/ reply[r] = [kind |-> "internal", tx |-> NoTx]
    BY DEF LedgerInv, HistoryInv, AnsweredAtTheEnd
  <2>2. reply[r].kind # "account_not_found"
    BY <2>1 DEF NoReply
  <2> QED BY <2>2 DEF Known
<1>2. LedgerInv /\ Known(r) /\ [Next]_vars => Known(r)'
  BY KnownStep
<1>3. Known(r) => reply[r].kind # "account_not_found"
  BY DEF Known
<1> QED BY <1>1, <1>2, <1>3, LedgerInvariance, PTL DEF Spec

-----------------------------------------------------------------------------
(* Store.Transfer implements ExactlyOnce. *)

(* The empty store is the empty service. *)
LEMMA PromiseInit ==
    ASSUME Init PROVE Promise!Init
<1>1. Posted = [k \in Keys |-> NoTx]
  BY DEF Init, Posted
<1> QED BY <1>1 DEF Init, Promise!Init, Promise!Unanswered, NoReply

(* A request that has no answer yet has none in the service. *)
LEMMA Unanswered ==
    ASSUME LedgerInv, NEW r \in Requests, pc[r] # "done", r \notin lost
    PROVE  reply[r] = Promise!Unanswered
  BY DEF LedgerInv, HistoryInv, AnsweredAtTheEnd, Promise!Unanswered, NoReply

(* The key of a stored response is posted, by the request it names. *)
LEMMA PostedBy ==
    ASSUME LedgerInv, NEW k \in Keys, keys[k] # NoRow
    PROVE  /\ Posted[k] \in Requests /\ Posted[k] # NoTx
           /\ keys[k].hash = Hash(Posted[k]) /\ req[Posted[k]].key = k
<1>1. /\ Posted[k] = keys[k].response /\ keys[k].response \in Requests
      /\ keys[k] = StoredResponse(keys[k].response) /\ req[keys[k].response].key = k
  BY DEF Posted, LedgerInv, HistoryInv, KeysNameTheirWriter
<1>2. StoredResponse(Posted[k]).hash = Hash(Posted[k])
  BY DEF StoredResponse
<1> QED BY <1>1, <1>2, ConstantsAssumption

(* A refusal is justified. *)
LEMMA RefusalImplements ==
    ASSUME LedgerInv, NEW r \in Requests, NEW kind \in Kinds, Refused(r, kind), UNCHANGED req
    PROVE  Promise!Next
<1>1. /\ reply[r] = Promise!Unanswered /\ reply' = [reply EXCEPT ![r] = [kind |-> kind, tx |-> NoTx]]
      /\ UNCHANGED <<req, Posted, balance>>
  BY Unanswered DEF Refused, Answer, tables, Posted
<1>2. CASE kind = "internal"
  BY <1>1, <1>2 DEF Promise!Next, Promise!GiveUp, Promise!Says
<1>3. CASE kind \in Promise!Refusals
  <2>1. ASSUME kind = "insufficient_funds" PROVE ~Promise!Covered(r)
    BY <2>1 DEF Refused, Warranted
  <2>2. ASSUME kind = "key_reuse"
        PROVE  /\ Promise!Key(r) \in Keys /\ Posted[Promise!Key(r)] # NoTx
               /\ ~Promise!SameRequest(r, Posted[Promise!Key(r)])
    <3>1. /\ req[r].key \in Keys /\ keys[req[r].key] # NoRow
          /\ keys[req[r].key].hash # Hash(r)
      BY <2>2 DEF Refused, Warranted
    <3> QED BY <3>1, PostedBy DEF Promise!Key, Promise!SameRequest, Hash
  <2>3. ASSUME kind = "duplicate_ref"
        PROVE  /\ Promise!Transfer(r).ref # NoRef
               /\ \E k \in Keys : /\ Posted[k] # NoTx
                                  /\ Promise!Transfer(Posted[k]).ref = Promise!Transfer(r).ref
    <3>1. RefTaken(r)
      BY <2>3 DEF Refused, Warranted
    <3>2. PICK t \in transactions : t.ref = Cmd(r).ref /\ Cmd(r).ref # NoRef
      BY <3>1 DEF RefTaken
    <3>3. /\ t.id \in Requests /\ t = TransactionRow(t.id) /\ req[t.id].key \in Keys
          /\ keys[req[t.id].key] = StoredResponse(t.id)
      BY DEF LedgerInv, IndInv, TypeOK, TransactionRows, WrittenIsStored
    <3>4. StoredResponse(t.id).response = t.id /\ TransactionRow(t.id).ref = Cmd(t.id).ref
      BY DEF StoredResponse, TransactionRow
    <3>5. keys[req[t.id].key] # NoRow
      <4>1. Hash(t.id) \in Hashes
        BY <3>3, ConstantsAssumption DEF LedgerInv, IndInv, TypeOK, Hash
      <4>2. StoredResponse(t.id) \in KeyRows
        BY <3>3, <4>1 DEF StoredResponse, KeyRows
      <4> QED BY <3>3, <4>2, NoRowAssumption
    <3>6. Posted[req[t.id].key] = t.id /\ t.id # NoTx
      BY <3>3, <3>4, <3>5, ConstantsAssumption DEF Posted
    <3> QED BY <3>2, <3>3, <3>4, <3>6 DEF Promise!Transfer, Cmd
  <2>4. ASSUME kind = "currency_mismatch" PROVE ~Promise!OneCurrency(r)
    BY <2>4 DEF Refused, Warranted
  <2>5. Promise!Justified(r, kind)
    BY <2>1, <2>2, <2>3, <2>4 DEF Promise!Justified
  <2> QED BY <1>1, <1>3, <2>5 DEF Promise!Next, Promise!Refuse, Promise!Says
<1> QED BY <1>2, <1>3 DEF Refused, Warranted

(* A COMMIT is the one instant in which the money moves. *)
LEMMA CommitImplements ==
    ASSUME LedgerInv, NEW r \in Requests, Committed(r), UNCHANGED req
    PROVE  Promise!Moves(r)
<1>1. IndInv /\ pc[r] = "commit" /\ Publish(r)
  BY DEF LedgerInv, Committed
<1>2. /\ req[r].key \in Keys /\ keys[req[r].key] = NoRow
      /\ keys'[req[r].key] = StoredResponse(r) /\ StoredResponse(r).response = r
      /\ \A k \in Keys : k # req[r].key => keys'[k] = keys[k]
      /\ StoredResponse(r) # NoRow
  BY <1>1, CommittedTables
<1>3. Posted[req[r].key] = NoTx /\ Posted' = [Posted EXCEPT ![req[r].key] = r]
  BY <1>2 DEF Posted
<1>4. Promise!Covered(r)
  <2>1. seen[r] = balance[Cmd(r).credit] /\ Covered(r)
    BY <1>1 DEF IndInv, SeenIsCurrent, RowsInOrder, Ids
  <2>2. Precheck(r) = "ok"
    BY <1>1 DEF IndInv, Admitted, InTx, OwningKey
  <2>3. Cmd(r).credit \in AccountIds
    BY <1>1, <2>2, AdmittedCommand DEF IndInv
  <2> QED BY <2>1, <2>3 DEF Covered, Promise!Covered, Promise!Transfer, Cmd
<1>5. balance' = [a \in AccountIds |->
                    IF a = Cmd(r).debit THEN balance[a] + Cmd(r).amount
                    ELSE IF a = Cmd(r).credit THEN balance[a] - Cmd(r).amount
                    ELSE balance[a]]
  BY <1>1 DEF Publish, NewBalance, Ids
<1>6. Promise!OneCurrency(r)
  <2>1. Precheck(r) = "ok" /\ CurrenciesAgree(r)
    BY <1>1 DEF LedgerInv, HistoryInv, CurrenciesChecked, IndInv, Admitted, InTx, OwningKey
  <2> QED BY <1>1, <2>1, OneCurrencyAgrees DEF IndInv
<1> QED BY <1>2, <1>3, <1>4, <1>5, <1>6 DEF Promise!Moves, Promise!Key, Promise!Transfer, Cmd

(* Every step of the store is a step of the service, or none. *)
LEMMA StepImplements ==
    ASSUME LedgerInv, [Next]_vars
    PROVE  [Promise!Next]_(Promise!vars)
<1>1. CASE UNCHANGED vars
  BY <1>1 DEF vars, tables, Promise!vars, Posted
<1>2. ASSUME NEW a \in AccountIds, CreateAccount(a) PROVE UNCHANGED Promise!vars
  BY <1>2, HistoryCreate DEF CreateAccount, Promise!vars, Posted
<1>3. ASSUME NEW r \in Requests, Visible(r), Shape(r) PROVE [Promise!Next]_(Promise!vars)
  <2>1. req' = req /\ IndInv
    BY <1>3, RequestsFixed DEF LedgerInv
  <2>2. CASE Silent(r) \/ Abandoned(r)
    BY <2>1, <2>2 DEF Silent, Abandoned, tables, Promise!vars, Posted
  <2>3. ASSUME NEW kind \in Kinds, Refused(r, kind) PROVE Promise!Next
    BY <2>1, <2>3, RefusalImplements
  <2>4. CASE CutOff(r)
    <3>1. /\ reply[r] = Promise!Unanswered
          /\ reply' = [reply EXCEPT ![r] = [kind |-> "internal", tx |-> NoTx]]
          /\ UNCHANGED <<req, Posted, balance>>
      BY <2>1, <2>4, Unanswered DEF CutOff, Answer, tables, Posted
    <3> QED BY <3>1 DEF Promise!Next, Promise!GiveUp, Promise!Says
  <2>5. CASE Replayed(r)
    <3>1. /\ reply[r] = Promise!Unanswered /\ UNCHANGED <<req, Posted, balance>>
          /\ reply' = [reply EXCEPT ![r] = [kind |-> "replayed", tx |-> keys[req[r].key].response]]
      BY <2>1, <2>5, Unanswered DEF Replayed, Answer, tables, Posted
    <3>2. /\ req[r].key \in Keys /\ keys[req[r].key] # NoRow
          /\ keys[req[r].key].hash = Hash(r)
      BY <2>5 DEF Replayed
    <3>3. Posted[req[r].key] = keys[req[r].key].response
      BY <3>2 DEF Posted
    <3>4. Posted[req[r].key] # NoTx /\ Hash(Posted[req[r].key]) = Hash(r)
      BY <3>2, PostedBy
    <3> QED BY <3>1, <3>2, <3>3, <3>4 DEF Promise!Next, Promise!Replay, Promise!Says, Promise!Key,
                                         Promise!SameRequest, Hash
  <2>6. CASE Posts(r)
    <3>1. Promise!Moves(r) /\ reply[r] = Promise!Unanswered
      BY <2>1, <2>6, CommitImplements, Unanswered DEF Posts, Committed
    <3> QED BY <2>6, <3>1 DEF Posts, Answer, Promise!Next, Promise!Post, Promise!Says
  <2>7. CASE PostsLate(r)
    <3>1. Promise!Moves(r)
      BY <2>1, <2>7, CommitImplements DEF PostsLate
    <3>2. reply[r].kind = "internal" /\ UNCHANGED reply
      BY <2>7 DEF PostsLate, LedgerInv, HistoryInv, AnsweredAtTheEnd
    <3> QED BY <3>1, <3>2 DEF Promise!Next, Promise!PostLate
  <2> QED BY <1>3, <2>2, <2>3, <2>4, <2>5, <2>6, <2>7 DEF Visible
<1> QED BY <1>1, <1>2, <1>3, NextVisible

(* The handlers, their database sessions and all their faults implement the
   exactly-once service: each COMMIT is one Post or PostLate, each refusal is
   justified at the instant it is sent, and the rest is invisible. *)
THEOREM ExactlyOnceImplemented == Spec => ImplementsExactlyOnce
<1>1. Init => Promise!Init
  BY PromiseInit
<1>2. LedgerInv /\ [Next]_vars => [Promise!Next]_(Promise!vars)
  BY StepImplements
<1> QED BY <1>1, <1>2, LedgerInvariance, PTL DEF Spec, ImplementsExactlyOnce, Promise!Spec

-----------------------------------------------------------------------------
(* The books. *)

(* One entry more is its signed amount more. *)
LEMMA SignedSumAdd ==
    ASSUME NEW S, IsFiniteSet(S), S \subseteq EntryRows, NEW x \in EntryRows, x \notin S
    PROVE  SignedSum(S \cup {x}) = SignedAmount(x) + SignedSum(S)
<1> DEFINE f == [e \in S \cup {x} |-> SignedAmount(e)]
           g == [e \in S |-> SignedAmount(e)]
<1>1. \A e \in S \cup {x} : f[e] = SignedAmount(e) /\ f[e] \in Int
  BY DEF SignedAmount, EntryRows
<1>2. \A e \in S : f[e] = g[e]
  OBVIOUS
<1>3. SignedSum(S \cup {x}) = SumFunctionOnSet(f, S \cup {x}) /\ SignedSum(S) = SumFunctionOnSet(g, S)
  BY DEF SignedSum
<1> HIDE DEF f, g
<1>4. SumFunctionOnSet(f, S \cup {x}) = f[x] + SumFunctionOnSet(f, S)
  BY <1>1, SumAdd
<1>5. SumFunctionOnSet(f, S) = SumFunctionOnSet(g, S)
  BY <1>2, SumSame
<1> QED BY <1>1, <1>3, <1>4, <1>5

(* The two legs that a COMMIT writes. *)
LEMMA CommittedLegs ==
    ASSUME LedgerInv, NEW r \in Requests, Committed(r)
    PROVE  \E d, c \in EntryRows :
            /\ Legs(r) = {d, c} /\ d \notin entries /\ c \notin entries
            /\ d.account = Cmd(r).debit /\ c.account = Cmd(r).credit
            /\ SignedAmount(d) = Cmd(r).amount /\ SignedAmount(c) = -Cmd(r).amount
<1>1. IndInv /\ AllOrNothing /\ pc[r] = "commit"
  BY DEF LedgerInv, HistoryInv, Committed
<1>2. /\ Cmd(r).debit \in AccountIds /\ Cmd(r).credit \in AccountIds /\ Cmd(r).amount \in Int
  BY <1>1, AdmittedCommand DEF IndInv, Admitted, InTx, OwningKey
<1>3. \A e \in entries : e.tx # r
  BY <1>1, NotYetWritten DEF AllOrNothing
<1> DEFINE d == Leg(r, Cmd(r).debit, "debit")
           c == Leg(r, Cmd(r).credit, "credit")
<1>4. d \in EntryRows /\ c \in EntryRows /\ d.tx = r /\ c.tx = r
  BY <1>2 DEF Leg, EntryRows
<1>5. /\ d.account = Cmd(r).debit /\ c.account = Cmd(r).credit
      /\ SignedAmount(d) = Cmd(r).amount /\ SignedAmount(c) = -Cmd(r).amount
  BY DEF Leg, SignedAmount
<1>6. Legs(r) = {d, c}
  BY DEF Legs
<1> HIDE DEF d, c
<1> QED BY <1>3, <1>4, <1>5, <1>6

(* What an account's entries add up to after a COMMIT. *)
LEMMA CommittedSums ==
    ASSUME LedgerInv, IsFiniteSet(entries), NEW r \in Requests, Committed(r), NEW a \in AccountIds
    PROVE  /\ IsFiniteSet(entries')
           /\ SignedSum({e \in entries' : e.account = a}) =
                IF a = Cmd(r).debit THEN Cmd(r).amount + SignedSum({e \in entries : e.account = a})
                ELSE IF a = Cmd(r).credit THEN -Cmd(r).amount + SignedSum({e \in entries : e.account = a})
                ELSE SignedSum({e \in entries : e.account = a})
<1>1. IndInv /\ entries \subseteq EntryRows /\ pc[r] = "commit"
  BY DEF LedgerInv, IndInv, TypeOK, Committed
<1>2. Cmd(r).debit # Cmd(r).credit
  BY <1>1, AdmittedCommand DEF IndInv, Admitted, InTx, OwningKey
<1>3. PICK d, c \in EntryRows :
        /\ Legs(r) = {d, c} /\ d \notin entries /\ c \notin entries
        /\ d.account = Cmd(r).debit /\ c.account = Cmd(r).credit
        /\ SignedAmount(d) = Cmd(r).amount /\ SignedAmount(c) = -Cmd(r).amount
  BY CommittedLegs
<1>4. entries' = (entries \cup {d}) \cup {c}
  BY <1>1, <1>3, CommittedTables
<1>5. IsFiniteSet(entries')
  BY <1>4, FS_AddElement
<1> DEFINE S == {e \in entries : e.account = a}
<1>6. IsFiniteSet(S) /\ S \subseteq EntryRows /\ d \notin S /\ c \notin S
  <2>1. S \subseteq entries
    OBVIOUS
  <2> QED BY <1>1, <1>3, <2>1, FS_Subset
<1>7. {e \in entries' : e.account = a} =
        IF a = Cmd(r).debit THEN S \cup {d} ELSE IF a = Cmd(r).credit THEN S \cup {c} ELSE S
  BY <1>2, <1>3, <1>4
<1> HIDE DEF S
<1>8. /\ SignedSum(S \cup {d}) = Cmd(r).amount + SignedSum(S)
      /\ SignedSum(S \cup {c}) = -Cmd(r).amount + SignedSum(S)
  BY <1>3, <1>6, SignedSumAdd
<1> QED BY <1>5, <1>7, <1>8 DEF S

(* What the event of a transfer says about an account. *)
LEMMA CommittedShare ==
    ASSUME LedgerInv, NEW r \in Requests, Committed(r), NEW a \in AccountIds
    PROVE  SignedSum({l \in Legs(r) : l.account = a}) =
                IF a = Cmd(r).debit THEN Cmd(r).amount
                ELSE IF a = Cmd(r).credit THEN -Cmd(r).amount
                ELSE 0
<1>1. IndInv /\ pc[r] = "commit"
  BY DEF LedgerInv, Committed
<1>2. Cmd(r).debit # Cmd(r).credit /\ Cmd(r).amount \in Int
  BY <1>1, AdmittedCommand DEF IndInv, Admitted, InTx, OwningKey
<1>3. PICK d, c \in EntryRows :
        /\ Legs(r) = {d, c}
        /\ d.account = Cmd(r).debit /\ c.account = Cmd(r).credit
        /\ SignedAmount(d) = Cmd(r).amount /\ SignedAmount(c) = -Cmd(r).amount
  BY CommittedLegs
<1>4. SignedSum({}) = 0
  BY SumEmpty DEF SignedSum
<1>5. \A x \in EntryRows : SignedSum({} \cup {x}) = SignedAmount(x) + SignedSum({})
  BY FS_EmptySet, SignedSumAdd
<1>6. {l \in Legs(r) : l.account = a} =
        IF a = Cmd(r).debit THEN {} \cup {d} ELSE IF a = Cmd(r).credit THEN {} \cup {c} ELSE {}
  BY <1>2, <1>3
<1>7. SignedSum({} \cup {d}) = Cmd(r).amount /\ SignedSum({} \cup {c}) = -Cmd(r).amount
  BY <1>2, <1>3, <1>4, <1>5
<1>8. CASE a = Cmd(r).debit
  BY <1>6, <1>7, <1>8
<1>9. CASE a # Cmd(r).debit
  BY <1>4, <1>6, <1>7, <1>9
<1> QED BY <1>8, <1>9

(* The events still add up to the balances when one more is there. *)
LEMMA CommittedEvents ==
    ASSUME LedgerInv, IsFiniteSet(events), EventsAddUp, NEW r \in Requests, Committed(r)
    PROVE  IsFiniteSet(events') /\ EventsAddUp'
<1> DEFINE Share(v, a) == SignedSum({l \in v.legs : l.account = a})
           x == TransactionCreated(r)
<1>1. IndInv /\ pc[r] = "commit" /\ AllOrNothing
  BY DEF LedgerInv, HistoryInv, Committed
<1>2. Cmd(r).debit # Cmd(r).credit /\ Cmd(r).amount \in Int /\ \A a \in AccountIds : balance[a] \in Int
  BY <1>1, AdmittedCommand DEF IndInv, Admitted, InTx, OwningKey, TypeOK
<1>3. events' = events \cup {x} /\ x.legs = Legs(r) /\ x \notin events
  <2>1. events' = events \cup {x} /\ x.aggregate = r /\ x.legs = Legs(r)
    BY <1>1, CommittedTables
  <2> QED BY <1>1, <2>1, NotYetWritten DEF AllOrNothing
<1>4. IsFiniteSet(events')
  BY <1>3, FS_AddElement
<1>5. ASSUME NEW a \in AccountIds
      PROVE  balance'[a] = SumFunctionOnSet([v \in events' |-> Share(v, a)], events')
  <2> DEFINE f == [v \in events |-> Share(v, a)]
             g == [v \in events' |-> Share(v, a)]
  <2>1. \A v \in events : f[v] = g[v]
    BY <1>3
  <2>2. g[x] = Share(x, a) /\ Share(x, a) = SignedSum({l \in Legs(r) : l.account = a})
    BY <1>3
  <2>3. balance[a] = SumFunctionOnSet(f, events)
    BY DEF EventsAddUp
  <2>4. \A v \in events' : g[v] \in Int
    <3>1. ASSUME NEW v \in events' PROVE Share(v, a) \in Int
      <4>1. v.legs \subseteq EntryRows /\ IsFiniteSet(v.legs)
        <5>1. CASE v = x
          <6>1. PICK d, c \in EntryRows : Legs(r) = {d, c}
            BY CommittedLegs
          <6>2. IsFiniteSet({d} \cup {c})
            BY FS_Singleton, FS_AddElement
          <6> QED BY <1>3, <5>1, <6>1, <6>2
        <5>2. CASE v \in events
          <6>1. v.aggregate \in Requests /\ v.legs \subseteq EntryRows
            BY <1>1, <5>2 DEF IndInv, TypeOK, EventRows
          <6>2. v.legs = Legs(v.aggregate)
            BY <1>1, <5>2 DEF AllOrNothing
          <6>3. IsFiniteSet(Legs(v.aggregate))
            <7>1. ASSUME NEW p, NEW q PROVE IsFiniteSet({p, q})
              <8>1. IsFiniteSet({p} \cup {q}) /\ {p} \cup {q} = {p, q}
                BY FS_Singleton, FS_AddElement
              <8> QED BY <8>1
            <7> QED BY <7>1, Zenon DEF Legs
          <6> QED BY <6>1, <6>2, <6>3
        <5> QED BY <1>3, <5>1, <5>2
      <4> DEFINE S == {l \in v.legs : l.account = a}
                 h == [e \in S |-> SignedAmount(e)]
      <4>2. IsFiniteSet(S) /\ \A e \in S : h[e] \in Int
        <5>1. S \subseteq v.legs
          OBVIOUS
        <5> QED BY <4>1, <5>1, FS_Subset DEF SignedAmount, EntryRows
      <4>3. Share(v, a) = SumFunctionOnSet(h, S)
        BY DEF SignedSum
      <4> HIDE DEF S, h, Share
      <4> QED BY <4>2, <4>3, SumInt
    <3> QED BY <3>1
  <2>5. balance'[a] = IF a = Cmd(r).debit THEN balance[a] + Cmd(r).amount
                      ELSE IF a = Cmd(r).credit THEN balance[a] - Cmd(r).amount
                      ELSE balance[a]
    BY DEF Committed, Publish, NewBalance, Ids
  <2>6. balance'[a] = Share(x, a) + balance[a]
    BY <1>2, <2>2, <2>5, CommittedShare
  <2> HIDE DEF f, g, Share, x
  <2>7. SumFunctionOnSet(g, events \cup {x}) = g[x] + SumFunctionOnSet(g, events)
    BY <1>3, <2>4, SumAdd
  <2>8. SumFunctionOnSet(f, events) = SumFunctionOnSet(g, events)
    BY <2>1, SumSame
  <2> QED BY <1>3, <2>2, <2>3, <2>6, <2>7, <2>8 DEF g
<1> QED BY <1>4, <1>5 DEF EventsAddUp

(* A transfer inside a currency does not change the sum of its balances, and
   there is no other kind. *)
LEMMA CommittedCurrency ==
    ASSUME LedgerInv, NEW r \in Requests, Committed(r), NEW c \in Currencies
    PROVE  LET A == {a \in AccountIds : Profile[a].currency = c} IN
           SumFunctionOnSet(balance', A) = SumFunctionOnSet(balance, A)
<1> DEFINE A == {a \in AccountIds : Profile[a].currency = c}
           d == Cmd(r).debit
           k == Cmd(r).credit
<1> SUFFICES SumFunctionOnSet(balance', A) = SumFunctionOnSet(balance, A)
  OBVIOUS
<1>1. IndInv /\ pc[r] = "commit" /\ Publish(r) /\ CurrenciesAgree(r)
  BY DEF LedgerInv, HistoryInv, CurrenciesChecked, Committed
<1>2. /\ d \in AccountIds /\ k \in AccountIds /\ Cmd(r).amount \in Int /\ d # k
      /\ \A a \in AccountIds : balance[a] \in Int
  BY <1>1, AdmittedCommand DEF IndInv, Admitted, InTx, OwningKey, TypeOK
<1>3. /\ balance'[d] = balance[d] + Cmd(r).amount
      /\ balance'[k] = balance[k] - Cmd(r).amount
      /\ \A a \in AccountIds \ {d, k} : balance'[a] = balance[a]
  BY <1>1, <1>2 DEF Publish, NewBalance, Ids
<1>4. d \in A <=> k \in A
  BY <1>1, <1>2 DEF CurrenciesAgree, Ids
<1>5. IsFiniteSet(A) /\ A \subseteq AccountIds
  <2>1. A \subseteq AccountIds
    OBVIOUS
  <2> QED BY <2>1, ConstantsAssumption, FS_Subset
<1> HIDE DEF A, d, k
<1>6. CASE d \notin A
  BY <1>3, <1>4, <1>5, <1>6, SumSame
<1>7. CASE d \in A
  <2> DEFINE B == (A \ {d}) \ {k}
  <2>1. /\ IsFiniteSet(A \ {d}) /\ IsFiniteSet(B) /\ k \in A \ {d}
        /\ \A a \in A : balance[a] \in Int /\ balance'[a] \in Int
        /\ \A a \in B : balance'[a] = balance[a]
    BY <1>2, <1>3, <1>4, <1>5, <1>7, FS_RemoveElement
  <2>2. /\ SumFunctionOnSet(balance, A) = balance[d] + SumFunctionOnSet(balance, A \ {d})
        /\ SumFunctionOnSet(balance', A) = balance'[d] + SumFunctionOnSet(balance', A \ {d})
    BY <1>5, <1>7, <2>1, SumRemove
  <2>3. /\ SumFunctionOnSet(balance, A \ {d}) = balance[k] + SumFunctionOnSet(balance, B)
        /\ SumFunctionOnSet(balance', A \ {d}) = balance'[k] + SumFunctionOnSet(balance', B)
    BY <2>1, SumRemove
  <2>4. SumFunctionOnSet(balance', B) = SumFunctionOnSet(balance, B)
    BY <2>1, SumSame
  <2>5. SumFunctionOnSet(balance, B) \in Int
    BY <2>1, SumInt
  <2> HIDE DEF B
  <2> QED BY <1>2, <1>3, <2>2, <2>3, <2>4, <2>5
<1> QED BY <1>6, <1>7

(* The books balance after every step. *)
LEMMA BooksInductive ==
    ASSUME BooksInv, [Next]_vars
    PROVE  BooksInv'
<1>1. LedgerInv /\ LedgerInv' /\ IndInv
  BY LedgerInductive DEF BooksInv, LedgerInv
<1>2. \A t \in transactions' : TriggerAccepts({e \in entries' : e.tx = t.id})
  BY <1>1 DEF LedgerInv, HistoryInv, AllOrNothing, PostingsBalance
<1>3. CASE entries' = entries /\ balance' = balance /\ events' = events
  <2>1. EventsAddUp'
    BY <1>3 DEF BooksInv, EventsAddUp
  <2>2. BooksBalance'
    BY <1>2, <1>3 DEF BooksInv, BooksBalance
  <2> QED BY <1>1, <1>3, <2>1, <2>2 DEF BooksInv
<1>4. ASSUME NEW r \in Requests, Committed(r) PROVE BooksInv'
  <2>1. IsFiniteSet(entries')
    <3>1. Cmd(r).debit \in AccountIds
      BY <1>1, <1>4, AdmittedCommand DEF IndInv, Admitted, InTx, OwningKey, Committed
    <3> QED BY <1>1, <1>4, <3>1, CommittedSums DEF BooksInv
  <2>2. ASSUME NEW a \in AccountIds PROVE balance'[a] = SignedSum({e \in entries' : e.account = a})
    <3>1. balance[a] = SignedSum({e \in entries : e.account = a}) /\ balance[a] \in Int
      BY <1>1 DEF BooksInv, BooksBalance, IndInv, TypeOK
    <3>2. Cmd(r).debit # Cmd(r).credit /\ Cmd(r).amount \in Int
      BY <1>1, <1>4, AdmittedCommand DEF IndInv, Admitted, InTx, OwningKey, Committed
    <3>3. balance'[a] = IF a = Cmd(r).debit THEN balance[a] + Cmd(r).amount
                        ELSE IF a = Cmd(r).credit THEN balance[a] - Cmd(r).amount
                        ELSE balance[a]
      BY <1>4 DEF Committed, Publish, NewBalance, Ids
    <3> QED BY <1>1, <1>4, <3>1, <3>2, <3>3, CommittedSums DEF BooksInv
  <2>3. ASSUME NEW c \in Currencies
        PROVE  SumFunctionOnSet(balance', {a \in AccountIds : Profile[a].currency = c}) = 0
    BY <1>1, <1>4, CommittedCurrency DEF BooksInv, BooksBalance
  <2>4. IsFiniteSet(events') /\ EventsAddUp'
    BY <1>1, <1>4, CommittedEvents DEF BooksInv
  <2> QED BY <1>1, <1>2, <2>1, <2>2, <2>3, <2>4 DEF BooksInv, BooksBalance
<1>5. ASSUME NEW a \in AccountIds, CreateAccount(a) PROVE entries' = entries /\ balance' = balance /\ events' = events
  BY <1>1, <1>5, HistoryCreate DEF CreateAccount
<1>6. CASE UNCHANGED tables
  BY <1>3, <1>6 DEF tables
<1> QED BY <1>1, <1>3, <1>4, <1>5, <1>6, NextVisible, CommitOrNothing DEF vars

(* The empty books balance. *)
LEMMA BooksInit == Init => BooksInv
<1> SUFFICES ASSUME Init PROVE BooksInv
  OBVIOUS
<1>1. LedgerInv
  BY InitHolds, HistoryInit DEF LedgerInv
<1>2. entries = {} /\ events = {} /\ transactions = {} /\ balance = [a \in AccountIds |-> 0]
  BY DEF Init
<1>3. SignedSum({}) = 0
  BY SumEmpty DEF SignedSum
<1>4. \A a \in AccountIds : balance[a] = SignedSum({e \in entries : e.account = a})
  <2>1. \A a \in AccountIds : {e \in entries : e.account = a} = {}
    BY <1>2
  <2> QED BY <1>2, <1>3, <2>1
<1>5. ASSUME NEW c \in Currencies
      PROVE  SumFunctionOnSet(balance, {a \in AccountIds : Profile[a].currency = c}) = 0
  <2> DEFINE A == {a \in AccountIds : Profile[a].currency = c}
  <2>1. IsFiniteSet(A) /\ \A a \in A : balance[a] = 0
    <3>1. A \subseteq AccountIds
      OBVIOUS
    <3> QED BY <1>2, <3>1, ConstantsAssumption, FS_Subset
  <2> HIDE DEF A
  <2>2. SumFunctionOnSet(balance, A) = 0
    BY <2>1, SumOfZeros
  <2> QED BY <2>2 DEF A
<1>6. EventsAddUp
  BY <1>2, SumEmpty DEF EventsAddUp
<1> QED BY <1>1, <1>2, <1>4, <1>5, <1>6, FS_EmptySet DEF BooksInv, BooksBalance

(* The books, and the events of the outbox with them, add up in every reachable
   state. *)
THEOREM BooksInvariance == Spec => []BooksInv
  BY BooksInit, BooksInductive, PTL DEF Spec

(* No interleaving of transfers, retries, aborts and lost connections creates,
   loses or converts money: balances are the sums of their entries, the legs
   of a transaction cancel, and the balances of a currency sum to zero
   (applyBalances, writeTransaction, assert_transaction_balanced). *)
THEOREM MoneyConserved == Spec => []BooksBalance
<1>1. BooksInv => BooksBalance
  BY DEF BooksInv
<1> QED BY <1>1, BooksInvariance, PTL

(* For whoever composes the ledger with others: a step posts one transfer,
   with all of its rows, or none. *)
LEMMA PostsOneOrNone ==
    ASSUME LedgerInv, [Next]_vars
    PROVE  /\ req' = req
           /\ \/ UNCHANGED <<transactions, entries, events>>
              \/ \E r \in Requests :
                    /\ ~Wrote(r)
                    /\ transactions' = transactions \cup {TransactionRow(r)} /\ TransactionRow(r).id = r
                    /\ events' # events
                    /\ \A v \in events' \ events : v.aggregate = r
<1>1. IndInv /\ AllOrNothing
  BY DEF LedgerInv, HistoryInv
<1>2. ASSUME NEW a \in AccountIds, CreateAccount(a) PROVE UNCHANGED <<req, transactions, entries, events>>
  BY <1>2 DEF CreateAccount
<1>3. ASSUME NEW r \in Requests, Committed(r)
      PROVE  /\ ~Wrote(r)
             /\ transactions' = transactions \cup {TransactionRow(r)} /\ TransactionRow(r).id = r
             /\ events' # events
             /\ \A v \in events' \ events : v.aggregate = r
  <2>1. ~Wrote(r)
    BY <1>1, <1>3, NotYetWritten DEF Committed
  <2>2. /\ transactions' = transactions \cup {TransactionRow(r)} /\ TransactionRow(r).id = r
        /\ events' = events \cup {TransactionCreated(r)} /\ TransactionCreated(r).aggregate = r
    BY <1>1, <1>3, CommittedTables
  <2>3. TransactionCreated(r) \notin events
    BY <1>1, <2>1, <2>2 DEF AllOrNothing
  <2> QED BY <2>1, <2>2, <2>3
<1>4. ASSUME NEW r \in Requests, Visible(r), Shape(r)
      PROVE  req' = req /\ (UNCHANGED tables \/ Committed(r))
  BY <1>1, <1>4, RequestsFixed, CommitOrNothing
<1> QED BY <1>2, <1>3, <1>4, NextVisible DEF vars, tables
=============================================================================
