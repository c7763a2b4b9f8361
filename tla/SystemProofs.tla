---------------------------- MODULE SystemProofs ----------------------------
(***************************************************************************)
(* Proofs about the composed service: every behaviour of System is one of  *)
(* LedgerStore and one of Outbox, so that what LedgerHistoryProofs and     *)
(* OutboxProofs prove of the parts holds in the whole; the parts stay      *)
(* coupled by the COMMIT of a transfer; and the whole implements the       *)
(* safety part of Reporting.                                               *)
(***************************************************************************)
EXTENDS System, SequenceTheorems, TLAPS

(* The two parts once more, with their theorems. *)
LP == INSTANCE LedgerHistoryProofs
OP == INSTANCE OutboxProofs WITH
        Events <- Requests, MaxFaults <- MaxWorkerFaults, pc <- wpc, lost <- wlost

-----------------------------------------------------------------------------
(* The parts with and without their theorems are the same.                  *)

(* The constants are what LedgerStore takes them for. *)
LEMMA LedgerConstants == LP!ConstantsAssumption /\ LP!NoRowAssumption /\ LP!OpenedAssumption
<1>1. LP!ConstantsAssumption
  BY SystemAssumption DEF
      L!Profiles, LP!Profiles, L!Commands, LP!Commands, L!AccountKinds, LP!AccountKinds, L!Headers,
      LP!Headers, L!IsFiniteSet, LP!IsFiniteSet
<1>2. LP!NoRowAssumption
  BY SystemAssumption DEF L!KeyRows, LP!KeyRows
<1>3. LP!OpenedAssumption
  BY SystemAssumption DEF
      L!ValidAccount, LP!ValidAccount, L!ValidCurrency, LP!ValidCurrency, L!AccountKinds,
      LP!AccountKinds
<1> QED BY <1>1, <1>2, <1>3

(* The initial states of the ledger. *)
LEMMA LedgerInitial == L!Init => LP!Init
  BY DEF
      L!Init, LP!Init, L!Headers, LP!Headers, L!NoReply, LP!NoReply

(* The steps of the ledger, one by one. *)
LEMMA LedgerSteps ==
    ASSUME [L!Next]_(L!vars)
    PROVE  [LP!Next]_(LP!vars)
<1> USE DEF
      L!vars, LP!vars, L!tables, LP!tables, L!sessions, LP!sessions, L!At, LP!At, L!Goto, LP!Goto,
      L!Answer, LP!Answer, L!EndSession, LP!EndSession, L!Refuse, LP!Refuse, L!InTx, LP!InTx,
      L!OwningKey, LP!OwningKey, L!OwningRef, LP!OwningRef, L!Cmd, LP!Cmd, L!Ids, LP!Ids, L!Hash,
      LP!Hash
<1>1. ASSUME NEW r \in Requests, L!Receive(r) PROVE LP!Receive(r)
  BY <1>1 DEF
      L!Receive, LP!Receive, L!Precheck, LP!Precheck, L!Validate, LP!Validate, L!ValidCurrency,
      LP!ValidCurrency
<1>2. ASSUME NEW r \in Requests, L!Begin(r) PROVE LP!Begin(r)
  BY <1>2 DEF
      L!Begin, LP!Begin, L!PoolHasRoom, LP!PoolHasRoom, L!Cardinality, LP!Cardinality, L!IsFiniteSet, LP!IsFiniteSet
<1>3. ASSUME NEW r \in Requests, L!ClaimKey(r) PROVE LP!ClaimKey(r)
  BY <1>3 DEF
      L!ClaimKey, LP!ClaimKey, L!KeyFree, LP!KeyFree, L!HoldsKey, LP!HoldsKey
<1>4. ASSUME NEW r \in Requests, L!ReplayStoredResponse(r) PROVE LP!ReplayStoredResponse(r)
  BY <1>4 DEF
      L!ReplayStoredResponse, LP!ReplayStoredResponse, L!StoredKind, LP!StoredKind
<1>5. ASSUME NEW r \in Requests, L!SelectAccounts(r) PROVE LP!SelectAccounts(r)
  BY <1>5 DEF
      L!SelectAccounts, LP!SelectAccounts
<1>6. ASSUME NEW r \in Requests, L!CheckAccounts(r) PROVE LP!CheckAccounts(r)
  BY <1>6 DEF
      L!CheckAccounts, LP!CheckAccounts, L!AccountsVerdict, LP!AccountsVerdict, L!CurrenciesAgree,
      LP!CurrenciesAgree, L!Covered, LP!Covered
<1>7. ASSUME NEW r \in Requests, L!WriteTransaction(r) PROVE LP!WriteTransaction(r)
  BY <1>7 DEF
      L!WriteTransaction, LP!WriteTransaction, L!RefFree, LP!RefFree, L!HoldsRef, LP!HoldsRef,
      L!RefTaken, LP!RefTaken
<1>8. ASSUME NEW r \in Requests, L!ApplyBalances(r) PROVE LP!ApplyBalances(r)
  BY <1>8 DEF
      L!ApplyBalances, LP!ApplyBalances, L!RowFree, LP!RowFree, L!InRange, LP!InRange, L!NewBalance,
      LP!NewBalance, L!FloorHolds, LP!FloorHolds
<1>9. ASSUME NEW r \in Requests, L!Commit(r) PROVE LP!Commit(r)
  BY <1>9 DEF
      L!Commit, LP!Commit, L!Asserted, LP!Asserted, L!Publish, LP!Publish, L!TriggerAccepts, LP!TriggerAccepts, L!Balanced,
      LP!Balanced, L!SignedSum, LP!SignedSum, L!SignedAmount, LP!SignedAmount, L!SumFunctionOnSet,
      LP!SumFunctionOnSet, L!FoldFunctionOnSet, LP!FoldFunctionOnSet, L!MapThenFoldSet,
      LP!MapThenFoldSet, L!Legs, LP!Legs, L!Leg, LP!Leg, L!TransactionRow, LP!TransactionRow,
      L!TransactionCreated, LP!TransactionCreated, L!StoredResponse, LP!StoredResponse,
      L!NewBalance, LP!NewBalance, L!Cardinality, LP!Cardinality, L!IsFiniteSet, LP!IsFiniteSet
<1>10. ASSUME NEW r \in Requests, L!Disconnect(r) PROVE LP!Disconnect(r)
  BY <1>10 DEF
      L!Disconnect, LP!Disconnect, L!Cardinality, LP!Cardinality, L!IsFiniteSet, LP!IsFiniteSet
<1>11. ASSUME NEW r \in Requests, L!OrphanAbort(r) PROVE LP!OrphanAbort(r)
  BY <1>11 DEF
      L!OrphanAbort, LP!OrphanAbort
<1>12. ASSUME NEW r \in Requests, L!OrphanCommit(r) PROVE LP!OrphanCommit(r)
  BY <1>12 DEF
      L!OrphanCommit, LP!OrphanCommit, L!Publish, LP!Publish, L!TriggerAccepts, LP!TriggerAccepts,
      L!Balanced, LP!Balanced, L!SignedSum, LP!SignedSum, L!SignedAmount, LP!SignedAmount,
      L!SumFunctionOnSet, LP!SumFunctionOnSet, L!FoldFunctionOnSet, LP!FoldFunctionOnSet,
      L!MapThenFoldSet, LP!MapThenFoldSet, L!Legs, LP!Legs, L!Leg, LP!Leg, L!TransactionRow,
      LP!TransactionRow, L!TransactionCreated, LP!TransactionCreated, L!StoredResponse,
      LP!StoredResponse, L!NewBalance, LP!NewBalance, L!Cardinality, LP!Cardinality, L!IsFiniteSet,
      LP!IsFiniteSet
<1>13. ASSUME NEW r \in Requests, NEW a \in AccountIds, L!LockAccount(r, a) PROVE LP!LockAccount(r, a)
  BY <1>13 DEF
      L!LockAccount, LP!LockAccount, L!LocksNext, LP!LocksNext, L!ForUpdate, LP!ForUpdate,
      L!RowFree, LP!RowFree
<1>14. ASSUME NEW a \in AccountIds, L!CreateAccount(a) PROVE LP!CreateAccount(a)
  BY <1>14 DEF
      L!CreateAccount, LP!CreateAccount, L!ValidAccount, LP!ValidAccount, L!ValidCurrency,
      LP!ValidCurrency, L!AccountKinds, LP!AccountKinds
<1> QED BY <1>1, <1>2, <1>3, <1>4, <1>5, <1>6, <1>7, <1>8, <1>9, <1>10, <1>11, <1>12, <1>13, <1>14 DEF
      L!Next, LP!Next, L!Serve, LP!Serve, L!OrphanEnds, LP!OrphanEnds, L!Finished, LP!Finished

(* The initial states of the outbox. *)
LEMMA OutboxInitial == O!Init => OP!Init
  BY DEF O!Init, OP!Init, O!Workers, OP!Workers

(* The steps of a relay or of a replay, one by one. *)
LEMMA WorkerSteps ==
    ASSUME NEW w \in O!Workers, O!Work(w) \/ O!Fails(w)
    PROVE  OP!Work(w) \/ OP!Fails(w)
<1> USE DEF
      O!vars, OP!vars, O!tables, OP!tables, O!session, OP!session, O!Goto, OP!Goto, O!Workers,
      OP!Workers, O!Row, OP!Row, O!Unlocked, OP!Unlocked, O!Eligible, OP!Eligible, O!StillClaimable,
      OP!StillClaimable, O!Current, OP!Current, O!EndSession, OP!EndSession, O!Returns, OP!Returns,
      O!Rollback, OP!Rollback, O!Fault, OP!Fault
<1>1. ASSUME O!Tick(w) PROVE OP!Tick(w)
  BY <1>1 DEF
      O!Tick, OP!Tick
<1>2. ASSUME O!StartBatch(w) PROVE OP!StartBatch(w)
  BY <1>2 DEF
      O!StartBatch, OP!StartBatch
<1>3. ASSUME O!ScanRow(w) PROVE OP!ScanRow(w)
  BY <1>3 DEF
      O!ScanRow, OP!ScanRow
<1>4. ASSUME O!EndScan(w) PROVE OP!EndScan(w)
  BY <1>4 DEF
      O!EndScan, OP!EndScan
<1>5. ASSUME O!SelectForReplay(w) PROVE OP!SelectForReplay(w)
  BY <1>5 DEF
      O!SelectForReplay, OP!SelectForReplay
<1>6. ASSUME O!Publish(w) PROVE OP!Publish(w)
  BY <1>6 DEF
      O!Publish, OP!Publish
<1>7. ASSUME O!SettleAttempt(w) PROVE OP!SettleAttempt(w)
  BY <1>7 DEF
      O!SettleAttempt, OP!SettleAttempt, O!Outcome, OP!Outcome
<1>8. ASSUME O!SettleFails(w) PROVE OP!SettleFails(w)
  BY <1>8 DEF
      O!SettleFails, OP!SettleFails
<1>9. ASSUME O!Commit(w) PROVE OP!Commit(w)
  BY <1>9 DEF
      O!Commit, OP!Commit, O!Record, OP!Record, O!Settles, OP!Settles, O!OutcomeOf, OP!OutcomeOf,
      O!StatusAfter, OP!StatusAfter, O!Delivered, OP!Delivered, O!Trigger, OP!Trigger,
      O!Cardinality, OP!Cardinality, O!IsFiniteSet, OP!IsFiniteSet
<1>10. ASSUME O!StatementFails(w) PROVE OP!StatementFails(w)
  BY <1>10 DEF
      O!StatementFails, OP!StatementFails
<1>11. ASSUME O!CommitUnacknowledged(w) PROVE OP!CommitUnacknowledged(w)
  BY <1>11 DEF
      O!CommitUnacknowledged, OP!CommitUnacknowledged, O!Record, OP!Record, O!Settles, OP!Settles,
      O!OutcomeOf, OP!OutcomeOf, O!StatusAfter, OP!StatusAfter, O!Delivered, OP!Delivered,
      O!Trigger, OP!Trigger
<1>12. ASSUME O!SessionLost(w) PROVE OP!SessionLost(w)
  BY <1>12 DEF
      O!SessionLost, OP!SessionLost
<1> QED BY <1>1, <1>2, <1>3, <1>4, <1>5, <1>6, <1>7, <1>8, <1>9, <1>10, <1>11, <1>12 DEF
      O!Work, OP!Work, O!Fails, OP!Fails

(* The steps of the service that are the outbox's own. *)
LEMMA DeliverSteps ==
    ASSUME Deliver
    PROVE  OP!Handling
<1>1. ASSUME NEW e \in Requests, O!BackoffElapses(e) PROVE OP!BackoffElapses(e)
  BY <1>1 DEF O!BackoffElapses, OP!BackoffElapses, O!session, OP!session
<1>2. ASSUME NEW v \in Readers, O!ReadDeliveries(v) PROVE OP!ReadDeliveries(v)
  BY <1>2 DEF
      O!ReadDeliveries, OP!ReadDeliveries, O!tables, OP!tables, O!session, OP!session
<1>3. ASSUME NEW v \in Readers, NEW e \in Requests, O!ReadEvent(v, e) PROVE OP!ReadEvent(v, e)
  BY <1>3 DEF
      O!ReadEvent, OP!ReadEvent, O!tables, OP!tables, O!session, OP!session
<1>4. ASSUME NEW w \in Replayers, NEW e \in Requests, O!Replay(w, e) PROVE OP!Replay(w, e)
  BY <1>4 DEF
      O!Replay, OP!Replay, O!tables, OP!tables, O!Goto, OP!Goto
<1>5. \A w \in O!Workers : w \in OP!Workers
  BY DEF O!Workers, OP!Workers
<1> QED BY <1>1, <1>2, <1>3, <1>4, <1>5, WorkerSteps DEF Deliver, OP!Handling

-----------------------------------------------------------------------------
(* The whole and its parts.                                                 *)

(* Every behaviour of the service is a behaviour of the ledger: whatever relays
   and readers do in between, LedgerHistoryProofs holds. *)
THEOREM LedgerPart == Spec => LP!Spec
<1>1. Init => LP!Init
  BY LedgerInitial DEF Init
<1>2. [Next]_vars => [LP!Next]_(LP!vars)
  <2> SUFFICES ASSUME [Next]_vars PROVE [L!Next]_(L!vars)
    BY LedgerSteps
  <2>1. CASE Transfer
    BY <2>1 DEF Transfer
  <2>2. CASE UNCHANGED ledger
    BY <2>2 DEF ledger, L!vars, L!tables, L!sessions
  <2> QED BY <2>1, <2>2 DEF Next, Deliver, GetEntries, GetRow, vars
<1> QED BY <1>1, <1>2, PTL DEF Spec, LP!Spec

(* What LedgerHistoryProofs says of the ledger's states. *)
LEMMA LedgerPartInv == Spec => []LP!BooksInv
  BY LedgerPart, LedgerConstants, LP!BooksInvariance, PTL

(* A step of a transfer that posts one hands its event over; any other changes
   neither the books nor the outbox. *)
LEMMA TransferPosts ==
    ASSUME LP!BooksInv, Transfer
    PROVE  /\ req' = req
           /\ \/ UNCHANGED <<transactions, entries, outbox>>
              \/ \E r \in Requests :
                    /\ ~L!Wrote(r)
                    /\ transactions' = transactions \cup {L!TransactionRow(r)}
                    /\ L!TransactionRow(r).id = r
                    /\ O!InsertEvent(r)
<1>1. LP!LedgerInv /\ [LP!Next]_(LP!vars)
  BY LedgerSteps DEF Transfer, LP!BooksInv
<1>2. /\ req' = req
      /\ \/ UNCHANGED <<transactions, entries, events>>
         \/ \E r \in Requests :
               /\ ~LP!Wrote(r)
               /\ transactions' = transactions \cup {LP!TransactionRow(r)} /\ LP!TransactionRow(r).id = r
               /\ events' # events
               /\ \A v \in events' \ events : v.aggregate = r
  BY <1>1, LedgerConstants, LP!PostsOneOrNone
<1>3. CASE UNCHANGED <<transactions, entries, events>>
  BY <1>2, <1>3 DEF Transfer, Handover
<1>4. ASSUME NEW r \in Requests, ~LP!Wrote(r),
             transactions' = transactions \cup {LP!TransactionRow(r)}, LP!TransactionRow(r).id = r,
             events' # events, \A v \in events' \ events : v.aggregate = r
      PROVE  /\ ~L!Wrote(r)
             /\ transactions' = transactions \cup {L!TransactionRow(r)}
             /\ L!TransactionRow(r).id = r
             /\ O!InsertEvent(r)
  <2>1. O!InsertEvent(r)
    <3>1. PICK v \in events' \ events : O!InsertEvent(v.aggregate)
      BY <1>4 DEF Transfer, Handover
    <3> QED BY <1>4, <3>1
  <2> QED BY <1>4, <2>1 DEF L!Wrote, LP!Wrote, L!TransactionRow, LP!TransactionRow, L!Cmd, LP!Cmd
<1> QED BY <1>2, <1>3, <1>4

(* What the outbox sees of a step of the service. *)
LEMMA OutboxSees ==
    ASSUME LP!BooksInv, [Next]_vars
    PROVE  [OP!Next]_(OP!vars)
<1>1. ASSUME NEW r \in Requests, O!InsertEvent(r) PROVE OP!InsertEvent(r)
  BY <1>1 DEF O!InsertEvent, OP!InsertEvent, O!session, OP!session
<1>2. CASE UNCHANGED outbox
  BY <1>2 DEF outbox, OP!vars, OP!tables, OP!session
<1>3. CASE Transfer
  BY <1>1, <1>2, <1>3, TransferPosts DEF OP!Next
<1>4. CASE Deliver
  BY <1>4, DeliverSteps DEF OP!Handling, OP!Next
<1> QED BY <1>2, <1>3, <1>4 DEF Next, GetEntries, GetRow, vars

(* Every behaviour of the service is a behaviour of the outbox, with the
   COMMITs of transfers for its arrivals: OutboxProofs holds. *)
THEOREM OutboxPart == Spec => OP!Spec
<1>1. Init => OP!Init
  BY OutboxInitial DEF Init
<1>2. LP!BooksInv /\ [Next]_vars => [OP!Next]_(OP!vars)
  BY OutboxSees
<1> QED BY <1>1, <1>2, LedgerPartInv, PTL DEF Spec, OP!Spec

(* What OutboxProofs says of the outbox's states. *)
LEMMA OutboxPartInv == Spec => [](OP!OutboxInv /\ OP!ReportsExist)
  BY OutboxPart, SystemAssumption, OP!OutboxInvariance, OP!NothingInvented, PTL

(* GET /events/{id} never shows an attempt without its delivery row, also when
   the event is one that a transfer commits meanwhile. *)
THEOREM SystemViewsComplete == Spec => []ViewsComplete
<1>1. OP!ViewsComplete => ViewsComplete
  BY DEF OP!ViewsComplete, O!ViewsComplete, ViewsComplete
<1>2. Spec => []OP!ViewsComplete
  BY OutboxPart, SystemAssumption, OP!ReadsComplete, PTL
<1> QED BY <1>1, <1>2, PTL

-----------------------------------------------------------------------------
(* What holds the parts together.                                           *)

(* Only the COMMIT of a transfer brings an event into the outbox, and it brings
   that transfer's. *)
LEMMA EventsFollowStep ==
    ASSUME LP!BooksInv, OP!OutboxInv, OP!ReportsExist, EventsFollow, [Next]_vars
    PROVE  EventsFollow'
<1>1. status \in [Requests -> {"absent", "pending", "published", "failed"}]
  BY DEF OP!OutboxInv, OP!TypeOK, OP!Statuses
<1>2. CASE UNCHANGED <<transactions, outbox>>
  BY <1>2 DEF EventsFollow, L!Wrote, outbox
<1>3. CASE Transfer
  <2>1. ASSUME NEW r \in Requests, O!InsertEvent(r),
               transactions' = transactions \cup {L!TransactionRow(r)}, L!TransactionRow(r).id = r
        PROVE  EventsFollow'
    <3>1. ASSUME NEW s \in Requests PROVE L!Wrote(s)' <=> L!Wrote(s) \/ s = r
      BY <2>1 DEF L!Wrote
    <3>2. ASSUME NEW s \in Requests PROVE status'[s] = IF s = r THEN "pending" ELSE status[s]
      BY <1>1, <2>1 DEF O!InsertEvent
    <3> QED BY <3>1, <3>2 DEF EventsFollow
  <2> QED BY <1>2, <1>3, <2>1, TransferPosts
<1>4. CASE Deliver
  <2>1. transactions' = transactions
    BY <1>4 DEF Deliver, ledger
  <2>2. \A e \in Requests : status'[e] # status[e] => status[e] # "absent" /\ status'[e] # "absent"
    BY <1>4, DeliverSteps, OP!OutcomesMove, SystemAssumption
  <2> QED BY <2>1, <2>2 DEF EventsFollow, L!Wrote
<1> QED BY <1>2, <1>3, <1>4 DEF Next, GetEntries, GetRow, vars, ledger

(* A committed transaction has its two legs and no others. *)
LEMMA CommittedEntries ==
    ASSUME LP!BooksInv, NEW t \in transactions
    PROVE  {e \in entries : e.tx = t.id} = L!Legs(t.id)
  BY DEF LP!BooksInv, LP!LedgerInv, LP!HistoryInv, LP!AllOrNothing, L!Legs, LP!Legs, L!Leg, LP!Leg, L!Cmd, LP!Cmd

(* A second element. *)
LEMMA PairOf ==
    ASSUME NEW x, NEW y
    PROVE  Append(<<x>>, y) = <<x, y>>
<1> DEFINE S == {x, y}
<1>1. <<x>> \in Seq(S) /\ <<x, y>> \in Seq(S) /\ Len(<<x>>) = 1 /\ Len(<<x, y>>) = 2
  OBVIOUS
<1>2. Append(<<x>>, y) \in Seq(S) /\ Len(Append(<<x>>, y)) = 2
  BY <1>1
<1>3. Append(<<x>>, y)[1] = x /\ Append(<<x>>, y)[2] = y
  BY <1>1
<1>4. \A i \in 1..2 : Append(<<x>>, y)[i] = <<x, y>>[i]
  BY <1>3
<1> HIDE DEF S
<1> QED BY <1>1, <1>2, <1>4, SeqEqual

(* A page is of a transaction that has committed, and its legs are the ones
   that were committed with it. *)
LEMMA PagesStep ==
    ASSUME LP!BooksInv, page \in [Readers -> Pages], [Next]_vars
    PROVE  page' \in [Readers -> Pages']
<1>1. CASE Transfer
  <2>1. transactions \subseteq transactions' /\ req' = req /\ page' = page
    BY <1>1, TransferPosts DEF Transfer
  <2>2. \A t : L!Legs(t)' = L!Legs(t)
    BY <2>1 DEF L!Legs, L!Leg, L!Cmd
  <2>3. Pages \subseteq Pages'
    BY <2>1, <2>2 DEF Pages
  <2> QED BY <2>1, <2>3
<1>2. CASE UNCHANGED ledger
  <2>1. transactions' = transactions /\ entries' = entries /\ \A t : L!Legs(t)' = L!Legs(t)
    BY <1>2 DEF ledger, L!Legs, L!Leg, L!Cmd
  <2>2. Pages' = Pages
    BY <2>1 DEF Pages
  <2>3. CASE UNCHANGED page
    BY <2>2, <2>3
  <2>4. ASSUME NEW g \in Readers, NEW t \in transactions, GetRow(g, t)
        PROVE  page' \in [Readers -> Pages']
    BY <2>2, <2>4 DEF GetRow, Pages
  <2>5. ASSUME NEW g \in Readers, GetEntries(g)
        PROVE  page' \in [Readers -> Pages']
    <3>1. PICK t \in transactions : page[g] = <<t>>
      BY <2>5 DEF GetEntries, Pages
    <3>2. {e \in entries : e.tx = page[g][1].id} = L!Legs(t.id)
      BY <3>1, CommittedEntries
    <3>3. page' = [page EXCEPT ![g] = Append(page[g], L!Legs(t.id))]
      BY <2>5, <3>2 DEF GetEntries
    <3>4. page' = [page EXCEPT ![g] = <<t, L!Legs(t.id)>>]
      BY <3>1, <3>3, PairOf, Zenon
    <3> QED BY <2>2, <3>4 DEF Pages
  <2> QED BY <1>2, <2>3, <2>4, <2>5 DEF Next, Transfer, Deliver, vars
<1> QED BY <1>1, <1>2 DEF Next, Deliver, GetEntries, GetRow, vars

(* The outbox has the events of exactly the transfers that have committed, and
   what a reader has seen of a transfer is what its COMMIT wrote. *)
THEOREM PartsCoupled == Spec => []Coupled
<1>1. Init => Coupled
  BY DEF Init, L!Init, O!Init, Coupled, EventsFollow, Pages, L!Wrote
<1>2. LP!BooksInv /\ OP!OutboxInv /\ OP!ReportsExist /\ Coupled /\ [Next]_vars => Coupled'
  BY EventsFollowStep, PagesStep DEF Coupled
<1> QED BY <1>1, <1>2, LedgerPartInv, OutboxPartInv, PTL DEF Spec

(* GET /transactions/{id} shows a transaction with both its legs, which cancel,
   or not at all, though row and entries are read by two statements
   (GetTransaction). *)
THEOREM PagesAreComplete == Spec => []PagesComplete
<1>1. LP!BooksInv /\ Coupled => PagesComplete
  <2> SUFFICES ASSUME LP!BooksInv, Coupled, NEW g \in Readers, Len(page[g]) = 2
               PROVE  L!TriggerAccepts(page[g][2])
    BY DEF PagesComplete
  <2>1. PICK t \in transactions : page[g][2] = L!Legs(t.id)
    BY DEF Coupled, Pages
  <2>2. LP!TriggerAccepts({e \in entries : e.tx = t.id})
    BY DEF LP!BooksInv, LP!BooksBalance
  <2>3. {e \in entries : e.tx = t.id} = page[g][2]
    BY <2>1, CommittedEntries
  <2>4. ASSUME NEW S, LP!TriggerAccepts(S) PROVE L!TriggerAccepts(S)
    BY <2>4 DEF
        L!TriggerAccepts, LP!TriggerAccepts, L!Balanced, LP!Balanced, L!SignedSum, LP!SignedSum,
        L!SignedAmount, LP!SignedAmount, L!SumFunctionOnSet, LP!SumFunctionOnSet,
        L!FoldFunctionOnSet, LP!FoldFunctionOnSet, L!MapThenFoldSet, LP!MapThenFoldSet,
        L!Cardinality, LP!Cardinality, L!IsFiniteSet, LP!IsFiniteSet
  <2> QED BY <2>2, <2>3, <2>4
<1> QED BY <1>1, LedgerPartInv, PartsCoupled, PTL

(* Once every transfer has been reported, the balances that a listener gets by
   adding up the events are the ledger's. *)
THEOREM MirrorsAgree == Spec => []EventsRebuildBalances
<1>1. LP!BooksInv => EventsRebuildBalances
  <2> SUFFICES ASSUME LP!BooksInv, {t.id : t \in transactions} \subseteq accepted, NEW a \in AccountIds
               PROVE  Mirrored(a) = balance[a]
    BY DEF EventsRebuildBalances
  <2>1. \A v \in events : v.aggregate \in accepted
    BY DEF LP!BooksInv, LP!LedgerInv, LP!HistoryInv, LP!AllOrNothing, LP!Wrote
  <2>2. {v \in events : v.aggregate \in accepted} = events
    BY <2>1
  <2>3. balance[a] = LP!SumFunctionOnSet([v \in events |-> LP!SignedSum({l \in v.legs : l.account = a})], events)
    BY DEF LP!BooksInv, LP!EventsAddUp
  <2> QED BY <2>2, <2>3 DEF Mirrored, Share,
        L!SignedSum, LP!SignedSum, L!SignedAmount, LP!SignedAmount, L!SumFunctionOnSet, LP!SumFunctionOnSet,
        L!FoldFunctionOnSet, LP!FoldFunctionOnSet, L!MapThenFoldSet, LP!MapThenFoldSet,
        SumFunctionOnSet, FoldFunctionOnSet, MapThenFoldSet
<1> QED BY <1>1, LedgerPartInv, PTL

-----------------------------------------------------------------------------
(* The refinement.                                                          *)

(* A step of the service is a step of Reporting, or none. *)
LEMMA ReportingStep ==
    ASSUME LP!BooksInv, OP!OutboxInv, OP!OutboxInv', OP!ReportsExist, EventsFollow, [Next]_vars
    PROVE  [R!Next]_<<{t.id : t \in transactions}, accepted, status>>
<1> DEFINE posted == {t.id : t \in transactions}
<1>1. status \in [Requests -> R!Verdicts] /\ status' \in [Requests -> R!Verdicts]
  BY DEF OP!OutboxInv, OP!TypeOK, OP!Statuses, R!Verdicts
<1>2. \A r \in Requests : r \in posted <=> status[r] # "absent"
  BY DEF EventsFollow, L!Wrote
<1>3. CASE UNCHANGED <<transactions, outbox>>
  BY <1>3 DEF outbox
<1>4. CASE Transfer
  <2>1. ASSUME NEW r \in Requests, ~L!Wrote(r), O!InsertEvent(r),
               transactions' = transactions \cup {L!TransactionRow(r)}, L!TransactionRow(r).id = r
        PROVE  R!Post(r)
    <3>1. r \notin posted /\ posted' = posted \cup {r}
      BY <2>1 DEF L!Wrote
    <3> QED BY <2>1, <3>1 DEF R!Post, O!InsertEvent
  <2> QED BY <1>3, <1>4, <2>1, TransferPosts DEF R!Next
<1>5. CASE Deliver
  <2>1. posted' = posted
    BY <1>5 DEF Deliver, ledger
  <2>2. \/ status' = status /\ accepted' = accepted
        \/ \E e \in Requests : status[e] # "absent" /\ status' = status /\ accepted' = accepted \cup {e}
        \/ /\ accepted' = accepted
           /\ \A e \in Requests : status'[e] # status[e] => status[e] # "absent" /\ status'[e] # "absent"
    BY <1>5, DeliverSteps, OP!OutcomesMove, SystemAssumption
  <2>3. CASE status' = status /\ accepted' = accepted
    BY <2>1, <2>3
  <2>4. ASSUME NEW e \in Requests, status[e] # "absent", status' = status, accepted' = accepted \cup {e}
        PROVE  R!Report(e)
    BY <1>2, <2>1, <2>4 DEF R!Report
  <2>5. ASSUME accepted' = accepted,
               \A e \in Requests : status'[e] # status[e] => status[e] # "absent" /\ status'[e] # "absent"
        PROVE  R!Settle
    <3>1. \A e \in Requests : status'[e] = "published" => e \in accepted
      BY <2>5 DEF OP!OutboxInv, OP!NothingLost
    <3> QED BY <1>1, <1>2, <2>1, <2>5, <3>1 DEF R!Settle
  <2> QED BY <2>2, <2>3, <2>4, <2>5 DEF R!Next
<1> QED BY <1>3, <1>4, <1>5 DEF Next, GetEntries, GetRow, vars, ledger

(* Transfers and relays over one database implement the safety of Reporting:
   a transfer and its event happen at once, only transfers that happened are
   reported, and none is marked published that was not. *)
THEOREM ReportingImplemented == Spec => R!Safety
<1>1. Init => R!Init
  BY DEF Init, L!Init, O!Init, R!Init
<1>2. LP!BooksInv /\ OP!OutboxInv /\ OP!OutboxInv' /\ OP!ReportsExist /\ Coupled /\ [Next]_vars
        => [R!Next]_<<{t.id : t \in transactions}, accepted, status>>
  BY ReportingStep DEF Coupled
<1> QED BY <1>1, <1>2, LedgerPartInv, OutboxPartInv, PartsCoupled, PTL DEF Spec, R!Safety
=============================================================================
