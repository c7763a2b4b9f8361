---------------------------- MODULE LedgerProofs ----------------------------
(***************************************************************************)
(* Proofs about LedgerStore, for every set of requests, accounts, keys and *)
(* commands: IndInv is inductive, and the safety properties follow.        *)
(***************************************************************************)
EXTENDS LedgerInvariant, TLAPS

-----------------------------------------------------------------------------
(* What passing the checks of handleCreateTransaction and Service.Transfer
   tells the store about a request. *)
LEMMA AdmittedCommand ==
    ASSUME TypeOK, NEW r \in Requests, Precheck(r) = "ok"
    PROVE  /\ req[r].key \in Keys
           /\ Cmd(r) \in Commands
           /\ Cmd(r).debit \in AccountIds /\ Cmd(r).credit \in AccountIds
           /\ Cmd(r).amount \in Int /\ Cmd(r).amount > 0
           /\ Cmd(r).debit # Cmd(r).credit
           /\ Ids(r) \subseteq AccountIds
           /\ Hash(r) \in Hashes
<1>1. req[r].key \in Headers /\ req[r].body \in Bodies
  BY DEF TypeOK
<1>2. req[r].key \in Keys /\ req[r].body \in WellFormed /\ Validate(Cmd(r)) = "ok"
  BY <1>1 DEF Precheck, Headers
<1>3. Cmd(r) \in Commands
  BY <1>2, ConstantsAssumption DEF Cmd
<1>4. Cmd(r).amount > 0 /\ Cmd(r).debit # Cmd(r).credit
  BY <1>2, <1>3 DEF Validate, Commands
<1>5. Hash(r) \in Hashes
  BY <1>1, ConstantsAssumption DEF Hash
<1> QED BY <1>2, <1>3, <1>4, <1>5 DEF Ids, Commands

(* The shapes a step of the system can have.  A session moves on without
   touching any table, ends without writing, or ends by publishing all it
   wrote; besides the rows it locks, that is all. *)
Speaks(r) ==
    \/ reply' = reply
    \/ \E kind \in Kinds \ {"floor_backstop"}, tx \in Requests \cup {NoTx} :
            Answer(r, kind, tx)

Advances(r, from, to) ==
    /\ pc[r] = from
    /\ Goto(r, to)
    /\ UNCHANGED <<tables, req, todo, held, seen, reply, lost>>

Ends(r) ==
    /\ EndSession(r)
    /\ Speaks(r)
    /\ UNCHANGED <<tables, req, lost>>

Writes(r) ==
    /\ pc[r] = "commit"
    /\ Publish(r)
    /\ EndSession(r)
    /\ Speaks(r)
    /\ UNCHANGED <<req, lost>>

Drops(r) ==
    /\ lost' = lost \cup {r}
    /\ Speaks(r)
    /\ UNCHANGED <<tables, req, sessions>>

Shape(r) ==
    \/ Advances(r, "new", "begin") /\ Precheck(r) = "ok"
    \/ Advances(r, "begin", "claim")
    \/ Advances(r, "claim", "select") /\ KeyFree(r) /\ keys[req[r].key] = NoRow
    \/ Advances(r, "claim", "stored") /\ keys[req[r].key] # NoRow
    \/ SelectAccounts(r)
    \/ \E a \in AccountIds : LockAccount(r, a)
    \/ Advances(r, "lock", "insert") /\ todo[r] = {} /\ AccountsVerdict(r) = "ok"
    \/ Advances(r, "insert", "apply") /\ RefFree(r) /\ ~RefTaken(r)
    \/ Advances(r, "apply", "commit")
    \/ Ends(r)
    \/ Writes(r)
    \/ Drops(r)

(* The funds check covers the UPDATE: the balance it was made on is the one
   the UPDATE reads, so no new balance is below its account's floor. *)
LEMMA FloorSafe ==
    ASSUME IndInv, NEW r \in Requests, pc[r] \in {"apply", "commit"},
           NEW a \in Ids(r)
    PROVE  FloorHolds(a, NewBalance(r, a))
<1>1. Precheck(r) = "ok"
  BY DEF IndInv, Admitted, InTx, OwningKey
<1>2. /\ Cmd(r).debit \in AccountIds /\ Cmd(r).credit \in AccountIds
      /\ Cmd(r).amount \in Int /\ Cmd(r).amount > 0
      /\ Cmd(r).debit # Cmd(r).credit
  BY <1>1, AdmittedCommand DEF IndInv
<1>3. \A b \in AccountIds : balance[b] \in Int /\ FloorHolds(b, balance[b])
  BY DEF IndInv, TypeOK, BackstopSilent
<1>4. seen[r] = balance[Cmd(r).credit] /\ Covered(r)
  BY DEF IndInv, SeenIsCurrent, RowsInOrder, Ids
<1>5. CASE a = Cmd(r).debit
  BY <1>2, <1>3, <1>5 DEF FloorHolds, NewBalance
<1>6. CASE a = Cmd(r).credit
  BY <1>2, <1>3, <1>4, <1>6 DEF FloorHolds, NewBalance, Covered
<1> QED BY <1>5, <1>6 DEF Ids

(* A refusal of any kind but the backstop's ends the session and writes
   nothing. *)
LEMMA RefuseEnds ==
    ASSUME NEW r \in Requests, NEW kind \in Kinds \ {"floor_backstop"}, Refuse(r, kind)
    PROVE  Shape(r)
  BY DEF Refuse, Shape, Ends, Speaks

(* Each action of a request has one of the shapes; in particular the branch
   of applyBalances that meets accounts_balance_floor is never taken. *)
LEMMA ServeShape ==
    ASSUME IndInv, NEW r \in Requests, Serve(r)
    PROVE  Shape(r)
<1>1. CASE Receive(r)
  <2>1. Precheck(r) = "ok" \/ Precheck(r) \in Kinds \ {"floor_backstop"}
    BY DEF Precheck, Validate, Kinds
  <2> QED BY <1>1, <2>1, RefuseEnds DEF Receive, At, Shape, Advances
<1>2. CASE Begin(r)
  BY <1>2 DEF Begin, At, Shape, Advances
<1>3. CASE ClaimKey(r)
  BY <1>3 DEF ClaimKey, At, Shape, Advances
<1>4. CASE ReplayStoredResponse(r)
  <2>1. CASE StoredKind(r) = "replayed"
    <3>1. /\ Answer(r, "replayed", keys[req[r].key].response)
          /\ EndSession(r) /\ UNCHANGED <<tables, req, lost>>
      BY <1>4, <2>1 DEF ReplayStoredResponse
    <3>2. keys[req[r].key].response \in Requests \cup {NoTx}
      <4>1. Precheck(r) = "ok" /\ keys[req[r].key] # NoRow
        BY <1>4 DEF ReplayStoredResponse, At, IndInv, Admitted, KeysStored, InTx
      <4>2. keys[req[r].key] \in KeyRows
        BY <4>1, AdmittedCommand DEF IndInv, TypeOK
      <4> QED BY <4>2 DEF KeyRows
    <3> QED BY <3>1, <3>2 DEF Shape, Ends, Speaks, Kinds
  <2>2. CASE StoredKind(r) # "replayed"
    <3>1. StoredKind(r) \in Kinds \ {"floor_backstop"}
      BY <2>2 DEF StoredKind, Kinds
    <3> QED BY <1>4, <2>2, <3>1, RefuseEnds DEF ReplayStoredResponse
  <2> QED BY <2>1, <2>2
<1>5. CASE SelectAccounts(r)
  BY <1>5 DEF Shape
<1>6. CASE \E a \in AccountIds : LockAccount(r, a)
  BY <1>6 DEF Shape
<1>7. CASE CheckAccounts(r)
  <2>1. AccountsVerdict(r) = "ok" \/ AccountsVerdict(r) \in Kinds \ {"floor_backstop"}
    BY DEF AccountsVerdict, Kinds
  <2> QED BY <1>7, <2>1, RefuseEnds DEF CheckAccounts, At, Shape, Advances
<1>8. CASE WriteTransaction(r)
  BY <1>8, RefuseEnds DEF WriteTransaction, At, Shape, Advances, Kinds
<1>9. CASE ApplyBalances(r)
  <2>1. pc[r] = "apply" /\ \A a \in Ids(r) : FloorHolds(a, NewBalance(r, a))
    BY <1>9, FloorSafe DEF ApplyBalances, At
  <2>2. held[r] = Ids(r) /\ held = [held EXCEPT ![r] = @ \cup Ids(r)]
    BY <2>1 DEF IndInv, RowsInOrder, TypeOK
  <2> QED BY <1>9, <2>1, <2>2, RefuseEnds DEF ApplyBalances, Shape, Advances, Kinds
<1>10. CASE Commit(r)
  BY <1>10, RefuseEnds DEF Commit, Asserted, At, Shape, Writes, Speaks, Kinds
<1> QED BY <1>1, <1>2, <1>3, <1>4, <1>5, <1>6, <1>7, <1>8, <1>9, <1>10 DEF Serve

(* So does every step of the system, unless it creates an account. *)
LEMMA NextShape ==
    ASSUME IndInv, [Next]_vars
    PROVE  \/ UNCHANGED vars
           \/ \E a \in AccountIds : CreateAccount(a)
           \/ \E r \in Requests : Shape(r)
<1>1. ASSUME NEW r \in Requests, Disconnect(r) PROVE Shape(r)
  BY <1>1 DEF Disconnect, Shape, Drops, Speaks, Kinds
<1>2. ASSUME NEW r \in Requests, OrphanEnds(r) PROVE Shape(r)
  BY <1>2 DEF OrphanEnds, OrphanAbort, OrphanCommit, Shape, Ends, Writes, Speaks
<1> QED BY <1>1, <1>2, ServeShape DEF Next, Finished

-----------------------------------------------------------------------------
(* The steps preserve the invariant, conjunct by conjunct. *)

(* What Store.Transfer publishes has the types of the tables. *)
LEMMA PublishedRows ==
    ASSUME IndInv, NEW r \in Requests, pc[r] = "commit"
    PROVE  /\ TransactionRow(r) \in TransactionRows
           /\ Legs(r) \subseteq EntryRows
           /\ TransactionCreated(r) \in EventRows
           /\ StoredResponse(r) \in KeyRows
           /\ \A a \in Ids(r) : a \in AccountIds /\ NewBalance(r, a) \in Int
           /\ req[r].key \in Keys
<1>1. Precheck(r) = "ok"
  BY DEF IndInv, Admitted, InTx, OwningKey
<1>2. /\ req[r].key \in Keys /\ Cmd(r) \in Commands /\ Hash(r) \in Hashes
      /\ Ids(r) \subseteq AccountIds
  BY <1>1, AdmittedCommand DEF IndInv
<1>3. TransactionRow(r) \in TransactionRows
  BY <1>2 DEF TransactionRow, TransactionRows, Commands
<1>4. Legs(r) \subseteq EntryRows
  BY <1>2 DEF Legs, Leg, EntryRows, Commands
<1>5. TransactionCreated(r) \in EventRows
  BY <1>4 DEF TransactionCreated, EventRows
<1>6. StoredResponse(r) \in KeyRows
  BY <1>2 DEF StoredResponse, KeyRows
<1>7. \A a \in Ids(r) : NewBalance(r, a) \in Int
  BY <1>2 DEF NewBalance, Commands, IndInv, TypeOK
<1> QED BY <1>2, <1>3, <1>4, <1>5, <1>6, <1>7

(* An answer is a reply. *)
LEMMA SpeaksType ==
    ASSUME reply \in [Requests -> Replies], NEW r \in Requests, Speaks(r)
    PROVE  reply' \in [Requests -> Replies]
  BY DEF Speaks, Answer, Replies

(* Every step keeps every variable in its type. *)
LEMMA TypeStep ==
    ASSUME IndInv, NEW r \in Requests, Shape(r)
    PROVE  TypeOK'
<1> USE DEF IndInv
<1>1. ASSUME NEW from, NEW to \in Steps, Advances(r, from, to) PROVE TypeOK'
  BY <1>1 DEF Advances, Goto, tables, TypeOK
<1>2. CASE SelectAccounts(r)
  BY <1>2 DEF SelectAccounts, Goto, tables, TypeOK, Steps, InTx, OwningKey
<1>3. ASSUME NEW a \in AccountIds, LockAccount(r, a) PROVE TypeOK'
  BY <1>3 DEF LockAccount, tables, TypeOK
<1>4. CASE Ends(r)
  BY <1>4, SpeaksType DEF Ends, EndSession, tables, TypeOK, Steps
<1>5. CASE Writes(r)
  <2>1. balance' \in [AccountIds -> Int]
    BY <1>5, PublishedRows DEF Writes, Publish, TypeOK
  <2>2. keys' \in [Keys -> KeyRows \cup {NoRow}]
    BY <1>5, PublishedRows DEF Writes, Publish, TypeOK
  <2>3. transactions' \subseteq TransactionRows
    BY <1>5, PublishedRows DEF Writes, Publish, TypeOK
  <2>4. entries' \subseteq EntryRows
    BY <1>5, PublishedRows DEF Writes, Publish, TypeOK
  <2>5. events' \subseteq EventRows
    BY <1>5, PublishedRows DEF Writes, Publish, TypeOK
  <2>6. /\ created' = created /\ req' = req /\ lost' = lost
        /\ pc' \in [Requests -> Steps] /\ todo' \in [Requests -> SUBSET AccountIds]
        /\ held' \in [Requests -> SUBSET AccountIds] /\ seen' \in [Requests -> Int]
    BY <1>5 DEF Writes, Publish, EndSession, TypeOK, Steps
  <2>7. reply' \in [Requests -> Replies]
    BY <1>5, SpeaksType DEF Writes, TypeOK
  <2> QED BY <2>1, <2>2, <2>3, <2>4, <2>5, <2>6, <2>7 DEF TypeOK
<1>6. CASE Drops(r)
  BY <1>6, SpeaksType DEF Drops, tables, sessions, TypeOK
<1>7. {"begin", "claim", "select", "stored", "insert", "apply", "commit"} \subseteq Steps
  BY DEF Steps, InTx, OwningKey
<1> QED BY <1>1, <1>2, <1>3, <1>4, <1>5, <1>6, <1>7 DEF Shape

(* A step of r leaves the commands, and the sessions of the others, alone. *)
LEMMA Frame ==
    ASSUME IndInv, NEW r \in Requests, Shape(r)
    PROVE  /\ req' = req
           /\ \A s \in Requests : s # r =>
                /\ pc'[s] = pc[s] /\ held'[s] = held[s]
                /\ todo'[s] = todo[s] /\ seen'[s] = seen[s]
           /\ \A s \in Requests :
                /\ Precheck(s)' = Precheck(s) /\ Cmd(s)' = Cmd(s)
                /\ Ids(s)' = Ids(s) /\ Hash(s)' = Hash(s)
<1>1. req' = req
  BY DEF Shape, Advances, SelectAccounts, LockAccount, Ends, Writes, Drops
<1>2. \A s \in Requests :
        /\ Precheck(s)' = Precheck(s) /\ Cmd(s)' = Cmd(s)
        /\ Ids(s)' = Ids(s) /\ Hash(s)' = Hash(s)
  BY <1>1 DEF Precheck, Cmd, Ids, Hash
<1>3. ASSUME NEW s \in Requests, s # r
      PROVE  /\ pc'[s] = pc[s] /\ held'[s] = held[s]
             /\ todo'[s] = todo[s] /\ seen'[s] = seen[s]
  BY <1>3 DEF Shape, Advances, SelectAccounts, LockAccount, Ends, Writes, Drops,
              Goto, EndSession, sessions, IndInv, TypeOK
<1> QED BY <1>1, <1>2, <1>3

(* Where the step takes r. *)
LEMMA Moves ==
    ASSUME IndInv, NEW r \in Requests, Shape(r)
    PROVE  \/ pc'[r] = pc[r]
           \/ pc'[r] = "done"
           \/ pc[r] = "new" /\ pc'[r] = "begin" /\ Precheck(r) = "ok"
           \/ pc[r] = "begin" /\ pc'[r] = "claim"
           \/ pc[r] = "claim" /\ pc'[r] = "select" /\ KeyFree(r) /\ keys[req[r].key] = NoRow
           \/ pc[r] = "claim" /\ pc'[r] = "stored" /\ keys[req[r].key] # NoRow
           \/ pc[r] = "select" /\ pc'[r] = "lock"
           \/ pc[r] = "lock" /\ pc'[r] = "insert"
           \/ pc[r] = "insert" /\ pc'[r] = "apply" /\ RefFree(r) /\ ~RefTaken(r)
           \/ pc[r] = "apply" /\ pc'[r] = "commit"
<1> USE DEF IndInv, TypeOK
<1>1. ASSUME NEW from, NEW to, Advances(r, from, to) PROVE pc[r] = from /\ pc'[r] = to
  BY <1>1 DEF Advances, Goto
<1>2. CASE SelectAccounts(r)
  BY <1>2 DEF SelectAccounts, At, Goto
<1>3. ASSUME NEW a \in AccountIds, LockAccount(r, a) PROVE pc'[r] = pc[r]
  BY <1>3 DEF LockAccount
<1>4. CASE Ends(r) \/ Writes(r)
  BY <1>4 DEF Ends, Writes, EndSession
<1>5. CASE Drops(r)
  BY <1>5 DEF Drops, sessions
<1> QED BY <1>1, <1>2, <1>3, <1>4, <1>5 DEF Shape

(* A session that reaches the database has been admitted. *)
LEMMA AdmittedStep ==
    ASSUME IndInv, NEW r \in Requests, Shape(r)
    PROVE  Admitted'
<1>1. pc'[r] \in {"begin"} \cup InTx =>
        pc[r] \in {"begin"} \cup InTx \/ Precheck(r) = "ok"
  BY Moves DEF InTx, OwningKey
<1> QED BY <1>1, Frame DEF IndInv, Admitted

(* The tables change only when r publishes, and then only its own key's row
   and its own accounts' balances, and only r's transaction is new. *)
LEMMA TablesStep ==
    ASSUME IndInv, NEW r \in Requests, Shape(r)
    PROVE  \/ UNCHANGED tables
           \/ /\ pc[r] = "commit" /\ pc'[r] = "done"
              /\ transactions' = transactions \cup {TransactionRow(r)}
              /\ keys' = [keys EXCEPT ![req[r].key] = StoredResponse(r)]
              /\ balance' = [a \in AccountIds |->
                                IF a \in Ids(r) THEN NewBalance(r, a) ELSE balance[a]]
              /\ created' = created
<1>1. CASE Writes(r)
  BY <1>1 DEF Writes, Publish, EndSession, IndInv, TypeOK
<1>2. CASE ~Writes(r)
  BY <1>2 DEF Shape, Advances, SelectAccounts, LockAccount, Ends, Drops
<1> QED BY <1>1, <1>2

(* The unique index of idempotency_keys has one owner per key. *)
LEMMA KeysStep ==
    ASSUME IndInv, NEW r \in Requests, Shape(r)
    PROVE  KeysExclusive' /\ KeysUnclaimed' /\ KeysStored'
<1>1. pc'[r] \in OwningKey => pc[r] \in OwningKey \/ (KeyFree(r) /\ keys[req[r].key] = NoRow)
  BY Moves DEF OwningKey
<1>2. KeysExclusive'
  BY <1>1, Frame DEF IndInv, KeysExclusive, KeyFree, HoldsKey
<1>3. ASSUME pc[r] = "commit", pc'[r] = "done",
             keys' = [keys EXCEPT ![req[r].key] = StoredResponse(r)]
      PROVE  KeysUnclaimed' /\ KeysStored'
  <2>1. \A s \in Requests : s # r /\ pc'[s] \in OwningKey => req[s].key # req[r].key
    BY <1>3, Frame DEF IndInv, KeysExclusive, OwningKey
  <2>2. KeysUnclaimed'
    BY <1>3, <2>1, Frame DEF IndInv, KeysUnclaimed, TypeOK, OwningKey
  <2>3. StoredResponse(r) # NoRow
    BY <1>3, PublishedRows, NoRowAssumption
  <2>4. \A s \in Requests : pc'[s] = "stored" => s # r /\ pc[s] = "stored"
    BY <1>3, Frame
  <2>5. \A s \in Requests : pc[s] = "stored" => req[s].key \in Keys
    BY AdmittedCommand DEF IndInv, Admitted, InTx
  <2> QED BY <1>3, <2>2, <2>3, <2>4, <2>5, Frame DEF IndInv, KeysStored, TypeOK
<1>4. ASSUME keys' = keys PROVE KeysUnclaimed' /\ KeysStored'
  <2>1. pc'[r] = "stored" => keys[req[r].key] # NoRow
    BY Moves DEF IndInv, KeysStored
  <2> QED BY <1>1, <1>4, <2>1, Frame DEF IndInv, KeysUnclaimed, KeysStored
<1> QED BY <1>2, <1>3, <1>4, TablesStep DEF tables

(* The unique index of external_ref has one owner per reference, and no
   reference is used by two transactions. *)
LEMMA RefsStep ==
    ASSUME IndInv, NEW r \in Requests, Shape(r)
    PROVE  RefsExclusive' /\ RefsUnused' /\ RefUsedOnce'
<1>1. pc'[r] \in OwningRef => pc[r] \in OwningRef \/ (RefFree(r) /\ ~RefTaken(r))
  BY Moves DEF OwningRef
<1>2. RefsExclusive'
  BY <1>1, Frame DEF IndInv, RefsExclusive, RefFree, HoldsRef
<1>3. ASSUME pc[r] = "commit", pc'[r] = "done",
             transactions' = transactions \cup {TransactionRow(r)}
      PROVE  RefsUnused' /\ RefUsedOnce'
  <2>1. \A s \in Requests : s # r /\ pc'[s] \in OwningRef /\ Cmd(s).ref # NoRef
            => Cmd(s).ref # Cmd(r).ref
    BY <1>3, Frame DEF IndInv, RefsExclusive, OwningRef
  <2>2. ~RefTaken(r)
    BY <1>3 DEF IndInv, RefsUnused, OwningRef
  <2>3. RefsUnused'
    BY <1>3, <2>1, Frame DEF IndInv, RefsUnused, RefTaken, TransactionRow, OwningRef
  <2>4. RefUsedOnce'
    BY <1>3, <2>2 DEF IndInv, RefUsedOnce, RefTaken, TransactionRow
  <2> QED BY <2>3, <2>4
<1>4. ASSUME transactions' = transactions PROVE RefsUnused' /\ RefUsedOnce'
  BY <1>1, <1>4, Frame DEF IndInv, RefsUnused, RefTaken, RefUsedOnce
<1> QED BY <1>2, <1>3, <1>4, TablesStep DEF tables

(* Row locks are exclusive, taken in ascending order and kept to the end. *)
LEMMA RowsStep ==
    ASSUME IndInv, NEW r \in Requests, Shape(r)
    PROVE  RowsExclusive' /\ RowsInOrder'
<1> DEFINE Ordered(s) ==
      /\ pc[s] \notin {"lock", "insert", "apply", "commit"} => held[s] = {} /\ todo[s] = {}
      /\ pc[s] = "lock" =>
          /\ held[s] \subseteq Ids(s) /\ todo[s] \subseteq Ids(s)
          /\ \A a \in held[s], b \in todo[s] : a < b
      /\ pc[s] \in {"insert", "apply", "commit"} => held[s] = Ids(s)
      /\ held[s] \cup todo[s] \subseteq created
<1>1. \A s \in Requests : Ordered(s)
  BY DEF IndInv, RowsInOrder
<1>2. created' = created
  BY TablesStep DEF tables
<1>3. \A s \in Requests : s # r => Ordered(s)'
  BY <1>1, <1>2, Frame
<1>4. SUFFICES /\ Ordered(r)'
               /\ \A s \in Requests : s # r => held'[r] \cap held[s] = {}
  BY <1>3, Frame DEF IndInv, RowsExclusive, RowsInOrder
<1>5. ASSUME NEW from, NEW to, Advances(r, from, to)
      PROVE  /\ pc[r] = from /\ pc'[r] = to
             /\ held'[r] = held[r] /\ todo'[r] = todo[r]
  BY <1>5 DEF Advances, Goto, IndInv, TypeOK
<1>6. \A s \in Requests : s # r => held[r] \cap held[s] = {}
  BY DEF IndInv, RowsExclusive
<1>7. CASE \/ Advances(r, "new", "begin") \/ Advances(r, "begin", "claim")
           \/ Advances(r, "claim", "select") \/ Advances(r, "claim", "stored")
           \/ Advances(r, "insert", "apply") \/ Advances(r, "apply", "commit")
  BY <1>1, <1>2, <1>5, <1>6, <1>7, Frame
<1>8. CASE SelectAccounts(r)
  <2>1. /\ pc[r] = "select" /\ pc'[r] = "lock"
        /\ todo'[r] = Ids(r) \cap created /\ held'[r] = held[r]
    BY <1>8 DEF SelectAccounts, At, Goto, IndInv, TypeOK
  <2> QED BY <1>1, <1>2, <1>6, <2>1, Frame
<1>9. ASSUME NEW a \in AccountIds, LockAccount(r, a)
      PROVE  /\ Ordered(r)'
             /\ \A s \in Requests : s # r => held'[r] \cap held[s] = {}
  <2>1. /\ pc[r] = "lock" /\ pc'[r] = "lock"
        /\ todo'[r] = todo[r] \ {a} /\ held'[r] = held[r] \cup {a}
    BY <1>9 DEF LockAccount, At, IndInv, TypeOK
  <2>2. a \in todo[r] /\ \A b \in todo[r] : a <= b
    BY <1>9 DEF LockAccount, LocksNext
  <2>3. \A s \in Requests : s # r => a \notin held[s]
    BY <1>9 DEF LockAccount, ForUpdate, RowFree
  <2>4. \A b \in todo[r] \ {a} : a < b
    BY <2>2, ConstantsAssumption DEF IndInv, TypeOK
  <2>5. Ordered(r)'
    BY <1>1, <1>2, <2>1, <2>2, <2>4, Frame
  <2> QED BY <1>6, <2>1, <2>3, <2>5
<1>10. CASE Advances(r, "lock", "insert") /\ todo[r] = {} /\ AccountsVerdict(r) = "ok"
  <2>1. Ids(r) \subseteq held[r]
    BY <1>10 DEF AccountsVerdict
  <2>2. /\ pc[r] = "lock" /\ pc'[r] = "insert"
        /\ held'[r] = held[r] /\ todo'[r] = todo[r]
    BY <1>5, <1>10
  <2>3. held[r] = Ids(r) /\ held[r] \cup todo[r] \subseteq created
    BY <1>1, <2>1, <2>2
  <2>4. Ids(r)' = Ids(r)
    BY Frame
  <2>5. Ordered(r)'
    BY <1>2, <2>2, <2>3, <2>4
  <2> QED BY <1>6, <2>2, <2>5
<1>11. CASE Ends(r) \/ Writes(r)
  <2>1. pc'[r] = "done" /\ held'[r] = {} /\ todo'[r] = {}
    BY <1>11 DEF Ends, Writes, EndSession, IndInv, TypeOK
  <2> QED BY <2>1
<1>12. CASE Drops(r)
  BY <1>1, <1>2, <1>6, <1>12, Frame DEF Drops, sessions
<1> QED BY <1>7, <1>8, <1>9, <1>10, <1>11, <1>12 DEF Shape

(* The balance a session read with its lock stays the balance, because only a
   session that holds the row can change it; and it covers the transfer. *)
LEMMA SeenStep ==
    ASSUME IndInv, NEW r \in Requests, Shape(r)
    PROVE  SeenIsCurrent'
<1> DEFINE Current(s) ==
      /\ pc[s] \in {"lock", "insert", "apply", "commit"} /\ Cmd(s).credit \in held[s]
          => seen[s] = balance[Cmd(s).credit]
      /\ pc[s] \in {"insert", "apply", "commit"} => Covered(s)
<1>1. \A s \in Requests : Current(s)
  BY DEF IndInv, SeenIsCurrent
<1>2. \A s \in Requests : seen'[s] = seen[s] => Covered(s)' = Covered(s)
  BY Frame DEF Covered
<1>3. ASSUME NEW s \in Requests, s # r PROVE Current(s)'
  <2>1. CASE UNCHANGED tables
    BY <1>1, <1>2, <1>3, <2>1, Frame DEF tables
  <2>2. CASE Writes(r)
    <3>1. held[r] = Ids(r) /\ held[r] \cap held[s] = {}
      BY <1>3, <2>2 DEF Writes, IndInv, RowsInOrder, RowsExclusive
    <3>2. \A a \in held[s] : balance'[a] = balance[a]
      BY <3>1, <2>2 DEF Writes, Publish, IndInv, TypeOK
    <3> QED BY <1>1, <1>2, <1>3, <3>2, Frame
  <2> QED BY <2>1, <2>2 DEF Shape, Advances, SelectAccounts, LockAccount, Ends, Drops
<1>4. Current(r)'
  <2>1. ASSUME NEW from, NEW to, Advances(r, from, to)
        PROVE  /\ pc[r] = from /\ pc'[r] = to /\ balance' = balance
               /\ held'[r] = held[r] /\ seen'[r] = seen[r]
    BY <2>1 DEF Advances, Goto, tables, IndInv, TypeOK
  <2>2. held[r] # {} => pc[r] \in {"lock", "insert", "apply", "commit"}
    BY DEF IndInv, RowsInOrder
  <2>3. CASE \/ Advances(r, "new", "begin") \/ Advances(r, "begin", "claim")
             \/ Advances(r, "claim", "select") \/ Advances(r, "claim", "stored")
    BY <2>1, <2>3
  <2>4. CASE Advances(r, "insert", "apply") \/ Advances(r, "apply", "commit")
    BY <1>1, <1>2, <2>1, <2>4, Frame
  <2>5. CASE Advances(r, "lock", "insert") /\ AccountsVerdict(r) = "ok"
    <3>1. Covered(r)
      BY <2>5 DEF AccountsVerdict
    <3> QED BY <1>1, <1>2, <2>1, <2>5, <3>1, Frame
  <2>6. CASE SelectAccounts(r)
    <3>1. pc[r] = "select" /\ pc'[r] = "lock" /\ held'[r] = held[r]
      BY <2>6 DEF SelectAccounts, At, Goto, IndInv, TypeOK
    <3> QED BY <2>2, <3>1
  <2>7. ASSUME NEW a \in AccountIds, LockAccount(r, a) PROVE Current(r)'
    <3>1. /\ pc[r] = "lock" /\ pc'[r] = "lock" /\ balance' = balance
          /\ held'[r] = held[r] \cup {a}
          /\ seen'[r] = IF a = Cmd(r).credit THEN balance[a] ELSE seen[r]
      BY <2>7 DEF LockAccount, At, tables, IndInv, TypeOK
    <3> QED BY <1>1, <3>1, Frame
  <2>8. CASE Ends(r) \/ Writes(r)
    BY <2>8 DEF Ends, Writes, EndSession, IndInv, TypeOK
  <2>9. CASE Drops(r)
    BY <1>1, <1>2, <2>9, Frame DEF Drops, sessions, tables
  <2> QED BY <2>3, <2>4, <2>5, <2>6, <2>7, <2>8, <2>9 DEF Shape
<1> QED BY <1>3, <1>4 DEF SeenIsCurrent

(* No answer comes from the backstop and no balance falls below its floor. *)
LEMMA BackstopStep ==
    ASSUME IndInv, NEW r \in Requests, Shape(r)
    PROVE  BackstopSilent'
<1>1. Speaks(r)
  BY DEF Shape, Advances, SelectAccounts, LockAccount, Ends, Writes, Drops, Speaks
<1>2. \A s \in Requests : reply'[s].kind # "floor_backstop"
  BY <1>1 DEF Speaks, Answer, IndInv, BackstopSilent, TypeOK
<1>3. \A a \in AccountIds : FloorHolds(a, balance'[a])
  <2>1. \A a \in AccountIds : FloorHolds(a, balance[a])
    BY DEF IndInv, BackstopSilent
  <2>2. CASE UNCHANGED tables
    BY <2>1, <2>2 DEF tables
  <2>3. CASE pc[r] = "commit" /\ balance' = [a \in AccountIds |->
                 IF a \in Ids(r) THEN NewBalance(r, a) ELSE balance[a]]
    BY <2>1, <2>3, FloorSafe
  <2> QED BY <2>2, <2>3, TablesStep
<1> QED BY <1>2, <1>3 DEF BackstopSilent, FloorHolds

(* A transaction row is written together with its key's row, which no later
   session can replace. *)
LEMMA WrittenStep ==
    ASSUME IndInv, NEW r \in Requests, Shape(r)
    PROVE  WrittenIsStored'
<1>1. \A t \in transactions : t.id \in Requests
  BY DEF IndInv, TypeOK, TransactionRows
<1>2. \A t \in transactions : pc'[t.id] = "done"
  <2>1. pc[r] = "done" => pc'[r] = "done"
    BY Moves
  <2> QED BY <1>1, <2>1, Frame DEF IndInv, WrittenIsStored
<1>3. \A s \in Requests : TransactionRow(s)' = TransactionRow(s)
                        /\ StoredResponse(s)' = StoredResponse(s)
  BY Frame DEF TransactionRow, StoredResponse
<1>4. CASE UNCHANGED tables
  BY <1>1, <1>2, <1>3, <1>4, Frame DEF tables, IndInv, WrittenIsStored
<1>5. CASE /\ pc[r] = "commit" /\ pc'[r] = "done"
           /\ transactions' = transactions \cup {TransactionRow(r)}
           /\ keys' = [keys EXCEPT ![req[r].key] = StoredResponse(r)]
  <2>1. keys[req[r].key] = NoRow
    BY <1>5 DEF IndInv, KeysUnclaimed, OwningKey
  <2>2. \A t \in transactions : StoredResponse(t.id) # NoRow
    <3>1. \A s \in Requests : Hash(s) \in Hashes
      BY ConstantsAssumption DEF IndInv, TypeOK, Hash
    <3>2. \A s \in Requests : StoredResponse(s) \in KeyRows
      BY <3>1 DEF StoredResponse, KeyRows
    <3> QED BY <1>1, <3>2, NoRowAssumption
  <2>3. \A t \in transactions : req[t.id].key \in Keys /\ req[t.id].key # req[r].key
    BY <2>1, <2>2 DEF IndInv, WrittenIsStored
  <2>4. TransactionRow(r).id = r /\ req[r].key \in Keys
    BY <1>5, PublishedRows DEF TransactionRow
  <2>5. ASSUME NEW t \in transactions
        PROVE  /\ req'[t.id].key \in Keys
               /\ keys'[req'[t.id].key] = StoredResponse(t.id)'
               /\ t = TransactionRow(t.id)'
    BY <1>1, <1>3, <1>5, <2>3, Frame DEF IndInv, WrittenIsStored, TypeOK
  <2>6. /\ req'[r].key \in Keys
        /\ keys'[req'[r].key] = StoredResponse(r)'
        /\ TransactionRow(r) = TransactionRow(r)'
    BY <1>3, <1>5, <2>4, Frame DEF IndInv, TypeOK
  <2> QED BY <1>2, <1>5, <2>4, <2>5, <2>6 DEF WrittenIsStored
<1> QED BY <1>4, <1>5, TablesStep

-----------------------------------------------------------------------------
(* The empty ledger satisfies the invariant. *)
LEMMA InitHolds == Init => IndInv
<1> SUFFICES ASSUME Init PROVE IndInv
  OBVIOUS
<1> USE DEF Init
<1>1. TypeOK
  BY ConstantsAssumption DEF TypeOK, Steps, Replies, NoReply
<1>2. Admitted /\ KeysExclusive /\ KeysUnclaimed /\ KeysStored
  BY DEF Admitted, KeysExclusive, KeysUnclaimed, KeysStored, InTx, OwningKey
<1>3. RefsExclusive /\ RefsUnused /\ RefUsedOnce /\ WrittenIsStored
  BY DEF RefsExclusive, RefsUnused, RefUsedOnce, WrittenIsStored, OwningRef
<1>4. RowsExclusive /\ RowsInOrder /\ SeenIsCurrent
  BY DEF RowsExclusive, RowsInOrder, SeenIsCurrent
<1>5. BackstopSilent
  BY DEF BackstopSilent, FloorHolds, NoReply
<1> QED BY <1>1, <1>2, <1>3, <1>4, <1>5 DEF IndInv

(* A new account has no lock, no balance and no history. *)
LEMMA CreatePreserves ==
    ASSUME IndInv, NEW a \in AccountIds, CreateAccount(a)
    PROVE  IndInv'
<1>1. /\ created' = created \cup {a} /\ a \notin created
      /\ balance' = [balance EXCEPT ![a] = 0]
      /\ UNCHANGED <<transactions, entries, events, keys, req, sessions, reply, lost>>
  BY DEF CreateAccount
<1>2. \A r \in Requests : /\ Precheck(r)' = Precheck(r) /\ Cmd(r)' = Cmd(r)
                          /\ Ids(r)' = Ids(r) /\ Hash(r)' = Hash(r)
                          /\ Covered(r)' = Covered(r) /\ RefTaken(r)' = RefTaken(r)
                          /\ TransactionRow(r)' = TransactionRow(r)
                          /\ StoredResponse(r)' = StoredResponse(r)
  BY <1>1 DEF Precheck, Cmd, Ids, Hash, Covered, RefTaken, TransactionRow, StoredResponse,
              sessions
<1>3. TypeOK'
  BY <1>1 DEF IndInv, TypeOK, sessions
<1>4. Admitted' /\ KeysExclusive' /\ KeysUnclaimed' /\ KeysStored'
  BY <1>1, <1>2 DEF IndInv, Admitted, KeysExclusive, KeysUnclaimed, KeysStored, sessions
<1>5. RefsExclusive' /\ RefsUnused' /\ RefUsedOnce'
  BY <1>1, <1>2 DEF IndInv, RefsExclusive, RefsUnused, RefUsedOnce, sessions
<1>6. RowsExclusive' /\ RowsInOrder'
  BY <1>1, <1>2 DEF IndInv, RowsExclusive, RowsInOrder, sessions
<1>7. SeenIsCurrent'
  <2>1. \A r \in Requests : a \notin held[r]
    BY <1>1 DEF IndInv, RowsInOrder
  <2>2. \A b \in AccountIds : b # a => balance'[b] = balance[b]
    BY <1>1 DEF IndInv, TypeOK
  <2>3. \A r \in Requests : held[r] \subseteq AccountIds
    BY DEF IndInv, TypeOK
  <2> QED BY <1>1, <1>2, <2>1, <2>2, <2>3 DEF IndInv, SeenIsCurrent, sessions
<1>8. BackstopSilent'
  BY <1>1 DEF IndInv, TypeOK, BackstopSilent, FloorHolds
<1>9. WrittenIsStored'
  <2>1. \A t \in transactions : t.id \in Requests
    BY DEF IndInv, TypeOK, TransactionRows
  <2> QED BY <1>1, <1>2, <2>1 DEF IndInv, WrittenIsStored, sessions
<1> QED BY <1>3, <1>4, <1>5, <1>6, <1>7, <1>8, <1>9 DEF IndInv

(* Nothing in the invariant depends on anything but the variables. *)
LEMMA StutterPreserves ==
    ASSUME IndInv, UNCHANGED vars
    PROVE  IndInv'
  BY DEF vars, tables, sessions, IndInv, TypeOK, Admitted, KeysExclusive, KeysUnclaimed,
         KeysStored, RefsExclusive, RefsUnused, RowsExclusive, RowsInOrder, SeenIsCurrent,
         BackstopSilent, WrittenIsStored, RefUsedOnce, Precheck, Cmd, Ids, Hash, Covered,
         RefTaken, TransactionRow, StoredResponse

(* Every step preserves the invariant. *)
LEMMA NextPreserves == IndInv /\ [Next]_vars => IndInv'
<1> SUFFICES ASSUME IndInv, [Next]_vars PROVE IndInv'
  OBVIOUS
<1>1. ASSUME NEW r \in Requests, Shape(r) PROVE IndInv'
  BY <1>1, TypeStep, AdmittedStep, KeysStep, RefsStep, RowsStep, SeenStep,
     BackstopStep, WrittenStep DEF IndInv
<1> QED BY <1>1, NextShape, CreatePreserves, StutterPreserves

(* The invariant holds in every reachable state of the ledger store. *)
THEOREM Invariance == Spec => []IndInv
  BY InitHolds, NextPreserves, PTL DEF Spec

(* Type correctness. *)
THEOREM TypeCorrect == Spec => []TypeOK
<1>1. IndInv => TypeOK
  BY DEF IndInv
<1> QED BY <1>1, Invariance, PTL

(* Under one Idempotency-Key at most one request ever moves money: two rows
   would both be the transaction their key replays. *)
THEOREM OncePerKey == Spec => []ExactlyOncePerKey
<1>1. IndInv => ExactlyOncePerKey
  <2> SUFFICES ASSUME IndInv, NEW r \in Requests, NEW s \in Requests,
                      Wrote(r), Wrote(s), req[r].key = req[s].key
               PROVE  r = s
    BY DEF ExactlyOncePerKey
  <2>1. keys[req[r].key] = StoredResponse(r) /\ keys[req[s].key] = StoredResponse(s)
    BY DEF IndInv, WrittenIsStored, Wrote
  <2>2. StoredResponse(r).response = r /\ StoredResponse(s).response = s
    BY DEF StoredResponse
  <2> QED BY <2>1, <2>2
<1> QED BY <1>1, Invariance, PTL

(* The database's balance floor is never what stops a transfer, and no
   account that may not be negative ever is. *)
THEOREM FundsSafe == Spec => []BackstopSilent
<1>1. IndInv => BackstopSilent
  BY DEF IndInv
<1> QED BY <1>1, Invariance, PTL

(* An external reference is used at most once. *)
THEOREM ReferencesUnique == Spec => []RefUsedOnce
<1>1. IndInv => RefUsedOnce
  BY DEF IndInv
<1> QED BY <1>1, Invariance, PTL

(* Transfers take their locks in one global order, so they cannot wait for
   each other in a circle: whoever is waited for wants something later. *)
THEOREM LocksOrdered == Spec => []WaitsAscend
<1>1. ASSUME IndInv, NEW r \in Requests, NEW s \in Requests, WaitsFor(r, s)
      PROVE  /\ pc[r] # "apply"
             /\ (\E q \in Requests : WaitsFor(s, q)) => Before(r, s)
  <2>1. pc[r] # "apply"
    <3> SUFFICES ASSUME pc[r] = "apply" PROVE FALSE
      OBVIOUS
    <3>1. r # s /\ Ids(r) \cap held[s] # {}
      BY <1>1 DEF WaitsFor
    <3> QED BY <1>1, <3>1 DEF IndInv, RowsExclusive, RowsInOrder
  <2>2. ASSUME NEW q \in Requests, WaitsFor(s, q) PROVE Before(r, s)
    <3>1. pc[s] \in {"claim", "lock", "insert", "apply"}
      BY <2>2 DEF WaitsFor
    <3>2. CASE pc[r] = "claim" /\ HoldsKey(s, req[r].key)
      BY <3>2 DEF HoldsKey, OwningKey, Before
    <3>3. CASE pc[r] = "lock" /\ \E a \in held[s] : LocksNext(r, a)
      <4>1. PICK a \in held[s] : LocksNext(r, a)
        BY <3>3
      <4>2. pc[s] # "claim"
        BY <4>1, <1>1 DEF IndInv, RowsInOrder
      <4>3. CASE pc[s] = "lock"
        <5>1. \A b \in AccountIds : LocksNext(s, b) => a < b
          BY <4>1, <4>3, <1>1 DEF IndInv, RowsInOrder, LocksNext
        <5>2. \A c \in AccountIds : LocksNext(r, c) => c = a
          <6>1. a \in Int /\ AccountIds \subseteq Int
            BY <4>1, <1>1, ConstantsAssumption DEF IndInv, TypeOK
          <6>2. ASSUME NEW c \in AccountIds, LocksNext(r, c) PROVE c = a
            <7>1. c <= a /\ a <= c
              BY <4>1, <6>2 DEF LocksNext
            <7> QED BY <6>1, <7>1
          <6> QED BY <6>2
        <5> QED BY <3>3, <4>3, <5>1, <5>2 DEF Before
      <4> QED BY <3>1, <3>3, <4>2, <4>3 DEF Before
    <3>4. CASE pc[r] = "insert" /\ HoldsRef(s, Cmd(r).ref)
      BY <3>1, <3>4 DEF HoldsRef, OwningRef, Before
    <3> QED BY <1>1, <2>1, <3>2, <3>3, <3>4 DEF WaitsFor
  <2> QED BY <2>1, <2>2
<1>2. IndInv => WaitsAscend
  BY <1>1 DEF WaitsAscend
<1> QED BY <1>2, Invariance, PTL
=============================================================================
