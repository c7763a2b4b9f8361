---------------------------- MODULE ProcessProofs ----------------------------
(***************************************************************************)
(* Proofs about Process, for every number of events, replay requests,      *)
(* connections, faults and stops: ProcessInv is inductive, and the process *)
(* never exits inside a transaction of its own nor, with nil, before its   *)
(* requests are answered.                                                  *)
(***************************************************************************)
EXTENDS Process, OutboxProofs, FiniteSetTheorems

(* The relay of the process is a worker and no request. *)
LEMMA ApiWorks == Api \in Workers /\ Api \notin Replayers /\ Api \in Relays
  BY OutboxAssumption, ProcessAssumption DEF Workers

(* Whoever takes a step that is not the ticker's was in flight, and moves
   alone. *)
LEMMA WorkerMoves ==
    ASSUME TypeOK, NEW w \in Workers, Work(w) \/ Fails(w)
    PROVE  /\ \A x \in Workers \ {w} : pc'[x] = pc[x]
           /\ w \in Replayers => InFlight(w)
<1>1. \E p : pc' = [pc EXCEPT ![w] = p]
  <2>1. CASE ScanRow(w) \/ SessionLost(w)
    <3>1. pc' = pc
      BY <2>1 DEF ScanRow, SessionLost
    <3>2. pc' = [pc EXCEPT ![w] = pc[w]]
      BY <3>1 DEF TypeOK
    <3> QED BY <3>2
  <2> QED BY <2>1 DEF Work, Fails, Tick, StartBatch, EndScan, SelectForReplay, Publish,
        SettleAttempt, SettleFails, Commit, StatementFails, CommitUnacknowledged, Rollback, Goto
<1>2. w \in Replayers => InFlight(w)
  BY OutboxAssumption DEF Work, Fails, Tick, StartBatch, ScanRow, EndScan, SelectForReplay, Publish,
        SettleAttempt, SettleFails, Commit, StatementFails, CommitUnacknowledged, SessionLost, InFlight
<1> QED BY <1>1, <1>2 DEF TypeOK

(* The process is gone, and the sessions with it. *)
LEMMA EndAllStep ==
    ASSUME ProcessInv, EndAll
    PROVE  /\ OutboxInv'
           /\ \A w \in Workers : pc'[w] \in {"idle", "done"}
<1>1. OutboxInv /\ TypeOK
  BY DEF ProcessInv, OutboxInv
<1>2. /\ pc' = [w \in Workers |-> IF InFlight(w) THEN Returns(w) ELSE pc[w]]
      /\ scan' = [w \in Workers |-> {}] /\ batch' = [w \in Workers |-> <<>>]
      /\ settled' = [w \in Workers |-> {}] /\ locked' = [w \in Workers |-> {}] /\ lost' = {}
      /\ UNCHANGED <<tables, accepted, result, view, faults>>
  BY DEF EndAll
<1>3. \A w \in Workers : pc'[w] \in {"idle", "done"}
  BY <1>2 DEF InFlight, Returns
<1>4. \A w \in Workers : SessionOK(w)'
  BY <1>2, <1>3, EmptySession
<1>5. TypeOK'
  <2>1. pc' \in [Workers -> Steps]
    BY <1>2, <1>3 DEF Steps
  <2>2. /\ scan' \in [Workers -> SUBSET Events] /\ locked' \in [Workers -> SUBSET Events]
        /\ batch' \in [Workers -> Seq([id : Events, attempts : Nat])]
        /\ settled' \in [Workers -> SUBSET [id : Events, attempts : Nat, ok : BOOLEAN]]
        /\ lost' \subseteq Workers
    BY <1>2
  <2> QED BY <1>1, <1>2, <2>1, <2>2 DEF TypeOK, tables
<1>6. RowsExclusive'
  BY <1>2 DEF RowsExclusive
<1>7. NothingLost' /\ HistoryExplainsStatus' /\ HistoryNeedsEvent' /\ ViewsBehind'
  BY <1>1, <1>2 DEF OutboxInv, NothingLost, HistoryExplainsStatus, HistoryNeedsEvent, ViewsBehind, tables
<1> QED BY <1>3, <1>4, <1>5, <1>6, <1>7 DEF OutboxInv

(* A cancelled statement of the relay is a rollback, or a COMMIT whose answer
   did not arrive. *)
LEMMA CancelledStep ==
    ASSUME ProcessInv, CancelledStatement
    PROVE  OutboxInv' /\ pc' = [pc EXCEPT ![Api] = "idle"]
<1>1. OutboxInv /\ Api \in Workers /\ Api \in Relays /\ Api \notin Replayers
  BY ApiWorks DEF ProcessInv
<1>2. faults' = faults /\ faults' \in 0..MaxFaults
  BY <1>1 DEF CancelledStatement, OutboxInv, TypeOK
<1>3. CASE Rollback(Api)
  BY <1>1, <1>2, <1>3, RollbackStep DEF Rollback, Goto, Returns
<1>4. CASE /\ Api \notin lost /\ Record(Api) /\ Goto(Api, "idle") /\ EndSession(Api)
           /\ UNCHANGED <<accepted, result, view>>
  BY <1>1, <1>2, <1>4, RecordStep DEF Goto
<1> QED BY <1>3, <1>4 DEF CancelledStatement

(* What each step does to the outbox, to where its worker is and to the pool. *)
LEMMA ProcessMoves ==
    ASSUME ProcessInv, [ProcessNext]_world
    PROVE  /\ OutboxInv'
           /\ \/ pc' = pc /\ conn' = conn
              \/ EndAll
              \/ \E w \in Workers : pc' = pc /\ conn' = conn \cup {w} /\ PoolHasRoom
              \/ \E w \in Replayers : Accepting /\ UNCHANGED process
                    /\ pc' = [pc EXCEPT ![w] = "select"]
              \/ \E w \in Workers :
                    /\ w \in Replayers => InFlight(w)
                    /\ \A x \in Workers \ {w} : pc'[x] = pc[x]
                    /\ UNCHANGED <<main, returns>>
                    /\ \/ w \in conn /\ conn' = Released(w)
                       \/ conn' = conn /\ pc'[w] \in {"idle", "begin", "done"}
                       \/ conn' = conn /\ pc[w] = "publish"
                       \/ conn' = conn \ {w} /\ pc'[w] = "idle"
<1>1. OutboxInv /\ TypeOK
  BY DEF ProcessInv, OutboxInv
<1>2. CASE UNCHANGED vars /\ conn' = conn
  BY <1>1, <1>2, OutboxStutter DEF vars, session
<1>3. CASE Exit \/ Kill
  BY <1>3, EndAllStep DEF Exit, Kill
<1>4. ASSUME NEW w \in Workers, Acquire(w) PROVE OutboxInv' /\ pc' = pc /\ conn' = conn \cup {w} /\ PoolHasRoom
  BY <1>1, <1>4, OutboxStutter DEF Acquire, vars, session
<1>5. ASSUME NEW w \in Workers, AcquireFails(w) \/ GivesUp(w)
      PROVE  /\ OutboxInv' /\ conn' = conn /\ pc'[w] \in {"idle", "done"} /\ UNCHANGED <<main, returns>>
             /\ InFlight(w) /\ \A x \in Workers \ {w} : pc'[x] = pc[x]
  <2>1. Rollback(w) /\ faults' \in 0..MaxFaults /\ UNCHANGED <<conn, main, returns>>
    BY <1>1, <1>5 DEF AcquireFails, GivesUp, TypeOK, process
  <2>2. InFlight(w)
    BY <1>5 DEF AcquireFails, GivesUp, Waiting, InFlight
  <2>3. pc' = [pc EXCEPT ![w] = Returns(w)]
    BY <2>1 DEF Rollback, Goto
  <2> QED BY <1>1, <2>1, <2>2, <2>3, RollbackStep DEF Returns, TypeOK
<1>6. ASSUME NEW w \in Workers, Statement(w) \/ FailsHere(w)
      PROVE  /\ OutboxInv' /\ w \in conn /\ conn' = Released(w) /\ UNCHANGED <<main, returns>>
             /\ w \in Replayers => InFlight(w)
             /\ \A x \in Workers \ {w} : pc'[x] = pc[x]
  <2>1. Work(w) \/ Fails(w)
    BY <1>6 DEF Statement, FailsHere, Work
  <2> QED BY <1>1, <1>6, <2>1, WorkStep, FailsStep, WorkerMoves DEF Statement, FailsHere
<1>7. ASSUME NEW w \in Workers, PublishHere(w)
      PROVE  /\ OutboxInv' /\ conn' = conn /\ pc[w] = "publish" /\ UNCHANGED <<main, returns>>
             /\ w \in Replayers => InFlight(w)
             /\ \A x \in Workers \ {w} : pc'[x] = pc[x]
  <2>1. Publish(w) /\ UNCHANGED <<conn, main, returns>> /\ pc[w] = "publish"
    BY <1>7 DEF PublishHere, process, Publish
  <2>2. Work(w)
    BY <2>1 DEF Work
  <2> QED BY <1>1, <2>1, <2>2, WorkStep, WorkerMoves
<1>8. ASSUME TickHere
      PROVE  /\ OutboxInv' /\ conn' = conn /\ pc'[Api] = "begin" /\ UNCHANGED <<main, returns>>
             /\ Api \in Workers /\ Api \notin Replayers
             /\ \A x \in Workers \ {Api} : pc'[x] = pc[x]
  BY <1>1, <1>8, ApiWorks, TickStep DEF TickHere, Tick, Goto, process, TypeOK
<1>9. ASSUME CancelledStatement
      PROVE  /\ OutboxInv' /\ conn' = conn \ {Api} /\ pc'[Api] = "idle" /\ UNCHANGED <<main, returns>>
             /\ Api \in Workers /\ Api \notin Replayers
             /\ \A x \in Workers \ {Api} : pc'[x] = pc[x]
  BY <1>1, <1>9, ApiWorks, CancelledStep DEF CancelledStatement, TypeOK
<1>10. ASSUME NEW w \in Replayers, NEW e \in Events, Request(w, e)
       PROVE  OutboxInv' /\ Accepting /\ UNCHANGED process /\ pc' = [pc EXCEPT ![w] = "select"]
  BY <1>1, <1>10, ReplayStep DEF Request, Replay, Goto, Workers
<1>11. ASSUME NEW e \in Events, Elsewhere(e) PROVE OutboxInv' /\ pc' = pc /\ conn' = conn
  BY <1>1, <1>11, InsertEventStep, BackoffElapsesStep
     DEF Elsewhere, InsertEvent, BackoffElapses, session, process
<1>12. \/ UNCHANGED vars /\ conn' = conn
       \/ Exit \/ Kill
       \/ \E w \in Workers : Acquire(w) \/ GivesUp(w) \/ WorkHere(w) \/ FailsHere(w)
       \/ \E w \in Replayers, e \in Events : Request(w, e)
       \/ \E e \in Events : Elsewhere(e)
  BY DEF ProcessNext, Main, Start, BeginShutdown, Drained, DrainTimesOut, Joined, DeadlinePasses,
         StopRelay, Signal, ListenerFails, world, process
<1> QED BY <1>2, <1>3, <1>4, <1>5, <1>6, <1>7, <1>8, <1>9, <1>10, <1>11, <1>12 DEF WorkHere, Exit, Kill

(* A connection more while there is room, or connections given back. *)
LEMMA PoolBounded ==
    ASSUME ProcessInv, [ProcessNext]_world
    PROVE  (conn \subseteq Workers /\ IsFiniteSet(conn) /\ Cardinality(conn) <= MaxConns)'
<1>1. conn \subseteq Workers /\ IsFiniteSet(conn) /\ Cardinality(conn) <= MaxConns
      /\ MaxConns \in Nat \ {0} /\ Cardinality(conn) \in Nat
  BY ProcessAssumption, FS_CardinalityType DEF ProcessInv, ProcessTypeOK
<1>2. CASE conn' = conn
  BY <1>1, <1>2
<1>3. ASSUME NEW w \in Workers, conn' = conn \cup {w}, PoolHasRoom
      PROVE  (conn \subseteq Workers /\ IsFiniteSet(conn) /\ Cardinality(conn) <= MaxConns)'
  <2>1. /\ IsFiniteSet(conn \cup {w})
        /\ Cardinality(conn \cup {w}) = Cardinality(conn) \/ Cardinality(conn \cup {w}) = Cardinality(conn) + 1
    BY <1>1, FS_AddElement
  <2> QED BY <1>1, <1>3, <2>1 DEF PoolHasRoom
<1>4. ASSUME NEW w, conn' = conn \ {w}
      PROVE  (conn \subseteq Workers /\ IsFiniteSet(conn) /\ Cardinality(conn) <= MaxConns)'
  <2>1. /\ IsFiniteSet(conn \ {w})
        /\ Cardinality(conn \ {w}) = Cardinality(conn) \/ Cardinality(conn \ {w}) = Cardinality(conn) - 1
    BY <1>1, FS_RemoveElement
  <2> QED BY <1>1, <1>4, <2>1
<1>5. CASE EndAll
  <2>1. conn' = {}
    BY <1>5 DEF EndAll
  <2> QED BY <1>1, <2>1, FS_EmptySet
<1> QED BY <1>2, <1>3, <1>4, <1>5, ProcessMoves DEF Released, process

(* What main and the signal may become. *)
LEMMA MainTyped ==
    ASSUME ProcessInv, [ProcessNext]_world
    PROVE  /\ main' \in {"down", "serving", "draining", "joining", "closing"}
           /\ cancelled' \in BOOLEAN /\ racing' \in BOOLEAN
           /\ relayDone' \in BOOLEAN /\ expired' \in BOOLEAN
           /\ returns' \in {"none", "nil", "error", "killed"}
           /\ stops' \in 0..MaxStops
<1> USE DEF ProcessInv, ProcessTypeOK
<1>1. CASE UNCHANGED world
  BY <1>1 DEF world, process
<1>2. CASE Start \/ Main \/ DeadlinePasses \/ StopRelay
  BY <1>2 DEF Start, Main, BeginShutdown, Drained, DrainTimesOut, Joined, Exit, EndAll, DeadlinePasses,
              StopRelay, Returning
<1>3. CASE Signal \/ ListenerFails \/ Kill
  <2>1. stops' \in 0..MaxStops
    BY <1>3, ProcessAssumption DEF Signal, ListenerFails, Kill, Stop
  <2> QED BY <1>3, <2>1 DEF Signal, ListenerFails, Kill, EndAll, Returning
<1>4. ASSUME NEW w \in Workers, Acquire(w) \/ GivesUp(w) \/ WorkHere(w) \/ FailsHere(w)
      PROVE  racing' \in BOOLEAN /\ UNCHANGED <<main, cancelled, relayDone, expired, returns, stops>>
  BY <1>4 DEF Acquire, GivesUp, WorkHere, FailsHere, AcquireFails, Statement, PublishHere, TickHere,
              CancelledStatement, process
<1>5. CASE (\E w \in Replayers, e \in Events : Request(w, e)) \/ (\E e \in Events : Elsewhere(e))
  BY <1>5 DEF Request, Elsewhere, process
<1> QED BY <1>1, <1>2, <1>3, <1>4, <1>5 DEF ProcessNext

(* A worker enters a transaction with its connection and gives it back with
   the end of the transaction. *)
LEMMA ConnectedStep ==
    ASSUME ProcessInv, [ProcessNext]_world
    PROVE  TransactionsConnected'
<1> SUFFICES ASSUME NEW x \in Workers, pc'[x] \in {"scan", "publish", "settle", "commit"}
             PROVE  x \in conn'
  BY DEF TransactionsConnected
<1>1. TransactionsConnected /\ pc \in [Workers -> Steps]
  BY DEF ProcessInv, ProcessTypeOK, TypeOK
<1>2. CASE pc' = pc /\ conn \subseteq conn'
  BY <1>1, <1>2 DEF TransactionsConnected
<1>3. CASE EndAll
  BY <1>3, EndAllStep
<1>4. ASSUME NEW w \in Replayers, pc' = [pc EXCEPT ![w] = "select"], conn' = conn
      PROVE  x \in conn'
  BY <1>1, <1>4 DEF TransactionsConnected, Workers
<1>5. ASSUME NEW w \in Workers, \A y \in Workers \ {w} : pc'[y] = pc[y],
             \/ w \in conn /\ conn' = Released(w)
             \/ conn' = conn /\ pc'[w] \in {"idle", "begin", "done"}
             \/ conn' = conn /\ pc[w] = "publish"
             \/ conn' = conn \ {w} /\ pc'[w] = "idle"
      PROVE  x \in conn'
  <2>1. CASE x = w
    BY <1>1, <1>5, <2>1 DEF TransactionsConnected, Released
  <2>2. CASE x # w
    <3>1. x \in conn
      BY <1>1, <1>5, <2>2 DEF TransactionsConnected
    <3> QED BY <1>5, <2>2, <3>1 DEF Released
  <2> QED BY <2>1, <2>2
<1> QED BY <1>2, <1>3, <1>4, <1>5, ProcessMoves DEF process

(* After a clean shutdown no request is in flight, and none is accepted. *)
LEMMA AnsweredStep ==
    ASSUME ProcessInv, [ProcessNext]_world
    PROVE  NilMeansAnswered'
<1> SUFFICES ASSUME main' = "joining" \/ (main' = "closing" /\ returns' = "nil"), NEW x \in Replayers
             PROVE  pc'[x] \in {"idle", "done"}
  BY DEF NilMeansAnswered, RequestsDone, InFlight
<1>1. x \in Workers /\ NilMeansAnswered
  BY DEF Workers, ProcessInv
<1>2. CASE UNCHANGED <<main, returns>>
  <2>1. pc[x] \in {"idle", "done"} /\ main \in {"joining", "closing"}
    BY <1>1, <1>2 DEF NilMeansAnswered, RequestsDone, InFlight
  <2>2. ~EndAll /\ ~Accepting
    BY <1>2, <2>1 DEF EndAll, Accepting
  <2> QED BY <1>1, <2>1, <2>2, ProcessMoves DEF InFlight
<1>3. CASE Drained \/ Joined
  BY <1>1, <1>3 DEF Drained, Joined, NilMeansAnswered, RequestsDone, InFlight, vars, session
<1>4. CASE Start \/ BeginShutdown \/ DrainTimesOut \/ Exit \/ ListenerFails \/ Kill
  BY <1>4 DEF Start, BeginShutdown, DrainTimesOut, Exit, ListenerFails, Kill, EndAll, Returning
<1>5. \/ Drained \/ Joined
      \/ Start \/ BeginShutdown \/ DrainTimesOut \/ Exit \/ ListenerFails \/ Kill
      \/ UNCHANGED <<main, returns>>
  BY DEF ProcessNext, Main, DeadlinePasses, StopRelay, Signal, Acquire, GivesUp, WorkHere, FailsHere, AcquireFails,
         Statement, PublishHere, TickHere, CancelledStatement, Request, Elsewhere, world, process
<1> QED BY <1>2, <1>3, <1>4, <1>5

(* ProcessInv holds before the first start. *)
LEMMA ProcessInitOK == ProcessInit => ProcessInv
<1> SUFFICES ASSUME ProcessInit PROVE ProcessInv
  OBVIOUS
<1>1. OutboxInv
  BY OutboxInit DEF ProcessInit
<1>2. IsFiniteSet(conn) /\ Cardinality(conn) = 0 /\ conn = {}
  BY FS_EmptySet DEF ProcessInit
<1>3. ProcessTypeOK
  <2>1. stops \in 0..MaxStops /\ Cardinality(conn) <= MaxConns /\ conn \subseteq Workers
    BY <1>2, ProcessAssumption DEF ProcessInit
  <2> QED BY <1>1, <2>1 DEF ProcessTypeOK, ProcessInit, OutboxInv
<1>4. TransactionsConnected /\ NilMeansAnswered
  BY DEF TransactionsConnected, NilMeansAnswered, ProcessInit, Init
<1> QED BY <1>1, <1>2, <1>3, <1>4 DEF ProcessInv

(* Every step of main, of the relay, of a request and of the pool preserves
   ProcessInv, as does every fault, signal and kill. *)
LEMMA ProcessInductive == ProcessInv /\ [ProcessNext]_world => ProcessInv'
<1> SUFFICES ASSUME ProcessInv, [ProcessNext]_world PROVE ProcessInv'
  OBVIOUS
<1>1. OutboxInv'
  BY ProcessMoves
<1>2. ProcessTypeOK' /\ IsFiniteSet(conn)'
  BY <1>1, PoolBounded, MainTyped DEF ProcessTypeOK, OutboxInv
<1> QED BY <1>1, <1>2, ConnectedStep, AnsweredStep DEF ProcessInv

(* The relay's and the requests' sessions, their connections and the answers
   a clean shutdown promises stay consistent through any sequence of starts,
   signals, failing listeners, deadlines, faults and kills (cmd/api, run). *)
THEOREM ProcessInvariance == ProcessSpec => []ProcessInv
  BY ProcessInitOK, ProcessInductive, PTL DEF ProcessSpec

(* Every variable keeps its type, and the pool never has more than MaxConns
   connections out. *)
THEOREM ProcessTyped == ProcessSpec => []ProcessTypeOK
<1>1. ProcessInv => ProcessTypeOK
  BY DEF ProcessInv
<1> QED BY <1>1, ProcessInvariance, PTL

(* A process that runs to its end was in no transaction: pool.Close waited for
   every connection, whichever of its ways run returned. *)
THEOREM ExitIsBetweenTransactions == ProcessSpec => ExitsBetweenTransactions
<1>1. ASSUME ProcessInv, [ProcessNext]_world
      PROVE  [ Ends /\ returns' # "killed" =>
                \A w \in Workers : locked[w] = {} /\ pc[w] \notin {"publish", "settle", "commit"} ]_world
  <2> SUFFICES ASSUME Ends, returns' # "killed", NEW w \in Workers
               PROVE  locked[w] = {} /\ pc[w] \notin {"publish", "settle", "commit"}
    BY <1>1
  <2>1. conn = {}
    BY <1>1 DEF ProcessNext, Main, Start, BeginShutdown, Drained, DrainTimesOut, Joined, Exit, PoolDrained, Kill,
           DeadlinePasses, StopRelay, Signal, ListenerFails, Returning, Acquire, WorkHere, FailsHere,
           GivesUp, AcquireFails, Statement, PublishHere, TickHere, CancelledStatement, Request, Elsewhere, world,
           process, Ends
  <2>2. pc[w] \in {"idle", "begin", "select", "done"}
    BY <1>1, <2>1 DEF ProcessInv, ProcessTypeOK, TypeOK, Steps, TransactionsConnected
  <2>3. Located(w) /\ LocksWhatItClaimed(w)
    BY <1>1 DEF ProcessInv, OutboxInv, SessionOK
  <2> QED BY <2>2, <2>3 DEF Located, LocksWhatItClaimed, Claimed, Attempted
<1> QED BY <1>1, ProcessInvariance, PTL DEF ProcessSpec, ExitsBetweenTransactions

(* When run returns nil every accepted replay request has been answered. *)
THEOREM CleanExitIsClean == ProcessSpec => CleanExitAnswersAll
<1>1. ASSUME ProcessInv, [ProcessNext]_world
      PROVE  [ Ends /\ returns' = "nil" => \A w \in Replayers : ~InFlight(w) ]_world
  <2> SUFFICES ASSUME Ends, returns' = "nil" PROVE RequestsDone
    BY <1>1 DEF RequestsDone
  <2>1. main = "closing" /\ returns = "nil"
    BY <1>1 DEF ProcessNext, Main, Start, BeginShutdown, Drained, DrainTimesOut, Joined, Exit, Kill,
           DeadlinePasses, StopRelay, Signal, ListenerFails, Returning, Acquire, WorkHere, FailsHere,
           GivesUp, AcquireFails, Statement, PublishHere, TickHere, CancelledStatement, Request, Elsewhere, world,
           process, Ends
  <2> QED BY <1>1, <2>1 DEF ProcessInv, NilMeansAnswered
<1> QED BY <1>1, ProcessInvariance, PTL DEF ProcessSpec, CleanExitAnswersAll
=============================================================================
