------------------------------- MODULE Process -------------------------------
(***************************************************************************)
(* The life of one API process (cmd/api, run): start, the signal context   *)
(* shared by the HTTP server and the in-process relay, srv.Shutdown with   *)
(* its deadline, the wait for the relay, the deferred pool.Close, exit and *)
(* restart.  It composes main with the Outbox: the process runs the relay  *)
(* and serves the replay requests, over one connection pool, while events  *)
(* also arrive from other processes.  Reads hold no transaction and are    *)
(* left to Outbox, as is the competition of several relays.                *)
(***************************************************************************)
EXTENDS Outbox

CONSTANTS
    Api,            \* the relay goroutine of the process
    MaxConns,       \* size of its connection pool (10 in NewPool)
    MaxStops        \* bound: signals, failing listeners and kills

ASSUME ProcessAssumption ==
    /\ Relays = {Api}
    /\ MaxConns \in Nat \ {0} /\ MaxStops \in Nat

VARIABLES
    main,           \* where run() is
    cancelled,      \* ctx of signal.NotifyContext is done
    racing,         \* the relay had a statement in flight when ctx was cancelled
    relayDone,      \* relay.Run has returned
    expired,        \* shutdownCtx is done
    returns,        \* what run() returns, or how the process ended otherwise
    conn,           \* workers that hold a connection of the pool
    stops           \* stops so far

process == <<main, cancelled, racing, relayDone, expired, returns, conn, stops>>
world == <<vars, process>>

ProcessInit ==
    /\ Init
    /\ main = "down"
    /\ cancelled = FALSE /\ racing = FALSE
    /\ relayDone = FALSE /\ expired = FALSE
    /\ returns = "none"
    /\ conn = {}
    /\ stops = 0

-----------------------------------------------------------------------------
(* The main goroutine. *)

(* config.Load, NotifyContext, NewPool, the relay and the server are up.  A
   start that fails (no DATABASE_URL, no database) leaves the process down. *)
Start ==
    /\ main = "down"
    /\ main' = "serving"
    /\ cancelled' = FALSE /\ racing' = FALSE
    /\ relayDone' = FALSE /\ expired' = FALSE
    /\ returns' = "none"
    /\ UNCHANGED <<vars, conn, stops>>

(* main takes ctx.Done and calls srv.Shutdown: no new request from here on. *)
BeginShutdown ==
    /\ main = "serving"
    /\ cancelled
    /\ main' = "draining"
    /\ UNCHANGED <<vars, cancelled, racing, relayDone, expired, returns, conn, stops>>

InFlight(w) == pc[w] \notin {"idle", "done"}

(* Only the requests that are at the database are waited for. *)
RequestsDone_Mutant == Replayers \cap conn = {}

(* What srv.Shutdown waits for. *)
RequestsDone == \A w \in Replayers : ~InFlight(w)

Drained ==
    /\ main = "draining"
    /\ RequestsDone
    /\ main' = "joining"
    /\ UNCHANGED <<vars, cancelled, racing, relayDone, expired, returns, conn, stops>>

(* shutdownCtx is the one deadline of Shutdown and of the wait for the relay. *)
DeadlinePasses ==
    /\ main \in {"draining", "joining"}
    /\ ~expired
    /\ expired' = TRUE
    /\ UNCHANGED <<vars, main, cancelled, racing, relayDone, returns, conn, stops>>

Returning(what) == main' = "closing" /\ returns' = what

(* Shutdown gives up: run returns its error without looking at the relay. *)
DrainTimesOut ==
    /\ main = "draining"
    /\ expired
    /\ Returning("error")
    /\ UNCHANGED <<vars, cancelled, racing, relayDone, expired, conn, stops>>

Joined ==
    /\ main = "joining"
    /\ relayDone \/ expired
    /\ Returning("nil")
    /\ UNCHANGED <<vars, cancelled, racing, relayDone, expired, conn, stops>>

(* pool.Close does not wait. *)
PoolDrained_Mutant == TRUE

(* The deferred pool.Close refuses new acquires and waits for the connections
   that are out. *)
PoolDrained == conn = {}

PoolOpen == main \notin {"closing", "down"}

(* The goroutines of the process are gone, and PostgreSQL rolls back what
   their sessions had open. *)
EndAll ==
    /\ pc' = [w \in Workers |-> IF InFlight(w) THEN Returns(w) ELSE pc[w]]
    /\ scan' = [w \in Workers |-> {}]
    /\ batch' = [w \in Workers |-> <<>>]
    /\ settled' = [w \in Workers |-> {}]
    /\ locked' = [w \in Workers |-> {}]
    /\ lost' = {}
    /\ conn' = {}
    /\ main' = "down"
    /\ UNCHANGED <<tables, accepted, result, view, faults>>

Exit ==
    /\ main = "closing"
    /\ PoolDrained
    /\ EndAll
    /\ UNCHANGED <<cancelled, racing, relayDone, expired, returns, stops>>

-----------------------------------------------------------------------------
(* What happens to the process. *)

Stop == stops < MaxStops /\ stops' = stops + 1

Executing == {"begin", "scan", "settle", "commit"}

(* SIGINT or SIGTERM. *)
Signal ==
    /\ main # "down"
    /\ ~cancelled
    /\ Stop
    /\ cancelled' = TRUE
    /\ racing' = (Api \in conn /\ pc[Api] \in Executing)
    /\ UNCHANGED <<vars, main, relayDone, expired, returns, conn>>

(* ListenAndServe fails: run returns with ctx still alive. *)
ListenerFails ==
    /\ main = "serving"
    /\ Stop
    /\ Returning("error")
    /\ UNCHANGED <<vars, cancelled, racing, relayDone, expired, conn>>

(* SIGKILL or a crash; a COMMIT the server already had is a fault before it. *)
Kill ==
    /\ main # "down"
    /\ Stop
    /\ EndAll
    /\ returns' = "killed"
    /\ UNCHANGED <<cancelled, racing, relayDone, expired>>

-----------------------------------------------------------------------------
(* The relay and the requests of the process. *)

(* A listener that fails leaves the connections it has accepted alone: nobody
   calls srv.Shutdown, and they may bring requests until the process exits. *)
Accepting == main = "serving" \/ (main = "closing" /\ returns = "error" /\ ~expired)

Request(w, e) ==
    /\ Accepting
    /\ Replay(w, e)
    /\ UNCHANGED process

(* The ticker; after the cancellation select may still choose it. *)
TickHere ==
    /\ main # "down"
    /\ ~relayDone
    /\ Tick(Api)
    /\ UNCHANGED process

(* Run takes ctx.Done and returns. *)
StopRelay ==
    /\ main # "down"
    /\ cancelled /\ ~relayDone
    /\ pc[Api] = "idle"
    /\ relayDone' = TRUE
    /\ UNCHANGED <<vars, main, cancelled, racing, expired, returns, conn, stops>>

Waiting(w) == w \in Workers \ conn /\ pc[w] \in {"begin", "select"}

CtxDone(w) == w = Api /\ cancelled

(* Off by one. *)
PoolHasRoom_Mutant == Cardinality(conn) <= MaxConns

PoolHasRoom == Cardinality(conn) < MaxConns

(* pool.Begin: a connection, or a place in the pool's queue. *)
Acquire(w) ==
    /\ Waiting(w)
    /\ PoolOpen /\ ~CtxDone(w)
    /\ PoolHasRoom
    /\ conn' = conn \cup {w}
    /\ UNCHANGED <<vars, main, cancelled, racing, relayDone, expired, returns, stops>>

AcquireFails(w) ==
    /\ Waiting(w)
    /\ ~PoolOpen \/ CtxDone(w)
    /\ Rollback(w)
    /\ UNCHANGED <<faults, process>>

(* A request that queues for a connection runs into its own deadline, or its
   client goes away. *)
GivesUp(w) ==
    /\ w \in Replayers
    /\ Waiting(w)
    /\ Rollback(w)
    /\ UNCHANGED <<faults, process>>

(* The connection is not given back when the call ends in an error. *)
Released_Mutant(w) == IF pc'[w] = "begin" THEN conn \ {w} ELSE conn

(* The connection goes back to the pool with the end of the transaction. *)
Released(w) == IF pc'[w] \in {"idle", "begin", "done"} THEN conn \ {w} ELSE conn

(* A statement succeeds.  The context of the relay is the one that the signal
   cancels: afterwards only a statement already in flight can succeed. *)
Statement(w) ==
    /\ w \in conn
    /\ CtxDone(w) => racing
    /\ \/ StartBatch(w) \/ ScanRow(w) \/ EndScan(w) \/ SelectForReplay(w)
       \/ SettleAttempt(w) \/ SettleFails(w) \/ Commit(w)
    /\ conn' = Released(w)
    /\ racing' = (racing /\ (w = Api => pc'[w] = "scan"))
    /\ UNCHANGED <<main, cancelled, relayDone, expired, returns, stops>>

(* Publish is no statement: the LogPublisher pays no attention to ctx. *)
PublishHere(w) ==
    /\ Publish(w)
    /\ UNCHANGED process

(* A statement of the relay finds ctx cancelled: the batch is rolled back, or
   its COMMIT had arrived. *)
CancelledStatement ==
    /\ Api \in conn /\ cancelled
    /\ pc[Api] \in Executing
    /\ \/ Rollback(Api)
       \/ /\ racing /\ pc[Api] = "commit" /\ Api \notin lost
          /\ Record(Api)
          /\ Goto(Api, "idle")
          /\ EndSession(Api)
          /\ UNCHANGED <<accepted, result, view>>
    /\ conn' = conn \ {Api}
    /\ racing' = FALSE
    /\ UNCHANGED <<faults, main, cancelled, relayDone, expired, returns, stops>>

(* Run returns when a batch fails. *)
FailsHere_Mutant(w) ==
    /\ w \in conn
    /\ Fails(w)
    /\ conn' = Released(w)
    /\ relayDone' = (relayDone \/ (w = Api /\ pc'[w] = "idle"))
    /\ UNCHANGED <<main, cancelled, racing, expired, returns, stops>>

(* A batch or a replay fails; Run goes on with the next tick. *)
FailsHere(w) ==
    /\ w \in conn
    /\ Fails(w)
    /\ conn' = Released(w)
    /\ UNCHANGED <<main, cancelled, racing, relayDone, expired, returns, stops>>

-----------------------------------------------------------------------------
Main == BeginShutdown \/ Drained \/ DrainTimesOut \/ Joined \/ Exit

WorkHere(w) ==
    \/ AcquireFails(w) \/ Statement(w) \/ PublishHere(w)
    \/ w = Api /\ (TickHere \/ CancelledStatement)

(* Transfers commit, here or in other processes, and backoffs run out. *)
Elsewhere(e) == (InsertEvent(e) \/ BackoffElapses(e)) /\ UNCHANGED process

ProcessNext ==
    \/ Start \/ Main \/ DeadlinePasses \/ StopRelay
    \/ Signal \/ ListenerFails \/ Kill
    \/ \E w \in Workers : Acquire(w) \/ GivesUp(w) \/ WorkHere(w) \/ FailsHere(w)
    \/ \E w \in Replayers, e \in Events : Request(w, e)
    \/ \E e \in Events : Elsewhere(e)

(* Time passes, goroutines run, calls return and a process that is down is
   started again.  The pool serves its waiters in their order, and a select
   that keeps finding ctx.Done ready takes it: both need strong fairness.
   Nobody has to stop the process or to give up waiting. *)
ProcessFairness ==
    /\ WF_world(Start) /\ WF_world(Main) /\ WF_world(DeadlinePasses)
    /\ SF_world(StopRelay)
    /\ \A w \in Workers : SF_world(Acquire(w)) /\ WF_world(WorkHere(w))
    /\ \A e \in Events : WF_world(BackoffElapses(e) /\ UNCHANGED process)

ProcessSpec == ProcessInit /\ [][ProcessNext]_world
FairProcessSpec == ProcessSpec /\ ProcessFairness

-----------------------------------------------------------------------------
(* Properties. *)

(* Every variable has its type. *)
ProcessTypeOK ==
    /\ TypeOK
    /\ main \in {"down", "serving", "draining", "joining", "closing"}
    /\ cancelled \in BOOLEAN /\ racing \in BOOLEAN
    /\ relayDone \in BOOLEAN /\ expired \in BOOLEAN
    /\ returns \in {"none", "nil", "error", "killed"}
    /\ conn \subseteq Workers /\ Cardinality(conn) <= MaxConns
    /\ stops \in 0..MaxStops

Ends == main # "down" /\ main' = "down"

(* However run returns - after a drain, at the deadline or because the
   listener failed - the process never exits in the middle of a publish, of a
   settle or of a COMMIT, and PostgreSQL has no transaction of it to clean up:
   pool.Close waits for them, also where run waits for nobody. *)
ExitsBetweenTransactions ==
    [][ Ends /\ returns' # "killed" =>
            \A w \in Workers : locked[w] = {} /\ pc[w] \notin {"publish", "settle", "commit"} ]_world

(* When run returns nil, every request that was accepted before the shutdown
   has been answered ("let in-flight requests finish", cmd/api/main.go). *)
CleanExitAnswersAll ==
    [][ Ends /\ returns' = "nil" => \A w \in Replayers : ~InFlight(w) ]_world

(* A process that is told to stop, or that cannot listen, is down in the end,
   whatever its relay and its requests are in the middle of. *)
StopsInTheEnd == cancelled \/ main = "closing" ~> main = "down"

-----------------------------------------------------------------------------
(* The inductive invariant. *)

(* A worker that is inside a transaction has a connection of the pool. *)
TransactionsConnected ==
    \A w \in Workers : pc[w] \in {"scan", "publish", "settle", "commit"} => w \in conn

(* Once srv.Shutdown has returned nil there is no request, and none comes. *)
NilMeansAnswered == main = "joining" \/ (main = "closing" /\ returns = "nil") => RequestsDone

(* With the sessions of OutboxInv, what makes an exit safe. *)
ProcessInv ==
    /\ OutboxInv
    /\ ProcessTypeOK
    /\ IsFiniteSet(conn)
    /\ TransactionsConnected
    /\ NilMeansAnswered

-----------------------------------------------------------------------------
(* What the documentation says. *)

(* The relay goes back from a batch of which it has published something, and
   none of it is recorded, though nothing failed. *)
Abandons ==
    /\ pc[Api] \in {"settle", "commit"} /\ pc'[Api] = "idle"
    /\ deliveries' = deliveries
    /\ faults' = faults /\ main' # "down"

(* "The relay stops on the same cancelled context; wait for its current batch
   so a shutdown cannot abandon a transaction mid-publish" (cmd/api/main.go):
   as long as run waits, the relay abandons no batch. *)
BatchNotAbandoned ==
    [][ Abandons => main \notin {"draining", "joining"} \/ expired ]_world
=============================================================================
