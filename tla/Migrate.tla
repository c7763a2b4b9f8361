------------------------------- MODULE Migrate -------------------------------
(***************************************************************************)
(* cmd/migrate over postgres.Up, Down and Version: any number of processes *)
(* of different builds migrate one database at the same time, and each may *)
(* die or lose its connection at any statement.                            *)
(*                                                                         *)
(* A build is what LoadMigrations finds in the embedded files: versions,   *)
(* the checksum of each and whether it has a down file.  The SQL of a      *)
(* migration may fail; what it does is reduced to how often its up body is *)
(* in effect in the schema.                                                *)
(*                                                                         *)
(* A definition whose name ends in Mutant is what a plausible bug would    *)
(* make of the definition that follows it; no specification uses it.       *)
(***************************************************************************)
EXTENDS Integers, FiniteSets

CONSTANTS
    Procs,          \* runs of the migrate command
    Builds,         \* builds of the binary
    Versions,       \* migration versions
    Sums, NoSum,    \* checksums of up files, and none
    Files,          \* build -> version -> checksum, NoSum for no such migration
    Reversible,     \* build -> versions with a down file
    DownSteps,      \* the n of "migrate down n"
    MaxFaults,      \* bound: how many processes die or lose their connection
    Nobody          \* the advisory lock is free

ASSUME MigrateAssumption ==
    /\ Versions \subseteq Nat \ {0}
    /\ NoSum \notin Sums
    /\ Files \in [Builds -> [Versions -> Sums \cup {NoSum}]]
    /\ Reversible \in [Builds -> SUBSET Versions]
    /\ DownSteps \subseteq Int
    /\ MaxFaults \in Nat
    /\ Nobody \notin Procs

Commands == [build : Builds, op : {"up", "version"}, n : {0}]
            \cup [build : Builds, op : {"down"}, n : DownSteps]

VARIABLES
    table,          \* does schema_migrations exist?
    applied,        \* schema_migrations: version -> checksum, or NoSum
    schema,         \* how often each migration's up body is in effect
    holder,         \* who has the advisory lock
    cmd,            \* the build and the command line of each process
    pc,
    known,          \* what appliedMigrations returned
    todo,           \* versions the loop has yet to visit
    cur,            \* the version applyOne is at, 0 outside applyOne
    count,          \* migrations applied or rolled back so far
    result,         \* "none", "ok" or "error"
    lost            \* processes that died or whose connection broke

database == <<table, applied, schema>>
vars == <<database, holder, cmd, pc, known, todo, cur, count, result, lost>>

None == [v \in Versions |-> NoSum]

(* What LoadMigrations returns to a process. *)
Migrations(p) == {v \in Versions : Files[cmd[p].build][v] # NoSum}
Checksum(p, v) == Files[cmd[p].build][v]

(* An earlier Up of build b may have migrated the database up to version n. *)
MigratedTo(b, n) == [v \in Versions |-> IF v <= n THEN Files[b][v] ELSE NoSum]

Init ==
    /\ \/ table \in BOOLEAN /\ applied = None
       \/ table = TRUE /\ \E b \in Builds, n \in Versions : applied = MigratedTo(b, n)
    /\ schema = [v \in Versions |-> IF applied[v] = NoSum THEN 0 ELSE 1]
    /\ holder = Nobody
    /\ cmd \in [Procs -> Commands]
    /\ pc = [p \in Procs |-> "start"]
    /\ known = [p \in Procs |-> None]
    /\ todo = [p \in Procs |-> {}]
    /\ cur = [p \in Procs |-> 0]
    /\ count = [p \in Procs |-> 0]
    /\ result = [p \in Procs |-> "none"]
    /\ lost = {}

At(p, step) == pc[p] = step /\ p \notin lost
Goto(p, step) == pc' = [pc EXCEPT ![p] = step]

(* The deferred unlock is missing and the session lives on. *)
Releases_Mutant(p) == UNCHANGED holder

(* The session lets go of the advisory lock. *)
Releases(p) == holder' = IF holder = p THEN Nobody ELSE holder

(* A return, with the deferred Rollback and pg_advisory_unlock. *)
Return(p, res) ==
    /\ result' = [result EXCEPT ![p] = res]
    /\ cur' = [cur EXCEPT ![p] = 0]
    /\ Goto(p, "done")
    /\ Releases(p)

-----------------------------------------------------------------------------
(* Up and Down take the lock; Version does not. *)

(* No lock is taken. *)
AdvisoryLock_Mutant(p) == TRUE

(* pg_advisory_lock waits until nobody has the lock. *)
AdvisoryLock(p) == holder = Nobody

Lock(p) ==
    /\ At(p, "start")
    /\ cmd[p].op # "version"
    /\ AdvisoryLock(p)
    /\ holder' = p
    /\ Goto(p, "ensure")
    /\ UNCHANGED <<database, cmd, known, todo, cur, count, result, lost>>

StartVersion(p) ==
    /\ At(p, "start")
    /\ cmd[p].op = "version"
    /\ Goto(p, "ensure")
    /\ UNCHANGED <<database, holder, cmd, known, todo, cur, count, result, lost>>

(* ensureMigrationTable: CREATE TABLE IF NOT EXISTS looks the name up ... *)
EnsureTable(p) ==
    /\ At(p, "ensure")
    /\ Goto(p, IF table THEN "read" ELSE "create")
    /\ UNCHANGED <<database, holder, cmd, known, todo, cur, count, result, lost>>

(* ... and fails in the catalog when another session created it meanwhile. *)
CreateTable(p) ==
    /\ At(p, "create")
    /\ IF table
       THEN /\ Return(p, "error")
            /\ UNCHANGED table
       ELSE /\ table' = TRUE
            /\ Goto(p, "read")
            /\ UNCHANGED <<holder, cur, result>>
    /\ UNCHANGED <<applied, schema, cmd, known, todo, count, lost>>

(* appliedMigrations *)
ReadApplied(p) ==
    /\ At(p, "read")
    /\ cmd[p].op # "version"
    /\ known' = [known EXCEPT ![p] = applied]
    /\ todo' = [todo EXCEPT ![p] = Migrations(p)]
    /\ Goto(p, "loop")
    /\ UNCHANGED <<database, holder, cmd, cur, count, result, lost>>

(* SELECT MAX(version); the number printed is not kept. *)
Version(p) ==
    /\ At(p, "read")
    /\ cmd[p].op = "version"
    /\ Return(p, "ok")
    /\ UNCHANGED <<database, cmd, known, todo, count, lost>>

-----------------------------------------------------------------------------
(* The loops of Up and Down. *)

Edited(p, v) == known[p][v] # NoSum /\ known[p][v] # Checksum(p, v)

(* Any applied version is passed over, edited or not. *)
UpStops_Mutant(p) == {v \in todo[p] : known[p][v] = NoSum}

(* The versions at which Up's loop does not just continue. *)
UpStops(p) == {v \in todo[p] : known[p][v] = NoSum \/ Edited(p, v)}

(* The versions that Down's loop does not skip, while it has steps left. *)
DownStops(p) == IF count[p] < cmd[p].n THEN {v \in todo[p] : known[p][v] # NoSum} ELSE {}

(* The files are not sorted. *)
NextUp_Mutant(p, v) == v \in UpStops(p)

NextUp(p, v) == v \in UpStops(p) /\ \A u \in UpStops(p) : v <= u

(* Down walks the list from its front. *)
NextDown_Mutant(p, v) == v \in DownStops(p) /\ \A u \in DownStops(p) : v <= u

NextDown(p, v) == v \in DownStops(p) /\ \A u \in DownStops(p) : u <= v

(* applyOne begins, and the loop's index moves past v. *)
Apply(p, v) ==
    /\ cur' = [cur EXCEPT ![p] = v]
    /\ Goto(p, "exec")
    /\ UNCHANGED <<holder, result>>

StepUp(p, v) ==
    /\ At(p, "loop")
    /\ cmd[p].op = "up"
    /\ NextUp(p, v)
    /\ todo' = [todo EXCEPT ![p] = {u \in @ : u > v}]
    /\ IF Edited(p, v) THEN Return(p, "error") ELSE Apply(p, v)
    /\ UNCHANGED <<database, cmd, known, count, lost>>

StepDown(p, v) ==
    /\ At(p, "loop")
    /\ cmd[p].op = "down"
    /\ NextDown(p, v)
    /\ todo' = [todo EXCEPT ![p] = {u \in @ : u < v}]
    /\ IF v \notin Reversible[cmd[p].build] THEN Return(p, "error") ELSE Apply(p, v)
    /\ UNCHANGED <<database, cmd, known, count, lost>>

EndLoop(p) ==
    /\ At(p, "loop")
    /\ IF cmd[p].op = "up" THEN UpStops(p) = {} ELSE DownStops(p) = {}
    /\ Return(p, "ok")
    /\ UNCHANGED <<database, cmd, known, todo, count, lost>>

-----------------------------------------------------------------------------
(* applyOne *)

(* What running the body adds to the schema. *)
Effect(p) == IF cmd[p].op = "up" THEN 1 ELSE -1

(* Nothing the body does is visible before the COMMIT. *)
ExecBody(p) ==
    /\ At(p, "exec")
    /\ \/ Goto(p, "record") /\ UNCHANGED <<holder, cur, result>>
       \/ Return(p, "error")
    /\ UNCHANGED <<database, cmd, known, todo, count, lost>>

(* INSERT fails on the primary key; DELETE of no row is no error. *)
Record(p) ==
    /\ At(p, "record")
    /\ IF cmd[p].op = "up" /\ applied[cur[p]] # NoSum
       THEN Return(p, "error")
       ELSE Goto(p, "commit") /\ UNCHANGED <<holder, cur, result>>
    /\ UNCHANGED <<database, cmd, known, todo, count, lost>>

(* The row the bookkeeping statement leaves. *)
Recorded(p) == IF cmd[p].op = "up" THEN Checksum(p, cur[p]) ELSE NoSum

Publish(p) ==
    /\ applied' = [applied EXCEPT ![cur[p]] = Recorded(p)]
    /\ schema' = [schema EXCEPT ![cur[p]] = @ + Effect(p)]
    /\ UNCHANGED table

Commit(p) ==
    /\ At(p, "commit")
    /\ Publish(p)
    /\ count' = [count EXCEPT ![p] = @ + 1]
    /\ cur' = [cur EXCEPT ![p] = 0]
    /\ Goto(p, "loop")
    /\ UNCHANGED <<holder, cmd, known, todo, result, lost>>

-----------------------------------------------------------------------------
(* The process is killed, its connection breaks or its five minutes are up;
   the server's side of the session, lock included, goes on for a while. *)
Crash(p) ==
    /\ pc[p] # "done"
    /\ p \notin lost
    /\ Cardinality(lost) < MaxFaults
    /\ lost' = lost \cup {p}
    /\ result' = [result EXCEPT ![p] = "error"]
    /\ UNCHANGED <<database, holder, cmd, pc, known, todo, cur, count>>

OrphanAbort(p) ==
    /\ p \in lost
    /\ pc[p] # "done"
    /\ Return(p, "error")
    /\ UNCHANGED <<database, cmd, known, todo, count, lost>>

(* The COMMIT had already been sent. *)
OrphanCommit(p) ==
    /\ p \in lost
    /\ pc[p] = "commit"
    /\ Publish(p)
    /\ Return(p, "error")
    /\ UNCHANGED <<cmd, known, todo, count, lost>>

-----------------------------------------------------------------------------
Step(p) ==
    \/ Lock(p) \/ StartVersion(p) \/ EnsureTable(p) \/ CreateTable(p)
    \/ ReadApplied(p) \/ Version(p)
    \/ (\E v \in Versions : StepUp(p, v) \/ StepDown(p, v)) \/ EndLoop(p)
    \/ ExecBody(p) \/ Record(p) \/ Commit(p)
    \/ OrphanAbort(p) \/ OrphanCommit(p)

(* Every process is over. *)
Finished == (\A p \in Procs : pc[p] = "done") /\ UNCHANGED vars

Next ==
    \/ \E p \in Procs : Step(p) \/ Crash(p)
    \/ Finished

(* A process runs, PostgreSQL grants the free lock and ends the session of a
   client that is gone. *)
Fairness == \A p \in Procs : WF_vars(Step(p))

Spec == Init /\ [][Next]_vars
FairSpec == Spec /\ Fairness

-----------------------------------------------------------------------------
(* Properties. *)

Steps == {"start", "ensure", "create", "read", "loop", "exec", "record", "commit", "done"}

(* Every variable has its type. *)
TypeOK ==
    /\ table \in BOOLEAN
    /\ applied \in [Versions -> Sums \cup {NoSum}]
    /\ schema \in [Versions -> Int]
    /\ holder \in Procs \cup {Nobody}
    /\ cmd \in [Procs -> Commands]
    /\ pc \in [Procs -> Steps]
    /\ known \in [Procs -> [Versions -> Sums \cup {NoSum}]]
    /\ todo \in [Procs -> SUBSET Versions]
    /\ cur \in [Procs -> Versions \cup {0}]
    /\ count \in [Procs -> Nat]
    /\ result \in [Procs -> {"none", "ok", "error"}]
    /\ lost \subseteq Procs

(* The bookkeeping is the schema: a migration is in effect exactly once when
   schema_migrations has its row and not at all when it has none, whoever else
   migrates and wherever a process dies (migrationLockID: two processes
   "cannot apply the same migration twice", nor roll it back twice). *)
RecordsMatchSchema ==
    \A v \in Versions : schema[v] = IF applied[v] = NoSum THEN 0 ELSE 1

(* An Up never puts a migration on top of a gap or of a migration that was
   edited: when it commits one, all lower ones of its build are applied with
   the checksums of its own files. *)
UpBuildsOnItsOwn ==
    [][ \A v \in Versions, p \in Procs :
            applied[v] = NoSum /\ applied'[v] # NoSum /\ cur[p] = v /\ pc[p] = "commit"
                => \A u \in Migrations(p) : u < v => applied[u] = Checksum(p, u) ]_vars

(* When Up says it is done, the database is what its build expects, though
   it read schema_migrations only once, before its first migration. *)
UpLeavesNothingPending ==
    [][ \A p \in Procs :
            cmd[p].op = "up" /\ result[p] = "none" /\ result'[p] = "ok"
                => \A v \in Migrations(p) : applied[v] = Checksum(p, v) ]_vars

(* p commits the removal of v in this step. *)
RollsBack(p, v) ==
    /\ applied[v] # NoSum /\ applied'[v] = NoSum
    /\ pc[p] = "commit" /\ cur[p] = v

(* Of the migrations it knows, Down takes the newest applied one. *)
DownTakesNewestKnown ==
    [][ \A p \in Procs, v \in Versions :
            RollsBack(p, v) => \A u \in Migrations(p) : u > v => applied[u] = NoSum ]_vars

(* Every process comes to an end, whoever dies holding the lock. *)
EveryRunEnds == \A p \in Procs : <>(pc[p] = "done" /\ result[p] # "none")

-----------------------------------------------------------------------------
(* The inductive invariant. *)

InLoop == {"loop", "exec", "record", "commit"}
InApply == {"exec", "record", "commit"}

(* Whoever is past the lock has it, and Version stays out of the loops. *)
Locked ==
    \A p \in Procs :
        /\ pc[p] \notin {"start", "done"} /\ cmd[p].op # "version" => holder = p
        /\ pc[p] \in InLoop => cmd[p].op # "version"

(* What was read about the versions to come is still true, the one in hand
   is missing (Up) or there (Down), and it lies between those that were
   visited and those to come. *)
LoopOf(p) ==
    /\ pc[p] \in InLoop =>
        /\ todo[p] \subseteq Migrations(p)
        /\ \A v \in todo[p] : known[p][v] = applied[v]
    /\ pc[p] \in InApply =>
        /\ cur[p] \in Migrations(p)
        /\ cmd[p].op = "up" => applied[cur[p]] = NoSum /\ \A u \in todo[p] : cur[p] < u
        /\ cmd[p].op = "down" => applied[cur[p]] # NoSum /\ \A u \in todo[p] : u < cur[p]
    /\ pc[p] \notin InApply => cur[p] = 0

LoopState == \A p \in Procs : LoopOf(p)

(* What the loop has visited is as it should be. *)
VisitedOf(p) ==
    pc[p] \in InLoop =>
        \A u \in Migrations(p) \ todo[p] : u # cur[p] =>
            /\ cmd[p].op = "up" => applied[u] = Checksum(p, u)
            /\ cmd[p].op = "down" => applied[u] = NoSum

Visited == \A p \in Procs : VisitedOf(p)

(* Exclusive, current, and consistent: the state between two statements of
   Up and Down. *)
MigrateInv == TypeOK /\ Locked /\ LoopState /\ Visited /\ RecordsMatchSchema
=============================================================================
